CONSTANTS
  Ops = {o1}
  Resources = {r1}
  Users = {alice, bob}
  Keys = {k1}
  Workers = {w1, w2}
  Actions = {"delete"}
  Exceptions = {FALSE}
  Changes = {"authority", "inventory", "ownership", "policy"}
  MaxRevision = 0
  Nobody = Nobody
  NoOp = NoOp
  NoResource = NoResource
SPECIFICATION FairSpec
PROPERTIES
  CurrentRulesGovern
  Decided
CHECK_DEADLOCK FALSE
