CONSTANTS
  Resources = {r1}
  Workers = {w1, w2}
  MaxVersion = 2
  MaxRevision = 1
  Nobody = Nobody
SPECIFICATION FairSpec
CONSTRAINT Within
PROPERTIES
  ScansNeverGoBack
  CredentialIsCurrent
  Refreshed
