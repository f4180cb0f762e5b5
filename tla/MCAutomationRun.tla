-------------------------- MODULE MCAutomationRun ---------------------------
(* AutomationRun for TLC: either docker does what it is asked while two     *)
(* replicas and two jobs race, or it does not, for the one job of the one   *)
(* replica of a quiet catalog.                                              *)
EXTENDS AutomationRun

Steady ==
  /\ \A v \in Versions : version[v].status \in {"absent", "published"}
  /\ permitted = Publishers

Smooth ==
  /\ connection.revision = 0 \/ Steady
  /\ \A c \in Calls : /\ age[c] = 0
                      /\ call[c].pc = "over" => ~Remains(c)
                      /\ \A k \in Kinds : object[c][k] # "coming"

Quiet ==
  /\ \E j \in Jobs, w \in Workers :
       /\ \A i \in Jobs \ {j} : job[i].status = "absent"
       /\ \A x \in Workers \ {w} : worker[x].pc = "idle"
  /\ connection.revision = 0 /\ Steady

Within == Smooth \/ Quiet
=============================================================================
