----------------------------- MODULE MCDiscovery -----------------------------
(* Discovery for TLC: of second replicas, cloud changes and changes of the  *)
(* connection and the module, a state has only so many.                     *)
EXTENDS Discovery, FiniteSets

Busy == Cardinality({w \in Workers : worker[w].pc # "idle"})
Edits == connection.revision + module.revision

Within ==
  \A r \in Resources : Busy + cloud[r] + Edits <= IF Edits > 1 THEN 3 ELSE 4
=============================================================================
