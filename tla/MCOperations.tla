---------------------------- MODULE MCOperations ----------------------------
(* Operations for TLC: two small instances in one state space, either two *)
(* operations and two replicas under settings nobody changes, or one of     *)
(* each while connection, module, maintenance and reviewers change.         *)
EXTENDS Operations, TLC

\* Operation rows and replicas are interchangeable; so are request keys.
Symmetry == Permutations(Ops) \cup Permutations(Workers) \cup Permutations(Keys)

Untouched ==
  /\ connection = [revision |-> 0, enabled |-> TRUE]
  /\ module = [revision |-> 0, enabled |-> TRUE]
  /\ maintenance = [revision |-> 0, window |-> 0, open |-> TRUE]
  /\ grants = [u \in Users |-> Permissions]
  /\ \A o \in Ops : ~op[o].exception
  /\ reviews = {}

Alone ==
  /\ Cardinality({o \in Ops : op[o].status # "absent"}) <= 1
  /\ Cardinality({w \in Workers : worker[w].pc # "idle"}) <= 1
  /\ connection.revision + module.revision + maintenance.revision
       + maintenance.window <= 1
  /\ reviews = {} \/ \A o \in Ops : op[o].status \in {"absent"} \cup Pending

Within == Untouched \/ Alone
=============================================================================
