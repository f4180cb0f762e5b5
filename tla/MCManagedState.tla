--------------------------- MODULE MCManagedState ----------------------------
(* ManagedState for TLC: two small instances in one state space, either   *)
(* one session with documents of two lineages and contents, or two sessions *)
(* whose documents differ in their serial only.                             *)
EXTENDS ManagedState, TLC

\* Sessions are interchangeable.  Lineages and contents are not: one of each
\* stands for the state of a project that has none.
Symmetry == Permutations(Sessions)

OneSession ==
  \E s \in Sessions : \A t \in Sessions \ {s} :
    session[t].status = "new" /\ permitted[t] = {"read", "publish"}

Plain(document) ==
  document.lineage = Nothing.lineage /\ document.content = Nothing.content

PlainDocuments ==
  /\ \A s \in Sessions : Plain(runner[s].copy)
  /\ \E s \in Sessions :
       permitted = [t \in Sessions |-> {"read", "publish"}]
         \/ permitted = [[t \in Sessions |-> {"read", "publish"}] EXCEPT ![s] = {"read"}]
  /\ \A u \in uploads : Plain(u.state)

Within == OneSession \/ PlainDocuments
=============================================================================
