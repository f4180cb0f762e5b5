------------------------- MODULE OperationLifecycle -------------------------
(***************************************************************************)
(* What an operation promises, without saying how the coordinator keeps    *)
(* the promise: one request targets one resource, at most one unsettled    *)
(* request holds a resource, at most one change is ever sent for a         *)
(* request, and a request that was withdrawn never sent anything.          *)
(***************************************************************************)
EXTENDS Naturals

CONSTANTS Ops, Resources, NoResource

VARIABLES
  phase,    \* how far each request has come
  target,   \* the resource each request is about
  sent      \* how many changes the provider has received for each request

vars == <<phase, target, sent>>

Phases == {"absent", "pending", "dispatching", "observing", "uncertain",
           "finished", "resolved", "withdrawn"}
Unsettled == {"pending", "dispatching", "observing", "uncertain"}

Init ==
  /\ phase = [o \in Ops |-> "absent"]
  /\ target = [o \in Ops |-> NoResource]
  /\ sent = [o \in Ops |-> 0]

Move(o, to) ==
  /\ phase' = [phase EXCEPT ![o] = to]
  /\ UNCHANGED <<target, sent>>

\* A request takes hold of a resource no other unsettled request holds.
Open(o, r) ==
  /\ phase[o] = "absent"
  /\ \A p \in Ops : target[p] = r => phase[p] \notin Unsettled
  /\ phase' = [phase EXCEPT ![o] = "pending"]
  /\ target' = [target EXCEPT ![o] = r]
  /\ UNCHANGED sent

Dispatch(o) == phase[o] = "pending" /\ Move(o, "dispatching")

\* The request ends and the provider has never been asked for anything.
Withdraw(o) ==
  /\ phase[o] \in {"pending", "dispatching"}
  /\ sent[o] = 0
  /\ Move(o, "withdrawn")

\* The one change reaches the provider: possibly after everybody has given up
\* on the worker that carries it, never before dispatch or after withdrawal.
Send(o) ==
  /\ phase[o] \in {"dispatching", "observing", "uncertain", "finished", "resolved"}
  /\ sent[o] = 0
  /\ sent' = [sent EXCEPT ![o] = 1]
  /\ UNCHANGED <<phase, target>>

Observe(o) ==
  /\ phase[o] \in {"dispatching", "uncertain"}
  /\ Move(o, "observing")

LoseTrack(o) ==
  /\ phase[o] \in {"dispatching", "observing"}
  /\ Move(o, "uncertain")

Finish(o) ==
  /\ phase[o] \in {"dispatching", "observing"}
  /\ Move(o, "finished")

\* Only a person settles an uncertain request; no answer of a worker does.
Resolve(o) == phase[o] = "uncertain" /\ Move(o, "resolved")

Next ==
  \E o \in Ops :
    \/ \E r \in Resources : Open(o, r)
    \/ Dispatch(o)
    \/ Withdraw(o)
    \/ Send(o)
    \/ Observe(o)
    \/ LoseTrack(o)
    \/ Finish(o)
    \/ Resolve(o)

Spec == Init /\ [][Next]_vars
=============================================================================
