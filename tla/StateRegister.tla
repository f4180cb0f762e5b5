---------------------------- MODULE StateRegister ----------------------------
(***************************************************************************)
(* What the state of an infrastructure project promises its runners,       *)
(* without sessions, requests or retries: a register with a history.  One  *)
(* writer at a time; versions of one lineage with growing serials; and a   *)
(* version is only ever replaced by one computed from it.                  *)
(***************************************************************************)
EXTENDS Naturals, Sequences

VARIABLES
  history,   \* the versions stored, oldest first
  writer     \* the lock under which versions may be added; 0: none

vars == <<history, writer>>

Init == history = <<>> /\ writer = 0

Newest == history[Len(history)]

\* "base" is the serial its author had last seen stored, "lock" the author's
\* lock: an author may go on from what it stored itself without an answer.
Follows(state) ==
  history # <<>> =>
    /\ state.lineage = Newest.lineage
    /\ state.serial > Newest.serial
    /\ state.base = Newest.serial \/ state.lock = Newest.lock

Write(state) ==
  /\ writer # 0 /\ state.lock = writer
  /\ Follows(state)
  /\ history' = Append(history, state)
  /\ UNCHANGED writer

Acquire(lock) ==
  /\ writer = 0 /\ lock # 0
  /\ \A i \in DOMAIN history : history[i].lock # lock
  /\ writer' = lock
  /\ UNCHANGED history

Release == writer' = 0 /\ UNCHANGED history

Next ==
  \/ Len(history') = Len(history) + 1 /\ Write(history'[Len(history')])
  \/ Acquire(writer')
  \/ Release

Spec == Init /\ [][Next]_vars
=============================================================================
