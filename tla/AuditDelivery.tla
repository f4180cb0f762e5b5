---------------------------- MODULE AuditDelivery ----------------------------
(***************************************************************************)
(* What audit export promises, without batches, leases or retries: the     *)
(* committed audit log only grows at its end, the external copy is at      *)
(* every moment a prefix of it, and the acknowledged position never runs   *)
(* ahead of the copy.  Changing the destination starts over.               *)
(***************************************************************************)
EXTENDS Naturals

VARIABLES
  log,       \* ids of the committed audit events
  copy,      \* ids the current destination holds
  position   \* everything up to here is acknowledged as exported

vars == <<log, copy, position>>

Init == log = {} /\ copy = {} /\ position = 0

UpTo(n) == {i \in log : i <= n}

\* New events come after every event committed so far, in any number.
Append(ids) ==
  /\ \A i \in ids, j \in log : j < i
  /\ log' = log \cup ids

Grow == \E ids \in SUBSET (log' \ log) : Append(ids) /\ UNCHANGED <<copy, position>>

Extend ==
  /\ \E n \in log : copy \subseteq UpTo(n) /\ copy' = UpTo(n)
  /\ UNCHANGED <<log, position>>

Acknowledge ==
  /\ \E n \in log : n > position /\ UpTo(n) \subseteq copy /\ position' = n
  /\ UNCHANGED <<log, copy>>

SwitchDestination ==
  /\ \E ids \in SUBSET (log' \ log) : Append(ids)
  /\ copy' = {} /\ position' = 0

Next == Grow \/ Extend \/ Acknowledge \/ SwitchDestination

Spec == Init /\ [][Next]_vars
=============================================================================
