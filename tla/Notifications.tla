---------------------------- MODULE Notifications ----------------------------
(***************************************************************************)
(* Notifications: internal/core/notifications.go and its SQL, for one      *)
(* destination.  Administrators edit, challenge, verify, disable and       *)
(* remove it, events and tests queue deliveries for its present revision,  *)
(* and console replicas claim a delivery, read the destination, send, and  *)
(* record the outcome, each in a transaction of its own with crashes and   *)
(* lapsed leases between them.                                             *)
(*                                                                         *)
(* A configuration (address and secret) is named by the revision it was    *)
(* saved at, and a verification code by the delivery that carries it.  Of  *)
(* the attempt rows of a delivery the newest is kept: a claim closes those *)
(* before it as "uncertain".  Grouped and unsubscribed events change       *)
(* nothing and are left out.                                               *)
(***************************************************************************)
EXTENDS Naturals

CONSTANTS
  Deliveries,
  Workers,      \* console replicas
  RetryBudget,  \* attempts of one delivery cycle (8)
  MaxRevision,  \* bound on changes of the destination
  MaxCycles,    \* bound on manual redeliveries of one delivery
  Nobody

ASSUME NotificationsAssumption ==
  /\ RetryBudget \in Nat \ {0} /\ MaxRevision \in Nat /\ MaxCycles \in Nat
  /\ Nobody \notin Workers /\ Nobody \notin Deliveries

VARIABLES
  destination,  \* the row of notification_destinations
  delivery,     \* per id: the row of notification_deliveries and its attempts
  worker,       \* per replica: the claimed delivery and what was read for it
  received,     \* <<delivery, configuration>>: messages an address received
  sends         \* per delivery: messages sent in its present cycle

vars == <<destination, delivery, worker, received, sends>>

-----------------------------------------------------------------------------
Revision == 0..MaxRevision
Settled == {"delivered", "dead", "canceled"}
Kind == {"event", "test", "verification"}

Destination == [config : Revision, revision : Revision, enabled : BOOLEAN,
                verified : BOOLEAN, removed : BOOLEAN,
                challenge : Deliveries \cup {Nobody}, expired : BOOLEAN]
Delivery == [status : {"none", "pending", "sending"} \cup Settled, kind : Kind,
             revision : Revision, config : Revision, code : BOOLEAN,
             retries : 0..RetryBudget + 1, lease : Workers \cup {Nobody},
             last : {"none", "sending", "pending"} \cup Settled,
             cycle : 0..MaxCycles]
Job == [pc : {"idle", "claimed", "sending", "done"}, delivery : Deliveries \cup {Nobody},
        revision : Revision, code : BOOLEAN, retries : 0..RetryBudget + 1,
        cycle : 0..MaxCycles, config : Revision, outcome : {"pending"} \cup Settled]

Unused == [status |-> "none", kind |-> "event", revision |-> 0, config |-> 0,
           code |-> FALSE, retries |-> 0, lease |-> Nobody, last |-> "none",
           cycle |-> 0]
Idle == [pc |-> "idle", delivery |-> Nobody, revision |-> 0, code |-> FALSE,
         retries |-> 0, cycle |-> 0, config |-> 0, outcome |-> "pending"]

Init ==
  /\ destination = [config |-> 0, revision |-> 0, enabled |-> TRUE, verified |-> FALSE,
                    removed |-> FALSE, challenge |-> Nobody, expired |-> FALSE]
  /\ delivery = [d \in Deliveries |-> Unused]
  /\ worker = [w \in Workers |-> Idle]
  /\ received = {}
  /\ sends = [d \in Deliveries |-> 0]

-----------------------------------------------------------------------------
(* Administration of the destination.  Every change names the revision the *)
(* administrator reviewed and moves it on.                                 *)

MayChange == ~destination.removed /\ destination.revision < MaxRevision

NextRevision == destination.revision + 1

\* Fault: the challenge of the old configuration can still be answered.
SaveKeepingChallenge ==
  /\ MayChange
  /\ destination' = [destination EXCEPT !.config = NextRevision, !.revision = NextRevision,
                                        !.verified = FALSE]
  /\ UNCHANGED <<delivery, worker, received, sends>>

SaveNotificationDestination ==
  /\ MayChange
  /\ destination' = [destination EXCEPT !.config = NextRevision, !.revision = NextRevision,
                       !.verified = FALSE, !.challenge = Nobody, !.expired = FALSE]
  /\ UNCHANGED <<delivery, worker, received, sends>>

SetNotificationDestinationEnabled(enabled) ==
  /\ MayChange
  /\ destination' = [destination EXCEPT !.enabled = enabled, !.revision = NextRevision]
  /\ UNCHANGED <<delivery, worker, received, sends>>

SetNotificationSubscriptions ==
  /\ MayChange
  /\ destination' = [destination EXCEPT !.revision = NextRevision]
  /\ UNCHANGED <<delivery, worker, received, sends>>

Queued(kind, revision) ==
  [status |-> "pending", kind |-> kind, revision |-> revision,
   config |-> destination.config, code |-> (kind = "verification"), retries |-> 0,
   lease |-> Nobody, last |-> "none", cycle |-> 0]

SendVerification(d) ==
  /\ delivery[d].status = "none"
  /\ MayChange /\ destination.enabled
  /\ destination' = [destination EXCEPT !.verified = FALSE, !.revision = NextRevision,
                                        !.challenge = d, !.expired = FALSE]
  /\ delivery' = [delivery EXCEPT ![d] = Queued("verification", NextRevision)]
  /\ UNCHANGED <<worker, received, sends>>

SendTest(d) ==
  /\ delivery[d].status = "none"
  /\ ~destination.removed /\ destination.enabled /\ destination.verified
  /\ delivery' = [delivery EXCEPT ![d] = Queued("test", destination.revision)]
  /\ UNCHANGED <<destination, worker, received, sends>>

\* Half an hour has passed since the challenge.
ChallengeExpires ==
  /\ destination.challenge # Nobody /\ ~destination.expired
  /\ destination' = [destination EXCEPT !.expired = TRUE]
  /\ UNCHANGED <<delivery, worker, received, sends>>

\* Somebody has read the code where it arrived.
VerifyNotificationDestination(d) ==
  /\ \E c \in Revision : <<d, c>> \in received
  /\ ~destination.removed /\ destination.challenge = d /\ ~destination.expired
  /\ destination' = [destination EXCEPT !.verified = TRUE, !.challenge = Nobody,
                                        !.expired = FALSE]
  /\ UNCHANGED <<delivery, worker, received, sends>>

DeleteNotificationDestination ==
  /\ MayChange
  /\ destination' = [destination EXCEPT !.removed = TRUE, !.enabled = FALSE,
                       !.verified = FALSE, !.challenge = Nobody, !.expired = FALSE,
                       !.revision = NextRevision]
  /\ delivery' = [d \in Deliveries |->
       [delivery[d] EXCEPT !.code = FALSE,
          !.status = IF @ = "pending" THEN "canceled" ELSE @]]
  /\ UNCHANGED <<worker, received, sends>>

-----------------------------------------------------------------------------
(* The queue.                                                              *)

\* In the transaction of the event itself.
enqueueNotification(d) ==
  /\ delivery[d].status = "none"
  /\ destination.enabled /\ destination.verified
  /\ delivery' = [delivery EXCEPT ![d] = Queued("event", destination.revision)]
  /\ UNCHANGED <<destination, worker, received, sends>>

RedeliverNotification(d) ==
  /\ delivery[d].status \in Settled /\ ~delivery[d].code
  /\ destination.enabled /\ destination.verified
  /\ destination.revision = delivery[d].revision
  /\ delivery[d].cycle < MaxCycles
  /\ delivery' = [delivery EXCEPT ![d] =
       [@ EXCEPT !.status = "pending", !.retries = 0, !.lease = Nobody,
                 !.cycle = delivery[d].cycle + 1]]
  /\ sends' = [sends EXCEPT ![d] = 0]
  /\ UNCHANGED <<destination, worker, received>>

LeaseLapses(d) ==
  /\ delivery[d].status = "sending" /\ delivery[d].lease # Nobody
  /\ delivery' = [delivery EXCEPT ![d] = [@ EXCEPT !.lease = Nobody]]
  /\ UNCHANGED <<destination, worker, received, sends>>

Claimable(d) ==
  \/ delivery[d].status = "pending"
  \/ delivery[d].status = "sending" /\ delivery[d].lease = Nobody

\* Fault: an attempt at the limit is not counted when it is interrupted.
CountedToBudget(n) == IF n < RetryBudget THEN n + 1 ELSE n

\* Beyond the budget the count makes no difference.
Counted(n) == IF n <= RetryBudget THEN n + 1 ELSE n

ClaimDelivery(w, d) ==
  /\ worker[w].pc = "idle" /\ Claimable(d)
  /\ delivery' = [delivery EXCEPT ![d] = [@ EXCEPT !.status = "sending", !.lease = w,
                    !.retries = Counted(delivery[d].retries), !.last = "sending"]]
  /\ worker' = [worker EXCEPT ![w] =
       [Idle EXCEPT !.pc = "claimed", !.delivery = d, !.revision = delivery[d].revision,
                    !.code = delivery[d].code, !.retries = Counted(delivery[d].retries),
                    !.cycle = delivery[d].cycle]]
  /\ UNCHANGED <<destination, received, sends>>

-----------------------------------------------------------------------------
(* A delivery.                                                             *)

Finish(w, outcome) ==
  worker' = [worker EXCEPT ![w] = [@ EXCEPT !.pc = "done", !.outcome = outcome]]

\* Fault: the reviewed revision is not compared.
StaleFlags(w) == ~destination.enabled \/ (~worker[w].code /\ ~destination.verified)

Stale(w) ==
  \/ ~destination.enabled \/ destination.revision # worker[w].revision
  \/ ~worker[w].code /\ ~destination.verified

Lapsed(w) == worker[w].code /\ (destination.challenge = Nobody \/ destination.expired)

\* The destination is read once, outside a transaction; what is sent is this.
ReadDestination(w) ==
  /\ worker[w].pc = "claimed"
  /\ \/ Stale(w) /\ Finish(w, "canceled")
     \/ ~Stale(w) /\ Lapsed(w) /\ Finish(w, "dead")
     \/ ~Stale(w) /\ ~Lapsed(w) /\ worker[w].retries > RetryBudget /\ Finish(w, "dead")
     \/ /\ ~Stale(w) /\ ~Lapsed(w) /\ worker[w].retries <= RetryBudget
        /\ worker' = [worker EXCEPT ![w] =
             [@ EXCEPT !.pc = "sending", !.config = destination.config]]
  /\ UNCHANGED <<destination, delivery, received, sends>>

Failure(w) == IF worker[w].retries >= RetryBudget THEN "dead" ELSE "pending"

\* The message arrives, and is accepted, refused or its answer lost; or it does
\* not arrive, for good or for now.
SendMessage(w) ==
  LET d == worker[w].delivery IN
  /\ worker[w].pc = "sending"
  /\ \/ /\ received' = received \cup {<<d, worker[w].config>>}
        /\ \E outcome \in {"delivered", "dead", Failure(w)} : Finish(w, outcome)
     \/ /\ UNCHANGED received
        /\ \E outcome \in {"dead", Failure(w)} : Finish(w, outcome)
  /\ sends' = IF worker[w].cycle = delivery[d].cycle
              THEN [sends EXCEPT ![d] = @ + 1] ELSE sends
  /\ UNCHANGED <<destination, delivery>>

Holds(w) == LET d == worker[w].delivery
            IN delivery[d].status = "sending" /\ delivery[d].lease = w

\* Fault: that the delivery is still being sent is enough to record on it.
RecordOnAny(w) ==
  /\ worker[w].pc = "done" /\ delivery[worker[w].delivery].status = "sending"
  /\ delivery' = [delivery EXCEPT ![worker[w].delivery] =
       [@ EXCEPT !.status = worker[w].outcome, !.lease = Nobody,
                 !.last = IF Holds(w) THEN worker[w].outcome ELSE @]]
  /\ worker' = [worker EXCEPT ![w] = Idle]
  /\ UNCHANGED <<destination, received, sends>>

RecordOutcome(w) ==
  /\ worker[w].pc = "done" /\ Holds(w)
  /\ delivery' = [delivery EXCEPT ![worker[w].delivery] =
       [@ EXCEPT !.status = worker[w].outcome, !.last = worker[w].outcome, !.lease = Nobody]]
  /\ worker' = [worker EXCEPT ![w] = Idle]
  /\ UNCHANGED <<destination, received, sends>>

DropOutcome(w) ==
  /\ worker[w].pc = "done" /\ ~Holds(w)
  /\ worker' = [worker EXCEPT ![w] = Idle]
  /\ UNCHANGED <<destination, delivery, received, sends>>

\* A crash, or an error before the outcome is known.
WorkerStops(w) ==
  /\ worker[w].pc # "idle"
  /\ worker' = [worker EXCEPT ![w] = Idle]
  /\ UNCHANGED <<destination, delivery, received, sends>>

-----------------------------------------------------------------------------
AdminStep ==
  \/ SaveNotificationDestination \/ SetNotificationSubscriptions
  \/ \E enabled \in BOOLEAN : SetNotificationDestinationEnabled(enabled)
  \/ ChallengeExpires \/ DeleteNotificationDestination
  \/ \E d \in Deliveries : SendVerification(d) \/ SendTest(d)
                             \/ VerifyNotificationDestination(d)

QueueStep ==
  \E d \in Deliveries : enqueueNotification(d) \/ RedeliverNotification(d) \/ LeaseLapses(d)

WorkerStep ==
  \E w \in Workers :
    \/ \E d \in Deliveries : ClaimDelivery(w, d)
    \/ ReadDestination(w) \/ SendMessage(w)
    \/ RecordOutcome(w) \/ DropOutcome(w) \/ WorkerStops(w)

Next == AdminStep \/ QueueStep \/ WorkerStep

Spec == Init /\ [][Next]_vars

\* Replicas keep ticking, clocks advance and the queue is ordered by due time.
\* A replica does not die or lose its claim between two local steps every single
\* time; it may die or be overtaken while it sends as often as it likes.
Fairness ==
  /\ \A d \in Deliveries : WF_vars(LeaseLapses(d))
  /\ \A d \in Deliveries : SF_vars(\E w \in Workers : ClaimDelivery(w, d))
  /\ \A w \in Workers :
       /\ WF_vars(SendMessage(w)) /\ WF_vars(DropOutcome(w))
       /\ WF_vars(ReadDestination(w)) /\ SF_vars(ReadDestination(w) /\ Holds(w))
       /\ SF_vars(RecordOutcome(w))

FairSpec == Spec /\ Fairness

-----------------------------------------------------------------------------
(* Properties.                                                             *)

\* Types; a lease belongs to a delivery that is being sent.
TypeOK ==
  /\ destination \in Destination
  /\ delivery \in [Deliveries -> Delivery]
  /\ worker \in [Workers -> Job]
  /\ received \subseteq Deliveries \X Revision
  /\ sends \in [Deliveries -> Nat]
  /\ \A d \in Deliveries : delivery[d].lease # Nobody => delivery[d].status = "sending"
  /\ \A w \in Workers : worker[w].pc # "idle" => worker[w].delivery # Nobody

\* A message goes to the configuration its delivery was queued for, however
\* often the destination is edited meanwhile (NOTIFICATIONS.md: "Existing
\* deliveries retain the old revision and are canceled rather than sent with
\* changed credentials or a changed address").
SentWhereIntended == \A m \in received : m[2] = delivery[m[1]].config

\* A configuration receives events and tests only after a challenge reached
\* that very configuration (NOTIFICATIONS.md: "Operational events only reach
\* enabled, verified destinations").
ChallengedFirst ==
  \A m \in received : delivery[m[1]].kind # "verification" =>
    \E v \in Deliveries : delivery[v].kind = "verification" /\ <<v, m[2]>> \in received

\* One cycle sends at most its budget, crashes and lapsed leases included
\* (NOTIFICATIONS.md: "Each delivery gets eight automatic attempts").
WithinBudget == \A d \in Deliveries : sends[d] <= RetryBudget

\* The attempts tell the same as the delivery, however late a stalled replica
\* comes with its outcome and however often the delivery is queued again: the
\* newest attempt is open just while the delivery is being sent, and a delivery is
\* delivered or dead only by the outcome of its newest attempt.
AttemptsAgree ==
  \A d \in Deliveries :
    /\ delivery[d].last = "sending" <=> delivery[d].status = "sending"
    /\ delivery[d].status \in {"delivered", "dead"} => delivery[d].last = delivery[d].status

\* A queued delivery is settled, even if every message it sends is interrupted.
EventuallySettled ==
  \A d \in Deliveries :
    delivery[d].status \in {"pending", "sending"} ~> delivery[d].status \in Settled
=============================================================================
