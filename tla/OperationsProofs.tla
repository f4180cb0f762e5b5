-------------------------- MODULE OperationsProofs --------------------------
(***************************************************************************)
(* Proofs about Operations for every number of operations, resources,      *)
(* users, keys and replicas, every set of administrative changes and every *)
(* bound on revisions.                                                     *)
(***************************************************************************)
EXTENDS Operations, TLAPS

USE OperationsAssumption

-----------------------------------------------------------------------------
(* The inductive invariant.                                                *)

Withdrawn == {"rejected", "canceled", "expired"}
Unsent == {"absent"} \cup Pending \cup Withdrawn

\* A worker only ever holds a job for an operation that was dispatched.
JobsAreDispatched ==
  \A w \in Workers : worker[w].pc # "idle" =>
    op[worker[w].op].status \notin Unsent

\* Observation jobs exist only after dispatch has ended.
ObserversComeLater ==
  \A w \in Workers : worker[w].phase = "observe" =>
    op[worker[w].op].status # "dispatching"

\* An operation leaves the queue once, so it has one submission job at most.
OneSubmissionJob ==
  \A v, w \in Workers :
    Submitting(v) /\ Submitting(w) /\ worker[v].op = worker[w].op => v = w

\* A submission job that has not sent yet is for an operation not sent yet.
NotSentBefore ==
  \A w \in Workers :
    Submitting(w) /\ worker[w].pc # "sent" => submitted[worker[w].op] = 0

SentAtMostOnce == \A o \in Ops : submitted[o] \in {0, 1}

\* A change that is on its way without a worker belongs to an operation that was
\* dispatched and sent nothing yet, and no submission job is left for it.
OnTheWayIsLast ==
  \A o \in onTheWay :
    /\ submitted[o] = 0 /\ op[o].status \notin Unsent
    /\ \A w \in Workers : Submitting(w) => worker[w].op # o

UnsentHasNothingSent ==
  \A o \in Ops : op[o].status \in Unsent => submitted[o] = 0

\* The unique constraint on request keys.
KeysAreUnique ==
  \A o, p \in Ops :
    /\ op[o].status # "absent" /\ op[p].status # "absent"
    /\ op[o].requester = op[p].requester /\ op[o].key = op[p].key
    => o = p

\* The unique index operation_resource_busy.
OneBlockingRow ==
  \A o, p \in Ops :
    /\ op[o].status \in Blocking /\ op[p].status \in Blocking
    /\ op[o].resource = op[p].resource
    => o = p

\* A submission job that still holds the lease is for a dispatching row.
LeaseMeansDispatching ==
  \A w \in Workers :
    Submitting(w) /\ op[worker[w].op].lease = w =>
      op[worker[w].op].status = "dispatching"

SubmissionInv ==
  /\ JobsAreDispatched
  /\ ObserversComeLater
  /\ OneSubmissionJob
  /\ NotSentBefore
  /\ OnTheWayIsLast
  /\ SentAtMostOnce
  /\ UnsentHasNothingSent
  /\ KeysAreUnique
  /\ OneBlockingRow
  /\ LeaseMeansDispatching

IInv == TypeOK /\ SubmissionInv

-----------------------------------------------------------------------------
(* Steps that move one row.                                                *)

\* What the invariant sees of a step that rewrites row o.
Touches(o, status, lease) ==
  /\ op' \in [Ops -> Row]
  /\ \A p \in Ops : /\ op'[p].resource = op[p].resource
                    /\ op'[p].requester = op[p].requester
                    /\ op'[p].key = op[p].key
                    /\ op'[p].action = op[p].action
                    /\ op'[p].expected = op[p].expected
                    /\ op'[p].exception = op[p].exception
                    /\ op'[p].connection = op[p].connection
                    /\ op'[p].module = op[p].module
                    /\ op'[p].maintenance = op[p].maintenance
                    /\ op'[p].window = op[p].window
  /\ \A p \in Ops \ {o} : op'[p].status = op[p].status /\ op'[p].lease = op[p].lease
  /\ op'[o].status = status /\ op'[o].lease = lease

\* savePowerOutcome writes a status and gives up the lease of an observation.
LEMMA SaveOutcomeTouches ==
  ASSUME TypeOK, NEW o \in Ops, NEW status \in Status, SaveOutcome(o, status)
  PROVE  Touches(o, status, IF status = "observing" THEN Nobody ELSE op[o].lease)
<1>1. op[o] \in Row BY DEF TypeOK
<1>2. Outcome(op[o], status) \in Row
  <2> DEFINE row == op[o]
             deadline == CASE status \in Settled -> "none"
                           [] status \notin Settled /\ row.deadline = "none" -> "open"
                           [] OTHER -> row.deadline
             lease == IF status = "observing" THEN Nobody ELSE row.lease
  <2>1. deadline \in Timer BY <1>1 DEF Row, Timer
  <2>2. lease \in Workers \cup {Nobody} BY <1>1 DEF Row
  <2>3. Outcome(row, status) =
          [row EXCEPT !.status = status, !.expired = FALSE, !.approval = "none",
                      !.deadline = deadline, !.lease = lease]
    BY DEF Outcome
  <2> HIDE DEF row, deadline, lease
  <2>4. row \in Row BY <1>1 DEF row
  <2>5. [row EXCEPT !.status = status, !.expired = FALSE, !.approval = "none",
                    !.deadline = deadline, !.lease = lease] \in Row
    BY <2>1, <2>2, <2>4 DEF Row, Timer
  <2> QED BY <2>3, <2>5 DEF row
<1>3. op' \in [Ops -> Row]
  BY <1>2 DEF SaveOutcome, TypeOK
<1>4. op'[o] = Outcome(op[o], status) /\ \A p \in Ops \ {o} : op'[p] = op[p]
  BY DEF SaveOutcome, TypeOK
<1>5. /\ op'[o].resource = op[o].resource
      /\ op'[o].requester = op[o].requester
      /\ op'[o].key = op[o].key
      /\ op'[o].action = op[o].action
      /\ op'[o].expected = op[o].expected
      /\ op'[o].exception = op[o].exception
      /\ op'[o].connection = op[o].connection
      /\ op'[o].module = op[o].module
      /\ op'[o].maintenance = op[o].maintenance
      /\ op'[o].window = op[o].window
      /\ op'[o].status = status
      /\ op'[o].lease = IF status = "observing" THEN Nobody ELSE op[o].lease
  BY <1>1, <1>4 DEF Outcome, Row
<1> QED BY <1>3, <1>4, <1>5 DEF Touches

\* A step without a worker preserves the invariant if it does not take a row
\* into the queue or the dispatch, does not lease it, and leaves no lease to a
\* row it moves out of the dispatch.
LEMMA MovesPreserve ==
  ASSUME IInv, NEW o \in Ops, NEW status, NEW lease,
         Touches(o, status, lease), UNCHANGED <<worker, submitted, onTheWay>>,
         op[o].status # "absent",
         status \in Blocking => op[o].status \in Blocking,
         status \in Unsent => op[o].status \in Unsent,
         status = "dispatching" => op[o].status = "dispatching",
         lease \in {op[o].lease, Nobody},
         lease = Nobody \/ status = op[o].status \/ op[o].status \in Pending
  PROVE  SubmissionInv'
<1> USE DEF IInv, SubmissionInv, Touches
<1>t. /\ \A w \in Workers : worker[w].pc # "idle" => worker[w].op \in Ops
      /\ \A w \in Workers : worker[w].phase = "observe" => worker[w].op \in Ops
      /\ Nobody \notin Workers
  BY DEF TypeOK, Job, Idle
<1>1. JobsAreDispatched' BY <1>t DEF JobsAreDispatched
<1>2. ObserversComeLater' BY <1>t DEF ObserversComeLater
<1>3. OneSubmissionJob' BY DEF OneSubmissionJob, Submitting
<1>4. NotSentBefore' BY DEF NotSentBefore, Submitting
<1>5. SentAtMostOnce' /\ OnTheWayIsLast'
  BY DEF SentAtMostOnce, OnTheWayIsLast, Submitting, TypeOK
<1>6. UnsentHasNothingSent' BY DEF UnsentHasNothingSent
<1>7. KeysAreUnique' BY DEF KeysAreUnique
<1>8. OneBlockingRow' BY DEF OneBlockingRow
<1>9. LeaseMeansDispatching'
  BY <1>t DEF LeaseMeansDispatching, JobsAreDispatched, Submitting, Unsent
<1> QED BY <1>1, <1>2, <1>3, <1>4, <1>5, <1>6, <1>7, <1>8, <1>9

-----------------------------------------------------------------------------
(* Steps of a worker.                                                      *)

\* A worker that gives up its job leaves the rows to the rest.
LEMMA ReleasePreserves ==
  ASSUME IInv, NEW w \in Workers, Release(w), UNCHANGED <<op, submitted>>,
         GivesUp(w) \/ UNCHANGED onTheWay
  PROVE  SubmissionInv' /\ onTheWay' \subseteq Ops
<1> USE DEF IInv, SubmissionInv
<1>1. /\ worker'[w] = Idle
      /\ \A v \in Workers \ {w} : worker'[v] = worker[v]
      /\ \A v \in Workers : worker'[v] \in Job
  BY DEF Release, TypeOK, Job
<1>2. Idle.pc = "idle" /\ Idle.phase = "none" BY DEF Idle
<1>3. JobsAreDispatched' BY <1>1, <1>2 DEF JobsAreDispatched
<1>4. ObserversComeLater' BY <1>1, <1>2 DEF ObserversComeLater
<1>5. OneSubmissionJob' BY <1>1, <1>2 DEF OneSubmissionJob, Submitting
<1>6. NotSentBefore' BY <1>1, <1>2 DEF NotSentBefore, Submitting
<1>7. LeaseMeansDispatching' BY <1>1, <1>2 DEF LeaseMeansDispatching, Submitting
<1>8. /\ SentAtMostOnce' /\ UnsentHasNothingSent' /\ KeysAreUnique' /\ OneBlockingRow'
  BY DEF SentAtMostOnce, UnsentHasNothingSent, KeysAreUnique, OneBlockingRow
<1>9. OnTheWayIsLast' /\ onTheWay' \subseteq Ops
  <2>1. \A v \in Workers : Submitting(v)' => v # w /\ Submitting(v) /\ worker'[v] = worker[v]
    BY <1>1, <1>2 DEF Submitting
  <2>2. ASSUME NEW o \in onTheWay', o \notin onTheWay
        PROVE  o \in Ops /\ worker[w].op = o /\ Submitting(w) /\ worker[w].pc = "calling"
    BY <2>2 DEF GivesUp, Submitting
  <2> QED BY <2>1, <2>2
          DEF OnTheWayIsLast, OneSubmissionJob, NotSentBefore, JobsAreDispatched, TypeOK,
              Submitting
<1> QED BY <1>3, <1>4, <1>5, <1>6, <1>7, <1>8, <1>9

\* A worker that records the outcome of its current job ends the dispatch; it
\* calls the operation unsent only if it is the one that would have sent it.
LEMMA SettlePreserves ==
  ASSUME IInv, NEW w \in Workers, NEW status \in Status, NEW lease,
         worker[w].pc # "idle", Current(w), Release(w), UNCHANGED submitted,
         Touches(worker[w].op, status, lease),
         status \notin Pending \cup {"absent", "dispatching"},
         lease \in {op[worker[w].op].lease, Nobody},
         GivesUp(w) \/ UNCHANGED onTheWay,
         status \in Unsent => worker[w].phase = "submit" /\ worker[w].pc = "claimed"
  PROVE  SubmissionInv' /\ onTheWay' \subseteq Ops
<1> USE DEF IInv, SubmissionInv, Touches
<1> DEFINE o == worker[w].op
<1>1. /\ worker'[w] = Idle
      /\ \A v \in Workers \ {w} : worker'[v] = worker[v]
      /\ \A v \in Workers : worker'[v] \in Job
      /\ \A v \in Workers : worker[v] \in Job
  BY DEF Release, TypeOK, Job
<1>2. Idle.pc = "idle" /\ Idle.phase = "none" BY DEF Idle
<1>3. o \in Ops /\ worker[w].phase \in {"submit", "observe"}
  BY DEF TypeOK, Job, Idle
<1>4. op[o].lease = w /\ op[o].status \in {"dispatching", "observing"}
      /\ op[o].status = StatusOf(worker[w].phase)
  BY <1>3 DEF Current, StatusOf
<1>5. /\ \A v \in Workers : worker[v].pc # "idle" =>
           worker[v].op \in Ops /\ worker[v].phase \in {"submit", "observe"}
      /\ \A v \in Workers : worker[v].phase = "observe" =>
           worker[v].op \in Ops /\ worker[v].pc # "idle"
  BY <1>1 DEF Job, Idle
<1>6. JobsAreDispatched'
  <2> SUFFICES ASSUME NEW v \in Workers, worker'[v].pc # "idle"
               PROVE  op'[worker'[v].op].status \notin Unsent
    BY DEF JobsAreDispatched
  <2>1. v # w /\ worker'[v] = worker[v] BY <1>1, <1>2
  <2>2. CASE worker[v].op = o /\ status \in Unsent
    <3>1. Submitting(w) BY <2>2 DEF Submitting
    <3>2. ~Submitting(v) BY <2>1, <2>2, <3>1 DEF OneSubmissionJob
    <3>3. worker[v].phase = "observe" BY <1>5, <2>1, <3>2 DEF Submitting
    <3> QED BY <1>4, <2>2, <3>1, <3>3 DEF ObserversComeLater, StatusOf, Submitting
  <2> QED BY <1>5, <2>1, <2>2 DEF JobsAreDispatched
<1>7. ObserversComeLater' BY <1>1, <1>2, <1>5 DEF ObserversComeLater
<1>8. OneSubmissionJob' BY <1>1, <1>2 DEF OneSubmissionJob, Submitting
<1>9. NotSentBefore' BY <1>1, <1>2 DEF NotSentBefore, Submitting
<1>10. SentAtMostOnce' BY DEF SentAtMostOnce
<1>11. UnsentHasNothingSent'
  BY <1>3, <1>4 DEF UnsentHasNothingSent, NotSentBefore, Submitting
<1>12. KeysAreUnique' BY <1>3, <1>4 DEF KeysAreUnique
<1>13. OneBlockingRow' BY <1>3, <1>4 DEF OneBlockingRow, Blocking
<1>14. LeaseMeansDispatching'
  BY <1>1, <1>2, <1>3, <1>4, <1>5 DEF LeaseMeansDispatching, Submitting
<1>15. OnTheWayIsLast' /\ onTheWay' \subseteq Ops
  <2>1. \A v \in Workers : Submitting(v)' => v # w /\ Submitting(v) /\ worker'[v] = worker[v]
    BY <1>1, <1>2 DEF Submitting
  <2>2. ASSUME NEW p \in onTheWay', p \notin onTheWay
        PROVE  /\ p = o /\ Submitting(w) /\ worker[w].pc = "calling"
               /\ submitted[p] = 0 /\ status \notin Unsent
    BY <2>2 DEF GivesUp, Submitting, NotSentBefore
  <2>3. ASSUME NEW p \in onTheWay PROVE op'[p].status \notin Unsent
    <3>1. p = o => ~Submitting(w) BY <2>3 DEF OnTheWayIsLast
    <3>2. p = o => status \notin Unsent BY <3>1 DEF Submitting
    <3> QED BY <2>3, <3>2 DEF OnTheWayIsLast, TypeOK
  <2>4. ASSUME NEW p \in onTheWay', NEW v \in Workers, Submitting(v)'
        PROVE  worker'[v].op # p
    BY <2>1, <2>2, <2>4 DEF OnTheWayIsLast, OneSubmissionJob
  <2>5. onTheWay' \subseteq Ops BY <1>3, <2>2 DEF TypeOK
  <2> QED BY <1>3, <2>2, <2>3, <2>4, <2>5 DEF OnTheWayIsLast
<1> QED BY <1>6, <1>7, <1>8, <1>9, <1>10, <1>11, <1>12, <1>13, <1>14, <1>15

\* A claim leases the row to the worker.
LEMMA ClaimTouches ==
  ASSUME IInv, NEW w \in Workers, NEW o \in Ops, ClaimOperation(w, o)
  PROVE  Touches(o, IF op[o].status = "queued" THEN "dispatching" ELSE op[o].status, w)
<1> DEFINE status == IF op[o].status = "queued" THEN "dispatching" ELSE op[o].status
<1>1. op[o] \in Row /\ op[o].status \in {"queued", "observing"}
  BY DEF IInv, TypeOK, ClaimOperation
<1>2. op' = [op EXCEPT ![o] = [op[o] EXCEPT !.lease = w, !.status = status]]
  BY DEF ClaimOperation, IInv, TypeOK
<1>3. status \in Status BY <1>1 DEF Status, Blocking
<1> HIDE DEF status
<1>4. [op[o] EXCEPT !.lease = w, !.status = status] \in Row
  BY <1>1, <1>3 DEF Row
<1>5. Touches(o, status, w)
  BY <1>1, <1>2, <1>4 DEF Touches, IInv, TypeOK, Row
<1> QED BY <1>5 DEF status

\* A claim takes a queued row, which nobody works on, into the dispatch.
LEMMA ClaimPreserves ==
  ASSUME IInv, NEW w \in Workers, NEW o \in Ops, ClaimOperation(w, o)
  PROVE  IInv'
<1> USE DEF IInv, SubmissionInv
<1> DEFINE phase == IF op[o].status = "queued" THEN "submit" ELSE "observe"
           status == IF op[o].status = "queued" THEN "dispatching" ELSE op[o].status
<1>1. /\ op[o].status \in {"queued", "observing"} /\ op[o].lease = Nobody
      /\ worker[w].pc = "idle"
      /\ worker' = [worker EXCEPT ![w] = [pc |-> "claimed", op |-> o, phase |-> phase]]
      /\ submitted' = submitted /\ onTheWay' = onTheWay
  BY DEF ClaimOperation
<1>2. /\ worker'[w] = [pc |-> "claimed", op |-> o, phase |-> phase]
      /\ \A v \in Workers \ {w} : worker'[v] = worker[v]
      /\ worker' \in [Workers -> Job]
  BY <1>1 DEF TypeOK, Job
<1>3. /\ worker'[w].pc = "claimed"
      /\ worker'[w].op = o
      /\ worker'[w].phase = phase
  BY <1>2
<1>4. Touches(o, status, w) BY ClaimTouches
<1>5. TypeOK'
  BY <1>2, <1>4 DEF TypeOK, Touches, ClaimOperation, settings
<1>6. \A v \in Workers : worker[v].pc # "idle" \/ worker[v].phase = "observe" =>
        worker[v].op \in Ops
  BY DEF TypeOK, Job, Idle
<1>7. \A v \in Workers : worker[v].phase = "observe" => worker[v].pc # "idle"
  BY DEF TypeOK, Job, Idle
<1>8. op[o].status = "queued" => \A v \in Workers \ {w} :
        worker[v].pc # "idle" => worker[v].op # o
  BY <1>6 DEF JobsAreDispatched, Unsent, Pending
<1> HIDE DEF phase, status
<1>9. /\ op[o].status = "queued" => phase = "submit" /\ status = "dispatching"
      /\ op[o].status = "observing" => phase = "observe" /\ status = "observing"
  BY DEF phase, status
<1> USE DEF Touches
<1>10. JobsAreDispatched'
  BY <1>1, <1>2, <1>3, <1>4, <1>6, <1>9
  DEF JobsAreDispatched, Unsent, Pending, Withdrawn
<1>11. ObserversComeLater'
  BY <1>1, <1>2, <1>3, <1>4, <1>6, <1>7, <1>8, <1>9 DEF ObserversComeLater
<1>12. OneSubmissionJob'
  BY <1>1, <1>2, <1>3, <1>8, <1>9 DEF OneSubmissionJob, Submitting
<1>13. NotSentBefore'
  BY <1>1, <1>2, <1>3, <1>9
  DEF NotSentBefore, Submitting, UnsentHasNothingSent, Unsent, Pending
<1>14. SentAtMostOnce' BY <1>1 DEF SentAtMostOnce
<1>15. UnsentHasNothingSent'
  BY <1>1, <1>4, <1>9 DEF UnsentHasNothingSent, Unsent, Pending, Withdrawn
<1>16. KeysAreUnique' BY <1>1, <1>4, <1>9 DEF KeysAreUnique
<1>17. OneBlockingRow'
  BY <1>1, <1>4, <1>9 DEF OneBlockingRow, Blocking, Pending
<1>18. LeaseMeansDispatching'
  BY <1>1, <1>2, <1>3, <1>4, <1>6, <1>8, <1>9
  DEF LeaseMeansDispatching, Submitting
<1>19. OnTheWayIsLast'
  <2>1. \A p \in onTheWay : p = o => op[o].status = "observing"
    BY <1>1 DEF OnTheWayIsLast, Unsent, Pending
  <2>2. \A v \in Workers : Submitting(v)' =>
          \/ Submitting(v) /\ worker'[v] = worker[v]
          \/ v = w /\ op[o].status = "queued"
    BY <1>1, <1>2, <1>3, <1>9 DEF Submitting
  <2> QED BY <1>1, <1>3, <1>4, <1>9, <2>1, <2>2
          DEF OnTheWayIsLast, Unsent, Pending, Withdrawn, TypeOK
<1> QED BY <1>5, <1>10, <1>11, <1>12, <1>13, <1>14, <1>15, <1>16, <1>17, <1>18, <1>19

\* Calling the provider, and the provider receiving the change, keep the one
\* job per operation and count the change once.
LEMMA CallPreserves ==
  ASSUME IInv, NEW w \in Workers, CallProvider(w) \/ ProviderReceives(w)
  PROVE  IInv'
<1> USE DEF IInv, SubmissionInv
<1> DEFINE o == worker[w].op
           pc == IF CallProvider(w) THEN "calling" ELSE "sent"
<1>1. /\ worker' = [worker EXCEPT ![w].pc = pc]
      /\ op' = op /\ worker[w].pc \in {"claimed", "calling"}
      /\ UNCHANGED <<onTheWay, inventory, settings, drifted>>
  BY DEF CallProvider, ProviderReceives, rowVars
<1>2. worker[w] \in Job /\ worker[w] # Idle /\ o \in Ops
  BY <1>1 DEF TypeOK, Job, Idle
<1>3. /\ worker'[w].pc = pc /\ worker'[w].op = o
      /\ worker'[w].phase = worker[w].phase
      /\ \A v \in Workers \ {w} : worker'[v] = worker[v]
      /\ worker' \in [Workers -> Job]
  BY <1>1, <1>2 DEF TypeOK, Job
<1>4. \/ submitted' = submitted /\ pc = "calling"
      \/ /\ submitted' = [submitted EXCEPT ![o] = @ + 1] /\ pc = "sent"
         /\ worker[w].pc = "calling" /\ Submitting(w)
  BY DEF CallProvider, ProviderReceives, rowVars, Submitting
<1>5. /\ pc \in {"calling", "sent"}
      /\ submitted \in [Ops -> Nat]
      /\ submitted' \in [Ops -> Nat]
      /\ \A p \in Ops \ {o} : submitted'[p] = submitted[p]
      /\ \/ submitted'[o] = submitted[o] /\ pc = "calling"
         \/ submitted[o] = 0 /\ submitted'[o] = 1 /\ pc = "sent" /\ Submitting(w)
  BY <1>2, <1>4 DEF TypeOK, NotSentBefore
<1> HIDE DEF o, pc
<1>6. TypeOK' BY <1>1, <1>3, <1>5 DEF TypeOK, settings
<1>7. \A v \in Workers : worker[v].pc # "idle" => worker[v].op \in Ops
  BY DEF TypeOK, Job, Idle
<1>8. JobsAreDispatched' BY <1>1, <1>3 DEF JobsAreDispatched, o
<1>9. ObserversComeLater' BY <1>1, <1>3 DEF ObserversComeLater, o
<1>10. OneSubmissionJob'
  BY <1>1, <1>3, <1>5 DEF OneSubmissionJob, Submitting, o
<1>11. NotSentBefore'
  BY <1>1, <1>2, <1>3, <1>5, <1>7 DEF NotSentBefore, OneSubmissionJob, Submitting, o
<1>12. SentAtMostOnce' BY <1>5 DEF SentAtMostOnce
<1>13. UnsentHasNothingSent'
  BY <1>1, <1>5 DEF UnsentHasNothingSent, JobsAreDispatched, o
<1>14. KeysAreUnique' /\ OneBlockingRow' BY <1>1 DEF KeysAreUnique, OneBlockingRow
<1>15. LeaseMeansDispatching'
  BY <1>1, <1>3 DEF LeaseMeansDispatching, Submitting, o
<1>16. OnTheWayIsLast'
  <2>1. \A v \in Workers : Submitting(v)' <=> Submitting(v)
    BY <1>1, <1>3, <1>5 DEF Submitting
  <2>2. ASSUME pc = "sent" PROVE o \notin onTheWay
    BY <1>5, <2>2 DEF OnTheWayIsLast, o
  <2>3. \A p \in onTheWay : submitted'[p] = submitted[p]
    BY <1>5, <2>2 DEF TypeOK
  <2> QED BY <1>1, <1>3, <2>1, <2>3 DEF OnTheWayIsLast
<1> QED BY <1>6, <1>8, <1>9, <1>10, <1>11, <1>12, <1>13, <1>14, <1>15, <1>16

\* A change that arrives after everybody has given it up is the operation's first
\* and last.
LEMMA LateArrivalPreserves ==
  ASSUME IInv, NEW o \in Ops, ArrivesLate(o)
  PROVE  IInv'
<1> USE DEF IInv, SubmissionInv
<1>1. /\ o \in onTheWay /\ onTheWay' = onTheWay \ {o}
      /\ UNCHANGED <<op, worker, inventory, settings, drifted>>
      /\ submitted[o] = 0 /\ submitted' = [submitted EXCEPT ![o] = @ + 1]
  BY DEF ArrivesLate, OnTheWayIsLast
<1>2. /\ submitted' \in [Ops -> Nat] /\ submitted'[o] = 1
      /\ \A p \in Ops \ {o} : submitted'[p] = submitted[p]
  BY <1>1 DEF TypeOK
<1>3. TypeOK' BY <1>1, <1>2 DEF TypeOK, settings
<1>4. /\ JobsAreDispatched' /\ ObserversComeLater' /\ OneSubmissionJob'
      /\ KeysAreUnique' /\ OneBlockingRow' /\ LeaseMeansDispatching'
  BY <1>1 DEF JobsAreDispatched, ObserversComeLater, OneSubmissionJob, KeysAreUnique,
              OneBlockingRow, LeaseMeansDispatching, Submitting
<1>5. NotSentBefore'
  <2>1. \A w \in Workers : Submitting(w) => worker[w].op \in Ops \ {o}
    BY <1>1 DEF OnTheWayIsLast, TypeOK, Job, Idle, Submitting
  <2> QED BY <1>1, <1>2, <2>1 DEF NotSentBefore, Submitting
<1>6. SentAtMostOnce' BY <1>2 DEF SentAtMostOnce
<1>7. UnsentHasNothingSent' /\ OnTheWayIsLast'
  BY <1>1, <1>2 DEF UnsentHasNothingSent, OnTheWayIsLast, Submitting, TypeOK
<1> QED BY <1>3, <1>4, <1>5, <1>6, <1>7

\* A new request fills one row.
LEMMA RequestEffect ==
  ASSUME IInv, NEW o \in Ops, NEW u \in Users, NEW k \in Keys, NEW r \in Resources,
         NEW a \in Actions, NEW e \in BOOLEAN, NewRequest(o, u, k, r, a, e)
  PROVE  \E row \in Row :
           /\ op' = [op EXCEPT ![o] = row]
           /\ row.status \in Pending /\ row.resource = r
           /\ row.requester = u /\ row.key = k /\ row.lease = Nobody
<1> USE DEF IInv
<1> DEFINE status == IF ApprovalRequired(a, e) THEN "awaiting_approval" ELSE "queued"
           row == [NoRow EXCEPT
                    !.status = status, !.resource = r, !.action = a,
                    !.expected = inventory[r], !.requester = u, !.key = k,
                    !.exception = e, !.connection = connection.revision,
                    !.module = module.revision,
                    !.maintenance = maintenance.revision,
                    !.window = maintenance.window]
<1>1. status \in Pending BY DEF Pending
<1>2. op' = [op EXCEPT ![o] = row]
  BY DEF NewRequest
<1>3. row \in Row
  <2>1. NoRow \in Row
    BY DEF NoRow, Row, Status, Timer, ResourceStatus, Revision
  <2>2. /\ status \in Status /\ inventory[r] \in ResourceStatus /\ e \in BOOLEAN
        /\ connection.revision \in Revision /\ module.revision \in Revision
        /\ maintenance.revision \in Revision /\ maintenance.window \in Revision
    BY <1>1 DEF Status, Blocking, TypeOK
  <2> HIDE DEF status
  <2> QED BY <2>1, <2>2 DEF Row
<1>4. row.status = status /\ row.resource = r /\ row.requester = u
      /\ row.key = k /\ row.lease = Nobody
  <2> HIDE DEF status
  <2> QED BY DEF NoRow
<1> HIDE DEF status, row
<1> QED BY <1>1, <1>2, <1>3, <1>4

\* A new request takes a fresh row, an unused key and a free resource.
LEMMA RequestPreserves ==
  ASSUME IInv, NEW o \in Ops, NEW u \in Users, NEW k \in Keys, NEW r \in Resources,
         NEW a \in Actions, NEW e \in BOOLEAN, NewRequest(o, u, k, r, a, e),
         drifted' \subseteq Ops \cup Keys
  PROVE  IInv'
<1> USE DEF IInv, SubmissionInv
<1>1. PICK row \in Row :
        /\ op' = [op EXCEPT ![o] = row]
        /\ row.status \in Pending /\ row.resource = r
        /\ row.requester = u /\ row.key = k /\ row.lease = Nobody
  BY RequestEffect
<1>2. /\ op' \in [Ops -> Row]
      /\ op'[o] = row /\ \A p \in Ops \ {o} : op'[p] = op[p]
      /\ UNCHANGED <<worker, submitted, onTheWay, inventory, settings>>
  BY <1>1 DEF TypeOK, NewRequest
<1>3. op[o].status = "absent" /\ OperationByKey(u, k) = {} /\ ~Busy(r)
  BY DEF NewRequest
<1>4. TypeOK' BY <1>2 DEF TypeOK, settings
<1>5. /\ \A v \in Workers : worker[v].pc # "idle" \/ worker[v].phase = "observe" =>
           worker[v].op \in Ops /\ worker[v].op # o
  BY <1>3 DEF TypeOK, Job, Idle, JobsAreDispatched, Unsent
<1>6. JobsAreDispatched' BY <1>2, <1>5 DEF JobsAreDispatched
<1>7. ObserversComeLater' BY <1>2, <1>5 DEF ObserversComeLater
<1>8. OneSubmissionJob' BY <1>2 DEF OneSubmissionJob, Submitting
<1>9. NotSentBefore' BY <1>2 DEF NotSentBefore, Submitting
<1>10. SentAtMostOnce' BY <1>2 DEF SentAtMostOnce
<1>11. UnsentHasNothingSent'
  BY <1>2, <1>3 DEF UnsentHasNothingSent, Unsent
<1>12. KeysAreUnique'
  BY <1>1, <1>2, <1>3 DEF KeysAreUnique, OperationByKey
<1>13. OneBlockingRow'
  BY <1>1, <1>2, <1>3 DEF OneBlockingRow, Busy
<1>14. LeaseMeansDispatching'
  BY <1>2, <1>5 DEF LeaseMeansDispatching, Submitting
<1>15. OnTheWayIsLast'
  BY <1>2, <1>3 DEF OnTheWayIsLast, Submitting, Unsent, TypeOK
<1> QED BY <1>4, <1>6, <1>7, <1>8, <1>9, <1>10, <1>11, <1>12, <1>13, <1>14, <1>15

\* Single and bulk requests are new requests.
LEMMA RequestsPreserve ==
  ASSUME IInv, NEW o \in Ops,
         \/ \E u \in Users, k \in Keys, r \in Resources, a \in Actions,
              e \in Exceptions : RequestOperation(o, u, k, r, a, e)
         \/ \E v \in reviews : RequestBulkPower(o, v)
  PROVE  IInv'
<1>1. drifted \subseteq Ops \cup Keys /\ reviews \subseteq Review
  BY DEF IInv, TypeOK
<1>2. ASSUME NEW u \in Users, NEW k \in Keys, NEW r \in Resources,
             NEW a \in Actions, NEW e \in Exceptions,
             RequestOperation(o, u, k, r, a, e)
      PROVE  IInv'
  BY <1>1, <1>2, RequestPreserves DEF RequestOperation
<1>3. ASSUME NEW v \in reviews, RequestBulkPower(o, v)
      PROVE  IInv'
  <2>1. /\ v.user \in Users /\ v.key \in Keys /\ v.resource \in Resources
        /\ v.action \in Actions
    BY <1>1 DEF Review
  <2> QED BY <1>1, <1>3, <2>1, RequestPreserves DEF RequestBulkPower
<1> QED BY <1>2, <1>3

\* Previews are made and lapse without touching an operation.
LEMMA ReviewsPreserve ==
  ASSUME IInv,
         \/ \E u \in Users, k \in Keys, r \in Resources, a \in Actions :
              PreviewBulkPower(u, k, r, a)
         \/ \E v \in reviews : ReviewLapses(v)
  PROVE  IInv'
<1> USE DEF IInv
<1>1. UNCHANGED <<op, worker, submitted, onTheWay, inventory, connection, module,
                  maintenance, approvalActions, managed, grants>>
  BY DEF PreviewBulkPower, ReviewLapses
<1>2. SubmissionInv'
  BY <1>1 DEF SubmissionInv, JobsAreDispatched, ObserversComeLater,
     OneSubmissionJob, NotSentBefore, OnTheWayIsLast, SentAtMostOnce, UnsentHasNothingSent,
     KeysAreUnique, OneBlockingRow, LeaseMeansDispatching, Submitting
<1>3. reviews' \subseteq Review /\ drifted' \subseteq drifted
  <2>1. ASSUME NEW u \in Users, NEW k \in Keys, NEW r \in Resources,
               NEW a \in Actions, PreviewBulkPower(u, k, r, a)
        PROVE  reviews' \subseteq Review /\ drifted' \subseteq drifted
    <3>1. /\ inventory[r] \in ResourceStatus
          /\ connection.revision \in Revision /\ module.revision \in Revision
          /\ maintenance.revision \in Revision /\ maintenance.window \in Revision
      BY DEF TypeOK
    <3> QED BY <2>1, <3>1 DEF PreviewBulkPower, TypeOK, Review
  <2> QED BY <2>1 DEF ReviewLapses, TypeOK
<1> QED BY <1>1, <1>2, <1>3 DEF TypeOK

\* Reviews, manual decisions and sweeps: requests move within the queue or out
\* of it, uncertain work back to observation or out, always without a lease.
Decision(o, u) ==
  \/ ApproveOperation(o, u) \/ RejectOperation(o, u) \/ CancelOperation(o, u)
  \/ ReconcileOperation(o, u) \/ ResolveOperation(o, u)
  \/ ExpirePending(o) \/ ExpireDispatch(o)

DecisionMove(o, status) ==
  \/ op[o].status = "awaiting_approval" /\ status = "queued"
  \/ op[o].status \in Pending /\ status \in Withdrawn
  \/ op[o].status = "uncertain" /\ op[o].lease = Nobody /\ status \in {"observing", "resolved"}
  \/ op[o].status = "dispatching" /\ op[o].lease = Nobody /\ status = "uncertain"

\* What people and the sweep write is one of the seven decisions above.
LEMMA DecisionEffect ==
  ASSUME IInv, NEW o \in Ops, NEW u, Decision(o, u)
  PROVE  /\ UNCHANGED <<worker, submitted, onTheWay, inventory, settings, drifted>>
         /\ \E status \in Status :
              Touches(o, status, op[o].lease) /\ DecisionMove(o, status)
<1>1. op[o] \in Row /\ op \in [Ops -> Row] BY DEF IInv, TypeOK
<1>2. UNCHANGED <<worker, submitted, onTheWay, inventory, settings, drifted>>
  BY DEF Decision, ApproveOperation, RejectOperation, CancelOperation,
     ReconcileOperation, ResolveOperation, ExpirePending, ExpireDispatch
<1>3. CASE ApproveOperation(o, u) \/ RejectOperation(o, u)
  <2>1. PICK s \in {"queued", "rejected"} :
          op' = [op EXCEPT ![o] = [op[o] EXCEPT !.status = s, !.approver = u,
                                                !.approval = "open"]]
    BY <1>1, <1>3 DEF ApproveOperation, RejectOperation
  <2>2. s \in Status BY DEF Status, Blocking, Pending, Settled
  <2>3. u \in Users
    BY <1>3 DEF ApproveOperation, RejectOperation, MayReview, Holds
  <2>4. [op[o] EXCEPT !.status = s, !.approver = u, !.approval = "open"] \in Row
    BY <1>1, <2>2, <2>3 DEF Row, Timer
  <2>5. Touches(o, s, op[o].lease)
    BY <1>1, <2>1, <2>4 DEF Touches, Row
  <2>6. op[o].status = "awaiting_approval"
    BY <1>3 DEF ApproveOperation, RejectOperation
  <2>7. DecisionMove(o, s) BY <2>6 DEF DecisionMove, Pending, Withdrawn
  <2> QED BY <1>2, <2>2, <2>5, <2>7
<1>4. CASE CancelOperation(o, u) \/ ExpirePending(o)
  <2>1. PICK s \in {"canceled", "expired"} : SaveOutcome(o, s)
    BY <1>4 DEF CancelOperation, ExpirePending
  <2>2. s \in Status BY DEF Status, Settled
  <2>3. Touches(o, s, op[o].lease)
    BY <2>1, <2>2, SaveOutcomeTouches DEF IInv
  <2>4. DecisionMove(o, s)
    BY <1>4 DEF CancelOperation, ExpirePending, DecisionMove, Withdrawn
  <2> QED BY <1>2, <2>2, <2>3, <2>4
<1>5. CASE ReconcileOperation(o, u)
  <2>1. op' = [op EXCEPT ![o] = [op[o] EXCEPT !.status = "observing",
                                              !.deadline = "open"]]
    BY <1>1, <1>5 DEF ReconcileOperation
  <2>2. [op[o] EXCEPT !.status = "observing", !.deadline = "open"] \in Row
    BY <1>1 DEF Row, Status, Blocking, Timer
  <2>3. Touches(o, "observing", op[o].lease)
    BY <1>1, <2>1, <2>2 DEF Touches, Row
  <2>4. DecisionMove(o, "observing")
    BY <1>5 DEF ReconcileOperation, DecisionMove
  <2> QED BY <1>2, <2>3, <2>4 DEF Status, Blocking
<1>6. CASE ResolveOperation(o, u) \/ ExpireDispatch(o)
  <2>1. PICK s \in {"resolved", "uncertain"} :
          SaveOutcome(o, s) /\ DecisionMove(o, s)
    BY <1>6 DEF ResolveOperation, ExpireDispatch, DecisionMove
  <2>2. s \in Status BY DEF Status, Settled, Blocking
  <2>3. Touches(o, s, op[o].lease)
    BY <2>1, <2>2, SaveOutcomeTouches DEF IInv
  <2> QED BY <1>2, <2>1, <2>2, <2>3
<1> QED BY <1>3, <1>4, <1>5, <1>6 DEF Decision

\* Reviews, manual decisions and sweeps keep the invariant.
LEMMA DecisionsPreserve ==
  ASSUME IInv, NEW o \in Ops, NEW u, Decision(o, u)
  PROVE  IInv'
<1>1. UNCHANGED <<worker, submitted, onTheWay, inventory, settings, drifted>>
  BY DecisionEffect
<1>2. PICK status \in Status :
        Touches(o, status, op[o].lease) /\ DecisionMove(o, status)
  BY DecisionEffect
<1>3. SubmissionInv'
  BY <1>1, <1>2, MovesPreserve
  DEF DecisionMove, Blocking, Pending, Unsent, Withdrawn
<1> QED BY <1>1, <1>2, <1>3 DEF IInv, TypeOK, Touches, settings

\* Timers change no status, and only ever take a lease away.
LEMMA TimeTouches ==
  ASSUME IInv, NEW o \in Ops,
         \/ LeaseLapses(o) \/ RequestExpires(o)
         \/ ApprovalLapses(o) \/ DeadlinePasses(o)
  PROVE  \E lease \in {op[o].lease, Nobody} : Touches(o, op[o].status, lease)
<1>1. op[o] \in Row /\ op \in [Ops -> Row] BY DEF IInv, TypeOK
<1>2. PICK row : /\ op' = [op EXCEPT ![o] = row]
                 /\ row \in {[op[o] EXCEPT !.lease = Nobody],
                             [op[o] EXCEPT !.expired = TRUE],
                             [op[o] EXCEPT !.approval = "passed"],
                             [op[o] EXCEPT !.deadline = "passed"]}
  BY <1>1 DEF LeaseLapses, RequestExpires, ApprovalLapses, DeadlinePasses
<1>3. row \in Row /\ row.lease \in {op[o].lease, Nobody}
  <2>1. CASE row = [op[o] EXCEPT !.lease = Nobody] BY <1>1, <2>1 DEF Row
  <2>2. CASE row = [op[o] EXCEPT !.expired = TRUE] BY <1>1, <2>2 DEF Row
  <2>3. CASE row = [op[o] EXCEPT !.approval = "passed"]
    BY <1>1, <2>3 DEF Row, Timer
  <2>4. CASE row = [op[o] EXCEPT !.deadline = "passed"]
    BY <1>1, <2>4 DEF Row, Timer
  <2> QED BY <1>2, <2>1, <2>2, <2>3, <2>4
<1>4. Touches(o, op[o].status, row.lease)
  BY <1>1, <1>2, <1>3 DEF Touches, Row
<1> QED BY <1>3, <1>4

\* A deadline or a lease that passes keeps the invariant.
LEMMA TimePreserves ==
  ASSUME IInv, NEW o \in Ops,
         \/ LeaseLapses(o) \/ RequestExpires(o)
         \/ ApprovalLapses(o) \/ DeadlinePasses(o)
  PROVE  IInv'
<1>1. UNCHANGED <<worker, submitted, onTheWay, inventory, settings, drifted>>
  BY DEF LeaseLapses, RequestExpires, ApprovalLapses, DeadlinePasses
<1>2. PICK lease \in {op[o].lease, Nobody} : Touches(o, op[o].status, lease)
  BY TimeTouches
<1>3. op[o].status # "absent"
  BY DEF LeaseLapses, RequestExpires, ApprovalLapses, DeadlinePasses, Blocking, Pending
<1>4. SubmissionInv' BY <1>1, <1>2, <1>3, MovesPreserve
<1> QED BY <1>1, <1>2, <1>4 DEF IInv, TypeOK, Touches, settings

\* What a worker writes when it is done is a status of the table, never one of
\* the queue, and "canceled" only when this worker would have sent the change.
LEMMA OutcomeEffect ==
  ASSUME IInv, NEW w \in Workers, RefuseClaim(w) \/ RecordAnswer(w)
  PROVE  /\ worker[w].op \in Ops /\ worker[w].pc # "idle" /\ Current(w) /\ Release(w)
         /\ UNCHANGED <<submitted, settings, drifted>>
         /\ GivesUp(w) \/ UNCHANGED onTheWay
         /\ \E s \in {"canceled", "failed", "uncertain", "observing", "succeeded"} :
              /\ Touches(worker[w].op, s,
                   IF s = "observing" THEN Nobody ELSE op[worker[w].op].lease)
              /\ s = "canceled" => worker[w].phase = "submit" /\ worker[w].pc = "claimed"
<1> DEFINE o == worker[w].op
<1>1. /\ worker[w].pc # "idle" /\ Current(w) /\ Release(w)
      /\ UNCHANGED <<submitted, settings, drifted>>
      /\ GivesUp(w) \/ UNCHANGED onTheWay
  BY DEF RefuseClaim, RecordAnswer
<1>2. o \in Ops BY <1>1 DEF IInv, TypeOK, Job, Idle
<1>3. PICK s \in {"canceled", "failed", "uncertain", "observing", "succeeded"} :
        /\ SaveOutcome(o, s)
        /\ s = "canceled" => worker[w].phase = "submit" /\ worker[w].pc = "claimed"
  <2>1. CASE RefuseClaim(w) BY <2>1 DEF RefuseClaim
  <2>2. CASE RecordAnswer(w)
    <3>1. PICK answer \in {"none", "accepted", "succeeded", "unconfirmed",
                           "failed", "uncertain"} :
            SaveOutcome(o, StatusAfter(worker[w].phase, answer))
      BY <2>2 DEF RecordAnswer, Answers
    <3>2. StatusAfter(worker[w].phase, answer)
            \in {"failed", "uncertain", "observing", "succeeded"}
      BY DEF StatusAfter
    <3> QED BY <3>1, <3>2
  <2> QED BY <2>1, <2>2
<1>4. s \in Status BY DEF Status, Blocking, Settled
<1>5. Touches(o, s, IF s = "observing" THEN Nobody ELSE op[o].lease)
  BY <1>2, <1>3, <1>4, SaveOutcomeTouches DEF IInv
<1> QED BY <1>1, <1>2, <1>3, <1>5

\* Every way a worker gives up its job keeps the invariant.
LEMMA OutcomesPreserve ==
  ASSUME IInv, NEW w \in Workers, RefuseClaim(w) \/ RecordAnswer(w)
  PROVE  IInv'
<1> DEFINE o == worker[w].op
<1>1. /\ o \in Ops /\ worker[w].pc # "idle" /\ Current(w) /\ Release(w)
      /\ UNCHANGED <<submitted, settings, drifted>>
      /\ GivesUp(w) \/ UNCHANGED onTheWay
  BY OutcomeEffect
<1>2. PICK s \in {"canceled", "failed", "uncertain", "observing", "succeeded"} :
        /\ Touches(o, s, IF s = "observing" THEN Nobody ELSE op[o].lease)
        /\ s = "canceled" => worker[w].phase = "submit" /\ worker[w].pc = "claimed"
  BY OutcomeEffect
<1>3. s \in Status /\ s \notin Pending \cup {"absent", "dispatching"}
      /\ (s \in Unsent => s = "canceled")
  BY DEF Status, Blocking, Pending, Settled, Unsent, Withdrawn
<1>4. SubmissionInv' /\ onTheWay' \subseteq Ops BY <1>1, <1>2, <1>3, SettlePreserves
<1>5. worker' \in [Workers -> Job]
  BY <1>1 DEF Release, IInv, TypeOK, Job
<1>6. inventory' \in [Resources -> ResourceStatus]
  BY DEF RefuseClaim, RecordAnswer, IInv, TypeOK, ResourceStatus
<1> QED BY <1>1, <1>2, <1>4, <1>5, <1>6 DEF IInv, TypeOK, Touches, settings

\* Administration and discovery change neither rows nor jobs.
LEMMA AdministrationPreserves ==
  ASSUME IInv, Administration
  PROVE  IInv'
<1> USE DEF IInv
<1>1. UNCHANGED <<op, worker, submitted, onTheWay>>
  BY DEF Administration, ChangeConnection, ChangeModule, ChangeMaintenancePolicy,
         WindowCloses, WindowOpens, SaveResourcePolicy, IndexOwnership,
         ChangeAccess, DiscoveryObserves
<1>2. SubmissionInv'
  BY <1>1 DEF SubmissionInv, JobsAreDispatched, ObserversComeLater,
     OneSubmissionJob, NotSentBefore, OnTheWayIsLast, SentAtMostOnce, UnsentHasNothingSent,
     KeysAreUnique, OneBlockingRow, LeaseMeansDispatching, Submitting
<1>3. TypeOK'
  <2>1. ASSUME NEW b \in BOOLEAN,
               ChangeConnection(b) \/ ChangeModule(b) \/ ChangeMaintenancePolicy(b)
        PROVE  TypeOK'
    <3>1. CASE ChangeConnection(b)
      BY <3>1 DEF ChangeConnection, Drift, TypeOK, Review, Revision
    <3>2. CASE ChangeModule(b)
      BY <3>2 DEF ChangeModule, Drift, TypeOK, Review, Revision
    <3>3. CASE ChangeMaintenancePolicy(b)
      <4>1. /\ maintenance \in [revision: Revision, window: Revision, open: BOOLEAN]
            /\ maintenance.revision + 1 \in Revision
        BY <3>3 DEF ChangeMaintenancePolicy, TypeOK, Revision
      <4>2. maintenance' \in [revision: Revision, window: Revision, open: BOOLEAN]
        BY <3>3, <4>1 DEF ChangeMaintenancePolicy
      <4> QED BY <3>3, <4>2 DEF ChangeMaintenancePolicy, Drift, TypeOK, Review
    <3> QED BY <2>1, <3>1, <3>2, <3>3
  <2>2. CASE WindowCloses \/ WindowOpens
    <3>1. /\ maintenance \in [revision: Revision, window: Revision, open: BOOLEAN]
          /\ WindowOpens => maintenance.window + 1 \in Revision
      BY <2>2 DEF WindowOpens, TypeOK, Revision
    <3>2. CASE WindowCloses
      <4>1. maintenance' \in [revision: Revision, window: Revision, open: BOOLEAN]
        BY <3>1, <3>2 DEF WindowCloses
      <4> QED BY <3>2, <4>1 DEF WindowCloses, Drift, TypeOK, Review
    <3>3. CASE WindowOpens
      <4>1. maintenance' \in [revision: Revision, window: Revision, open: BOOLEAN]
        BY <3>1, <3>3 DEF WindowOpens
      <4> QED BY <3>3, <4>1 DEF WindowOpens, TypeOK
    <3> QED BY <2>2, <3>2, <3>3
  <2>3. ASSUME NEW actions \in SUBSET Actions, SaveResourcePolicy(actions)
        PROVE  TypeOK'
    BY <2>3 DEF SaveResourcePolicy, TypeOK
  <2>4. ASSUME NEW r \in Resources, IndexOwnership(r)
        PROVE  TypeOK'
    BY <2>4 DEF IndexOwnership, TypeOK
  <2>5. ASSUME NEW u \in Users, NEW p \in Permissions, ChangeAccess(u, p)
        PROVE  TypeOK'
    BY <2>5 DEF ChangeAccess, TypeOK
  <2>6. ASSUME NEW r \in Resources, NEW s \in ResourceStatus, DiscoveryObserves(r, s)
        PROVE  TypeOK'
    BY <2>6 DEF DiscoveryObserves, TypeOK, settings
  <2> QED BY <2>1, <2>2, <2>3, <2>4, <2>5, <2>6 DEF Administration
<1> QED BY <1>2, <1>3

-----------------------------------------------------------------------------
(* The inductive invariant holds, and with it the safety properties.       *)

\* The invariant holds before the first request.
LEMMA InitEstablishes == Init => IInv
<1> SUFFICES ASSUME Init PROVE IInv OBVIOUS
<1>1. NoRow \in Row
  BY DEF NoRow, Row, Status, Timer, ResourceStatus, Revision
<1>2. TypeOK
  BY <1>1 DEF Init, TypeOK, Job, Revision, ResourceStatus
<1>3. /\ \A o \in Ops : op[o].status = "absent" /\ submitted[o] = 0
      /\ onTheWay = {}
      /\ \A w \in Workers : worker[w].pc = "idle" /\ worker[w].phase = "none"
  BY DEF Init, NoRow, Idle
<1>4. SubmissionInv
  BY <1>3 DEF SubmissionInv, JobsAreDispatched, ObserversComeLater,
     OneSubmissionJob, NotSentBefore, OnTheWayIsLast, SentAtMostOnce, UnsentHasNothingSent,
     KeysAreUnique, OneBlockingRow, LeaseMeansDispatching, Submitting, Blocking, Pending
<1> QED BY <1>2, <1>4 DEF IInv

\* Every step of the coordinator, and every stutter, keeps the invariant.
LEMMA StepPreserves == IInv /\ [Next]_vars => IInv'
<1> SUFFICES ASSUME IInv, [Next]_vars PROVE IInv' OBVIOUS
<1>1. CASE UNCHANGED vars
  BY <1>1 DEF vars, IInv, TypeOK, SubmissionInv, JobsAreDispatched,
     ObserversComeLater, OneSubmissionJob, NotSentBefore, OnTheWayIsLast, SentAtMostOnce,
     UnsentHasNothingSent, KeysAreUnique, OneBlockingRow, LeaseMeansDispatching,
     Submitting
<1>2. CASE Handlers
  BY <1>2, RequestsPreserve, ReviewsPreserve, DecisionsPreserve DEF Handlers, Decision
<1>3. ASSUME NEW o \in Ops,
             \/ ExpirePending(o) \/ ExpireDispatch(o)
             \/ \E w \in Workers : ClaimOperation(w, o)
      PROVE  IInv'
  BY <1>3, DecisionsPreserve, ClaimPreserves DEF Decision
<1>4. ASSUME NEW w \in Workers,
             \/ DropClaim(w) \/ RefuseClaim(w) \/ CallProvider(w)
             \/ ProviderReceives(w) \/ DropAnswer(w) \/ RecordAnswer(w) \/ Crash(w)
      PROVE  IInv'
  <2>1. CASE DropClaim(w) \/ DropAnswer(w) \/ Crash(w)
    <3>1. /\ Release(w) /\ UNCHANGED <<op, submitted, inventory, settings, drifted>>
          /\ GivesUp(w) \/ UNCHANGED onTheWay
      BY <2>1 DEF DropClaim, DropAnswer, Crash, rowVars
    <3>2. SubmissionInv' /\ onTheWay' \subseteq Ops BY <3>1, ReleasePreserves
    <3>3. TypeOK' BY <3>1, <3>2 DEF Release, settings, IInv, TypeOK, Job
    <3> QED BY <3>2, <3>3 DEF IInv
  <2> QED BY <1>4, <2>1, CallPreserves, OutcomesPreserve
<1>5. CASE Time BY <1>5, TimePreserves, ReviewsPreserve DEF Time
<1>6. CASE Administration BY <1>6, AdministrationPreserves
<1>7. CASE Provider BY <1>7, LateArrivalPreserves DEF Provider
<1> QED BY <1>1, <1>2, <1>3, <1>4, <1>5, <1>6, <1>7 DEF Next, Tick, RunOperation

\* The inductive invariant holds in every reachable state.
THEOREM InductiveInvariant == Spec => []IInv
BY InitEstablishes, StepPreserves, PTL DEF Spec

\* Only the statuses of the operations table's CHECK constraint are stored,
\* and every other variable keeps its type.
THEOREM TypeCorrect == Spec => []TypeOK
<1>1. IInv => TypeOK BY DEF IInv
<1> QED BY <1>1, InductiveInvariant, PTL

\* A request key causes at most one change at the provider, whatever is
\* retried, lost, reconciled or delayed.
THEOREM SubmitsOnce == Spec => []KeySubmitsOnce
<1>1. IInv => KeySubmitsOnce
  BY DEF IInv, SubmissionInv, KeySubmitsOnce, SentAtMostOnce,
     UnsentHasNothingSent, Unsent, KeysAreUnique
<1> QED BY <1>1, InductiveInvariant, PTL

\* Withdrawn and pending requests have not been sent and never will be by a
\* worker that is still out there.
THEOREM UnsentStaysUnsent == Spec => []UnsentIsUnsent
<1>1. IInv => UnsentIsUnsent
  <2> SUFFICES ASSUME IInv, NEW o \in Ops, op[o].status \in Unsent
               PROVE  /\ submitted[o] = 0 /\ o \notin onTheWay
                      /\ \A w \in Workers : worker[w].op = o =>
                           worker[w].pc \notin {"calling", "sent"}
    BY DEF UnsentIsUnsent, Unsent, Withdrawn
  <2> QED BY DEF IInv, SubmissionInv, UnsentHasNothingSent, JobsAreDispatched,
              OnTheWayIsLast
<1> QED BY <1>1, InductiveInvariant, PTL

\* The lease of a dispatching row keeps every other submission of the resource
\* away from it.
THEOREM LeaseFences == Spec => []LeaseFencesSubmission
<1>1. IInv => LeaseFencesSubmission
  <2> SUFFICES ASSUME IInv, NEW w \in Workers,
                      Submitting(w), op[worker[w].op].lease = w
               PROVE  LET o == worker[w].op IN
                      /\ op[o].status = "dispatching"
                      /\ \A p \in Ops \ {o} :
                           op[p].resource = op[o].resource => op[p].status \notin Blocking
                      /\ \A v \in Workers \ {w} :
                           LET p == worker[v].op IN
                           Submitting(v) /\ op[p].resource = op[o].resource =>
                             p # o /\ op[p].lease # v
    BY DEF LeaseFencesSubmission
  <2> USE DEF IInv, SubmissionInv
  <2> DEFINE o == worker[w].op
  <2>1. \A v \in Workers : Submitting(v) => worker[v].op \in Ops
    BY DEF TypeOK, Job, Idle, Submitting
  <2>2. op[o].status = "dispatching" BY DEF LeaseMeansDispatching
  <2>3. \A p \in Ops \ {o} :
          op[p].resource = op[o].resource => op[p].status \notin Blocking
    BY <2>1, <2>2 DEF OneBlockingRow, Blocking
  <2>4. ASSUME NEW v \in Workers \ {w}, Submitting(v),
               op[worker[v].op].resource = op[o].resource
        PROVE  worker[v].op # o /\ op[worker[v].op].lease # v
    <3>1. worker[v].op # o BY <2>4 DEF OneSubmissionJob
    <3>2. op[worker[v].op].status \notin Blocking BY <2>1, <2>3, <2>4, <3>1
    <3> QED BY <2>4, <3>1, <3>2 DEF LeaseMeansDispatching, Blocking
  <2> QED BY <2>2, <2>3, <2>4
<1> QED BY <1>1, InductiveInvariant, PTL

-----------------------------------------------------------------------------
(* What is submitted is what was reviewed: facts that have moved on differ *)
(* from the recorded ones for ever, as revisions and windows only grow.    *)

Unsubmitted == Pending \cup {"dispatching"}

\* The settings a request or preview recorded are present or past ones.
Recorded(row) ==
  /\ row.connection <= connection.revision /\ row.module <= module.revision
  /\ row.maintenance <= maintenance.revision /\ row.window <= maintenance.window

\* The settings tell that they are not the recorded ones.
Moved(row, exception) ==
  \/ row.connection < connection.revision \/ row.module < module.revision
  \/ row.maintenance < maintenance.revision
  \/ ~exception /\ (row.window < maintenance.window \/ ~maintenance.open)

DriftShows ==
  /\ \A o \in Ops :
       /\ op[o].status \in Unsubmitted =>
            /\ Recorded(op[o])
            /\ o \in drifted => Moved(op[o], op[o].exception)
       /\ op[o].status = "absent" => o \notin drifted
  /\ \A v \in reviews :
       Recorded(v) /\ (v.key \in drifted => Moved(v, FALSE))

\* Nothing that is gone is requested to be deleted.
DeletionsExist ==
  \A o \in Ops :
    op[o].status \in Unsubmitted /\ op[o].action = "delete" => op[o].expected # "deleted"

ReviewedInv == DriftShows /\ DeletionsExist

\* A rewritten row keeps its facts, and none enters the queue this way.
LEMMA TouchKeepsFacts ==
  ASSUME IInv, ReviewedInv, NEW o \in Ops, NEW status, NEW lease,
         Touches(o, status, lease), UNCHANGED <<settings, drifted>>,
         status # "absent",
         status \in Unsubmitted => op[o].status \in Unsubmitted
  PROVE  ReviewedInv'
BY DEF ReviewedInv, DriftShows, DeletionsExist, Touches, Recorded, Moved, settings

\* A request records the settings of the moment.
LEMMA RequestKeepsFacts ==
  ASSUME IInv, ReviewedInv, NEW o \in Ops, NEW u \in Users, NEW k \in Keys,
         NEW r \in Resources, NEW a \in Actions, NEW e \in BOOLEAN,
         NewRequest(o, u, k, r, a, e),
         UNCHANGED drifted, o \notin drifted
  PROVE  ReviewedInv'
<1>1. /\ UNCHANGED settings /\ drifted' = drifted
      /\ PowerAllowed(a, inventory[r])
      /\ op'[o] = [NoRow EXCEPT
          !.status = IF ApprovalRequired(a, e) THEN "awaiting_approval" ELSE "queued",
          !.resource = r, !.action = a, !.expected = inventory[r],
          !.requester = u, !.key = k, !.exception = e,
          !.connection = connection.revision, !.module = module.revision,
          !.maintenance = maintenance.revision, !.window = maintenance.window]
      /\ \A p \in Ops \ {o} : op'[p] = op[p]
  BY DEF NewRequest, IInv, TypeOK
<1>2. /\ op'[o].status \in Pending
      /\ op'[o].action = a /\ op'[o].expected = inventory[r]
      /\ op'[o].connection = connection.revision /\ op'[o].module = module.revision
      /\ op'[o].maintenance = maintenance.revision
      /\ op'[o].window = maintenance.window
  BY <1>1 DEF NoRow, Pending
<1>3. op'[o].status # "absent" BY <1>2 DEF Pending
<1>4. /\ connection.revision \in Nat /\ module.revision \in Nat
      /\ maintenance.revision \in Nat /\ maintenance.window \in Nat
  BY DEF IInv, TypeOK, Revision
<1>5. DriftShows'
  <2>1. UNCHANGED <<connection, module, maintenance, reviews>>
    BY <1>1 DEF settings
  <2>2. ASSUME NEW p \in Ops \ {o}
        PROVE  /\ op'[p].status \in Unsubmitted =>
                    /\ Recorded(op[p])'
                    /\ p \in drifted' => Moved(op[p], op[p].exception)'
               /\ op'[p].status = "absent" => p \notin drifted'
    BY <1>1, <2>1 DEF ReviewedInv, DriftShows, Recorded, Moved
  <2>3. Recorded(op[o])'
    BY <1>2, <1>4, <2>1 DEF Recorded
  <2>4. \A v \in reviews' :
          Recorded(v)' /\ (v.key \in drifted' => Moved(v, FALSE)')
    BY <1>1, <2>1 DEF ReviewedInv, DriftShows, Recorded, Moved
  <2> QED BY <1>3, <2>1, <2>2, <2>3, <2>4 DEF DriftShows
<1>6. DeletionsExist'
  BY <1>1, <1>2 DEF ReviewedInv, DeletionsExist, PowerAllowed
<1> QED BY <1>5, <1>6 DEF ReviewedInv

\* Changing a setting moves every unsubmitted request and every preview on.
LEMMA SettingsKeepFacts ==
  ASSUME IInv, ReviewedInv, Administration
  PROVE  ReviewedInv'
<1> USE DEF ReviewedInv
<1>1. op' = op /\ reviews' = reviews
  BY DEF Administration, ChangeConnection, ChangeModule, ChangeMaintenancePolicy,
         WindowCloses, WindowOpens, SaveResourcePolicy, IndexOwnership,
         ChangeAccess, DiscoveryObserves, settings
<1>2. DeletionsExist' BY <1>1 DEF DeletionsExist
<1>3. /\ connection.revision \in Nat /\ module.revision \in Nat
      /\ maintenance.revision \in Nat /\ maintenance.window \in Nat
      /\ \A o \in Ops : op[o] \in Row
      /\ \A v \in reviews : v \in Review
      /\ maintenance \in [revision: Revision, window: Revision, open: BOOLEAN]
  BY DEF IInv, TypeOK, Revision
<1>4. /\ \A o \in Ops : /\ op[o].connection \in Nat /\ op[o].module \in Nat
                        /\ op[o].maintenance \in Nat /\ op[o].window \in Nat
                        /\ op[o].exception \in BOOLEAN
      /\ \A v \in reviews : /\ v.connection \in Nat /\ v.module \in Nat
                            /\ v.maintenance \in Nat /\ v.window \in Nat
                            /\ v.key \in Keys
  BY <1>3 DEF Row, Review, Revision
<1>5. ASSUME NEW b \in BOOLEAN, ChangeConnection(b) PROVE DriftShows'
  <2>1. /\ connection'.revision = connection.revision + 1
        /\ UNCHANGED <<module, maintenance>> /\ Drift(Ops)
    BY <1>5 DEF ChangeConnection
  <2> QED BY <1>1, <1>3, <1>4, <2>1
    DEF DriftShows, Recorded, Moved, Drift, Unsubmitted, Pending
<1>6. ASSUME NEW b \in BOOLEAN, ChangeModule(b) PROVE DriftShows'
  <2>1. /\ module'.revision = module.revision + 1
        /\ UNCHANGED <<connection, maintenance>> /\ Drift(Ops)
    BY <1>6 DEF ChangeModule
  <2> QED BY <1>1, <1>3, <1>4, <2>1
    DEF DriftShows, Recorded, Moved, Drift, Unsubmitted, Pending
<1>7. ASSUME NEW b \in BOOLEAN, ChangeMaintenancePolicy(b) PROVE DriftShows'
  <2>1. /\ maintenance'.revision = maintenance.revision + 1
        /\ maintenance'.window = maintenance.window
        /\ UNCHANGED <<connection, module>> /\ Drift(Ops)
    BY <1>3, <1>7 DEF ChangeMaintenancePolicy
  <2> QED BY <1>1, <1>3, <1>4, <2>1
    DEF DriftShows, Recorded, Moved, Drift, Unsubmitted, Pending
<1>8. ASSUME WindowCloses PROVE DriftShows'
  <2>1. /\ maintenance'.revision = maintenance.revision
        /\ maintenance'.window = maintenance.window /\ ~maintenance'.open
        /\ UNCHANGED <<connection, module>> /\ Drift({o \in Ops : ~op[o].exception})
    BY <1>3, <1>8 DEF WindowCloses
  <2> QED BY <1>1, <1>3, <1>4, <2>1
    DEF DriftShows, Recorded, Moved, Drift, Unsubmitted, Pending
<1>9. ASSUME WindowOpens PROVE DriftShows'
  <2>1. /\ maintenance'.revision = maintenance.revision
        /\ maintenance'.window = maintenance.window + 1
        /\ UNCHANGED <<connection, module, drifted>>
    BY <1>3, <1>9 DEF WindowOpens
  <2> QED BY <1>1, <1>3, <1>4, <2>1 DEF DriftShows, Recorded, Moved
<1>10. ASSUME \/ \E actions \in SUBSET Actions : SaveResourcePolicy(actions)
              \/ \E r \in Resources : IndexOwnership(r)
              \/ \E u \in Users, p \in Permissions : ChangeAccess(u, p)
              \/ \E r \in Resources, s \in ResourceStatus : DiscoveryObserves(r, s)
       PROVE  DriftShows'
  <2>1. UNCHANGED <<connection, module, maintenance, drifted>>
    BY <1>10 DEF SaveResourcePolicy, IndexOwnership, ChangeAccess,
       DiscoveryObserves, settings
  <2> QED BY <1>1, <2>1 DEF DriftShows, Recorded, Moved
<1> QED BY <1>2, <1>5, <1>6, <1>7, <1>8, <1>9, <1>10 DEF Administration

\* Previews record the settings of the moment, and lapse.
LEMMA PreviewsKeepFacts ==
  ASSUME IInv, ReviewedInv,
         \/ \E u \in Users, k \in Keys, r \in Resources, a \in Actions :
              PreviewBulkPower(u, k, r, a)
         \/ \E v \in reviews : ReviewLapses(v)
  PROVE  ReviewedInv'
<1> USE DEF ReviewedInv
<1>1. UNCHANGED <<op, connection, module, maintenance>> /\ drifted' \subseteq drifted
  BY DEF PreviewBulkPower, ReviewLapses
<1>2. DeletionsExist' BY <1>1 DEF DeletionsExist
<1>3. \A o \in Ops : /\ op'[o].status \in Unsubmitted =>
                          /\ Recorded(op[o])'
                          /\ o \in drifted' => Moved(op[o], op[o].exception)'
                     /\ op'[o].status = "absent" => o \notin drifted'
  BY <1>1 DEF DriftShows, Recorded, Moved
<1>4. \A v \in reviews : Recorded(v)' /\ (v.key \in drifted' => Moved(v, FALSE)')
  BY <1>1 DEF DriftShows, Recorded, Moved
<1>5. ASSUME NEW v \in reviews', v \notin reviews
      PROVE  Recorded(v)' /\ v.key \notin drifted'
  <2>1. PICK u \in Users, k \in Keys, r \in Resources, a \in Actions :
          PreviewBulkPower(u, k, r, a)
    BY <1>5 DEF ReviewLapses
  <2>2. /\ v.key = k /\ v.connection = connection.revision
        /\ v.module = module.revision /\ v.maintenance = maintenance.revision
        /\ v.window = maintenance.window
    BY <1>5, <2>1 DEF PreviewBulkPower
  <2>3. k \notin drifted' BY <2>1 DEF PreviewBulkPower
  <2>4. /\ connection.revision \in Nat /\ module.revision \in Nat
        /\ maintenance.revision \in Nat /\ maintenance.window \in Nat
    BY DEF IInv, TypeOK, Revision
  <2> QED BY <1>1, <2>2, <2>3, <2>4 DEF Recorded
<1> QED BY <1>2, <1>3, <1>4, <1>5 DEF DriftShows

\* No request starts its life with facts that have changed.
LEMMA RequestsKeepFacts ==
  ASSUME IInv, ReviewedInv, NEW o \in Ops,
         \/ \E u \in Users, k \in Keys, r \in Resources, a \in Actions,
              e \in Exceptions : RequestOperation(o, u, k, r, a, e)
         \/ \E v \in reviews : RequestBulkPower(o, v)
  PROVE  ReviewedInv'
<1>1. op[o].status = "absent" => o \notin drifted
  BY DEF ReviewedInv, DriftShows
<1>2. ASSUME NEW u \in Users, NEW k \in Keys, NEW r \in Resources,
             NEW a \in Actions, NEW e \in Exceptions,
             RequestOperation(o, u, k, r, a, e)
      PROVE  ReviewedInv'
  <2>1. NewRequest(o, u, k, r, a, e) /\ drifted' = drifted /\ op[o].status = "absent"
    BY <1>2 DEF RequestOperation, NewRequest
  <2> QED BY <1>1, <2>1, RequestKeepsFacts
<1>3. ASSUME NEW v \in reviews, RequestBulkPower(o, v)
      PROVE  ReviewedInv'
  <2>1. /\ v.user \in Users /\ v.key \in Keys /\ v.resource \in Resources
        /\ v.action \in Actions
        /\ v.connection \in Nat /\ v.module \in Nat /\ v.maintenance \in Nat
        /\ v.window \in Nat
    BY DEF IInv, TypeOK, Review, Revision
  <2>2. NewRequest(o, v.user, v.key, v.resource, v.action, FALSE) /\ ReviewStands(v)
    BY <1>3 DEF RequestBulkPower
  <2>3. maintenance.open /\ op[o].status = "absent" BY <2>2 DEF NewRequest
  <2>4. ~Moved(v, FALSE) BY <2>1, <2>2, <2>3 DEF ReviewStands, Moved
  <2>5. v.key \notin drifted BY <2>4 DEF ReviewedInv, DriftShows
  <2>6. drifted' = drifted BY <1>3, <2>5 DEF RequestBulkPower
  <2> QED BY <1>1, <2>1, <2>2, <2>3, <2>6, RequestKeepsFacts
<1> QED BY <1>2, <1>3

\* Every step keeps the recorded facts comparable with the present ones.
LEMMA StepKeepsFacts == IInv /\ ReviewedInv /\ [Next]_vars => ReviewedInv'
<1> SUFFICES ASSUME IInv, ReviewedInv, [Next]_vars PROVE ReviewedInv' OBVIOUS
<1>1. ASSUME UNCHANGED <<op, connection, module, maintenance, reviews, drifted>>
      PROVE  ReviewedInv'
  BY <1>1 DEF ReviewedInv, DriftShows, DeletionsExist, Recorded, Moved
<1>2. ASSUME NEW o \in Ops, NEW u, Decision(o, u)
      PROVE  ReviewedInv'
  <2>1. PICK s \in Status : Touches(o, s, op[o].lease) /\ DecisionMove(o, s)
    BY <1>2, DecisionEffect
  <2>2. s # "absent" /\ (s \in Unsubmitted => op[o].status \in Unsubmitted)
    BY <2>1 DEF DecisionMove, Unsubmitted, Pending, Withdrawn
  <2>3. UNCHANGED <<settings, drifted>> BY <1>2, DecisionEffect
  <2> QED BY <2>1, <2>2, <2>3, TouchKeepsFacts
<1>3. CASE Handlers
  BY <1>2, <1>3, RequestsKeepFacts, PreviewsKeepFacts DEF Handlers, Decision
<1>4. ASSUME NEW o \in Ops, NEW w \in Workers, ClaimOperation(w, o)
      PROVE  ReviewedInv'
  <2>1. op[o].status \in {"queued", "observing"} /\ UNCHANGED <<settings, drifted>>
    BY <1>4 DEF ClaimOperation
  <2>2. Touches(o, IF op[o].status = "queued" THEN "dispatching" ELSE op[o].status, w)
    BY <1>4, ClaimTouches
  <2>3. CASE op[o].status = "queued"
    <3>1. Touches(o, "dispatching", w) BY <2>2, <2>3
    <3>2. op[o].status \in Unsubmitted BY <2>3 DEF Unsubmitted, Pending
    <3> QED BY <2>1, <3>1, <3>2, TouchKeepsFacts
  <2>4. CASE op[o].status = "observing"
    <3>1. Touches(o, "observing", w) BY <2>2, <2>4
    <3>2. "observing" \notin Unsubmitted BY DEF Unsubmitted, Pending
    <3> QED BY <2>1, <3>1, <3>2, TouchKeepsFacts
  <2> QED BY <2>1, <2>3, <2>4
<1>5. CASE Tick
  BY <1>2, <1>4, <1>5 DEF Tick, Decision
<1>6. ASSUME NEW w \in Workers,
             \/ DropClaim(w) \/ RefuseClaim(w) \/ CallProvider(w)
             \/ ProviderReceives(w) \/ DropAnswer(w) \/ RecordAnswer(w) \/ Crash(w)
      PROVE  ReviewedInv'
  <2>1. CASE \/ DropClaim(w) \/ CallProvider(w) \/ ProviderReceives(w)
             \/ DropAnswer(w) \/ Crash(w)
    BY <1>1, <2>1 DEF DropClaim, CallProvider, ProviderReceives, DropAnswer,
       Crash, rowVars, settings
  <2>2. CASE RefuseClaim(w) \/ RecordAnswer(w)
    <3> DEFINE o == worker[w].op
    <3>1. o \in Ops /\ UNCHANGED <<settings, drifted>> BY <2>2, OutcomeEffect
    <3>2. PICK s \in {"canceled", "failed", "uncertain", "observing", "succeeded"} :
            Touches(o, s, IF s = "observing" THEN Nobody ELSE op[o].lease)
      BY <2>2, OutcomeEffect
    <3>3. s # "absent" /\ s \notin Unsubmitted
      BY DEF Unsubmitted, Pending
    <3> HIDE DEF o
    <3> QED BY <3>1, <3>2, <3>3, TouchKeepsFacts
  <2> QED BY <1>6, <2>1, <2>2
<1>7. ASSUME NEW o \in Ops,
             \/ LeaseLapses(o) \/ RequestExpires(o)
             \/ ApprovalLapses(o) \/ DeadlinePasses(o)
      PROVE  ReviewedInv'
  <2>1. UNCHANGED <<settings, drifted>> /\ op[o].status # "absent"
    BY <1>7 DEF LeaseLapses, RequestExpires, ApprovalLapses, DeadlinePasses,
       Blocking, Pending
  <2>2. PICK lease \in {op[o].lease, Nobody} : Touches(o, op[o].status, lease)
    BY <1>7, TimeTouches
  <2> QED BY <2>1, <2>2, TouchKeepsFacts
<1>8. CASE Time BY <1>7, <1>8, PreviewsKeepFacts DEF Time
<1>9. CASE UNCHANGED vars BY <1>1, <1>9 DEF vars
<1>10. CASE Provider BY <1>1, <1>10 DEF Provider, ArrivesLate, settings
<1> QED BY <1>3, <1>5, <1>6, <1>8, <1>9, <1>10, SettingsKeepFacts DEF Next, RunOperation

\* Only CallProvider starts a submission.
LEMMA StartsByCalling ==
  ASSUME [Next]_vars, IInv, NEW w \in Workers, StartsSubmission(w)
  PROVE  CallProvider(w)
<1>1. worker[w].pc = "claimed" /\ worker'[w].pc = "calling" BY DEF StartsSubmission
<1>2. worker \in [Workers -> Job] /\ Idle.pc = "idle" BY DEF IInv, TypeOK, Idle
<1>3. worker' # worker BY <1>1
<1>4. CASE Handlers \/ Time \/ Administration
  <2>1. CASE Handlers
    <3>1. PICK o \in Ops, u \in Users :
            \/ \E k \in Keys, r \in Resources, a \in Actions, e \in Exceptions :
                 RequestOperation(o, u, k, r, a, e) \/ PreviewBulkPower(u, k, r, a)
            \/ \E v \in reviews : RequestBulkPower(o, v)
            \/ Decision(o, u)
      BY <2>1 DEF Handlers, Decision
    <3>2. ASSUME NEW k, NEW r, NEW a, NEW e,
                 RequestOperation(o, u, k, r, a, e) \/ PreviewBulkPower(u, k, r, a)
          PROVE  worker' = worker
      BY <3>2 DEF RequestOperation, NewRequest, PreviewBulkPower
    <3>3. ASSUME NEW v \in reviews, RequestBulkPower(o, v)
          PROVE  worker' = worker
      BY <3>3 DEF RequestBulkPower, NewRequest
    <3>4. Decision(o, u) => worker' = worker BY DecisionEffect
    <3> QED BY <1>3, <3>1, <3>2, <3>3, <3>4
  <2>2. CASE Time
    BY <1>3, <2>2 DEF Time, LeaseLapses, RequestExpires, ApprovalLapses,
       DeadlinePasses, ReviewLapses
  <2>3. CASE Administration
    BY <1>3, <2>3 DEF Administration, ChangeConnection, ChangeModule,
       ChangeMaintenancePolicy, WindowCloses, WindowOpens, SaveResourcePolicy,
       IndexOwnership, ChangeAccess, DiscoveryObserves
  <2> QED BY <1>4, <2>1, <2>2, <2>3
<1>5. CASE Tick
  BY <1>1, <1>2, <1>5 DEF Tick, ExpirePending, ExpireDispatch, ClaimOperation
<1>6. ASSUME NEW v \in Workers,
             \/ DropClaim(v) \/ RefuseClaim(v) \/ DropAnswer(v)
             \/ RecordAnswer(v) \/ Crash(v)
      PROVE  CallProvider(w)
  <2>1. Release(v)
    BY <1>6 DEF DropClaim, RefuseClaim, DropAnswer, RecordAnswer, Crash
  <2> QED BY <1>1, <1>2, <2>1 DEF Release
<1>7. ASSUME NEW v \in Workers, CallProvider(v) \/ ProviderReceives(v)
      PROVE  CallProvider(w)
  <2>1. v = w
    BY <1>1, <1>2, <1>7 DEF CallProvider, ProviderReceives
  <2> QED BY <1>1, <1>7, <2>1 DEF ProviderReceives
<1>8. CASE Provider \/ UNCHANGED vars
  BY <1>3, <1>8 DEF Provider, ArrivesLate, vars
<1> QED BY <1>4, <1>5, <1>6, <1>7, <1>8 DEF Next, RunOperation

\* A submission starts for a dispatching row all the checks have passed.
LEMMA StartsPermitted ==
  ASSUME [Next]_vars, IInv, NEW w \in Workers, StartsSubmission(w)
  PROVE  /\ worker[w].op \in Ops /\ op[worker[w].op].status = "dispatching"
         /\ Observable(op[worker[w].op]) /\ Submittable(op[worker[w].op])
<1>1. CallProvider(w) /\ worker[w].phase = "submit"
  BY StartsByCalling DEF StartsSubmission
<1>2. worker[w].op \in Ops
  BY <1>1 DEF CallProvider, IInv, TypeOK, Job, Idle
<1> QED BY <1>1, <1>2 DEF CallProvider, Current, StatusOf, Permitted

\* The credential, the module, the maintenance policy and the window under
\* which a change is sent are those of its request, and of its preview.
THEOREM SubmitsWhatWasReviewed == Spec => SubmitsOnlyReviewedFacts
<1>1. Init => ReviewedInv
  BY DEF Init, ReviewedInv, DriftShows, DeletionsExist, NoRow, Unsubmitted, Pending
<1>2. IInv /\ ReviewedInv /\ [Next]_vars =>
        [\A w \in Workers : StartsSubmission(w) => worker[w].op \notin drifted]_vars
  <2> SUFFICES ASSUME IInv, ReviewedInv, [Next]_vars, NEW w \in Workers,
                      StartsSubmission(w)
               PROVE  worker[w].op \notin drifted
    OBVIOUS
  <2> DEFINE row == op[worker[w].op]
  <2>1. worker[w].op \in Ops /\ row.status \in Unsubmitted /\ Submittable(row)
        /\ Observable(row)
    BY StartsPermitted DEF Unsubmitted
  <2>2. /\ row.connection = connection.revision /\ row.module = module.revision
        /\ row.maintenance = maintenance.revision
        /\ row.exception \/ (maintenance.open /\ maintenance.window = row.window)
    BY <2>1 DEF Submittable, Observable, ConnectionUnchanged, ModuleAllowed,
       MaintenanceAllows
  <2>3. row.connection \in Nat /\ row.module \in Nat /\ row.maintenance \in Nat
        /\ row.window \in Nat
    BY <2>1 DEF IInv, TypeOK, Row, Revision
  <2>4. ~Moved(row, row.exception) BY <2>2, <2>3 DEF Moved
  <2> QED BY <2>1, <2>4 DEF ReviewedInv, DriftShows
<1> QED BY <1>1, <1>2, StepKeepsFacts, InductiveInvariant, PTL
    DEF Spec, SubmitsOnlyReviewedFacts

\* A change is sent under the rules of that moment: a standing approval where
\* one is needed, two people's authority and a free resource for a deletion.
THEOREM RulesGovern == Spec => CurrentRulesGovern
<1> DEFINE Governed(w) ==
      LET row == op[worker[w].op] IN
      /\ row.action \in approvalActions =>
           \E u \in Users \ {row.requester} :
             /\ row.approver = u /\ row.approval = "open"
             /\ {"approve"} \cup Authority(row.action) \subseteq grants[u]
      /\ row.action = "delete" =>
           /\ "authority" \in grants[row.requester]
           /\ row.resource \notin managed
           /\ inventory[row.resource] # "deleted"
<1>1. Init => ReviewedInv
  BY DEF Init, ReviewedInv, DriftShows, DeletionsExist, NoRow, Unsubmitted, Pending
<1>2. IInv /\ ReviewedInv /\ [Next]_vars =>
        [\A w \in Workers : StartsSubmission(w) => Governed(w)]_vars
  <2> SUFFICES ASSUME IInv, ReviewedInv, [Next]_vars, NEW w \in Workers,
                      StartsSubmission(w)
               PROVE  Governed(w)
    OBVIOUS
  <2> DEFINE row == op[worker[w].op]
  <2>1. worker[w].op \in Ops /\ row.status \in Unsubmitted /\ Submittable(row)
        /\ Observable(row)
    BY StartsPermitted DEF Unsubmitted
  <2>2. row.action \in approvalActions => ApprovalStands(row)
    BY <2>1 DEF Submittable, ApprovalRequired
  <2>3. row.approver # Nobody => Holds(row.approver, Authority(row.action))
    BY <2>1 DEF Observable
  <2>4. ASSUME row.action \in approvalActions
        PROVE  /\ row.approver \in Users \ {row.requester} /\ row.approval = "open"
               /\ {"approve"} \cup Authority(row.action) \subseteq grants[row.approver]
    BY <2>2, <2>3, <2>4 DEF ApprovalStands, Holds
  <2>5. ASSUME row.action = "delete"
        PROVE  /\ "authority" \in grants[row.requester]
               /\ row.resource \notin managed
               /\ inventory[row.resource] # "deleted"
    <3>1. Holds(row.requester, {"request"} \cup Authority("delete"))
      BY <2>1, <2>5 DEF Observable
    <3>2. OwnershipGuard(row.resource, "delete") /\ inventory[row.resource] = row.expected
      BY <2>1, <2>5 DEF Submittable
    <3>3. row.expected # "deleted"
      BY <2>1, <2>5 DEF ReviewedInv, DeletionsExist
    <3> QED BY <3>1, <3>2, <3>3 DEF Holds, Authority, OwnershipGuard
  <2> QED BY <2>4, <2>5
<1> QED BY <1>1, <1>2, StepKeepsFacts, InductiveInvariant, PTL
    DEF Spec, CurrentRulesGovern

-----------------------------------------------------------------------------
(* Operations implements OperationLifecycle under the mapping Lifecycle    *)
(* defines: every step of the coordinator, its replicas, the clocks and    *)
(* the provider is one abstract step or none.                              *)

PhaseOfStatus(status) == PhaseOf([status |-> status])

Step == [Lifecycle!Next]_(Lifecycle!vars)

\* A rewritten row moves in the abstract specification.
LEMMA TouchMoves ==
  ASSUME NEW o \in Ops, NEW status, NEW lease,
         Touches(o, status, lease), UNCHANGED submitted
  PROVE  Lifecycle!Move(o, PhaseOfStatus(status))
<1>1. PhaseOf(op'[o]) = PhaseOfStatus(status)
  BY DEF Touches, PhaseOfStatus, PhaseOf
<1>2. \A p \in Ops \ {o} : PhaseOf(op'[p]) = PhaseOf(op[p])
  BY DEF Touches, PhaseOf
<1>3. [p \in Ops |-> PhaseOf(op'[p])] =
        [[p \in Ops |-> PhaseOf(op[p])] EXCEPT ![o] = PhaseOfStatus(status)]
  BY <1>1, <1>2
<1>4. [p \in Ops |-> op'[p].resource] = [p \in Ops |-> op[p].resource]
  BY DEF Touches
<1> QED BY <1>3, <1>4 DEF Lifecycle!Move

\* A rewritten row that keeps its abstract phase makes no abstract step.
LEMMA TouchStutters ==
  ASSUME NEW o \in Ops, NEW status, NEW lease,
         Touches(o, status, lease), UNCHANGED submitted,
         PhaseOfStatus(status) = PhaseOf(op[o])
  PROVE  Step
<1>1. \A p \in Ops : PhaseOf(op'[p]) = PhaseOf(op[p])
  BY DEF Touches, PhaseOfStatus, PhaseOf
<1>2. [p \in Ops |-> PhaseOf(op'[p])] = [p \in Ops |-> PhaseOf(op[p])]
  BY <1>1
<1>3. [p \in Ops |-> op'[p].resource] = [p \in Ops |-> op[p].resource]
  BY DEF Touches
<1> QED BY <1>2, <1>3 DEF Step, Lifecycle!vars

\* Steps that leave rows and the provider alone make no abstract step.
LEMMA Stutters ==
  ASSUME UNCHANGED <<op, submitted>>
  PROVE  Step
BY DEF Step, Lifecycle!vars

\* A new request opens its resource.
LEMMA RequestOpens ==
  ASSUME IInv, NEW o \in Ops, NEW u \in Users, NEW k \in Keys, NEW r \in Resources,
         NEW a \in Actions, NEW e \in BOOLEAN, NewRequest(o, u, k, r, a, e)
  PROVE  Step
<1>1. /\ op \in [Ops -> Row]
      /\ op[o].status = "absent" /\ ~Busy(r) /\ submitted' = submitted
  BY DEF IInv, TypeOK, NewRequest
<1>2. PICK row \in Row : /\ op' = [op EXCEPT ![o] = row]
                         /\ row.status \in Pending /\ row.resource = r
  BY RequestEffect
<1>3. /\ op'[o] = row
      /\ \A p \in Ops \ {o} : op'[p] = op[p]
  BY <1>1, <1>2
<1>4. /\ PhaseOf(op[o]) = "absent" /\ PhaseOf(op'[o]) = "pending"
      /\ op'[o].resource = r
  BY <1>1, <1>2, <1>3 DEF PhaseOf, Pending
<1>5. \A p \in Ops \ {o} : /\ PhaseOf(op'[p]) = PhaseOf(op[p])
                           /\ op'[p].resource = op[p].resource
  BY <1>3
<1>6. ASSUME NEW p \in Ops, op[p].resource = r
      PROVE  PhaseOf(op[p]) \notin Lifecycle!Unsettled
  <2>1. op[p].status \in Status \ Blocking
    BY <1>1, <1>6 DEF Busy, Row
  <2> QED BY <2>1 DEF Lifecycle!Unsettled, PhaseOf, Status, Settled, Blocking, Pending
<1>7. [p \in Ops |-> PhaseOf(op'[p])] =
        [[p \in Ops |-> PhaseOf(op[p])] EXCEPT ![o] = "pending"]
  BY <1>4, <1>5
<1>8. [p \in Ops |-> op'[p].resource] =
        [[p \in Ops |-> op[p].resource] EXCEPT ![o] = r]
  BY <1>4, <1>5
<1>9. Lifecycle!Open(o, r)
  BY <1>1, <1>4, <1>6, <1>7, <1>8 DEF Lifecycle!Open
<1> QED BY <1>9 DEF Step, Lifecycle!Next

\* Reviews, manual decisions and sweeps.
LEMMA DecisionsMove ==
  ASSUME IInv, NEW o \in Ops, NEW u, Decision(o, u)
  PROVE  Step
<1>1. UNCHANGED submitted BY DecisionEffect
<1>2. PICK s \in Status : Touches(o, s, op[o].lease) /\ DecisionMove(o, s)
  BY DecisionEffect
<1>3. Lifecycle!Move(o, PhaseOfStatus(s)) BY <1>1, <1>2, TouchMoves
<1>4. CASE op[o].status = "awaiting_approval" /\ s = "queued"
  <2>1. PhaseOfStatus(s) = PhaseOf(op[o])
    BY <1>4 DEF PhaseOfStatus, PhaseOf, Pending
  <2> QED BY <1>1, <1>2, <2>1, TouchStutters
<1>5. CASE op[o].status \in Pending /\ s \in Withdrawn
  <2>1. PhaseOf(op[o]) = "pending" /\ PhaseOfStatus(s) = "withdrawn"
    BY <1>5 DEF PhaseOfStatus, PhaseOf, Pending, Withdrawn
  <2>2. submitted[o] = 0
    BY <1>5 DEF IInv, SubmissionInv, UnsentHasNothingSent, Unsent
  <2>3. Lifecycle!Withdraw(o) BY <1>3, <2>1, <2>2 DEF Lifecycle!Withdraw
  <2> QED BY <2>3 DEF Step, Lifecycle!Next
<1>6. CASE op[o].status = "uncertain" /\ s \in {"observing", "resolved"}
  <2>1. /\ PhaseOf(op[o]) = "uncertain"
        /\ PhaseOfStatus(s) = s
    BY <1>6 DEF PhaseOfStatus, PhaseOf, Pending
  <2>2. Lifecycle!Observe(o) \/ Lifecycle!Resolve(o)
    BY <1>3, <1>6, <2>1 DEF Lifecycle!Observe, Lifecycle!Resolve
  <2> QED BY <2>2 DEF Step, Lifecycle!Next
<1>7. CASE op[o].status = "dispatching" /\ s = "uncertain"
  <2>1. /\ PhaseOf(op[o]) = "dispatching"
        /\ PhaseOfStatus(s) = "uncertain"
    BY <1>7 DEF PhaseOfStatus, PhaseOf, Pending
  <2>2. Lifecycle!LoseTrack(o) BY <1>3, <2>1 DEF Lifecycle!LoseTrack
  <2> QED BY <2>2 DEF Step, Lifecycle!Next
<1> QED BY <1>2, <1>4, <1>5, <1>6, <1>7 DEF DecisionMove

\* A claim dispatches a queued row; claiming an observation changes nothing.
LEMMA ClaimMoves ==
  ASSUME IInv, NEW w \in Workers, NEW o \in Ops, ClaimOperation(w, o)
  PROVE  Step
<1>1. UNCHANGED submitted BY DEF ClaimOperation
<1>2. CASE op[o].status = "queued"
  <2>1. Lifecycle!Move(o, PhaseOfStatus("dispatching"))
    BY <1>1, <1>2, ClaimTouches, TouchMoves
  <2>2. PhaseOf(op[o]) = "pending" /\ PhaseOfStatus("dispatching") = "dispatching"
    BY <1>2 DEF PhaseOfStatus, PhaseOf, Pending
  <2>3. Lifecycle!Dispatch(o) BY <2>1, <2>2 DEF Lifecycle!Dispatch
  <2> QED BY <2>3 DEF Step, Lifecycle!Next
<1>3. CASE op[o].status = "observing"
  <2>1. PhaseOfStatus("observing") = PhaseOf(op[o])
    BY <1>3 DEF PhaseOfStatus, PhaseOf, Pending
  <2>2. Touches(o, "observing", w) BY <1>3, ClaimTouches
  <2> QED BY <1>1, <2>1, <2>2, TouchStutters
<1> QED BY <1>2, <1>3 DEF ClaimOperation

\* What a worker records ends the dispatch or the observation, or leaves the
\* operation in observation; it is canceled only if nothing was sent.
LEMMA OutcomesMove ==
  ASSUME IInv, NEW w \in Workers, RefuseClaim(w) \/ RecordAnswer(w)
  PROVE  Step
<1> DEFINE o == worker[w].op
<1>1. o \in Ops /\ worker[w].pc # "idle" /\ Current(w) /\ UNCHANGED submitted
  BY OutcomeEffect
<1>2. PICK s \in {"canceled", "failed", "uncertain", "observing", "succeeded"} :
        /\ Touches(o, s, IF s = "observing" THEN Nobody ELSE op[o].lease)
        /\ s = "canceled" => worker[w].phase = "submit" /\ worker[w].pc = "claimed"
  BY OutcomeEffect
<1>3. Lifecycle!Move(o, PhaseOfStatus(s)) BY <1>1, <1>2, TouchMoves
<1>4. PhaseOf(op[o]) = op[o].status /\ op[o].status \in {"dispatching", "observing"}
      /\ op[o].status = StatusOf(worker[w].phase)
  BY <1>1 DEF Current, StatusOf, PhaseOf, Pending
<1>5. CASE s = "canceled"
  <2>1. submitted[o] = 0 /\ op[o].status = "dispatching"
    BY <1>1, <1>2, <1>4, <1>5
    DEF IInv, SubmissionInv, NotSentBefore, Submitting, StatusOf
  <2>2. PhaseOfStatus(s) = "withdrawn" BY <1>5 DEF PhaseOfStatus, PhaseOf, Pending
  <2>3. Lifecycle!Withdraw(o) BY <1>1, <1>3, <1>4, <2>1, <2>2 DEF Lifecycle!Withdraw
  <2> QED BY <1>1, <2>3 DEF Step, Lifecycle!Next
<1>6. CASE s \in {"failed", "succeeded"}
  <2>1. PhaseOfStatus(s) = "finished" BY <1>6 DEF PhaseOfStatus, PhaseOf, Pending
  <2>2. Lifecycle!Finish(o) BY <1>1, <1>3, <1>4, <2>1 DEF Lifecycle!Finish
  <2> QED BY <1>1, <2>2 DEF Step, Lifecycle!Next
<1>7. CASE s = "uncertain"
  <2>1. PhaseOfStatus(s) = "uncertain" BY <1>7 DEF PhaseOfStatus, PhaseOf, Pending
  <2>2. Lifecycle!LoseTrack(o) BY <1>1, <1>3, <1>4, <2>1 DEF Lifecycle!LoseTrack
  <2> QED BY <1>1, <2>2 DEF Step, Lifecycle!Next
<1>8. CASE s = "observing"
  <2>1. PhaseOfStatus(s) = "observing" BY <1>8 DEF PhaseOfStatus, PhaseOf, Pending
  <2>2. CASE op[o].status = "dispatching"
    <3>1. Lifecycle!Observe(o) BY <1>1, <1>3, <1>4, <2>1, <2>2 DEF Lifecycle!Observe
    <3> QED BY <1>1, <3>1 DEF Step, Lifecycle!Next
  <2>3. CASE op[o].status = "observing"
    <3>1. PhaseOfStatus(s) = PhaseOf(op[o]) BY <1>4, <2>1, <2>3
    <3>2. \E lease : Touches(o, s, lease) BY <1>2
    <3> QED BY <1>1, <3>1, <3>2, TouchStutters
  <2> QED BY <1>4, <2>2, <2>3
<1> QED BY <1>2, <1>5, <1>6, <1>7, <1>8

\* The provider receives the one change of a dispatched operation.
LEMMA ReceiptSends ==
  ASSUME IInv, NEW w \in Workers, ProviderReceives(w)
  PROVE  Step
<1> DEFINE o == worker[w].op
<1>1. /\ worker[w].pc = "calling" /\ worker[w].phase = "submit"
      /\ submitted' = [submitted EXCEPT ![o] = @ + 1] /\ op' = op
  BY DEF ProviderReceives
<1>2. o \in Ops /\ op[o] \in Row
  BY <1>1 DEF IInv, TypeOK, Job, Idle
<1>3. submitted[o] = 0
  BY <1>1 DEF IInv, SubmissionInv, NotSentBefore, Submitting
<1>4. op[o].status \in Status \ Unsent
  BY <1>1, <1>2 DEF IInv, SubmissionInv, JobsAreDispatched, Row
<1>5. PhaseOf(op[o]) \in {"dispatching", "observing", "uncertain", "finished", "resolved"}
  BY <1>4 DEF PhaseOf, Status, Blocking, Settled, Unsent, Withdrawn, Pending
<1>6. submitted' = [submitted EXCEPT ![o] = 1] BY <1>1, <1>3
<1>7. Lifecycle!Send(o)
  BY <1>1, <1>2, <1>3, <1>5, <1>6 DEF Lifecycle!Send
<1> QED BY <1>2, <1>7 DEF Step, Lifecycle!Next

\* A change that arrives late is the one change of a dispatched operation.
LEMMA LateArrivalSends ==
  ASSUME IInv, NEW o \in Ops, ArrivesLate(o)
  PROVE  Step
<1>1. /\ submitted' = [submitted EXCEPT ![o] = @ + 1] /\ op' = op
      /\ submitted[o] = 0 /\ op[o].status \in Status \ Unsent
  BY DEF ArrivesLate, IInv, SubmissionInv, OnTheWayIsLast, TypeOK, Row
<1>2. PhaseOf(op[o]) \in {"dispatching", "observing", "uncertain", "finished", "resolved"}
  BY <1>1 DEF PhaseOf, Status, Blocking, Settled, Unsent, Withdrawn, Pending
<1>3. submitted' = [submitted EXCEPT ![o] = 1] BY <1>1
<1>4. Lifecycle!Send(o)
  BY <1>1, <1>2, <1>3 DEF Lifecycle!Send
<1> QED BY <1>4 DEF Step, Lifecycle!Next

\* Clocks change nothing the abstract specification sees.
LEMMA TimeStutters ==
  ASSUME IInv, NEW o \in Ops,
         \/ LeaseLapses(o) \/ RequestExpires(o)
         \/ ApprovalLapses(o) \/ DeadlinePasses(o)
  PROVE  Step
<1>1. UNCHANGED submitted
  BY DEF LeaseLapses, RequestExpires, ApprovalLapses, DeadlinePasses
<1>2. \E lease : Touches(o, op[o].status, lease) BY TimeTouches
<1>3. PhaseOfStatus(op[o].status) = PhaseOf(op[o]) BY DEF PhaseOfStatus, PhaseOf
<1> QED BY <1>1, <1>2, <1>3, TouchStutters

\* With no request recorded the abstract specification is in its initial state.
LEMMA InitImplements == Init => Lifecycle!Init
<1> SUFFICES ASSUME Init PROVE Lifecycle!Init OBVIOUS
<1>1. \A o \in Ops : op[o] = NoRow BY DEF Init
<1>2. NoRow.status = "absent" /\ NoRow.resource = NoResource BY DEF NoRow
<1>3. PhaseOf(NoRow) = "absent" BY <1>2 DEF PhaseOf, Pending
<1>4. \A o \in Ops : PhaseOf(op[o]) = "absent" /\ op[o].resource = NoResource
  BY <1>1, <1>2, <1>3
<1> QED BY <1>4 DEF Init, Lifecycle!Init

\* Under the invariant every step is an abstract step or an abstract stutter.
LEMMA StepImplements == IInv /\ [Next]_vars => Step
<1> SUFFICES ASSUME IInv, [Next]_vars PROVE Step OBVIOUS
<1>1. CASE UNCHANGED vars BY <1>1, Stutters DEF vars
<1>2. CASE Handlers
  <2>1. ASSUME NEW o \in Ops, NEW v \in reviews, RequestBulkPower(o, v)
        PROVE  Step
    <3>1. /\ v.user \in Users /\ v.key \in Keys /\ v.resource \in Resources
          /\ v.action \in Actions
      BY DEF IInv, TypeOK, Review
    <3> QED BY <2>1, <3>1, RequestOpens DEF RequestBulkPower
  <2>2. ASSUME NEW u \in Users, NEW k \in Keys, NEW r \in Resources,
               NEW a \in Actions, PreviewBulkPower(u, k, r, a)
        PROVE  Step
    BY <2>2, Stutters DEF PreviewBulkPower
  <2>3. ASSUME NEW o \in Ops, NEW u \in Users, NEW k \in Keys, NEW r \in Resources,
               NEW a \in Actions, NEW e \in Exceptions,
               RequestOperation(o, u, k, r, a, e)
        PROVE  Step
    BY <2>3, RequestOpens, OperationsAssumption DEF RequestOperation
  <2> QED BY <1>2, <2>1, <2>2, <2>3, DecisionsMove DEF Handlers, Decision
<1>3. CASE Tick
  BY <1>3, DecisionsMove, ClaimMoves DEF Tick, Decision
<1>4. ASSUME NEW w \in Workers,
             \/ DropClaim(w) \/ RefuseClaim(w) \/ CallProvider(w)
             \/ ProviderReceives(w) \/ DropAnswer(w) \/ RecordAnswer(w) \/ Crash(w)
      PROVE  Step
  <2>1. CASE DropClaim(w) \/ CallProvider(w) \/ DropAnswer(w) \/ Crash(w)
    BY <2>1, Stutters DEF DropClaim, CallProvider, DropAnswer, Crash, rowVars
  <2> QED BY <1>4, <2>1, OutcomesMove, ReceiptSends
<1>5. CASE Time BY <1>5, TimeStutters, Stutters DEF Time, ReviewLapses
<1>6. CASE Administration
  <2>1. UNCHANGED <<op, submitted>>
    BY <1>6 DEF Administration, ChangeConnection, ChangeModule,
       ChangeMaintenancePolicy, WindowCloses, WindowOpens, SaveResourcePolicy,
       IndexOwnership, ChangeAccess, DiscoveryObserves
  <2> QED BY <2>1, Stutters
<1>7. CASE Provider BY <1>7, LateArrivalSends DEF Provider
<1> QED BY <1>1, <1>2, <1>3, <1>4, <1>5, <1>6, <1>7 DEF Next, RunOperation

\* The coordinator keeps the promise of OperationLifecycle: an exclusive hold
\* on the resource, at most one change sent, none for a withdrawn request, and
\* uncertain work settled by observation or by a person only.
THEOREM Implements == Spec => LifecycleSpec
BY InitImplements, StepImplements, InductiveInvariant, PTL
DEF Spec, LifecycleSpec, Lifecycle!Spec, Step
=============================================================================
