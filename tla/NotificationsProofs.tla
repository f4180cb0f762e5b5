-------------------------- MODULE NotificationsProofs --------------------------
(***************************************************************************)
(* Proofs about Notifications for every number of deliveries and replicas  *)
(* and every bound.                                                        *)
(***************************************************************************)
EXTENDS Notifications, FiniteSets, FiniteSetTheorems, TLAPS

USE NotificationsAssumption

-----------------------------------------------------------------------------
(* Types.                                                                  *)

\* The invariant that types a row, apart from the others.
RowOK(row) == row \in Delivery /\ (row.lease # Nobody => row.status = "sending")

JobOK(job) == job \in Job /\ (job.pc # "idle" => job.delivery # Nobody)

\* The type invariant, row by row.
LEMMA TypesByRow ==
  TypeOK <=> /\ destination \in Destination
             /\ delivery \in [Deliveries -> Delivery]
             /\ \A d \in Deliveries : RowOK(delivery[d])
             /\ worker \in [Workers -> Job]
             /\ \A w \in Workers : JobOK(worker[w])
             /\ received \subseteq Deliveries \X Revision
             /\ sends \in [Deliveries -> Nat]
BY DEF TypeOK, RowOK, JobOK

\* Counting an attempt stays within the type of the counter.
LEMMA CountedType == \A n \in 0..RetryBudget + 1 : Counted(n) \in 0..RetryBudget + 1
BY DEF Counted

\* A row that has been queued just now, and an idle replica.
LEMMA NewRows ==
  /\ RowOK(Unused) /\ JobOK(Idle)
  /\ \A kind \in Kind, r \in Revision :
       destination.config \in Revision => RowOK(Queued(kind, r))
<1>1. RowOK(Unused) BY DEF RowOK, Unused, Delivery, Revision, Kind
<1>2. JobOK(Idle) BY DEF JobOK, Idle, Job, Revision
<1>3. ASSUME NEW kind \in Kind, NEW r \in Revision, destination.config \in Revision
      PROVE  RowOK(Queued(kind, r))
  BY <1>3 DEF RowOK, Queued, Delivery
<1> QED BY <1>1, <1>2, <1>3

\* Types hold initially.
LEMMA InitTypes == Init => TypeOK
<1> SUFFICES ASSUME Init PROVE TypeOK OBVIOUS
<1>1. destination \in Destination BY DEF Init, Destination, Revision
<1> QED BY <1>1, NewRows, TypesByRow DEF Init, RowOK, JobOK, Revision

\* Steps of administrators keep the types.
LEMMA AdminTypes ==
  ASSUME TypeOK, AdminStep
  PROVE  TypeOK'
<1>0. destination \in Destination /\ delivery \in [Deliveries -> Delivery]
      /\ \A d \in Deliveries : RowOK(delivery[d])
  BY TypesByRow
<1>a. destination.revision \in Revision /\ destination.config \in Revision
  BY <1>0 DEF Destination
<1>b. MayChange => NextRevision \in Revision
  BY <1>a DEF MayChange, NextRevision, Revision
<1>1. CASE SaveNotificationDestination
  <2>1. destination' \in Destination
    BY <1>0, <1>b, <1>1 DEF SaveNotificationDestination, Destination
  <2> QED BY <1>1, <2>1 DEF SaveNotificationDestination, TypeOK
<1>2. CASE SetNotificationSubscriptions
  <2>1. destination' \in Destination
    BY <1>0, <1>b, <1>2 DEF SetNotificationSubscriptions, Destination
  <2> QED BY <1>2, <2>1 DEF SetNotificationSubscriptions, TypeOK
<1>3. CASE \E enabled \in BOOLEAN : SetNotificationDestinationEnabled(enabled)
  <2>1. destination' \in Destination
    BY <1>0, <1>b, <1>3 DEF SetNotificationDestinationEnabled, Destination
  <2> QED BY <1>3, <2>1 DEF SetNotificationDestinationEnabled, TypeOK
<1>4. CASE ChallengeExpires
  <2>1. destination' \in Destination BY <1>0, <1>4 DEF ChallengeExpires, Destination
  <2> QED BY <1>4, <2>1 DEF ChallengeExpires, TypeOK
<1>5. CASE DeleteNotificationDestination
  <2>1. destination' \in Destination
    BY <1>0, <1>b, <1>5 DEF DeleteNotificationDestination, Destination
  <2>2. ASSUME NEW d \in Deliveries
        PROVE  RowOK([delivery[d] EXCEPT !.code = FALSE,
                        !.status = IF @ = "pending" THEN "canceled" ELSE @])
    BY <1>0 DEF RowOK, Delivery, Settled
  <2>3. delivery' \in [Deliveries -> Delivery] /\ \A d \in Deliveries : RowOK(delivery'[d])
    BY <1>0, <1>5, <2>2 DEF DeleteNotificationDestination, RowOK
  <2> QED BY <1>5, <2>1, <2>3 DEF DeleteNotificationDestination, TypeOK, RowOK
<1>6. CASE \E d \in Deliveries : SendVerification(d)
  <2>1. PICK d \in Deliveries : SendVerification(d) BY <1>6
  <2>2. destination' \in Destination
    BY <1>0, <1>b, <2>1 DEF SendVerification, Destination
  <2>3. RowOK(Queued("verification", NextRevision))
    BY <1>a, <1>b, <2>1, NewRows DEF SendVerification, Kind
  <2>4. delivery' \in [Deliveries -> Delivery] /\ \A x \in Deliveries : RowOK(delivery'[x])
    BY <1>0, <2>1, <2>3 DEF SendVerification, RowOK
  <2> QED BY <2>1, <2>2, <2>4 DEF SendVerification, TypeOK, RowOK
<1>7. CASE \E d \in Deliveries : SendTest(d)
  <2>1. PICK d \in Deliveries : SendTest(d) BY <1>7
  <2>2. RowOK(Queued("test", destination.revision)) BY <1>a, NewRows DEF Kind
  <2>3. delivery' \in [Deliveries -> Delivery] /\ \A x \in Deliveries : RowOK(delivery'[x])
    BY <1>0, <2>1, <2>2 DEF SendTest, RowOK
  <2> QED BY <2>1, <2>3 DEF SendTest, TypeOK, RowOK
<1>8. CASE \E d \in Deliveries : VerifyNotificationDestination(d)
  <2>1. destination' \in Destination
    BY <1>0, <1>8 DEF VerifyNotificationDestination, Destination
  <2> QED BY <1>8, <2>1 DEF VerifyNotificationDestination, TypeOK
<1> QED BY <1>1, <1>2, <1>3, <1>4, <1>5, <1>6, <1>7, <1>8 DEF AdminStep

\* Queueing and lapsed leases keep the types.
LEMMA QueueTypes ==
  ASSUME TypeOK, QueueStep
  PROVE  TypeOK'
<1>0. destination \in Destination /\ delivery \in [Deliveries -> Delivery]
      /\ sends \in [Deliveries -> Nat] /\ \A d \in Deliveries : RowOK(delivery[d])
  BY TypesByRow
<1>1. PICK d \in Deliveries :
        enqueueNotification(d) \/ RedeliverNotification(d) \/ LeaseLapses(d)
  BY DEF QueueStep
<1>2. CASE enqueueNotification(d)
  <2>1. RowOK(Queued("event", destination.revision))
    BY <1>0, NewRows DEF Kind, Destination
  <2>2. delivery' \in [Deliveries -> Delivery] /\ \A x \in Deliveries : RowOK(delivery'[x])
    BY <1>0, <1>2, <2>1 DEF enqueueNotification, RowOK
  <2> QED BY <1>2, <2>2 DEF enqueueNotification, TypeOK, RowOK
<1>3. CASE RedeliverNotification(d)
  <2>1. delivery[d].cycle + 1 \in 0..MaxCycles
    BY <1>0, <1>3 DEF RedeliverNotification, Delivery
  <2>a. ASSUME NEW n \in 0..MaxCycles
        PROVE  RowOK([delivery[d] EXCEPT !.status = "pending", !.retries = 0, !.lease = Nobody,
                                         !.cycle = n])
    <3>1. delivery[d] \in Delivery BY <1>0
    <3>2. 0 \in 0..RetryBudget + 1 OBVIOUS
    <3> DEFINE Cycles == 0..MaxCycles
               Counts == 0..RetryBudget + 1
    <3>3. n \in Cycles /\ 0 \in Counts BY <3>2
    <3> HIDE DEF Cycles, Counts
    <3>4. Delivery = [status : {"none", "pending", "sending"} \cup Settled, kind : Kind,
             revision : Revision, config : Revision, code : BOOLEAN,
             retries : Counts, lease : Workers \cup {Nobody},
             last : {"none", "sending", "pending"} \cup Settled,
             cycle : Cycles]
      BY DEF Delivery, Cycles, Counts
    <3> QED BY <3>1, <3>3, <3>4 DEF RowOK
  <2>2. RowOK([delivery[d] EXCEPT !.status = "pending", !.retries = 0, !.lease = Nobody,
                                  !.cycle = delivery[d].cycle + 1])
    BY <2>1, <2>a
  <2>3. delivery' \in [Deliveries -> Delivery] /\ \A x \in Deliveries : RowOK(delivery'[x])
    BY <1>0, <1>3, <2>2 DEF RedeliverNotification, RowOK
  <2>4. sends' \in [Deliveries -> Nat] BY <1>0, <1>3 DEF RedeliverNotification
  <2> QED BY <1>3, <2>3, <2>4 DEF RedeliverNotification, TypeOK, RowOK
<1>4. CASE LeaseLapses(d)
  <2>1. RowOK([delivery[d] EXCEPT !.lease = Nobody]) BY <1>0 DEF RowOK, Delivery
  <2>2. delivery' \in [Deliveries -> Delivery] /\ \A x \in Deliveries : RowOK(delivery'[x])
    BY <1>0, <1>4, <2>1 DEF LeaseLapses, RowOK
  <2> QED BY <1>4, <2>2 DEF LeaseLapses, TypeOK, RowOK
<1> QED BY <1>1, <1>2, <1>3, <1>4

\* Steps of replicas keep the types.
LEMMA WorkerTypes ==
  ASSUME TypeOK, WorkerStep
  PROVE  TypeOK'
<1>0. /\ destination \in Destination /\ delivery \in [Deliveries -> Delivery]
      /\ worker \in [Workers -> Job] /\ sends \in [Deliveries -> Nat]
      /\ \A d \in Deliveries : RowOK(delivery[d])
      /\ \A w \in Workers : JobOK(worker[w])
  BY TypesByRow
<1>1. PICK w \in Workers :
        \/ \E d \in Deliveries : ClaimDelivery(w, d)
        \/ ReadDestination(w) \/ SendMessage(w)
        \/ RecordOutcome(w) \/ DropOutcome(w) \/ WorkerStops(w)
  BY DEF WorkerStep
<1>a. \A outcome \in {"pending"} \cup Settled :
        worker[w].pc # "idle" => JobOK([worker[w] EXCEPT !.pc = "done", !.outcome = outcome])
  BY <1>0 DEF JobOK, Job
<1>b. Failure(w) \in {"pending"} \cup Settled BY DEF Failure, Settled
<1>c. \A outcome : Finish(w, outcome) /\ worker[w].pc # "idle"
                    /\ outcome \in {"pending"} \cup Settled =>
        worker' \in [Workers -> Job] /\ \A x \in Workers : JobOK(worker'[x])
  BY <1>0, <1>a DEF Finish, JobOK
<1>2. CASE \E d \in Deliveries : ClaimDelivery(w, d)
  <2>1. PICK d \in Deliveries : ClaimDelivery(w, d) BY <1>2
  <2>2. Counted(delivery[d].retries) \in 0..RetryBudget + 1
    BY <1>0, CountedType DEF Delivery
  <2>3. RowOK([delivery[d] EXCEPT !.status = "sending", !.lease = w,
                 !.retries = Counted(delivery[d].retries), !.last = "sending"])
    BY <1>0, <2>2 DEF RowOK, Delivery
  <2>4. delivery' \in [Deliveries -> Delivery] /\ \A x \in Deliveries : RowOK(delivery'[x])
    BY <1>0, <2>1, <2>3 DEF ClaimDelivery, RowOK
  <2>5. JobOK(worker'[w])
    BY <1>0, <2>1, <2>2, NewRows DEF ClaimDelivery, JobOK, Job, Delivery
  <2>6. worker' \in [Workers -> Job] /\ \A x \in Workers : JobOK(worker'[x])
    BY <1>0, <2>1, <2>5 DEF ClaimDelivery, JobOK
  <2> QED BY <2>1, <2>4, <2>6 DEF ClaimDelivery, TypeOK, RowOK, JobOK
<1>3. CASE ReadDestination(w)
  <2>1. JobOK([worker[w] EXCEPT !.pc = "sending", !.config = destination.config])
    <3>1. destination.config \in Revision BY <1>0 DEF Destination
    <3>2. worker[w].pc = "claimed" BY <1>3 DEF ReadDestination
    <3> QED BY <1>0, <3>1, <3>2 DEF JobOK, Job
  <2>2. worker' \in [Workers -> Job] /\ \A x \in Workers : JobOK(worker'[x])
    BY <1>0, <1>3, <1>c, <2>1 DEF ReadDestination, JobOK, Settled
  <2> QED BY <1>3, <2>2 DEF ReadDestination, TypeOK, JobOK
<1>4. CASE SendMessage(w)
  <2>1. worker[w].delivery \in Deliveries /\ worker[w].config \in Revision
    BY <1>0, <1>4 DEF SendMessage, JobOK, Job
  <2>2. received' \subseteq Deliveries \X Revision
    BY <1>4, <2>1 DEF SendMessage, TypeOK
  <2>3. sends' \in [Deliveries -> Nat] BY <1>0, <1>4, <2>1 DEF SendMessage
  <2>4. worker' \in [Workers -> Job] /\ \A x \in Workers : JobOK(worker'[x])
    BY <1>4, <1>b, <1>c DEF SendMessage, Settled
  <2> QED BY <1>4, <2>2, <2>3, <2>4 DEF SendMessage, TypeOK, JobOK
<1>5. CASE RecordOutcome(w)
  <2>1. worker[w].delivery \in Deliveries /\ worker[w].outcome \in {"pending"} \cup Settled
    BY <1>0, <1>5 DEF RecordOutcome, JobOK, Job
  <2>2. RowOK([delivery[worker[w].delivery] EXCEPT !.status = worker[w].outcome,
                 !.last = worker[w].outcome, !.lease = Nobody])
    BY <1>0, <2>1 DEF RowOK, Delivery
  <2>3. delivery' \in [Deliveries -> Delivery] /\ \A x \in Deliveries : RowOK(delivery'[x])
    BY <1>0, <1>5, <2>1, <2>2 DEF RecordOutcome, RowOK
  <2>4. worker' \in [Workers -> Job] /\ \A x \in Workers : JobOK(worker'[x])
    BY <1>0, <1>5, NewRows DEF RecordOutcome, JobOK
  <2> QED BY <1>5, <2>3, <2>4 DEF RecordOutcome, TypeOK, RowOK, JobOK
<1>6. CASE DropOutcome(w) \/ WorkerStops(w)
  <2>1. worker' \in [Workers -> Job] /\ \A x \in Workers : JobOK(worker'[x])
    BY <1>0, <1>6, NewRows DEF DropOutcome, WorkerStops, JobOK
  <2> QED BY <1>6, <2>1 DEF DropOutcome, WorkerStops, TypeOK, JobOK
<1> QED BY <1>1, <1>2, <1>3, <1>4, <1>5, <1>6

\* Every step keeps the types.
LEMMA StepTypes == TypeOK /\ [Next]_vars => TypeOK'
<1> SUFFICES ASSUME TypeOK, [Next]_vars PROVE TypeOK' OBVIOUS
<1>1. CASE UNCHANGED vars BY <1>1 DEF vars, TypeOK
<1> QED BY <1>1, AdminTypes, QueueTypes, WorkerTypes DEF Next

\* Rows and jobs stay well typed, and a lease belongs to a delivery that is being
\* sent.
THEOREM TypeCorrect == Spec => []TypeOK
BY StepTypes, InitTypes, PTL DEF Spec

-----------------------------------------------------------------------------
(* What a step may do to the destination and to a row of the queue.        *)

RowStays(d) ==
  /\ delivery'[d].kind = delivery[d].kind /\ delivery'[d].config = delivery[d].config
  /\ delivery'[d].revision = delivery[d].revision
  /\ delivery'[d].code => delivery[d].code
  /\ delivery'[d].status = "none" <=> delivery[d].status = "none"

RowIsQueued(d) ==
  /\ delivery[d].status = "none" /\ delivery'[d].status # "none"
  /\ delivery'[d].config = destination'.config
  /\ delivery'[d].revision = destination'.revision
  /\ delivery'[d].code => delivery'[d].kind = "verification"

\* A row keeps what it was queued for.
LEMMA RowSteps ==
  ASSUME TypeOK, [Next]_vars
  PROVE  \A d \in Deliveries : RowStays(d) \/ RowIsQueued(d)
<1>0. /\ destination \in Destination /\ delivery \in [Deliveries -> Delivery]
      /\ worker \in [Workers -> Job]
      /\ \A d \in Deliveries : RowOK(delivery[d])
      /\ \A w \in Workers : JobOK(worker[w])
  BY TypesByRow
<1> SUFFICES ASSUME NEW d \in Deliveries PROVE RowStays(d) \/ RowIsQueued(d) OBVIOUS
<1>1. CASE UNCHANGED delivery BY <1>1 DEF RowStays
<1>2. CASE DeleteNotificationDestination
  BY <1>0, <1>2 DEF DeleteNotificationDestination, RowStays, Delivery
<1>3. ASSUME NEW x \in Deliveries, SendVerification(x) PROVE RowStays(d) \/ RowIsQueued(d)
  <2>1. CASE x = d
    BY <1>0, <1>3, <2>1 DEF SendVerification, RowIsQueued, Queued, Destination
  <2>2. CASE x # d BY <1>0, <1>3, <2>2 DEF SendVerification, RowStays
  <2> QED BY <2>1, <2>2
<1>4. ASSUME NEW x \in Deliveries, SendTest(x) \/ enqueueNotification(x)
      PROVE  RowStays(d) \/ RowIsQueued(d)
  <2>1. CASE x = d
    <3>1. PICK kind \in {"test", "event"} :
            delivery'[d] = Queued(kind, destination.revision)
      BY <1>0, <1>4, <2>1 DEF SendTest, enqueueNotification
    <3>2. delivery[d].status = "none" /\ destination' = destination
      BY <1>4, <2>1 DEF SendTest, enqueueNotification
    <3>3. delivery'[d].code = (kind = "verification") BY <3>1 DEF Queued
    <3>4. ~delivery'[d].code BY <3>3
    <3>5. /\ delivery'[d].status = "pending" /\ delivery'[d].config = destination.config
          /\ delivery'[d].revision = destination.revision
      BY <3>1 DEF Queued
    <3> QED BY <3>2, <3>4, <3>5 DEF RowIsQueued
  <2>2. CASE x # d BY <1>0, <1>4, <2>2 DEF SendTest, enqueueNotification, RowStays
  <2> QED BY <2>1, <2>2
<1>5. ASSUME NEW x \in Deliveries, RedeliverNotification(x) PROVE RowStays(d)
  <2>1. CASE x # d
    BY <1>0, <1>5, <2>1 DEF RedeliverNotification, RowStays
  <2>2. CASE x = d
    <3>1. delivery'[d] = [delivery[d] EXCEPT !.status = "pending", !.retries = 0,
                            !.lease = Nobody, !.cycle = delivery[d].cycle + 1]
      BY <1>0, <1>5, <2>2 DEF RedeliverNotification
    <3>2. delivery[d] \in Delivery /\ delivery[d].status # "none"
      BY <1>0, <1>5, <2>2 DEF RedeliverNotification, Settled
    <3> QED BY <3>1, <3>2 DEF RowStays, Delivery
  <2> QED BY <2>1, <2>2
<1>6. ASSUME NEW x \in Deliveries, LeaseLapses(x) PROVE RowStays(d)
  BY <1>0, <1>6 DEF LeaseLapses, RowStays, Delivery
<1>7. ASSUME NEW w \in Workers, NEW x \in Deliveries, ClaimDelivery(w, x) PROVE RowStays(d)
  BY <1>0, <1>7 DEF ClaimDelivery, Claimable, RowStays, Delivery
<1>8. ASSUME NEW w \in Workers, RecordOutcome(w) PROVE RowStays(d)
  <2>1. worker[w].delivery \in Deliveries /\ worker[w].outcome # "none"
    BY <1>0, <1>8 DEF RecordOutcome, JobOK, Job, Settled
  <2>2. delivery[worker[w].delivery].status = "sending" BY <1>8 DEF RecordOutcome, Holds
  <2> QED BY <1>0, <1>8, <2>1, <2>2 DEF RecordOutcome, RowStays, Delivery
<1>9. AdminStep => UNCHANGED delivery \/ DeleteNotificationDestination
                   \/ \E x \in Deliveries : SendVerification(x) \/ SendTest(x)
  BY DEF AdminStep, SaveNotificationDestination, SetNotificationSubscriptions,
         SetNotificationDestinationEnabled, ChallengeExpires, VerifyNotificationDestination
<1>10. WorkerStep => UNCHANGED delivery
                    \/ \E w \in Workers : \/ RecordOutcome(w)
                                          \/ \E x \in Deliveries : ClaimDelivery(w, x)
  BY DEF WorkerStep, ReadDestination, SendMessage, DropOutcome, WorkerStops
<1>11. UNCHANGED vars => UNCHANGED delivery BY DEF vars
<1> QED BY <1>1, <1>2, <1>3, <1>4, <1>5, <1>6, <1>7, <1>8, <1>9, <1>10, <1>11
        DEF Next, QueueStep

\* Revisions only grow, and a configuration changes only with its revision.
LEMMA DestinationSteps ==
  ASSUME TypeOK, [Next]_vars
  PROVE  /\ destination.revision <= destination'.revision
         /\ destination'.revision = destination.revision =>
              destination'.config = destination.config
<1>0. destination \in Destination /\ destination.revision \in Nat
  BY DEF TypeOK, Destination, Revision
<1>1. \/ destination' = destination
      \/ /\ destination'.revision = destination.revision
         /\ destination'.config = destination.config
      \/ destination'.revision = destination.revision + 1
  <2>1. CASE AdminStep
    BY <1>0, <2>1
    DEF AdminStep, SaveNotificationDestination, SetNotificationSubscriptions,
        SetNotificationDestinationEnabled, ChallengeExpires, DeleteNotificationDestination,
        SendVerification, SendTest, VerifyNotificationDestination, NextRevision, Destination
  <2>2. CASE QueueStep
    BY <2>2 DEF QueueStep, enqueueNotification, RedeliverNotification, LeaseLapses
  <2>3. CASE WorkerStep
    BY <2>3 DEF WorkerStep, ClaimDelivery, ReadDestination, SendMessage, RecordOutcome,
                DropOutcome, WorkerStops
  <2>4. CASE UNCHANGED vars BY <2>4 DEF vars
  <2> QED BY <2>1, <2>2, <2>3, <2>4 DEF Next
<1> QED BY <1>0, <1>1

JobStays(w) ==
  /\ worker'[w].delivery = worker[w].delivery /\ worker'[w].config = worker[w].config
  /\ worker'[w].revision = worker[w].revision /\ worker'[w].code = worker[w].code
  /\ worker[w].pc # "idle"
  /\ worker'[w].pc = "sending" => worker[w].pc = "sending"

JobIsClaimed(w) ==
  LET d == worker'[w].delivery IN
  /\ d \in Deliveries /\ worker'[w].pc = "claimed" /\ delivery[d].status # "none"
  /\ worker'[w].revision = delivery[d].revision /\ worker'[w].code = delivery[d].code

JobIsToSend(w) ==
  /\ worker'[w] = [worker[w] EXCEPT !.pc = "sending", !.config = destination.config]
  /\ worker[w].pc = "claimed" /\ worker[w].revision = destination.revision
  /\ worker[w].code \/ destination.verified

\* A job keeps what it claimed; it gets to sending only by the destination's leave.
LEMMA JobSteps ==
  ASSUME TypeOK, [Next]_vars
  PROVE  \A w \in Workers :
           worker'[w].pc = "idle" \/ JobStays(w) \/ JobIsClaimed(w) \/ JobIsToSend(w)
<1>0. delivery \in [Deliveries -> Delivery] /\ worker \in [Workers -> Job]
  BY DEF TypeOK
<1> SUFFICES ASSUME NEW w \in Workers
             PROVE  worker'[w].pc = "idle" \/ JobStays(w) \/ JobIsClaimed(w) \/ JobIsToSend(w)
  OBVIOUS
<1>1. CASE worker'[w] = worker[w] BY <1>0, <1>1 DEF JobStays
<1>2. ASSUME NEW x \in Workers, NEW d \in Deliveries, ClaimDelivery(x, d)
      PROVE  worker'[w] = worker[w] \/ JobIsClaimed(w)
  <2>1. CASE x # w BY <1>0, <1>2, <2>1 DEF ClaimDelivery
  <2>2. CASE x = w
    BY <1>0, <1>2, <2>2 DEF ClaimDelivery, Claimable, JobIsClaimed, Idle
  <2> QED BY <2>1, <2>2
<1>3. ASSUME NEW x \in Workers, NEW outcome, Finish(x, outcome), worker[x].pc # "idle"
      PROVE  worker'[w] = worker[w] \/ JobStays(w)
  <2>1. CASE x # w BY <1>0, <1>3, <2>1 DEF Finish
  <2>2. CASE x = w BY <1>0, <1>3, <2>2 DEF Finish, JobStays, Job
  <2> QED BY <2>1, <2>2
<1>4. ASSUME NEW x \in Workers, ReadDestination(x)
      PROVE  worker'[w] = worker[w] \/ JobStays(w) \/ JobIsToSend(w)
  <2>1. CASE \E outcome : Finish(x, outcome)
    <3>1. PICK outcome : Finish(x, outcome) BY <2>1
    <3> QED BY <1>3, <1>4, <3>1 DEF ReadDestination
  <2>2. CASE /\ ~Stale(x)
             /\ worker' = [worker EXCEPT ![x] =
                  [@ EXCEPT !.pc = "sending", !.config = destination.config]]
    <3>1. CASE x # w BY <1>0, <2>2, <3>1
    <3>2. CASE x = w BY <1>0, <1>4, <2>2, <3>2 DEF ReadDestination, Stale, JobIsToSend
    <3> QED BY <3>1, <3>2
  <2> QED BY <1>4, <2>1, <2>2 DEF ReadDestination
<1>5. ASSUME NEW x \in Workers, SendMessage(x) PROVE worker'[w] = worker[w] \/ JobStays(w)
  <2>1. PICK outcome : Finish(x, outcome) BY <1>5 DEF SendMessage
  <2> QED BY <1>3, <1>5, <2>1 DEF SendMessage
<1>6. ASSUME NEW x \in Workers, RecordOutcome(x) \/ DropOutcome(x) \/ WorkerStops(x)
      PROVE  worker'[w] = worker[w] \/ worker'[w].pc = "idle"
  BY <1>0, <1>6 DEF RecordOutcome, DropOutcome, WorkerStops, Idle
<1>7. ~WorkerStep => worker' = worker
  BY DEF Next, AdminStep, SaveNotificationDestination, SetNotificationSubscriptions,
         SetNotificationDestinationEnabled, ChallengeExpires, DeleteNotificationDestination,
         SendVerification, SendTest, VerifyNotificationDestination, QueueStep,
         enqueueNotification, RedeliverNotification, LeaseLapses, vars
<1> QED BY <1>1, <1>2, <1>4, <1>5, <1>6, <1>7 DEF WorkerStep

\* Messages come from jobs that send, and are never unsent.
LEMMA ReceivedSteps ==
  ASSUME TypeOK, [Next]_vars
  PROVE  /\ received \subseteq received'
         /\ \A m \in received' \ received : \E w \in Workers :
              worker[w].pc = "sending" /\ m = <<worker[w].delivery, worker[w].config>>
<1>1. \A w \in Workers : SendMessage(w) =>
        \/ received' = received
        \/ /\ worker[w].pc = "sending"
           /\ received' = received \cup {<<worker[w].delivery, worker[w].config>>}
  BY DEF SendMessage
<1>2. (\E w \in Workers : SendMessage(w)) \/ received' = received
  BY DEF Next, AdminStep, SaveNotificationDestination, SetNotificationSubscriptions,
         SetNotificationDestinationEnabled, ChallengeExpires, DeleteNotificationDestination,
         SendVerification, SendTest, VerifyNotificationDestination, QueueStep,
         enqueueNotification, RedeliverNotification, LeaseLapses, WorkerStep, ClaimDelivery,
         ReadDestination, RecordOutcome, DropOutcome, WorkerStops, vars
<1> QED BY <1>1, <1>2

-----------------------------------------------------------------------------
(* Where messages go.                                                      *)

\* A delivery queued for the present revision was queued for the present
\* configuration.
QueuedForRevision ==
  \A d \in Deliveries : delivery[d].status # "none" =>
    /\ delivery[d].revision <= destination.revision
    /\ delivery[d].revision = destination.revision => delivery[d].config = destination.config

CodesVerify == \A d \in Deliveries : delivery[d].code => delivery[d].kind = "verification"

\* A job carries the revision of its delivery, and sends to its configuration.
JobsMatch ==
  \A w \in Workers : worker[w].pc # "idle" =>
    LET d == worker[w].delivery IN
    /\ delivery[d].status # "none" /\ worker[w].revision = delivery[d].revision
    /\ worker[w].code => delivery[d].kind = "verification"
    /\ worker[w].pc = "sending" => worker[w].config = delivery[d].config

ReceivedWasQueued == \A m \in received : delivery[m[1]].status # "none"

QueueInv ==
  /\ TypeOK
  /\ QueuedForRevision /\ CodesVerify /\ JobsMatch
  /\ ReceivedWasQueued /\ SentWhereIntended

\* The facts about types that the invariant needs.
LEMMA Parts ==
  ASSUME TypeOK
  PROVE  /\ destination.revision \in Nat
         /\ \A d \in Deliveries : delivery[d].revision \in Nat
         /\ \A w \in Workers : worker[w].pc # "idle" => worker[w].delivery \in Deliveries
         /\ \A m \in received : m[1] \in Deliveries
BY DEF TypeOK, Destination, Delivery, Job, Revision

LEMMA InitQueueInv == Init => QueueInv
<1> SUFFICES ASSUME Init PROVE QueueInv OBVIOUS
<1>1. TypeOK BY InitTypes
<1> QED BY <1>1 DEF Init, QueueInv, QueuedForRevision, CodesVerify, JobsMatch,
                   ReceivedWasQueued, SentWhereIntended, Unused, Idle

\* Rows keep what they were queued for, and the destination only moves on.
LEMMA QueueInvStep == QueueInv /\ [Next]_vars => QueueInv'
<1> SUFFICES ASSUME QueueInv, [Next]_vars PROVE QueueInv' OBVIOUS
<1>1. TypeOK /\ TypeOK' BY StepTypes DEF QueueInv
<1>2. \A d \in Deliveries : RowStays(d) \/ RowIsQueued(d) BY <1>1, RowSteps
<1>3. QueuedForRevision'
  <2> SUFFICES ASSUME NEW d \in Deliveries, delivery'[d].status # "none"
               PROVE  /\ delivery'[d].revision <= destination'.revision
                      /\ delivery'[d].revision = destination'.revision =>
                           delivery'[d].config = destination'.config
    BY DEF QueuedForRevision
  <2>0. destination.revision \in Nat /\ destination'.revision \in Nat
        /\ delivery[d].revision \in Nat
    BY <1>1, Parts DEF TypeOK, Destination, Revision
  <2>1. CASE RowIsQueued(d) BY <2>0, <2>1 DEF RowIsQueued
  <2>2. CASE RowStays(d)
    BY <1>1, <2>0, <2>2, DestinationSteps DEF RowStays, QueueInv, QueuedForRevision
  <2> QED BY <1>2, <2>1, <2>2
<1>4. CodesVerify' BY <1>2 DEF CodesVerify, QueueInv, RowStays, RowIsQueued
<1>5. JobsMatch'
  <2> SUFFICES ASSUME NEW w \in Workers, worker'[w].pc # "idle"
               PROVE  LET d == worker'[w].delivery IN
                      /\ delivery'[d].status # "none"
                      /\ worker'[w].revision = delivery'[d].revision
                      /\ worker'[w].code => delivery'[d].kind = "verification"
                      /\ worker'[w].pc = "sending" => worker'[w].config = delivery'[d].config
    BY DEF JobsMatch
  <2>1. CASE JobStays(w)
    <3>1. worker[w].delivery \in Deliveries BY <1>1, <2>1, Parts DEF JobStays
    <3>2. RowStays(worker[w].delivery)
      BY <1>2, <2>1, <3>1 DEF JobStays, QueueInv, JobsMatch, RowIsQueued
    <3> QED BY <2>1, <3>2 DEF JobStays, QueueInv, JobsMatch, RowStays
  <2>2. CASE JobIsClaimed(w)
    <3>1. worker'[w].delivery \in Deliveries BY <2>2 DEF JobIsClaimed
    <3>2. RowStays(worker'[w].delivery) BY <1>2, <2>2, <3>1 DEF JobIsClaimed, RowIsQueued
    <3> QED BY <2>2, <3>1, <3>2 DEF JobIsClaimed, RowStays, QueueInv, CodesVerify
  <2>3. CASE JobIsToSend(w)
    <3>1. worker[w] \in Job BY <1>1 DEF TypeOK
    <3>2. /\ worker'[w].delivery = worker[w].delivery /\ worker'[w].code = worker[w].code
          /\ worker'[w].revision = worker[w].revision
          /\ worker'[w].config = destination.config
      BY <2>3, <3>1 DEF JobIsToSend, Job
    <3>3. worker[w].delivery \in Deliveries BY <1>1, <2>3, Parts DEF JobIsToSend
    <3>4. RowStays(worker[w].delivery)
      BY <1>2, <2>3, <3>3 DEF JobIsToSend, QueueInv, JobsMatch, RowIsQueued
    <3> QED BY <2>3, <3>2, <3>3, <3>4
        DEF JobIsToSend, QueueInv, JobsMatch, QueuedForRevision, RowStays
  <2> QED BY <1>1, <2>1, <2>2, <2>3, JobSteps
<1>6. ReceivedWasQueued' /\ SentWhereIntended'
  <2> SUFFICES ASSUME NEW m \in received'
               PROVE  delivery'[m[1]].status # "none" /\ m[2] = delivery'[m[1]].config
    BY DEF ReceivedWasQueued, SentWhereIntended
  <2>1. m[1] \in Deliveries BY <1>1 DEF TypeOK
  <2>2. delivery[m[1]].status # "none" /\ m[2] = delivery[m[1]].config
    <3>1. CASE m \in received BY <3>1 DEF QueueInv, ReceivedWasQueued, SentWhereIntended
    <3>2. CASE m \notin received
      <4>1. PICK w \in Workers :
              worker[w].pc = "sending" /\ m = <<worker[w].delivery, worker[w].config>>
        BY <1>1, <3>2, ReceivedSteps
      <4> QED BY <4>1 DEF QueueInv, JobsMatch
    <3> QED BY <3>1, <3>2
  <2> QED BY <1>2, <2>1, <2>2 DEF RowStays, RowIsQueued
<1> QED BY <1>1, <1>3, <1>4, <1>5, <1>6 DEF QueueInv

\* However often the destination is edited, a message goes to the configuration
\* its delivery was queued for.
THEOREM GoesWhereIntended == Spec => []SentWhereIntended
<1>1. QueueInv => SentWhereIntended BY DEF QueueInv
<1> QED BY <1>1, InitQueueInv, QueueInvStep, PTL DEF Spec

-----------------------------------------------------------------------------
(* Who receives messages.                                                  *)

ChallengeIsNew(d) ==
  /\ delivery[d].status = "none" /\ delivery'[d].status # "none"
  /\ delivery'[d].kind = "verification" /\ delivery'[d].config = destination'.config

ChallengeAnswered ==
  /\ destination.challenge \in Deliveries
  /\ \E c \in Revision : <<destination.challenge, c>> \in received

\* A challenge is for the configuration it was made for, and only its answer
\* verifies.
LEMMA ChallengeSteps ==
  ASSUME TypeOK, [Next]_vars
  PROVE  /\ \/ destination'.challenge = Nobody
            \/ /\ destination'.challenge = destination.challenge
               /\ destination'.config = destination.config
            \/ destination'.challenge \in Deliveries /\ ChallengeIsNew(destination'.challenge)
         /\ destination'.verified => destination'.config = destination.config
                                     /\ (destination.verified \/ ChallengeAnswered)
<1>0. destination \in Destination /\ delivery \in [Deliveries -> Delivery] BY DEF TypeOK
<1>1. CASE UNCHANGED destination BY <1>1
<1>2. CASE SaveNotificationDestination \/ DeleteNotificationDestination
  <2>1. destination'.challenge = Nobody /\ ~destination'.verified
    BY <1>0, <1>2
    DEF SaveNotificationDestination, DeleteNotificationDestination, Destination
  <2> QED BY <2>1
<1>3. CASE \/ SetNotificationSubscriptions \/ ChallengeExpires
           \/ \E enabled \in BOOLEAN : SetNotificationDestinationEnabled(enabled)
  <2>1. /\ destination'.challenge = destination.challenge
        /\ destination'.config = destination.config
        /\ destination'.verified = destination.verified
    BY <1>0, <1>3
    DEF SetNotificationSubscriptions, SetNotificationDestinationEnabled, ChallengeExpires,
        Destination
  <2> QED BY <2>1
<1>4. ASSUME NEW d \in Deliveries, SendVerification(d)
      PROVE  destination'.challenge = d /\ ~destination'.verified /\ ChallengeIsNew(d)
  <2>1. /\ destination'.challenge = d /\ ~destination'.verified
        /\ destination'.config = destination.config
    BY <1>0, <1>4 DEF SendVerification, Destination
  <2> QED BY <1>0, <1>4, <2>1 DEF SendVerification, ChallengeIsNew, Queued
<1>5. ASSUME NEW d \in Deliveries, VerifyNotificationDestination(d)
      PROVE  /\ destination'.challenge = Nobody /\ destination'.config = destination.config
             /\ ChallengeAnswered
  <2>1. destination'.challenge = Nobody /\ destination'.config = destination.config
    BY <1>0, <1>5 DEF VerifyNotificationDestination, Destination
  <2>2. ChallengeAnswered BY <1>5 DEF VerifyNotificationDestination, ChallengeAnswered
  <2> QED BY <2>1, <2>2
<1>6. ~AdminStep => UNCHANGED destination
  BY DEF Next, QueueStep, enqueueNotification, RedeliverNotification, LeaseLapses, WorkerStep,
         ClaimDelivery, ReadDestination, SendMessage, RecordOutcome, DropOutcome,
         WorkerStops, vars
<1>7. \A d \in Deliveries : SendTest(d) => UNCHANGED destination BY DEF SendTest
<1> QED BY <1>1, <1>2, <1>3, <1>4, <1>5, <1>6, <1>7 DEF AdminStep

Proven(c) == \E v \in Deliveries : delivery[v].kind = "verification" /\ <<v, c>> \in received

ProvenNext(c) ==
  \E v \in Deliveries : delivery'[v].kind = "verification" /\ <<v, c>> \in received'

ChallengeFits ==
  destination.challenge \in Deliveries =>
    LET d == destination.challenge IN
    /\ delivery[d].status # "none" /\ delivery[d].kind = "verification"
    /\ delivery[d].config = destination.config

VerifiedIsProven == destination.verified => Proven(destination.config)

SendersAreProven ==
  \A w \in Workers : worker[w].pc = "sending" =>
    delivery[worker[w].delivery].kind = "verification" \/ Proven(worker[w].config)

ChallengeInv ==
  QueueInv /\ ChallengeFits /\ VerifiedIsProven /\ SendersAreProven /\ ChallengedFirst

LEMMA InitChallengeInv == Init => ChallengeInv
<1> SUFFICES ASSUME Init PROVE ChallengeInv OBVIOUS
<1>1. QueueInv BY InitQueueInv
<1> QED BY <1>1 DEF Init, ChallengeInv, ChallengeFits, VerifiedIsProven, SendersAreProven,
                   ChallengedFirst, Idle

\* What was proven stays proven; the answer to the challenge proves the present
\* configuration, and only verified destinations are sent anything else.
LEMMA ChallengeInvStep == ChallengeInv /\ [Next]_vars => ChallengeInv'
<1> SUFFICES ASSUME ChallengeInv, [Next]_vars PROVE ChallengeInv' OBVIOUS
<1>1. QueueInv /\ QueueInv' /\ TypeOK /\ TypeOK'
  BY QueueInvStep DEF ChallengeInv, QueueInv
<1>2. \A d \in Deliveries : delivery[d].status # "none" => RowStays(d)
  BY <1>1, RowSteps DEF RowIsQueued
<1>3. ASSUME NEW c, Proven(c) PROVE ProvenNext(c)
  <2>1. PICK v \in Deliveries : delivery[v].kind = "verification" /\ <<v, c>> \in received
    BY <1>3 DEF Proven
  <2>2. delivery[v].status # "none" BY <1>1, <2>1 DEF QueueInv, ReceivedWasQueued
  <2>3. <<v, c>> \in received' BY <1>1, <2>1, ReceivedSteps
  <2> QED BY <1>2, <2>1, <2>2, <2>3 DEF ProvenNext, RowStays
<1>4. ChallengeFits'
  <2> SUFFICES ASSUME destination'.challenge \in Deliveries PROVE ChallengeFits'
    BY DEF ChallengeFits
  <2>1. CASE ChallengeIsNew(destination'.challenge)
    BY <2>1 DEF ChallengeIsNew, ChallengeFits
  <2>2. CASE /\ destination'.challenge = destination.challenge
             /\ destination'.config = destination.config
    BY <1>2, <2>2 DEF ChallengeInv, ChallengeFits, RowStays
  <2> QED BY <1>1, <2>1, <2>2, ChallengeSteps
<1>5. VerifiedIsProven'
  <2> SUFFICES ASSUME destination'.verified PROVE Proven(destination.config)
    BY <1>1, <1>3, ChallengeSteps DEF VerifiedIsProven, Proven, ProvenNext
  <2>1. CASE destination.verified BY <2>1 DEF ChallengeInv, VerifiedIsProven
  <2>2. CASE ChallengeAnswered
    <3>1. PICK c \in Revision : <<destination.challenge, c>> \in received
      BY <2>2 DEF ChallengeAnswered
    <3>2. c = delivery[destination.challenge].config
      BY <1>1, <3>1 DEF QueueInv, SentWhereIntended
    <3> QED BY <2>2, <3>1, <3>2 DEF ChallengeAnswered, ChallengeInv, ChallengeFits, Proven
  <2> QED BY <1>1, <2>1, <2>2, ChallengeSteps
<1>6. SendersAreProven'
  <2> SUFFICES ASSUME NEW w \in Workers, worker'[w].pc = "sending"
               PROVE  \/ delivery'[worker'[w].delivery].kind = "verification"
                      \/ ProvenNext(worker'[w].config)
    BY DEF SendersAreProven, Proven, ProvenNext
  <2>1. CASE JobStays(w)
    <3>1. worker[w].pc = "sending" /\ worker[w].delivery \in Deliveries
      BY <1>1, <2>1, Parts DEF JobStays
    <3>2. RowStays(worker[w].delivery) BY <1>1, <1>2, <3>1 DEF QueueInv, JobsMatch
    <3> QED BY <1>3, <2>1, <3>1, <3>2 DEF JobStays, RowStays, ChallengeInv, SendersAreProven
  <2>2. CASE JobIsToSend(w)
    <3>1. worker[w] \in Job BY <1>1 DEF TypeOK
    <3>2. worker'[w].delivery = worker[w].delivery /\ worker'[w].config = destination.config
      BY <2>2, <3>1 DEF JobIsToSend, Job
    <3>3. worker[w].delivery \in Deliveries BY <1>1, <2>2, Parts DEF JobIsToSend
    <3>4. RowStays(worker[w].delivery)
      BY <1>1, <1>2, <2>2, <3>3 DEF JobIsToSend, QueueInv, JobsMatch
    <3>5. CASE worker[w].code
      BY <1>1, <2>2, <3>2, <3>4, <3>5 DEF JobIsToSend, QueueInv, JobsMatch, RowStays
    <3>6. CASE destination.verified
      BY <1>3, <3>2, <3>6 DEF ChallengeInv, VerifiedIsProven
    <3> QED BY <2>2, <3>5, <3>6 DEF JobIsToSend
  <2> QED BY <1>1, <2>1, <2>2, JobSteps DEF JobIsClaimed
<1>7. ChallengedFirst'
  <2> SUFFICES ASSUME NEW m \in received', delivery'[m[1]].kind # "verification"
               PROVE  ProvenNext(m[2])
    BY DEF ChallengedFirst, ProvenNext
  <2>1. m[1] \in Deliveries BY <1>1 DEF TypeOK
  <2>2. CASE m \in received
    <3>1. delivery[m[1]].kind # "verification"
      BY <1>1, <1>2, <2>1, <2>2 DEF QueueInv, ReceivedWasQueued, RowStays
    <3>2. Proven(m[2]) BY <2>2, <3>1 DEF ChallengeInv, ChallengedFirst, Proven
    <3> QED BY <1>3, <3>2
  <2>3. CASE m \notin received
    <3>1. PICK w \in Workers :
            worker[w].pc = "sending" /\ m = <<worker[w].delivery, worker[w].config>>
      BY <1>1, <2>3, ReceivedSteps
    <3>2. delivery[m[1]].kind # "verification"
      BY <1>1, <1>2, <2>1, <3>1 DEF QueueInv, JobsMatch, RowStays
    <3>3. Proven(m[2]) BY <3>1, <3>2 DEF ChallengeInv, SendersAreProven
    <3> QED BY <1>3, <3>3
  <2> QED BY <2>2, <2>3
<1> QED BY <1>1, <1>4, <1>5, <1>6, <1>7 DEF ChallengeInv

\* A configuration receives events and tests only after a challenge reached that
\* very configuration.
THEOREM ProvenAddresses == Spec => []ChallengedFirst
<1>1. ChallengeInv => ChallengedFirst BY DEF ChallengeInv
<1> QED BY <1>1, InitChallengeInv, ChallengeInvStep, PTL DEF Spec

-----------------------------------------------------------------------------
(* The history of attempts.                                                *)

AttemptInv == TypeOK /\ AttemptsAgree

\* A row agrees with its newest attempt.
Agrees(row) ==
  /\ row.last = "sending" <=> row.status = "sending"
  /\ row.status \in {"delivered", "dead"} => row.last = row.status

LEMMA AttemptInvStep == AttemptInv /\ [Next]_vars => AttemptInv'
<1> SUFFICES ASSUME AttemptInv, [Next]_vars PROVE AttemptInv' OBVIOUS
<1>0. /\ TypeOK /\ TypeOK' /\ delivery \in [Deliveries -> Delivery]
      /\ worker \in [Workers -> Job]
      /\ \A d \in Deliveries : Agrees(delivery[d])
  BY StepTypes DEF AttemptInv, TypeOK, AttemptsAgree, Agrees
<1> SUFFICES ASSUME NEW d \in Deliveries PROVE Agrees(delivery'[d])
  BY <1>0 DEF AttemptInv, AttemptsAgree, Agrees
<1>1. CASE UNCHANGED delivery BY <1>0, <1>1
<1>2. CASE DeleteNotificationDestination
  <2>1. delivery'[d] = [delivery[d] EXCEPT !.code = FALSE,
          !.status = IF @ = "pending" THEN "canceled" ELSE @]
    BY <1>2 DEF DeleteNotificationDestination
  <2>2. delivery[d] \in Delivery BY <1>0
  <2>3. /\ delivery'[d].last = delivery[d].last
        /\ delivery'[d].status = IF delivery[d].status = "pending" THEN "canceled"
                                 ELSE delivery[d].status
    BY <2>1, <2>2 DEF Delivery
  <2> QED BY <1>0, <2>3 DEF Agrees
<1>3. \A kind, r : Agrees(Queued(kind, r)) BY DEF Agrees, Queued
<1>4. ASSUME NEW x \in Deliveries,
             SendVerification(x) \/ SendTest(x) \/ enqueueNotification(x)
      PROVE  Agrees(delivery'[d])
  <2>1. PICK kind, r : delivery' = [delivery EXCEPT ![x] = Queued(kind, r)]
    BY <1>4 DEF SendVerification, SendTest, enqueueNotification
  <2> QED BY <1>0, <1>3, <2>1
<1>5. ASSUME NEW x \in Deliveries, RedeliverNotification(x) PROVE Agrees(delivery'[d])
  <2>1. CASE x # d BY <1>0, <1>5, <2>1 DEF RedeliverNotification
  <2>2. CASE x = d
    <3>1. delivery'[d] = [delivery[d] EXCEPT !.status = "pending", !.retries = 0,
                            !.lease = Nobody, !.cycle = delivery[d].cycle + 1]
      BY <1>0, <1>5, <2>2 DEF RedeliverNotification
    <3>2. delivery[d] \in Delivery /\ delivery[d].last # "sending"
      BY <1>0, <1>5, <2>2 DEF RedeliverNotification, Settled, Agrees
    <3> QED BY <3>1, <3>2 DEF Agrees, Delivery
  <2> QED BY <2>1, <2>2
<1>6. ASSUME NEW x \in Deliveries, LeaseLapses(x) PROVE Agrees(delivery'[d])
  BY <1>0, <1>6 DEF LeaseLapses, Agrees, Delivery
<1>7. ASSUME NEW w \in Workers, NEW x \in Deliveries, ClaimDelivery(w, x)
      PROVE  Agrees(delivery'[d])
  <2>1. CASE d # x BY <1>0, <1>7, <2>1 DEF ClaimDelivery
  <2>2. CASE d = x
    <3>1. delivery'[d] = [delivery[d] EXCEPT !.status = "sending", !.lease = w,
                            !.retries = Counted(delivery[d].retries), !.last = "sending"]
      BY <1>0, <1>7, <2>2 DEF ClaimDelivery
    <3>2. delivery'[d].status = "sending" /\ delivery'[d].last = "sending"
      BY <1>0, <3>1 DEF Delivery
    <3> QED BY <3>2 DEF Agrees
  <2> QED BY <2>1, <2>2
<1>8. ASSUME NEW w \in Workers, RecordOutcome(w) PROVE Agrees(delivery'[d])
  <2>1. worker[w].outcome # "sending" BY <1>0 DEF Job, Settled
  <2>2. CASE d # worker[w].delivery BY <1>0, <1>8, <2>2 DEF RecordOutcome
  <2>3. CASE d = worker[w].delivery
    <3>1. delivery'[d] = [delivery[d] EXCEPT !.status = worker[w].outcome,
                            !.last = worker[w].outcome, !.lease = Nobody]
      BY <1>0, <1>8, <2>3 DEF RecordOutcome
    <3>2. delivery'[d].status = worker[w].outcome /\ delivery'[d].last = worker[w].outcome
      BY <1>0, <3>1 DEF Delivery
    <3> QED BY <2>1, <3>2 DEF Agrees
  <2> QED BY <2>2, <2>3
<1>9. AdminStep => UNCHANGED delivery \/ DeleteNotificationDestination
                   \/ \E x \in Deliveries : SendVerification(x) \/ SendTest(x)
  BY DEF AdminStep, SaveNotificationDestination, SetNotificationSubscriptions,
         SetNotificationDestinationEnabled, ChallengeExpires, VerifyNotificationDestination
<1>10. WorkerStep => UNCHANGED delivery
                    \/ \E w \in Workers : \/ RecordOutcome(w)
                                          \/ \E x \in Deliveries : ClaimDelivery(w, x)
  BY DEF WorkerStep, ReadDestination, SendMessage, DropOutcome, WorkerStops
<1>11. UNCHANGED vars => UNCHANGED delivery BY DEF vars
<1> QED BY <1>1, <1>2, <1>4, <1>5, <1>6, <1>7, <1>8, <1>9, <1>10, <1>11
        DEF Next, QueueStep

\* The newest attempt of a delivery is open just while it is being sent, and agrees
\* with its final status.
THEOREM HistoryIsTrue == Spec => []AttemptsAgree
<1>1. Init => AttemptInv
  BY InitTypes DEF Init, AttemptInv, AttemptsAgree, Unused
<1>2. AttemptInv => AttemptsAgree BY DEF AttemptInv
<1> QED BY <1>1, <1>2, AttemptInvStep, PTL DEF Spec

-----------------------------------------------------------------------------
(* The budget of a cycle.                                                  *)

\* Replica w may still send a message of the present cycle of delivery d.
Spends(w, d) ==
  /\ worker[w].pc \in {"claimed", "sending"}
  /\ worker[w].delivery = d /\ worker[w].cycle = delivery[d].cycle

\* The numbered attempts of the present cycle that may still send.
Held(d) ==
  {n \in 1..RetryBudget : \E w \in Workers : Spends(w, d) /\ worker[w].retries = n}

\* What the claims made so far allow the cycle to send.
Allowed(d) ==
  IF delivery[d].retries <= RetryBudget THEN delivery[d].retries ELSE RetryBudget

\* A job that may still send belongs to a cycle that has begun, to the numbers
\* already claimed, and sends within the budget only.
JobsWithinClaims ==
  \A w \in Workers : worker[w].pc \in {"claimed", "sending"} =>
    LET d == worker[w].delivery IN
    /\ worker[w].cycle <= delivery[d].cycle
    /\ worker[w].pc = "sending" => worker[w].retries <= RetryBudget
    /\ worker[w].cycle = delivery[d].cycle => worker[w].retries \in 1..delivery[d].retries

\* An attempt within the budget is one replica's.
AttemptIsOnes ==
  \A d \in Deliveries : \A v, w \in Workers :
    Spends(v, d) /\ Spends(w, d) /\ worker[v].retries = worker[w].retries
      /\ worker[w].retries <= RetryBudget => v = w

NewRowsAreZero ==
  \A d \in Deliveries : delivery[d].status = "none" =>
    delivery[d].retries = 0 /\ delivery[d].cycle = 0

\* Messages sent, and attempts that may still send, are all claimed.
SentAndHeld == \A d \in Deliveries : sends[d] + Cardinality(Held(d)) <= Allowed(d)

BudgetInv ==
  TypeOK /\ JobsWithinClaims /\ AttemptIsOnes /\ NewRowsAreZero /\ SentAndHeld

\* Held attempts are finitely many, and fewer replicas hold fewer of them.
LEMMA HeldFinite ==
  /\ \A d : IsFiniteSet(Held(d)) /\ Cardinality(Held(d)) \in Nat
  /\ \A d : \A S \in SUBSET Held(d) :
       IsFiniteSet(S) /\ Cardinality(S) \in Nat /\ Cardinality(S) <= Cardinality(Held(d))
<1>1. IsFiniteSet(1..RetryBudget) BY FS_Interval
<1>2. \A d : Held(d) \in SUBSET (1..RetryBudget) BY DEF Held
<1>3. \A d : IsFiniteSet(Held(d)) BY <1>1, <1>2, FS_Subset
<1> QED BY <1>3, FS_Subset, FS_CardinalityType

LEMMA InitBudget == Init => BudgetInv
<1> SUFFICES ASSUME Init PROVE BudgetInv OBVIOUS
<1>1. JobsWithinClaims /\ AttemptIsOnes /\ NewRowsAreZero
  BY DEF Init, JobsWithinClaims, AttemptIsOnes, NewRowsAreZero, Spends, Idle, Unused
<1>2. \A d \in Deliveries : Held(d) = {} BY DEF Init, Held, Spends, Idle
<1>3. SentAndHeld
  <2> SUFFICES ASSUME NEW d \in Deliveries
               PROVE  sends[d] + Cardinality(Held(d)) <= Allowed(d)
    BY DEF SentAndHeld
  <2>1. Cardinality(Held(d)) = 0 BY <1>2, FS_EmptySet
  <2>2. sends[d] = 0 /\ Allowed(d) = 0 BY DEF Init, Allowed, Unused
  <2> QED BY <2>1, <2>2
<1> QED BY <1>1, <1>3, InitTypes DEF BudgetInv

\* What most steps leave alone: the counters of rows; and no job comes to spend.
CountersStay ==
  \A d \in Deliveries :
    /\ delivery'[d].retries = delivery[d].retries /\ delivery'[d].cycle = delivery[d].cycle
    /\ delivery'[d].status = "none" => delivery[d].status = "none"

SpendsAsBefore(w) ==
  worker'[w].pc \in {"claimed", "sending"} =>
    /\ worker[w].pc \in {"claimed", "sending"}
    /\ worker'[w].delivery = worker[w].delivery
    /\ worker'[w].cycle = worker[w].cycle /\ worker'[w].retries = worker[w].retries
    /\ worker'[w].pc = "sending" => worker[w].retries <= RetryBudget

\* A step that neither counts nor sends keeps the budget.
LEMMA SteadyBudget ==
  ASSUME BudgetInv, TypeOK', CountersStay, UNCHANGED sends,
         \A w \in Workers : SpendsAsBefore(w)
  PROVE  BudgetInv'
<1>0. /\ delivery \in [Deliveries -> Delivery] /\ worker \in [Workers -> Job]
      /\ sends \in [Deliveries -> Nat]
      /\ \A w \in Workers : worker[w].pc \in {"claimed", "sending"} =>
           worker[w].delivery \in Deliveries
  BY DEF BudgetInv, TypeOK, Job
<1>1. JobsWithinClaims'
  BY <1>0 DEF BudgetInv, JobsWithinClaims, CountersStay, SpendsAsBefore
<1>2. \A w \in Workers, d \in Deliveries : Spends(w, d)' =>
        Spends(w, d) /\ worker'[w].retries = worker[w].retries
  BY DEF Spends, CountersStay, SpendsAsBefore
<1>3. AttemptIsOnes' BY <1>2 DEF BudgetInv, AttemptIsOnes
<1>4. NewRowsAreZero' BY DEF BudgetInv, NewRowsAreZero, CountersStay
<1>5. SentAndHeld'
  <2> SUFFICES ASSUME NEW d \in Deliveries
               PROVE  sends'[d] + Cardinality(Held(d)') <= Allowed(d)'
    BY DEF SentAndHeld
  <2>1. Held(d)' \in SUBSET Held(d) BY <1>2 DEF Held
  <2>2. Cardinality(Held(d)') <= Cardinality(Held(d)) /\ Cardinality(Held(d)') \in Nat
        /\ Cardinality(Held(d)) \in Nat
    BY <2>1, HeldFinite
  <2>3. Allowed(d)' = Allowed(d) /\ Allowed(d) \in Nat
    BY <1>0 DEF CountersStay, Allowed, Delivery
  <2>4. sends[d] + Cardinality(Held(d)) <= Allowed(d) BY DEF BudgetInv, SentAndHeld
  <2> QED BY <1>0, <2>2, <2>3, <2>4
<1> QED BY <1>1, <1>3, <1>4, <1>5 DEF BudgetInv

\* A claim takes a number of its own, as long as the budget lasts.
LEMMA ClaimBudget ==
  ASSUME BudgetInv, TypeOK', NEW w \in Workers, NEW d \in Deliveries, ClaimDelivery(w, d)
  PROVE  BudgetInv'
<1> DEFINE r == delivery[d].retries
<1>0. /\ delivery \in [Deliveries -> Delivery] /\ worker \in [Workers -> Job]
      /\ sends \in [Deliveries -> Nat] /\ r \in 0..RetryBudget + 1
      /\ \A v \in Workers : worker[v].pc \in {"claimed", "sending"} =>
           worker[v].delivery \in Deliveries
  BY DEF BudgetInv, TypeOK, Job, Delivery
<1>1. /\ delivery'[d].retries = Counted(r) /\ delivery'[d].cycle = delivery[d].cycle
      /\ delivery'[d].status = "sending"
      /\ \A x \in Deliveries \ {d} : delivery'[x] = delivery[x]
  BY <1>0 DEF ClaimDelivery, Delivery
<1>2. /\ worker'[w].pc = "claimed" /\ worker'[w].delivery = d
      /\ worker'[w].retries = Counted(r) /\ worker'[w].cycle = delivery[d].cycle
      /\ \A v \in Workers \ {w} : worker'[v] = worker[v]
      /\ worker[w].pc = "idle" /\ sends' = sends
  BY <1>0 DEF ClaimDelivery, Idle
<1>3. r <= Counted(r) /\ Counted(r) \in 1..RetryBudget + 1
      /\ (Counted(r) <= RetryBudget => Counted(r) = r + 1)
  BY <1>0 DEF Counted
<1>4. \A v \in Workers, x \in Deliveries :
        Spends(v, x)' <=> Spends(v, x) \/ (v = w /\ x = d)
  BY <1>0, <1>1, <1>2 DEF Spends
<1>5. \A v \in Workers : Spends(v, d) => v # w /\ worker[v].retries \in 1..r
  BY <1>2 DEF Spends, BudgetInv, JobsWithinClaims
<1>6. JobsWithinClaims'
  <2> SUFFICES ASSUME NEW v \in Workers, worker'[v].pc \in {"claimed", "sending"}
               PROVE  LET x == worker'[v].delivery IN
                      /\ worker'[v].cycle <= delivery'[x].cycle
                      /\ worker'[v].pc = "sending" => worker'[v].retries <= RetryBudget
                      /\ worker'[v].cycle = delivery'[x].cycle =>
                           worker'[v].retries \in 1..delivery'[x].retries
    BY DEF JobsWithinClaims
  <2>1. CASE v = w
    <3>1. delivery[d].cycle \in Nat BY <1>0 DEF Delivery
    <3> QED BY <1>1, <1>2, <1>3, <2>1, <3>1
  <2>2. CASE v # w
    <3>1. worker'[v] = worker[v] BY <1>2, <2>2
    <3>2. CASE worker[v].delivery = d
      BY <1>0, <1>1, <1>3, <3>1, <3>2 DEF BudgetInv, JobsWithinClaims
    <3>3. CASE worker[v].delivery # d
      BY <1>0, <1>1, <3>1, <3>3 DEF BudgetInv, JobsWithinClaims
    <3> QED BY <3>2, <3>3
  <2> QED BY <2>1, <2>2
<1>7. AttemptIsOnes'
  <2> SUFFICES ASSUME NEW x \in Deliveries, NEW u \in Workers, NEW v \in Workers,
                      Spends(u, x)', Spends(v, x)',
                      worker'[u].retries = worker'[v].retries,
                      worker'[v].retries <= RetryBudget
               PROVE  u = v
    BY DEF AttemptIsOnes
  <2>1. CASE u # w /\ v # w BY <1>2, <1>4, <2>1 DEF BudgetInv, AttemptIsOnes
  <2>2. CASE u = w /\ v # w
    BY <1>0, <1>2, <1>3, <1>4, <1>5, <2>2 DEF Spends
  <2>3. CASE v = w /\ u # w
    BY <1>0, <1>2, <1>3, <1>4, <1>5, <2>3 DEF Spends
  <2> QED BY <2>1, <2>2, <2>3
<1>8. NewRowsAreZero' BY <1>1 DEF BudgetInv, NewRowsAreZero
<1>9. SentAndHeld'
  <2> SUFFICES ASSUME NEW x \in Deliveries
               PROVE  sends'[x] + Cardinality(Held(x)') <= Allowed(x)'
    BY DEF SentAndHeld
  <2>1. /\ sends[x] + Cardinality(Held(x)) <= Allowed(x)
        /\ sends[x] \in Nat /\ Cardinality(Held(x)) \in Nat /\ IsFiniteSet(Held(x))
    BY <1>0, HeldFinite DEF BudgetInv, SentAndHeld
  <2>2. CASE x # d
    <3>1. Held(x)' = Held(x) BY <1>2, <1>4, <2>2 DEF Held, Spends
    <3>2. Allowed(x)' = Allowed(x) BY <1>1, <2>2 DEF Allowed
    <3> QED BY <1>2, <2>1, <3>1, <3>2
  <2>3. CASE x = d /\ r < RetryBudget
    <3>1. Counted(r) = r + 1 /\ r + 1 \in 1..RetryBudget BY <1>0, <2>3 DEF Counted
    <3>2. Held(x)' = Held(x) \cup {r + 1}
      BY <1>2, <1>4, <1>5, <2>3, <3>1 DEF Held
    <3>3. Cardinality(Held(x)') <= Cardinality(Held(x)) + 1 /\ Cardinality(Held(x)') \in Nat
      <4>1. Cardinality(Held(x) \cup {r + 1}) =
              IF r + 1 \in Held(x) THEN Cardinality(Held(x)) ELSE Cardinality(Held(x)) + 1
        BY <2>1, FS_AddElement
      <4> QED BY <2>1, <3>2, <4>1
    <3>4. Allowed(x) = r /\ Allowed(x)' = r + 1 BY <1>0, <1>1, <2>3, <3>1 DEF Allowed
    <3> QED BY <1>0, <1>2, <2>1, <2>3, <3>3, <3>4
  <2>4. CASE x = d /\ ~(r < RetryBudget)
    <3>1. Counted(r) = RetryBudget + 1 BY <1>0, <2>4 DEF Counted
    <3>2. Held(x)' = Held(x) BY <1>2, <1>4, <1>5, <2>4, <3>1 DEF Held
    <3>3. Allowed(x) = RetryBudget /\ Allowed(x)' = RetryBudget
      BY <1>0, <1>1, <2>4, <3>1 DEF Allowed
    <3> QED BY <1>2, <2>1, <2>4, <3>2, <3>3
  <2> QED BY <2>2, <2>3, <2>4
<1> QED BY <1>6, <1>7, <1>8, <1>9 DEF BudgetInv

\* A message of the present cycle uses up the attempt that was held for it.
LEMMA SendBudget ==
  ASSUME BudgetInv, TypeOK', NEW w \in Workers, SendMessage(w)
  PROVE  BudgetInv'
<1> DEFINE d == worker[w].delivery
           r == worker[w].retries
<1>0. /\ delivery \in [Deliveries -> Delivery] /\ worker \in [Workers -> Job]
      /\ sends \in [Deliveries -> Nat] /\ worker[w].pc = "sending" /\ d \in Deliveries
      /\ r \in 0..RetryBudget + 1
  BY DEF BudgetInv, TypeOK, Job, SendMessage
<1>1. /\ worker'[w].pc = "done" /\ delivery' = delivery
      /\ \A v \in Workers \ {w} : worker'[v] = worker[v]
  BY <1>0 DEF SendMessage, Finish, Job
<1>2. CASE worker[w].cycle # delivery[d].cycle
  <2>1. CountersStay BY <1>1 DEF CountersStay
  <2>2. \A v \in Workers : SpendsAsBefore(v)
    BY <1>0, <1>1 DEF SpendsAsBefore, BudgetInv, JobsWithinClaims
  <2>3. sends' = sends BY <1>2 DEF SendMessage
  <2> QED BY <2>1, <2>2, <2>3, SteadyBudget
<1>3. CASE worker[w].cycle = delivery[d].cycle
  <2>1. r \in 1..RetryBudget /\ Spends(w, d)
    BY <1>0, <1>3 DEF BudgetInv, JobsWithinClaims, Spends
  <2>2. sends' = [sends EXCEPT ![d] = @ + 1] BY <1>3 DEF SendMessage
  <2>3. \A v \in Workers, x \in Deliveries :
          Spends(v, x)' <=> Spends(v, x) /\ v # w
    BY <1>0, <1>1 DEF Spends
  <2>4. JobsWithinClaims' BY <1>0, <1>1 DEF BudgetInv, JobsWithinClaims
  <2>5. AttemptIsOnes' BY <1>1, <2>3 DEF BudgetInv, AttemptIsOnes
  <2>6. NewRowsAreZero' BY <1>1 DEF BudgetInv, NewRowsAreZero
  <2>7. SentAndHeld'
    <3> SUFFICES ASSUME NEW x \in Deliveries
                 PROVE  sends'[x] + Cardinality(Held(x)') <= Allowed(x)'
      BY DEF SentAndHeld
    <3>1. /\ sends[x] + Cardinality(Held(x)) <= Allowed(x)
          /\ sends[x] \in Nat /\ Cardinality(Held(x)) \in Nat /\ IsFiniteSet(Held(x))
      BY <1>0, HeldFinite DEF BudgetInv, SentAndHeld
    <3>2. Allowed(x)' = Allowed(x) /\ Allowed(x) \in Nat
      BY <1>0, <1>1 DEF Allowed, Delivery
    <3>3. CASE x # d
      <4>1. Held(x)' = Held(x) BY <1>1, <2>3, <3>3 DEF Held, Spends
      <4> QED BY <1>0, <2>2, <3>1, <3>2, <3>3, <4>1
    <3>4. CASE x = d
      <4>1. Held(x)' = Held(x) \ {r}
        <5>1. \A v \in Workers : Spends(v, d) /\ worker[v].retries = r => v = w
          BY <1>0, <2>1 DEF BudgetInv, AttemptIsOnes
        <5> QED BY <1>1, <2>3, <3>4, <5>1 DEF Held
      <4>2. r \in Held(x) BY <2>1, <3>4 DEF Held
      <4>3. Cardinality(Held(x)') = Cardinality(Held(x)) - 1
        <5>1. Cardinality(Held(x) \ {r}) = IF r \in Held(x) THEN Cardinality(Held(x)) - 1
                                           ELSE Cardinality(Held(x))
          BY <3>1, FS_RemoveElement
        <5> QED BY <4>1, <4>2, <5>1
      <4>4. sends'[x] = sends[x] + 1 BY <1>0, <2>2, <3>4
      <4> QED BY <3>1, <3>2, <4>3, <4>4
    <3> QED BY <3>3, <3>4
  <2> QED BY <2>4, <2>5, <2>6, <2>7 DEF BudgetInv
<1> QED BY <1>2, <1>3

\* A new cycle begins with nothing sent and nothing held.
LEMMA RedeliverBudget ==
  ASSUME BudgetInv, TypeOK', NEW d \in Deliveries, RedeliverNotification(d)
  PROVE  BudgetInv'
<1>0. /\ delivery \in [Deliveries -> Delivery] /\ worker \in [Workers -> Job]
      /\ sends \in [Deliveries -> Nat]
      /\ \A v \in Workers : worker[v].pc \in {"claimed", "sending"} =>
           worker[v].delivery \in Deliveries
      /\ \A v \in Workers : worker[v].cycle \in Nat
      /\ \A x \in Deliveries : delivery[x].cycle \in Nat
  BY DEF BudgetInv, TypeOK, Job, Delivery
<1>1. /\ delivery'[d].retries = 0 /\ delivery'[d].cycle = delivery[d].cycle + 1
      /\ delivery'[d].status = "pending"
      /\ \A x \in Deliveries \ {d} : delivery'[x] = delivery[x]
      /\ worker' = worker /\ sends' = [sends EXCEPT ![d] = 0]
  BY <1>0 DEF RedeliverNotification, Delivery
<1>2. \A v \in Workers : worker[v].pc \in {"claimed", "sending"} =>
        worker[v].cycle <= delivery[worker[v].delivery].cycle
  BY DEF BudgetInv, JobsWithinClaims
<1>3. \A v \in Workers : ~Spends(v, d)'
  BY <1>0, <1>1, <1>2 DEF Spends
<1>4. \A v \in Workers, x \in Deliveries \ {d} : Spends(v, x)' <=> Spends(v, x)
  BY <1>1 DEF Spends
<1>5. JobsWithinClaims'
  <2> SUFFICES ASSUME NEW v \in Workers, worker[v].pc \in {"claimed", "sending"}
               PROVE  LET x == worker[v].delivery IN
                      /\ worker[v].cycle <= delivery'[x].cycle
                      /\ worker[v].pc = "sending" => worker[v].retries <= RetryBudget
                      /\ worker[v].cycle = delivery'[x].cycle =>
                           worker[v].retries \in 1..delivery'[x].retries
    BY <1>1 DEF JobsWithinClaims
  <2>1. CASE worker[v].delivery = d
    BY <1>0, <1>1, <1>2, <2>1 DEF BudgetInv, JobsWithinClaims
  <2>2. CASE worker[v].delivery # d
    BY <1>0, <1>1, <2>2 DEF BudgetInv, JobsWithinClaims
  <2> QED BY <2>1, <2>2
<1>6. AttemptIsOnes' BY <1>1, <1>3, <1>4 DEF BudgetInv, AttemptIsOnes
<1>7. NewRowsAreZero' BY <1>1 DEF BudgetInv, NewRowsAreZero
<1>8. SentAndHeld'
  <2> SUFFICES ASSUME NEW x \in Deliveries
               PROVE  sends'[x] + Cardinality(Held(x)') <= Allowed(x)'
    BY DEF SentAndHeld
  <2>1. CASE x = d
    <3>1. Held(d)' = {} BY <1>3 DEF Held
    <3> QED BY <1>0, <1>1, <2>1, <3>1, FS_EmptySet DEF Allowed
  <2>2. CASE x # d
    <3>1. Held(x)' = Held(x) BY <1>1, <1>4, <2>2 DEF Held
    <3> QED BY <1>0, <1>1, <2>2, <3>1 DEF BudgetInv, SentAndHeld, Allowed
  <2> QED BY <2>1, <2>2
<1> QED BY <1>5, <1>6, <1>7, <1>8 DEF BudgetInv

\* Every other step is steady: a row is queued with the counters it was made with.
LEMMA SteadySteps ==
  ASSUME BudgetInv, [Next]_vars,
         ~\E w \in Workers : SendMessage(w) \/ \E d \in Deliveries : ClaimDelivery(w, d),
         ~\E d \in Deliveries : RedeliverNotification(d)
  PROVE  CountersStay /\ UNCHANGED sends /\ \A w \in Workers : SpendsAsBefore(w)
<1>0. /\ delivery \in [Deliveries -> Delivery] /\ worker \in [Workers -> Job]
      /\ NewRowsAreZero /\ JobsWithinClaims
  BY DEF BudgetInv, TypeOK
<1>1. UNCHANGED worker => \A w \in Workers : SpendsAsBefore(w)
  BY <1>0 DEF SpendsAsBefore, JobsWithinClaims
<1>2. UNCHANGED delivery => CountersStay BY DEF CountersStay
<1>3. CASE DeleteNotificationDestination
  <2>1. CountersStay BY <1>0, <1>3 DEF DeleteNotificationDestination, CountersStay, Delivery
  <2> QED BY <1>1, <1>3, <2>1 DEF DeleteNotificationDestination
<1>4. ASSUME NEW d \in Deliveries,
             SendVerification(d) \/ SendTest(d) \/ enqueueNotification(d)
      PROVE  CountersStay /\ UNCHANGED <<worker, sends>>
  <2>1. PICK kind, r : delivery' = [delivery EXCEPT ![d] = Queued(kind, r)]
    BY <1>4 DEF SendVerification, SendTest, enqueueNotification
  <2>2. /\ delivery'[d].retries = 0 /\ delivery'[d].cycle = 0
        /\ delivery'[d].status = "pending"
    BY <1>0, <2>1 DEF Queued
  <2>3. delivery[d].status = "none" BY <1>4 DEF SendVerification, SendTest, enqueueNotification
  <2>4. CountersStay BY <1>0, <2>1, <2>2, <2>3 DEF NewRowsAreZero, CountersStay
  <2> QED BY <1>4, <2>4 DEF SendVerification, SendTest, enqueueNotification
<1>5. ASSUME NEW d \in Deliveries, LeaseLapses(d) PROVE CountersStay
  BY <1>0, <1>5 DEF LeaseLapses, CountersStay, Delivery
<1>6. ASSUME NEW w \in Workers, RecordOutcome(w) PROVE CountersStay
  <2>1. worker[w].outcome # "none" BY <1>0 DEF Job, Settled
  <2> QED BY <1>0, <1>6, <2>1 DEF RecordOutcome, CountersStay, Delivery
<1>7. ASSUME NEW w \in Workers, RecordOutcome(w) \/ DropOutcome(w) \/ WorkerStops(w)
      PROVE  \A v \in Workers : SpendsAsBefore(v)
  <2>1. worker' = [worker EXCEPT ![w] = Idle]
    BY <1>7 DEF RecordOutcome, DropOutcome, WorkerStops
  <2> QED BY <1>0, <2>1 DEF SpendsAsBefore, JobsWithinClaims, Idle
<1>8. ASSUME NEW w \in Workers, ReadDestination(w)
      PROVE  \A v \in Workers : SpendsAsBefore(v)
  <2>1. CASE \E outcome : Finish(w, outcome)
    BY <1>0, <2>1 DEF SpendsAsBefore, JobsWithinClaims, Finish, Job
  <2>2. CASE /\ worker[w].retries <= RetryBudget
             /\ worker' = [worker EXCEPT ![w] =
                  [@ EXCEPT !.pc = "sending", !.config = destination.config]]
    BY <1>0, <1>8, <2>2 DEF ReadDestination, SpendsAsBefore, JobsWithinClaims, Job
  <2> QED BY <1>8, <2>1, <2>2 DEF ReadDestination
<1>9. CASE AdminStep
  <2>1. \/ UNCHANGED <<delivery, worker, sends>> \/ DeleteNotificationDestination
        \/ \E d \in Deliveries : SendVerification(d) \/ SendTest(d)
    BY <1>9
    DEF AdminStep, SaveNotificationDestination, SetNotificationSubscriptions,
        SetNotificationDestinationEnabled, ChallengeExpires, VerifyNotificationDestination
  <2> QED BY <1>1, <1>2, <1>3, <1>4, <2>1
<1>10. CASE QueueStep
  <2>1. PICK d \in Deliveries : enqueueNotification(d) \/ LeaseLapses(d)
    BY <1>10 DEF QueueStep
  <2> QED BY <1>1, <1>4, <1>5, <2>1 DEF LeaseLapses
<1>11. CASE WorkerStep
  <2>1. PICK w \in Workers :
          ReadDestination(w) \/ RecordOutcome(w) \/ DropOutcome(w) \/ WorkerStops(w)
    BY <1>11 DEF WorkerStep
  <2>2. UNCHANGED sends /\ (RecordOutcome(w) \/ UNCHANGED delivery)
    BY <2>1 DEF ReadDestination, RecordOutcome, DropOutcome, WorkerStops
  <2> QED BY <1>2, <1>6, <1>7, <1>8, <2>1, <2>2
<1>12. CASE UNCHANGED vars BY <1>1, <1>2, <1>12 DEF vars
<1> QED BY <1>9, <1>10, <1>11, <1>12 DEF Next

LEMMA BudgetInvStep == BudgetInv /\ [Next]_vars => BudgetInv'
<1> SUFFICES ASSUME BudgetInv, [Next]_vars PROVE BudgetInv' OBVIOUS
<1>1. TypeOK' BY StepTypes DEF BudgetInv
<1> QED BY <1>1, SteadySteps, SteadyBudget, ClaimBudget, SendBudget, RedeliverBudget

\* However often replicas crash, stall past their lease and overtake each other, one
\* cycle of a delivery sends at most as many messages as its budget has attempts.
THEOREM BudgetHolds == Spec => []WithinBudget
<1>1. BudgetInv => WithinBudget
  <2> SUFFICES ASSUME BudgetInv, NEW d \in Deliveries PROVE sends[d] <= RetryBudget
    BY DEF WithinBudget
  <2>1. sends[d] + Cardinality(Held(d)) <= Allowed(d) /\ sends[d] \in Nat
        /\ Cardinality(Held(d)) \in Nat
    BY HeldFinite DEF BudgetInv, SentAndHeld, TypeOK
  <2>2. Allowed(d) <= RetryBudget /\ Allowed(d) \in Nat
    BY DEF Allowed, BudgetInv, TypeOK, Delivery
  <2> QED BY <2>1, <2>2
<1> QED BY <1>1, InitBudget, BudgetInvStep, PTL DEF Spec
=============================================================================
