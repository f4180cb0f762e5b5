------------------------------ MODULE Schedules ------------------------------
(***************************************************************************)
(* One schedule of internal/core/schedules.go and its target: edits,       *)
(* independent approval, pausing and removal by users who act on the row   *)
(* they last loaded; the replicas' tick, which turns a due slot into an    *)
(* operation or skips it and moves on; and the dispatch checks that        *)
(* operations.go makes for a scheduled operation.                          *)
(*                                                                         *)
(* A tick reads the clock before its transaction begins, and an edit       *)
(* computes its first slot before it locks the row, so both may act on a   *)
(* time that has passed.  A slot is an occurrence nextScheduleAfter can    *)
(* return: its instant, its place among the slots of that instant, its     *)
(* action, and whether the calendar takes it out (an exception, a local    *)
(* time that does not exist).  Reasons to skip or refuse that rest on      *)
(* inventory, runtimes or sign-in policy are a free choice.                *)
(***************************************************************************)
EXTENDS Integers, Sequences, FiniteSets

CONSTANTS
  Users, Workers,
  Slot,         \* the slots that occur in some specification
  Specs,        \* what an editor may save: sets of slots
  Grace,        \* how late a slot may still run: 30 seconds
  MaxTime,      \* bound on the clock
  MaxWrites,    \* bound on the writes of users to the schedule
  MaxChanges,   \* bound on what else changes: see Disturbances
  Nobody, NoSlot

ASSUME SchedulesAssumption ==
  /\ IsFiniteSet(Users) /\ Nobody \notin Users
  /\ Grace \in Nat /\ MaxTime \in Nat /\ MaxWrites \in Nat \ {0} /\ MaxChanges \in Nat
  /\ Slot \subseteq [due : Nat, place : Nat, action : {"start", "shutdown", "restart"},
                     out : BOOLEAN]
  /\ NoSlot \notin Slot
  /\ Specs \subseteq SUBSET Slot
  /\ \A spec \in Specs : IsFiniteSet(spec)
  /\ \A spec \in Specs : \A a, b \in spec :
       a.due = b.due /\ (a.place = b.place \/ (~a.out /\ ~b.out /\ a.action = b.action))
         => a = b

VARIABLES
  clock,
  schedule,    \* the row of schedules, with its schedule_targets row; it is enabled
               \* when both the schedule and its automation identity are
  approvers,   \* who holds operations.approve
  connection, module,  \* of the target
  policy,      \* the organization's maintenance policy
  operations,  \* the operations the schedule has created, oldest first
  occupied,    \* an operation that somebody else requested is unsettled
  tick,        \* per replica: when the tick under way began
  screen,      \* per user: the schedule as last loaded
  reviewed     \* what the standing approval was given to

world == <<approvers, connection, module, policy>>
vars == <<clock, schedule, world, operations, occupied, tick, screen, reviewed>>

-----------------------------------------------------------------------------
Time == 0..MaxTime
Count == 0..MaxChanges
Writes == 0..(MaxWrites + 1)
NoTick == -1

Revisions == [connection : Count, module : Count]
Seen == [write : Writes, spec : Specs \cup {{}}, target : Revisions]
Schedule == [status : {"absent", "live", "removed"}, write : Writes, revision : Writes,
             spec : Specs \cup {{}}, editor : Users \cup {Nobody}, target : Revisions,
             enabled : BOOLEAN, approver : Users \cup {Nobody},
             policy : Count, next : Slot \cup {NoSlot}, upgraded : BOOLEAN]
\* "queued" lasts until the dispatch checks are passed; "dispatched" is dispatching
\* or observing after them; "over" is succeeded, failed,
\* resolved, canceled or expired.
Status == {"queued", "dispatched", "uncertain", "over"}
Unsettled == {"queued", "dispatched", "uncertain"}
Operation == [revision : Writes, slot : Slot, approver : Users, target : Revisions,
              policy : Count, expires : Nat, status : Status]

NewTarget == [connection |-> 0, module |-> 0]
NoSchedule == [status |-> "absent", write |-> 0, revision |-> 0, spec |-> {},
               editor |-> Nobody, target |-> NewTarget, enabled |-> TRUE,
               approver |-> Nobody, policy |-> 0, next |-> NoSlot, upgraded |-> TRUE]
NothingSeen == [write |-> 0, spec |-> {}, target |-> NewTarget]

\* A row from before migration 00010 has its clock recomputed once; what it says of
\* its next slot is taken to be what the present code would say.
Init ==
  /\ clock = 0
  /\ \/ schedule = NoSchedule
     \/ \E spec \in Specs, u \in Users : \E slot \in spec :
          schedule = [NoSchedule EXCEPT !.status = "live", !.write = 1, !.revision = 1,
                        !.spec = spec, !.editor = u, !.next = slot, !.upgraded = FALSE]
  /\ approvers = Users
  /\ connection = [revision |-> 0, enabled |-> TRUE]
  /\ module = [revision |-> 0, enabled |-> TRUE]
  /\ policy = [changes |-> 0, open |-> TRUE]
  /\ operations = <<>>
  /\ occupied = FALSE
  /\ tick = [w \in Workers |-> NoTick]
  /\ screen = [u \in Users |-> NothingSeen]
  /\ reviewed = NothingSeen

-----------------------------------------------------------------------------
(* Slots.                                                                  *)

Before(a, b) == a.due < b.due \/ (a.due = b.due /\ a.place < b.place)

Earliest(slots) ==
  IF slots = {} THEN NoSlot
  ELSE CHOOSE s \in slots : \A t \in slots \ {s} : Before(s, t)

\* nextSchedule and nextScheduleAfter: after an instant, after a slot.
AfterTime(spec, t) == Earliest({s \in spec : s.due > t})
AfterSlot(spec, slot) == Earliest({s \in spec : Before(slot, s)})

\* Fault: paired actions at one instant are not compared.
TakenOutAlone(spec, slot) == slot.out

\* A slot the calendar takes out, and both actions of a pair that coincide.
TakenOut(spec, slot) ==
  \/ slot.out
  \/ \E s \in spec : ~s.out /\ s.due = slot.due /\ s.action # slot.action

-----------------------------------------------------------------------------
(* Users.                                                                  *)

GetSchedule(u) ==
  /\ schedule.status = "live"
  /\ screen' = [screen EXCEPT ![u] = [write |-> schedule.write, spec |-> schedule.spec,
                                      target |-> schedule.target]]
  /\ UNCHANGED <<clock, schedule, world, operations, occupied, tick, reviewed>>

\* Fault: the expected revision is not compared.
LoadedEver(u) == schedule.status = "live" /\ screen[u].write > 0

\* lockReviewedSchedule
LoadedLast(u) == schedule.status = "live" /\ screen[u].write = schedule.write

\* The first slot is computed before the transaction waits for its locks.
Target == [connection |-> connection.revision, module |-> module.revision]

SaveSchedule(u, spec) ==
  /\ schedule.status = "absent" \/ LoadedLast(u)
  /\ schedule.write < MaxWrites
  /\ \E began \in {clock - 1, clock} :
       LET first == AfterTime(spec, began) IN
       /\ first # NoSlot
       /\ schedule' = [schedule EXCEPT
            !.status = "live", !.write = @ + 1, !.revision = @ + 1, !.spec = spec,
            !.editor = u, !.target = Target, !.approver = Nobody,
            !.next = first, !.upgraded = TRUE]
  /\ reviewed' = NothingSeen
  /\ UNCHANGED <<clock, world, operations, occupied, tick, screen>>

ApproveSchedule(u) ==
  /\ LoadedLast(u)
  /\ schedule.write < MaxWrites
  /\ schedule.editor # u /\ u \in approvers
  /\ module.enabled /\ schedule.target = Target
  /\ schedule' = [schedule EXCEPT !.write = @ + 1, !.approver = u,
                                  !.policy = policy.changes]
  /\ reviewed' = screen[u]
  /\ UNCHANGED <<clock, world, operations, occupied, tick, screen>>

SetScheduleEnabled(u, enabled) ==
  /\ LoadedLast(u)
  /\ schedule.write < MaxWrites
  /\ schedule' = [schedule EXCEPT !.write = @ + 1, !.enabled = enabled]
  /\ UNCHANGED <<clock, world, operations, occupied, tick, screen, reviewed>>

DeleteSchedule(u) ==
  /\ LoadedLast(u)
  /\ schedule' = [schedule EXCEPT !.write = @ + 1, !.status = "removed",
                                  !.enabled = FALSE]
  /\ UNCHANGED <<clock, world, operations, occupied, tick, screen, reviewed>>

-----------------------------------------------------------------------------
(* The scheduler: every replica, once a second.                            *)

TickBegins(w) ==
  /\ tick[w] = NoTick
  /\ tick' = [tick EXCEPT ![w] = clock]
  /\ UNCHANGED <<clock, schedule, world, operations, occupied, screen, reviewed>>

Claimed ==
  /\ schedule.status = "live" /\ schedule.next # NoSlot
  /\ schedule.next.due <= clock \/ ~schedule.upgraded

Ends(w) == tick' = [tick EXCEPT ![w] = NoTick]

NothingDue(w) ==
  /\ tick[w] # NoTick
  /\ ~(Claimed /\ (schedule.next.due <= tick[w] \/ ~schedule.upgraded))
  /\ Ends(w)
  /\ UNCHANGED <<clock, schedule, world, operations, occupied, screen, reviewed>>

RefreshClock(w) ==
  /\ tick[w] # NoTick /\ Claimed
  /\ ~schedule.upgraded /\ schedule.next.due > tick[w]
  /\ schedule' = [schedule EXCEPT !.next = AfterTime(schedule.spec, tick[w]),
                                  !.upgraded = TRUE]
  /\ Ends(w)
  /\ UNCHANGED <<clock, world, operations, occupied, screen, reviewed>>

Late(now) == now > schedule.next.due + Grace

\* Slots missed while nobody ran the tick are passed over together.
Following(now) ==
  IF Late(now) THEN AfterTime(schedule.spec, now)
  ELSE AfterSlot(schedule.spec, schedule.next)

AdvanceSchedule(now) ==
  schedule' = [schedule EXCEPT !.next = Following(now), !.upgraded = TRUE]

\* Fault: uncertain work does not count.
BusyUnlessUncertain ==
  occupied \/ \E i \in DOMAIN operations : operations[i].status \in {"queued", "dispatched"}

Busy == occupied \/ \E i \in DOMAIN operations : operations[i].status \in Unsettled

\* The unique key of the operation's request.
Requested(slot) ==
  \E i \in DOMAIN operations :
    operations[i].revision = schedule.revision /\ operations[i].slot = slot

StandingApproval ==
  schedule.approver \in approvers /\ schedule.approver # schedule.editor

TargetUnchanged == connection.enabled /\ module.enabled /\ schedule.target = Target

\* The maintenance window is the one at the time the tick began.
Runs(now) ==
  /\ ~TakenOut(schedule.spec, schedule.next) /\ ~Late(now)
  /\ schedule.enabled
  /\ StandingApproval
  /\ policy.open \/ now < clock
  /\ schedule.policy = policy.changes
  /\ TargetUnchanged
  /\ ~Busy

Due(w) == tick[w] # NoTick /\ Claimed /\ schedule.next.due <= tick[w]

\* Fault: the operation lives on from the moment it is queued, as a manual request does.
DeadlineFromNow(slot, now) == now + Grace

\* Both deadlines that BindScheduledOperation stores are the slot's, however late the tick.
Deadline(slot, now) == slot.due + Grace

QueueOccurrence(w) ==
  /\ Due(w) /\ Runs(tick[w]) /\ ~Requested(schedule.next)
  /\ operations' = Append(operations,
       [revision |-> schedule.revision, slot |-> schedule.next,
        approver |-> schedule.approver, target |-> schedule.target,
        policy |-> policy.changes, expires |-> Deadline(schedule.next, tick[w]),
        status |-> "queued"])
  /\ AdvanceSchedule(tick[w])
  /\ Ends(w)
  /\ UNCHANGED <<clock, world, occupied, screen, reviewed>>

SkipOccurrence(w) ==
  /\ Due(w)
  /\ AdvanceSchedule(tick[w])
  /\ Ends(w)
  /\ UNCHANGED <<clock, world, operations, occupied, screen, reviewed>>

\* The transaction fails and changes nothing.
TickFails(w) ==
  /\ Due(w)
  /\ Ends(w)
  /\ UNCHANGED <<clock, schedule, world, operations, occupied, screen, reviewed>>

-----------------------------------------------------------------------------
(* The operations a schedule has created.                                  *)

Moves(i, status) ==
  /\ operations' = [operations EXCEPT ![i].status = status]
  /\ UNCHANGED <<clock, schedule, world, occupied, tick, screen, reviewed>>

\* ScheduleAuthorizesOperation
ScheduleAuthorizes(op) ==
  /\ schedule.status = "live" /\ schedule.revision = op.revision
  /\ schedule.enabled
  /\ schedule.approver # Nobody /\ schedule.policy = policy.changes
  /\ schedule.target.connection = op.target.connection

ConnectionFits(op) == connection.enabled /\ op.target.connection = connection.revision
ModuleFits(op) == module.enabled /\ op.target.module = module.revision

DispatchOperation(i) ==
  /\ operations[i].status = "queued"
  /\ ScheduleAuthorizes(operations[i])
  /\ ConnectionFits(operations[i]) /\ ModuleFits(operations[i])
  /\ policy.open /\ operations[i].policy = policy.changes
  /\ clock <= operations[i].expires
  /\ operations[i].approver \in approvers
  /\ Moves(i, "dispatched")

\* The worker dies between its claim and the dispatch checks.
AbandonOperation(i) == operations[i].status = "queued" /\ Moves(i, "uncertain")

RefuseOperation(i) == operations[i].status = "queued" /\ Moves(i, "over")

ExpireOperation(i) ==
  /\ operations[i].status = "queued" /\ clock > operations[i].expires
  /\ Moves(i, "over")

\* The provider refuses or completes it; or its fate is unknown: the worker died,
\* the schedule or the connection changed while it was observed, time ran out.
ObserveOperation(i) ==
  /\ operations[i].status = "dispatched"
  /\ \E status \in {"over", "uncertain"} : Moves(i, status)

ReconcileOperation(i) ==
  /\ operations[i].status = "uncertain" /\ ConnectionFits(operations[i])
  /\ Moves(i, "dispatched")

ResolveOperation(i) == operations[i].status = "uncertain" /\ Moves(i, "over")

-----------------------------------------------------------------------------
(* What else changes.                                                      *)

ClockAdvances ==
  /\ clock < MaxTime
  /\ clock' = clock + 1
  /\ UNCHANGED <<schedule, world, operations, occupied, tick, screen, reviewed>>

\* How much is out of the ordinary at the moment.
Disturbances ==
  connection.revision + module.revision + policy.changes + Cardinality(Users \ approvers)
    + (IF policy.open THEN 0 ELSE 1) + (IF occupied THEN 1 ELSE 0)

ChangeApprovers(u) ==
  /\ \/ u \in approvers /\ Disturbances < MaxChanges /\ approvers' = approvers \ {u}
     \/ u \notin approvers /\ approvers' = approvers \cup {u}
  /\ UNCHANGED <<clock, schedule, connection, module, policy, operations, occupied, tick,
                 screen, reviewed>>

\* The credential is rotated, or the connection switched off or on.
ChangeConnection ==
  /\ Disturbances < MaxChanges
  /\ \E on \in BOOLEAN :
       connection' = [revision |-> connection.revision + 1, enabled |-> on]
  /\ UNCHANGED <<clock, schedule, approvers, module, policy, operations, occupied, tick,
                 screen, reviewed>>

\* Another runtime is selected, or the module switched off or on.
ChangeModule ==
  /\ Disturbances < MaxChanges
  /\ \E on \in BOOLEAN : module' = [revision |-> module.revision + 1, enabled |-> on]
  /\ UNCHANGED <<clock, schedule, approvers, connection, policy, operations, occupied, tick,
                 screen, reviewed>>

ChangePolicy ==
  /\ Disturbances < MaxChanges
  /\ policy' = [policy EXCEPT !.changes = @ + 1]
  /\ UNCHANGED <<clock, schedule, approvers, connection, module, operations, occupied, tick,
                 screen, reviewed>>

MaintenanceWindow ==
  /\ policy.open => Disturbances < MaxChanges
  /\ policy' = [policy EXCEPT !.open = ~@]
  /\ UNCHANGED <<clock, schedule, approvers, connection, module, operations, occupied, tick,
                 screen, reviewed>>

\* Another operation on the target begins or is settled.
OtherOperation ==
  /\ ~occupied => ~Busy /\ Disturbances < MaxChanges
  /\ occupied' = ~occupied
  /\ UNCHANGED <<clock, schedule, world, operations, tick, screen, reviewed>>

-----------------------------------------------------------------------------
Edits ==
  \E u \in Users :
    \/ GetSchedule(u) \/ ApproveSchedule(u) \/ DeleteSchedule(u)
    \/ \E spec \in Specs : SaveSchedule(u, spec)
    \/ \E enabled \in BOOLEAN : SetScheduleEnabled(u, enabled)

Scheduler ==
  \E w \in Workers :
    \/ TickBegins(w) \/ NothingDue(w) \/ RefreshClock(w)
    \/ QueueOccurrence(w) \/ SkipOccurrence(w) \/ TickFails(w)

Dispatcher ==
  \E i \in DOMAIN operations :
    \/ DispatchOperation(i) \/ RefuseOperation(i) \/ ExpireOperation(i)
    \/ AbandonOperation(i)
    \/ ObserveOperation(i) \/ ReconcileOperation(i) \/ ResolveOperation(i)

World ==
  \/ ClockAdvances
  \/ ChangeConnection \/ ChangeModule \/ ChangePolicy \/ MaintenanceWindow
  \/ OtherOperation
  \/ \E u \in Users : ChangeApprovers(u)

Next == Edits \/ Scheduler \/ Dispatcher \/ World

Spec == Init /\ [][Next]_vars

-----------------------------------------------------------------------------
(* Properties.                                                             *)

\* Types; whatever is queued has an approver.
TypeOK ==
  /\ clock \in Time
  /\ schedule \in Schedule
  /\ approvers \subseteq Users
  /\ connection \in [revision : Count, enabled : BOOLEAN]
  /\ module \in [revision : Count, enabled : BOOLEAN]
  /\ policy \in [changes : Count, open : BOOLEAN]
  /\ operations \in Seq(Operation)
  /\ occupied \in BOOLEAN
  /\ tick \in [Workers -> Time \cup {NoTick}]
  /\ screen \in [Users -> Seen]
  /\ reviewed \in Seen

Dispatched(i) ==
  /\ i \in DOMAIN operations /\ operations[i].status = "queued"
  /\ operations'[i].status = "dispatched"

\* A slot runs in its own window or not at all: not before it is due and not after its
\* grace, although a tick handles it with a clock that is behind, the operation may
\* wait in the queue, and dispatch only sees the deadline that was stored when it was
\* queued (README.md: "Missed runs and overlapping actions are skipped").
RunsInItsWindow ==
  [][\A i \in DOMAIN operations : Dispatched(i) =>
       /\ operations[i].slot.due <= clock
       /\ clock <= operations[i].slot.due + Grace]_vars

\* What runs is a slot of the specification its approver had on the screen,
\* against the target as it was then, while nothing has been paused since.
RunsAsReviewed ==
  [][\A i \in DOMAIN operations : Dispatched(i) =>
       /\ operations[i].slot \in reviewed.spec
       /\ reviewed.target = Target
       /\ schedule.status = "live" /\ schedule.enabled]_vars

\* No instant of a revision gives two operations: a slot is not repeated after a
\* stale tick or an edit, and both actions of a pair do not run together
\* ("Paired actions overlap at the same instant; neither will run").
OncePerInstant ==
  \A i, j \in DOMAIN operations :
    /\ operations[i].revision = operations[j].revision
    /\ operations[i].slot.due = operations[j].slot.due
    => i = j

\* The target has one unsettled operation.
OneAtATime ==
  /\ \A i, j \in DOMAIN operations :
       operations[i].status \in Unsettled /\ operations[j].status \in Unsettled => i = j
  /\ occupied => \A i \in DOMAIN operations : operations[i].status \notin Unsettled

=============================================================================
