--------------------------- MODULE SchedulesProofs ---------------------------
(***************************************************************************)
(* Theorems about Schedules.  The invariant ties together what a user saw, *)
(* what was approved and what was queued: a screen of the present write    *)
(* shows the present row, an approval was given to the present             *)
(* specification and target, and an operation of the present revision has  *)
(* a slot of that specification that lies before the next one.             *)
(*                                                                         *)
(* And about Calendar: a schedule takes every slot of its rules in turn,   *)
(* when a maintenance window is open is what its rule says on the clock of *)
(* the zone, and it stays open until the end that was told.                *)
(***************************************************************************)
EXTENDS Schedules, Calendar, FiniteSetTheorems, WellFoundedInduction, TLAPS

-----------------------------------------------------------------------------
(* Slots.                                                                  *)

\* A set of natural numbers has a least element.
LEMMA LeastNatural ==
  ASSUME NEW T, T \subseteq Nat, T # {}
  PROVE  \E x \in T : \A y \in T : x <= y
<1>1. \E x \in T : \A y \in T : ~(<<y, x>> \in OpToRel(<, Nat))
  BY WFMin, NatLessThanWellFounded, Zenon
<1>2. PICK x \in T : \A y \in T : ~(<<y, x>> \in OpToRel(<, Nat))
  BY <1>1, Zenon
<1>3. \A y \in T : ~(y < x)
  BY <1>2, Zenon DEF OpToRel
<1>4. \A y \in T : x <= y
  BY <1>3
<1> QED BY <1>4

\* The earliest of some slots of a specification is one of them (Earliest).
LEMMA EarliestIsOne ==
  ASSUME NEW spec \in Specs, NEW slots \in SUBSET spec
  PROVE  Earliest(slots) \in slots \cup {NoSlot}
<1>1. CASE slots = {}
  BY <1>1 DEF Earliest
<1>2. CASE slots # {}
  <2>1. slots \subseteq Slot
    BY SchedulesAssumption
  <2>2. \A s \in slots : s.due \in Nat /\ s.place \in Nat
    BY <2>1, SchedulesAssumption
  <2>3. PICK d \in {s.due : s \in slots} : \A e \in {s.due : s \in slots} : d <= e
    BY <1>2, <2>2, LeastNatural
  <2> DEFINE First == {s \in slots : s.due = d}
  <2>4. PICK p \in {s.place : s \in First} : \A e \in {s.place : s \in First} : p <= e
    <3>1. {s.place : s \in First} # {}
      BY <2>3
    <3>2. {s.place : s \in First} \subseteq Nat
      BY <2>2
    <3> HIDE DEF First
    <3> QED BY <3>1, <3>2, LeastNatural
  <2>5. PICK s \in First : s.place = p
    BY <2>4
  <2>6. \A t \in slots \ {s} : Before(s, t)
    <3> SUFFICES ASSUME NEW t \in slots \ {s} PROVE Before(s, t)
      OBVIOUS
    <3>1. d <= t.due /\ s.due = d
      BY <2>3, <2>5
    <3>2. CASE t.due = d
      <4>1. s.place <= t.place
        BY <2>4, <2>5, <3>2
      <4>2. s.place # t.place
        BY <2>5, <3>1, <3>2, SchedulesAssumption
      <4> QED BY <2>2, <2>5, <3>1, <3>2, <4>1, <4>2 DEF Before
    <3>3. CASE t.due # d
      BY <2>2, <2>5, <3>1, <3>3 DEF Before
    <3> QED BY <3>2, <3>3
  <2>7. \E x \in slots : \A t \in slots \ {x} : Before(x, t)
    BY <2>5, <2>6
  <2> QED BY <1>2, <2>7 DEF Earliest
<1> QED BY <1>1, <1>2

\* The next slot after an instant is of the specification and later.
LEMMA AfterTimeIsLater ==
  ASSUME NEW spec \in Specs, NEW t \in Int, AfterTime(spec, t) # NoSlot
  PROVE  AfterTime(spec, t) \in spec /\ AfterTime(spec, t).due > t
BY EarliestIsOne DEF AfterTime

\* The slot after another one is of the specification and lies behind it.
LEMMA AfterSlotIsBehind ==
  ASSUME NEW spec \in Specs, NEW slot \in Slot, AfterSlot(spec, slot) # NoSlot
  PROVE  AfterSlot(spec, slot) \in spec /\ Before(slot, AfterSlot(spec, slot))
BY EarliestIsOne DEF AfterSlot

-----------------------------------------------------------------------------
(* The row.                                                                *)

\* What a schedule's row says of itself: it has a specification and writes left
\* while it is live, its next slot is of that specification, and a standing
\* approval was given to what the row says.
RowFits ==
  /\ schedule \in Schedule
  /\ schedule.status = "absent" => schedule.write = 0
  /\ schedule.status = "live" =>
       schedule.write \in 1..MaxWrites /\ schedule.spec \in Specs
  /\ schedule.revision <= schedule.write
  /\ schedule.next \in schedule.spec \cup {NoSlot}
  /\ schedule.approver # Nobody =>
       reviewed.spec = schedule.spec /\ reviewed.target = schedule.target

\* A screen that was loaded after the last write shows the row.
ScreensFit ==
  \A u \in Users :
    /\ screen[u].write <= schedule.write
    /\ screen[u].write = schedule.write =>
         screen[u].spec = schedule.spec /\ screen[u].target = schedule.target

\* Types of everything but the row and its operations.
WorldFits ==
  /\ clock \in Time
  /\ approvers \subseteq Users
  /\ connection \in [revision : Count, enabled : BOOLEAN]
  /\ module \in [revision : Count, enabled : BOOLEAN]
  /\ policy \in [changes : Count, open : BOOLEAN]
  /\ occupied \in BOOLEAN
  /\ tick \in [Workers -> Time \cup {NoTick}]

PeopleFit == screen \in [Users -> Seen] /\ reviewed \in Seen

RowInv == WorldFits /\ PeopleFit /\ RowFits /\ ScreensFit

\* The operations of a schedule are typed, older than what is next, and of the
\* specification they name.
OperationsFit ==
  /\ operations \in Seq(Operation)
  /\ \A i \in DOMAIN operations :
       /\ operations[i].revision <= schedule.revision
       /\ operations[i].revision = schedule.revision =>
            /\ schedule.upgraded
            /\ operations[i].slot \in schedule.spec /\ ~operations[i].slot.out
            /\ operations[i].target = schedule.target
            /\ schedule.next # NoSlot => Before(operations[i].slot, schedule.next)
            /\ ~TakenOut(schedule.spec, operations[i].slot)

\* A tick's clock may be behind, never ahead, so what was queued is due; and the
\* deadline stored with it is still the slot's.
InTime ==
  /\ \A w \in Workers : tick[w] # NoTick => tick[w] <= clock
  /\ \A i \in DOMAIN operations :
       /\ operations[i].slot.due <= clock
       /\ operations[i].expires = operations[i].slot.due + Grace

Inv == RowInv /\ OperationsFit /\ OneAtATime /\ OncePerInstant /\ InTime

\* The row invariant holds initially.
LEMMA InitRow == Init => RowInv
<1> SUFFICES ASSUME Init PROVE RowInv
  OBVIOUS
<1>1. WorldFits
  <2>1. 0 \in Time /\ 0 \in Count
    BY SchedulesAssumption DEF Time, Count
  <2>2. connection \in [revision : Count, enabled : BOOLEAN]
        /\ module \in [revision : Count, enabled : BOOLEAN]
        /\ policy \in [changes : Count, open : BOOLEAN]
    BY <2>1 DEF Init
  <2>3. clock \in Time /\ approvers \subseteq Users /\ occupied \in BOOLEAN
        /\ tick \in [Workers -> Time \cup {NoTick}]
    BY <2>1 DEF Init
  <2> QED BY <2>2, <2>3 DEF WorldFits
<1>2. NothingSeen \in Seen
  BY SchedulesAssumption DEF Writes, Count, Seen, Revisions, NothingSeen, NewTarget
<1>3. PeopleFit
  BY <1>2 DEF PeopleFit, Init
<1>4. NoSchedule \in Schedule
  BY SchedulesAssumption DEF NoSchedule, Schedule, Writes, Count, Revisions, NewTarget
<1>5. CASE schedule = NoSchedule
  BY <1>1, <1>3, <1>4, <1>5 DEF RowInv, RowFits, ScreensFit, NoSchedule, Init, NothingSeen
<1>6. ASSUME NEW spec \in Specs, NEW v \in Users, NEW slot \in spec,
             schedule = [NoSchedule EXCEPT !.status = "live", !.write = 1, !.revision = 1,
                           !.spec = spec, !.editor = v, !.next = slot, !.upgraded = FALSE]
      PROVE  RowInv
  <2>1. schedule.status = "live" /\ schedule.write = 1 /\ schedule.revision = 1
        /\ schedule.spec = spec /\ schedule.next = slot /\ schedule.approver = Nobody
    BY <1>6 DEF NoSchedule
  <2>2. schedule \in Schedule
    <3>1. slot \in Slot /\ 1 \in Writes
      BY SchedulesAssumption DEF Writes
    <3> QED BY <1>4, <1>6, <3>1 DEF NoSchedule, Schedule
  <2>3. RowFits
    BY <2>1, <2>2, SchedulesAssumption DEF RowFits
  <2>4. ScreensFit
    <3>1. \A u \in Users : screen[u].write = 0
      BY DEF Init, NothingSeen
    <3> QED BY <2>1, <3>1 DEF ScreensFit
  <2> QED BY <1>1, <1>3, <2>3, <2>4 DEF RowInv
<1> QED BY <1>5, <1>6 DEF Init

\* What a replica's tick does to the replica.
LEMMA TicksFit ==
  ASSUME WorldFits, NEW w \in Workers,
         tick' = [tick EXCEPT ![w] = clock] \/ tick' = [tick EXCEPT ![w] = NoTick]
  PROVE  tick' \in [Workers -> Time \cup {NoTick}]
BY DEF WorldFits

\* Settings, people and clocks stay within their types.
LEMMA WorldSteps ==
  ASSUME WorldFits, Next
  PROVE  WorldFits'
<1> USE DEF WorldFits
<1>0. Cardinality(Users \ approvers) \in Nat
  BY SchedulesAssumption, FS_Difference, FS_CardinalityType
<1>1. ASSUME Disturbances < MaxChanges
      PROVE  /\ connection.revision + 1 \in Count
             /\ module.revision + 1 \in Count
             /\ policy.changes + 1 \in Count
  <2> DEFINE out == Cardinality(Users \ approvers)
  <2>1. connection.revision \in Nat /\ module.revision \in Nat /\ policy.changes \in Nat
        /\ out \in Nat
    BY <1>0, SchedulesAssumption DEF Count
  <2>2. connection.revision + module.revision + policy.changes + out
        + (IF policy.open THEN 0 ELSE 1) + (IF occupied THEN 1 ELSE 0) < MaxChanges
    BY <1>1 DEF Disturbances
  <2> HIDE DEF out
  <2> QED BY <2>1, <2>2, SchedulesAssumption DEF Count
<1>2. CASE Edits
  BY <1>2 DEF Edits, GetSchedule, ApproveSchedule, DeleteSchedule, SaveSchedule,
              SetScheduleEnabled, world
<1>3. CASE Scheduler
  <2>1. clock' = clock /\ world' = world /\ occupied' = occupied
    BY <1>3 DEF Scheduler, TickBegins, NothingDue, RefreshClock, QueueOccurrence,
                SkipOccurrence, TickFails
  <2>2. PICK w \in Workers :
          tick' = [tick EXCEPT ![w] = clock] \/ tick' = [tick EXCEPT ![w] = NoTick]
    BY <1>3 DEF Scheduler, TickBegins, NothingDue, RefreshClock, QueueOccurrence,
                SkipOccurrence, TickFails, Ends
  <2> QED BY <2>1, <2>2, TicksFit DEF world
<1>4. CASE Dispatcher
  BY <1>4 DEF Dispatcher, DispatchOperation, RefuseOperation, ExpireOperation,
              AbandonOperation, ObserveOperation, ReconcileOperation, ResolveOperation,
              Moves, world
<1>5. CASE ClockAdvances
  BY <1>5, SchedulesAssumption DEF ClockAdvances, Time, world
<1>6. ASSUME NEW u \in Users, ChangeApprovers(u) PROVE WorldFits'
  BY <1>6 DEF ChangeApprovers
<1>7. CASE ChangeConnection
  BY <1>1, <1>7 DEF ChangeConnection
<1>8. CASE ChangeModule
  BY <1>1, <1>8 DEF ChangeModule
<1>9. CASE ChangePolicy
  BY <1>1, <1>9 DEF ChangePolicy
<1>10. CASE MaintenanceWindow
  BY <1>10 DEF MaintenanceWindow
<1>11. CASE OtherOperation
  BY <1>11 DEF OtherOperation, world
<1> QED
  BY <1>2, <1>3, <1>4, <1>5, <1>6, <1>7, <1>8, <1>9, <1>10, <1>11 DEF Next, World

\* Moving on to a slot of the specification keeps the row as it should be.
LEMMA MovingOnFits ==
  ASSUME RowFits, schedule.status = "live",
         NEW moved \in schedule.spec \cup {NoSlot},
         schedule' = [schedule EXCEPT !.next = moved, !.upgraded = TRUE],
         UNCHANGED <<screen, reviewed>>
  PROVE  RowFits' /\ (ScreensFit => ScreensFit')
<1>1. schedule \in Schedule /\ schedule.spec \in Specs /\ moved \in Slot \cup {NoSlot}
  BY SchedulesAssumption DEF RowFits
<1>2. schedule' \in Schedule
  BY <1>1 DEF Schedule
<1>3. /\ schedule'.status = "live" /\ schedule'.write = schedule.write
      /\ schedule'.revision = schedule.revision /\ schedule'.spec = schedule.spec
      /\ schedule'.next = moved /\ schedule'.approver = schedule.approver
      /\ schedule'.target = schedule.target
  BY <1>1 DEF Schedule
<1> QED BY <1>2, <1>3 DEF RowFits, ScreensFit

\* The slot a tick moves on to is of the specification.
LEMMA FollowingFits ==
  ASSUME RowFits, WorldFits, NEW w \in Workers, Due(w)
  PROVE  Following(tick[w]) \in schedule.spec \cup {NoSlot}
<1>1. schedule.spec \in Specs /\ schedule.next \in schedule.spec /\ tick[w] \in Int
  BY DEF RowFits, WorldFits, Due, Claimed, Time, NoTick
<1>2. schedule.next \in Slot
  BY <1>1, SchedulesAssumption
<1> QED BY <1>1, <1>2, AfterTimeIsLater, AfterSlotIsBehind DEF Following

\* Users' steps keep the row, the screens and the approval in agreement.
LEMMA EditSteps ==
  ASSUME RowInv, Edits
  PROVE  PeopleFit' /\ RowFits' /\ ScreensFit'
<1>1. /\ schedule \in Schedule /\ PeopleFit /\ ScreensFit
      /\ schedule.write \in Nat /\ schedule.revision \in Nat
      /\ \A u \in Users : screen[u].write \in Nat
  BY DEF RowInv, RowFits, PeopleFit, Schedule, Seen, Writes
<1>2. Target \in Revisions /\ policy.changes \in Count
  BY DEF Target, Revisions, RowInv, WorldFits
<1>3. NothingSeen \in Seen
  BY SchedulesAssumption DEF NothingSeen, Seen, Writes, Revisions, NewTarget, Count
<1>4. PICK u \in Users :
        \/ GetSchedule(u) \/ ApproveSchedule(u) \/ DeleteSchedule(u)
        \/ \E spec \in Specs : SaveSchedule(u, spec)
        \/ \E enabled \in BOOLEAN : SetScheduleEnabled(u, enabled)
  BY DEF Edits
<1>5. CASE GetSchedule(u)
  <2> DEFINE seen == [write |-> schedule.write, spec |-> schedule.spec,
                      target |-> schedule.target]
  <2>1. seen \in Seen
    BY <1>1 DEF Seen, Schedule
  <2>2. screen' = [screen EXCEPT ![u] = seen] /\ schedule' = schedule
        /\ reviewed' = reviewed
    BY <1>5 DEF GetSchedule
  <2>3. \A v \in Users : screen'[v] = IF v = u THEN seen ELSE screen[v]
    BY <1>1, <2>2 DEF PeopleFit
  <2>4. PeopleFit'
    BY <1>1, <2>1, <2>2 DEF PeopleFit
  <2>5. ScreensFit'
    BY <1>1, <2>2, <2>3 DEF ScreensFit
  <2> QED BY <2>2, <2>4, <2>5 DEF RowInv, RowFits
<1>6. ASSUME NEW spec \in Specs, SaveSchedule(u, spec)
      PROVE  PeopleFit' /\ RowFits' /\ ScreensFit'
  <2>1. PICK began \in {clock - 1, clock} :
          /\ AfterTime(spec, began) # NoSlot
          /\ schedule' = [schedule EXCEPT
               !.status = "live", !.write = @ + 1, !.revision = @ + 1, !.spec = spec,
               !.editor = u, !.target = Target, !.approver = Nobody,
               !.next = AfterTime(spec, began), !.upgraded = TRUE]
    BY <1>6 DEF SaveSchedule
  <2> DEFINE first == AfterTime(spec, began)
  <2>2. first \in spec /\ first \in Slot
    <3>1. began \in Int
      BY SchedulesAssumption DEF RowInv, WorldFits, Time
    <3> QED BY <2>1, <3>1, AfterTimeIsLater, SchedulesAssumption
  <2>3. schedule.write < MaxWrites /\ screen' = screen /\ reviewed' = NothingSeen
    BY <1>6 DEF SaveSchedule
  <2>4. schedule.write + 1 \in 1..MaxWrites /\ schedule.revision + 1 <= schedule.write + 1
        /\ schedule.write + 1 \in Writes /\ schedule.revision + 1 \in Writes
    BY <1>1, <2>3, SchedulesAssumption DEF RowInv, RowFits, Writes
  <2> HIDE DEF first
  <2>5. schedule' \in Schedule
    BY <1>1, <1>2, <2>1, <2>2, <2>4 DEF Schedule, first
  <2>6. /\ schedule'.status = "live" /\ schedule'.write = schedule.write + 1
        /\ schedule'.revision = schedule.revision + 1 /\ schedule'.spec = spec
        /\ schedule'.next = first /\ schedule'.approver = Nobody
    BY <1>1, <2>1 DEF Schedule, first
  <2>7. RowFits'
    BY <2>2, <2>4, <2>5, <2>6 DEF RowFits
  <2>8. ScreensFit'
    BY <1>1, <2>3, <2>6 DEF ScreensFit
  <2> QED BY <1>1, <1>3, <2>3, <2>7, <2>8 DEF PeopleFit
<1>7. CASE ApproveSchedule(u)
  <2>1. /\ schedule.status = "live" /\ screen[u].write = schedule.write
        /\ schedule.write < MaxWrites
        /\ schedule' = [schedule EXCEPT !.write = @ + 1, !.approver = u,
                                        !.policy = policy.changes]
        /\ reviewed' = screen[u] /\ screen' = screen
    BY <1>7 DEF ApproveSchedule, LoadedLast
  <2>2. schedule.write + 1 \in 1..MaxWrites /\ schedule.write + 1 \in Writes
    BY <1>1, <2>1, SchedulesAssumption DEF Writes
  <2>3. schedule' \in Schedule
    BY <1>1, <1>2, <2>1, <2>2 DEF Schedule
  <2>4. /\ schedule'.status = "live" /\ schedule'.write = schedule.write + 1
        /\ schedule'.revision = schedule.revision /\ schedule'.spec = schedule.spec
        /\ schedule'.next = schedule.next /\ schedule'.target = schedule.target
    BY <1>1, <2>1 DEF Schedule
  <2>5. screen[u].spec = schedule.spec /\ screen[u].target = schedule.target
    BY <1>1, <2>1 DEF ScreensFit
  <2>6. RowFits'
    BY <1>1, <2>1, <2>2, <2>3, <2>4, <2>5 DEF RowInv, RowFits
  <2>7. ScreensFit'
    BY <1>1, <2>1, <2>4 DEF ScreensFit
  <2> QED BY <1>1, <2>1, <2>6, <2>7 DEF PeopleFit
<1>8. ASSUME NEW enabled \in BOOLEAN, SetScheduleEnabled(u, enabled)
      PROVE  PeopleFit' /\ RowFits' /\ ScreensFit'
  <2>1. /\ schedule.status = "live" /\ schedule.write < MaxWrites
        /\ schedule' = [schedule EXCEPT !.write = @ + 1, !.enabled = enabled]
        /\ UNCHANGED <<screen, reviewed>>
    BY <1>8 DEF SetScheduleEnabled, LoadedLast
  <2>2. schedule.write + 1 \in 1..MaxWrites /\ schedule.write + 1 \in Writes
    BY <1>1, <2>1, SchedulesAssumption DEF Writes
  <2>3. schedule' \in Schedule
    BY <1>1, <2>1, <2>2 DEF Schedule
  <2>4. /\ schedule'.status = "live" /\ schedule'.write = schedule.write + 1
        /\ schedule'.revision = schedule.revision /\ schedule'.spec = schedule.spec
        /\ schedule'.next = schedule.next /\ schedule'.target = schedule.target
        /\ schedule'.approver = schedule.approver
    BY <1>1, <2>1 DEF Schedule
  <2>5. RowFits'
    BY <1>1, <2>1, <2>2, <2>3, <2>4 DEF RowInv, RowFits
  <2>6. ScreensFit'
    BY <1>1, <2>1, <2>4 DEF ScreensFit
  <2> QED BY <1>1, <2>1, <2>5, <2>6 DEF PeopleFit
<1>9. CASE DeleteSchedule(u)
  <2>1. /\ schedule.status = "live"
        /\ schedule' = [schedule EXCEPT !.write = @ + 1, !.status = "removed",
                                        !.enabled = FALSE]
        /\ UNCHANGED <<screen, reviewed>>
    BY <1>9 DEF DeleteSchedule, LoadedLast
  <2>2. schedule.write + 1 \in Writes
    BY <1>1, <2>1, SchedulesAssumption DEF Writes, RowInv, RowFits
  <2>3. schedule' \in Schedule
    BY <1>1, <2>1, <2>2 DEF Schedule
  <2>4. /\ schedule'.status = "removed" /\ schedule'.write = schedule.write + 1
        /\ schedule'.revision = schedule.revision /\ schedule'.spec = schedule.spec
        /\ schedule'.next = schedule.next /\ schedule'.target = schedule.target
        /\ schedule'.approver = schedule.approver
    BY <1>1, <2>1 DEF Schedule
  <2>5. RowFits'
    BY <1>1, <2>1, <2>3, <2>4 DEF RowInv, RowFits
  <2>6. ScreensFit'
    BY <1>1, <2>1, <2>4 DEF ScreensFit
  <2> QED BY <1>1, <2>1, <2>5, <2>6 DEF PeopleFit
<1> QED BY <1>4, <1>5, <1>6, <1>7, <1>8, <1>9

\* The scheduler's steps do, too.
LEMMA SchedulerSteps ==
  ASSUME RowInv, Scheduler
  PROVE  PeopleFit' /\ RowFits' /\ ScreensFit'
<1>1. PICK w \in Workers :
        \/ TickBegins(w) \/ NothingDue(w) \/ RefreshClock(w)
        \/ QueueOccurrence(w) \/ SkipOccurrence(w) \/ TickFails(w)
  BY DEF Scheduler
<1>2. CASE TickBegins(w) \/ NothingDue(w) \/ TickFails(w)
  BY <1>2 DEF TickBegins, NothingDue, TickFails, RowInv, PeopleFit, RowFits, ScreensFit
<1>3. CASE RefreshClock(w)
  <2> DEFINE moved == AfterTime(schedule.spec, tick[w])
  <2>1. /\ schedule' = [schedule EXCEPT !.next = moved, !.upgraded = TRUE]
        /\ schedule.status = "live" /\ UNCHANGED <<screen, reviewed>>
    BY <1>3 DEF RefreshClock, Claimed
  <2>2. moved \in schedule.spec \cup {NoSlot}
    <3>1. schedule.spec \in Specs /\ tick[w] \in Int
      BY <2>1 DEF RowInv, RowFits, WorldFits, Time, NoTick
    <3> QED BY <3>1, AfterTimeIsLater
  <2> HIDE DEF moved
  <2> QED BY <2>1, <2>2, MovingOnFits DEF RowInv, PeopleFit
<1>4. CASE QueueOccurrence(w) \/ SkipOccurrence(w)
  <2>1. /\ schedule' = [schedule EXCEPT !.next = Following(tick[w]), !.upgraded = TRUE]
        /\ schedule.status = "live" /\ Due(w) /\ UNCHANGED <<screen, reviewed>>
    BY <1>4 DEF QueueOccurrence, SkipOccurrence, AdvanceSchedule, Due, Claimed
  <2>2. Following(tick[w]) \in schedule.spec \cup {NoSlot}
    BY <2>1, FollowingFits DEF RowInv
  <2> QED BY <2>1, <2>2, MovingOnFits DEF RowInv, PeopleFit
<1> QED BY <1>1, <1>2, <1>3, <1>4

\* The row invariant is kept by every step.
LEMMA RowSteps ==
  ASSUME RowInv, [Next]_vars
  PROVE  RowInv'
<1>1. CASE Edits
  BY <1>1, EditSteps, WorldSteps DEF RowInv, Next
<1>2. CASE Scheduler
  BY <1>2, SchedulerSteps, WorldSteps DEF RowInv, Next
<1>3. CASE Dispatcher
  <2>1. UNCHANGED <<schedule, screen, reviewed>>
    BY <1>3 DEF Dispatcher, DispatchOperation, RefuseOperation, ExpireOperation,
                AbandonOperation, ObserveOperation, ReconcileOperation, ResolveOperation,
                Moves
  <2> QED BY <1>3, <2>1, WorldSteps DEF RowInv, Next, PeopleFit, RowFits, ScreensFit
<1>4. CASE World
  <2>1. UNCHANGED <<schedule, screen, reviewed>>
    BY <1>4 DEF World, ClockAdvances, ChangeApprovers, ChangeConnection, ChangeModule,
                ChangePolicy, MaintenanceWindow, OtherOperation
  <2> QED BY <1>4, <2>1, WorldSteps DEF RowInv, Next, PeopleFit, RowFits, ScreensFit
<1>5. CASE UNCHANGED vars
  BY <1>5 DEF vars, world, RowInv, WorldFits, PeopleFit, RowFits, ScreensFit
<1> QED BY <1>1, <1>2, <1>3, <1>4, <1>5 DEF Next

-----------------------------------------------------------------------------
(* The operations.                                                         *)

\* What an operation's move leaves alone.
LEMMA MovesOneStatus ==
  ASSUME operations \in Seq(Operation), NEW i \in DOMAIN operations,
         NEW status \in Status, Moves(i, status)
  PROVE  /\ operations' \in Seq(Operation)
         /\ DOMAIN operations' = DOMAIN operations
         /\ operations'[i] = [operations[i] EXCEPT !.status = status]
         /\ operations'[i].status = status
         /\ \A j \in DOMAIN operations :
              /\ j # i => operations'[j] = operations[j]
              /\ operations'[j].revision = operations[j].revision
              /\ operations'[j].slot = operations[j].slot
              /\ operations'[j].target = operations[j].target
              /\ operations'[j].expires = operations[j].expires
<1>1. operations[i] \in Operation
  OBVIOUS
<1>2. [operations[i] EXCEPT !.status = status] \in Operation
  BY <1>1 DEF Operation
<1>3. operations' = [operations EXCEPT ![i] = [operations[i] EXCEPT !.status = status]]
  BY DEF Moves
<1> QED BY <1>1, <1>2, <1>3 DEF Operation

\* Every step of the dispatcher moves one unsettled operation.
LEMMA DispatcherMoves ==
  ASSUME Dispatcher
  PROVE  \E i \in DOMAIN operations : \E status \in Status :
           operations[i].status \in Unsettled /\ Moves(i, status)
BY DEF Dispatcher, DispatchOperation, RefuseOperation, ExpireOperation, AbandonOperation,
       ObserveOperation, ReconcileOperation, ResolveOperation, Status, Unsettled

\* Slots are ordered.
LEMMA BeforeIsTransitive ==
  ASSUME NEW a \in Slot, NEW b \in Slot, NEW c \in Slot, Before(a, b), Before(b, c)
  PROVE  Before(a, c)
<1>1. /\ a.due \in Nat /\ b.due \in Nat /\ c.due \in Nat
      /\ a.place \in Nat /\ b.place \in Nat /\ c.place \in Nat
  BY SchedulesAssumption
<1> QED BY <1>1 DEF Before

\* A tick moves on to a slot that lies behind the one it handled.
LEMMA FollowingIsBehind ==
  ASSUME RowFits, WorldFits, NEW w \in Workers, Due(w), Following(tick[w]) # NoSlot
  PROVE  Before(schedule.next, Following(tick[w]))
<1>1. schedule.spec \in Specs /\ schedule.next \in schedule.spec /\ tick[w] \in Int
  BY DEF RowFits, WorldFits, Due, Claimed, Time, NoTick
<1>2. schedule.next \in Slot /\ schedule.next.due \in Nat
  BY <1>1, SchedulesAssumption
<1>3. CASE Late(tick[w])
  <2>1. Following(tick[w]) \in schedule.spec /\ Following(tick[w]).due > tick[w]
    BY <1>1, <1>3, AfterTimeIsLater DEF Following
  <2>2. Following(tick[w]).due \in Nat
    BY <1>1, <2>1, SchedulesAssumption
  <2> QED BY <1>1, <1>2, <1>3, <2>1, <2>2, SchedulesAssumption DEF Late, Before
<1>4. CASE ~Late(tick[w])
  BY <1>1, <1>2, <1>4, AfterSlotIsBehind DEF Following
<1> QED BY <1>3, <1>4

\* Moving on keeps the operations behind the next slot.
LEMMA MovingOnOperations ==
  ASSUME RowInv, OperationsFit, NEW w \in Workers, Due(w),
         AdvanceSchedule(tick[w])
  PROVE  \A i \in DOMAIN operations :
           /\ operations[i].revision <= schedule'.revision
           /\ operations[i].revision = schedule'.revision =>
                /\ schedule'.upgraded
                /\ operations[i].slot \in schedule'.spec /\ ~operations[i].slot.out
                /\ operations[i].target = schedule'.target
                /\ schedule'.next # NoSlot => Before(operations[i].slot, schedule'.next)
                /\ ~TakenOut(schedule'.spec, operations[i].slot)
<1>1. schedule \in Schedule /\ schedule.spec \in Specs /\ schedule.next \in schedule.spec
  BY DEF RowInv, RowFits, Due, Claimed
<1>2. /\ schedule'.revision = schedule.revision /\ schedule'.spec = schedule.spec
      /\ schedule'.target = schedule.target /\ schedule'.upgraded
      /\ schedule'.next = Following(tick[w])
  BY <1>1 DEF AdvanceSchedule, Schedule
<1>3. ASSUME NEW i \in DOMAIN operations, operations[i].revision = schedule.revision,
             Following(tick[w]) # NoSlot
      PROVE  Before(operations[i].slot, Following(tick[w]))
  <2>1. schedule.next # NoSlot /\ Following(tick[w]) \in schedule.spec
    BY <1>3, FollowingFits DEF RowInv, Due, Claimed
  <2>2. /\ operations[i].slot \in schedule.spec
        /\ Before(operations[i].slot, schedule.next)
    BY <1>3, <2>1 DEF OperationsFit
  <2>3. Before(schedule.next, Following(tick[w]))
    BY <1>3, FollowingIsBehind DEF RowInv
  <2>4. operations[i].slot \in Slot /\ schedule.next \in Slot /\ Following(tick[w]) \in Slot
    BY <1>1, <2>1, <2>2, SchedulesAssumption
  <2> QED BY <2>2, <2>3, <2>4, BeforeIsTransitive
<1> QED BY <1>2, <1>3 DEF OperationsFit

\* An operation that a tick appends.
LEMMA QueuedFits ==
  ASSUME RowInv, OperationsFit, NEW w \in Workers, QueueOccurrence(w)
  PROVE  /\ operations' \in Seq(Operation)
         /\ DOMAIN operations' = 1..(Len(operations) + 1)
         /\ DOMAIN operations = 1..Len(operations)
         /\ \A i \in DOMAIN operations : operations'[i] = operations[i]
         /\ operations'[Len(operations) + 1].revision = schedule.revision
         /\ operations'[Len(operations) + 1].slot = schedule.next
         /\ operations'[Len(operations) + 1].target = schedule.target
         /\ operations'[Len(operations) + 1].status = "queued"
         /\ operations'[Len(operations) + 1].expires = schedule.next.due + Grace
<1> DEFINE op == [revision |-> schedule.revision, slot |-> schedule.next,
                  approver |-> schedule.approver, target |-> schedule.target,
                  policy |-> policy.changes, expires |-> Deadline(schedule.next, tick[w]),
                  status |-> "queued"]
<1>1. operations' = Append(operations, op) /\ operations \in Seq(Operation)
  BY DEF QueueOccurrence, OperationsFit
<1>2. op \in Operation
  <2>1. schedule \in Schedule /\ policy.changes \in Count
    BY DEF RowInv, RowFits, WorldFits
  <2>2. schedule.next \in Slot
    BY SchedulesAssumption DEF RowInv, RowFits, QueueOccurrence, Due, Claimed
  <2>3. schedule.approver \in Users
    BY DEF RowInv, WorldFits, QueueOccurrence, Runs, StandingApproval
  <2>4. Deadline(schedule.next, tick[w]) \in Nat
    BY <2>2, SchedulesAssumption DEF Deadline
  <2> QED BY <2>1, <2>2, <2>3, <2>4 DEF Operation, Schedule, Status
<1>3. /\ op.revision = schedule.revision /\ op.slot = schedule.next
      /\ op.target = schedule.target /\ op.status = "queued"
      /\ op.expires = schedule.next.due + Grace
  BY DEF Deadline
<1> HIDE DEF op
<1> QED BY <1>1, <1>2, <1>3

\* The operations fit the row after every step.
LEMMA OperationSteps ==
  ASSUME RowInv, OperationsFit, [Next]_vars
  PROVE  OperationsFit'
<1>0. /\ schedule \in Schedule /\ operations \in Seq(Operation)
      /\ schedule.revision \in Nat
      /\ \A i \in DOMAIN operations : operations[i].revision \in Nat
  <2>1. schedule \in Schedule /\ operations \in Seq(Operation)
    BY DEF RowInv, RowFits, OperationsFit
  <2>2. \A i \in DOMAIN operations : operations[i] \in Operation
    BY <2>1
  <2> QED BY <2>1, <2>2 DEF Schedule, Operation, Writes
<1>1. ASSUME UNCHANGED <<schedule, operations>>
      PROVE  OperationsFit'
  BY <1>1 DEF OperationsFit
<1>2. ASSUME NEW u \in Users,
             ApproveSchedule(u) \/ DeleteSchedule(u)
               \/ \E enabled \in BOOLEAN : SetScheduleEnabled(u, enabled)
      PROVE  OperationsFit'
  <2>1. /\ schedule'.revision = schedule.revision /\ schedule'.spec = schedule.spec
        /\ schedule'.next = schedule.next /\ schedule'.target = schedule.target
        /\ schedule'.upgraded = schedule.upgraded /\ operations' = operations
    BY <1>0, <1>2 DEF ApproveSchedule, DeleteSchedule, SetScheduleEnabled, Schedule
  <2> QED BY <2>1 DEF OperationsFit
<1>3. ASSUME NEW u \in Users, NEW spec \in Specs, SaveSchedule(u, spec)
      PROVE  OperationsFit'
  <2>1. schedule'.revision = schedule.revision + 1 /\ operations' = operations
    BY <1>0, <1>3 DEF SaveSchedule, Schedule
  <2> QED BY <1>0, <2>1 DEF OperationsFit
<1>4. ASSUME NEW w \in Workers, RefreshClock(w)
      PROVE  OperationsFit'
  <2>1. ~schedule.upgraded /\ schedule'.revision = schedule.revision
        /\ operations' = operations
    BY <1>0, <1>4 DEF RefreshClock, Schedule
  <2> QED BY <1>0, <2>1 DEF OperationsFit
<1>5. ASSUME NEW w \in Workers, SkipOccurrence(w)
      PROVE  OperationsFit'
  <2>1. Due(w) /\ AdvanceSchedule(tick[w]) /\ operations' = operations
    BY <1>5 DEF SkipOccurrence
  <2> QED BY <1>0, <2>1, MovingOnOperations DEF OperationsFit
<1>6. ASSUME NEW w \in Workers, QueueOccurrence(w)
      PROVE  OperationsFit'
  <2>1. Due(w) /\ AdvanceSchedule(tick[w]) /\ ~TakenOut(schedule.spec, schedule.next)
    BY <1>6 DEF QueueOccurrence, Runs
  <2>2. /\ schedule'.revision = schedule.revision /\ schedule'.spec = schedule.spec
        /\ schedule'.target = schedule.target /\ schedule'.upgraded
        /\ schedule'.next = Following(tick[w])
    BY <1>0, <2>1 DEF AdvanceSchedule, Schedule
  <2>3. schedule.next \in schedule.spec /\ ~schedule.next.out
    BY <2>1 DEF RowInv, RowFits, Due, Claimed, TakenOut
  <2>4. schedule'.next # NoSlot => Before(schedule.next, schedule'.next)
    BY <2>1, <2>2, FollowingIsBehind DEF RowInv
  <2>5. \A i \in DOMAIN operations :
           /\ operations[i].revision <= schedule'.revision
           /\ operations[i].revision = schedule'.revision =>
                /\ schedule'.upgraded
                /\ operations[i].slot \in schedule'.spec /\ ~operations[i].slot.out
                /\ operations[i].target = schedule'.target
                /\ schedule'.next # NoSlot => Before(operations[i].slot, schedule'.next)
                /\ ~TakenOut(schedule'.spec, operations[i].slot)
    BY <2>1, MovingOnOperations
  <2>6. \A i \in DOMAIN operations' : i \in DOMAIN operations \/ i = Len(operations) + 1
    BY <1>0, <1>6, QueuedFits
  <2> QED BY <1>0, <1>6, <2>1, <2>2, <2>3, <2>4, <2>5, <2>6, QueuedFits DEF OperationsFit
<1>7. CASE Dispatcher
  <2>1. PICK i \in DOMAIN operations : \E status \in Status : Moves(i, status)
    BY <1>7, DispatcherMoves
  <2>2. PICK status \in Status : Moves(i, status)
    BY <2>1
  <2>3. schedule' = schedule
    BY <2>2 DEF Moves
  <2> QED BY <1>0, <2>2, <2>3, MovesOneStatus DEF OperationsFit
<1>8. CASE World
  BY <1>1, <1>8 DEF World, ClockAdvances, ChangeApprovers, ChangeConnection, ChangeModule,
                    ChangePolicy, MaintenanceWindow, OtherOperation
<1>9. CASE Edits
  BY <1>1, <1>2, <1>3, <1>9 DEF Edits, GetSchedule
<1>10. CASE Scheduler
  BY <1>1, <1>4, <1>5, <1>6, <1>10 DEF Scheduler, TickBegins, NothingDue, TickFails
<1>11. CASE UNCHANGED vars
  BY <1>1, <1>11 DEF vars
<1> QED BY <1>7, <1>8, <1>9, <1>10, <1>11 DEF Next

\* The target keeps at most one unsettled operation (OneAtATime).
LEMMA ExclusionSteps ==
  ASSUME RowInv, OperationsFit, OneAtATime, [Next]_vars
  PROVE  OneAtATime'
<1>1. ASSUME UNCHANGED <<operations, occupied>>
      PROVE  OneAtATime'
  BY <1>1 DEF OneAtATime
<1>2. ASSUME NEW w \in Workers, QueueOccurrence(w)
      PROVE  OneAtATime'
  <2>1. /\ ~occupied' /\ ~Busy
        /\ \A i \in DOMAIN operations : operations[i].status \notin Unsettled
    BY <1>2 DEF QueueOccurrence, Runs, Busy
  <2>2. \A i \in DOMAIN operations' :
          operations'[i].status \in Unsettled => i = Len(operations) + 1
    BY <1>2, <2>1, QueuedFits
  <2> QED BY <2>1, <2>2 DEF OneAtATime
<1>3. CASE Dispatcher
  <2>1. PICK i \in DOMAIN operations : \E status \in Status :
          operations[i].status \in Unsettled /\ Moves(i, status)
    BY <1>3, DispatcherMoves
  <2>2. PICK status \in Status : Moves(i, status)
    BY <2>1
  <2>3. occupied' = occupied
    BY <2>2 DEF Moves
  <2>4. \A j \in DOMAIN operations : operations[j].status \in Unsettled => j = i
    BY <2>1 DEF OneAtATime
  <2>5. ~occupied
    BY <2>1 DEF OneAtATime
  <2>6. \A j \in DOMAIN operations' : operations'[j].status \in Unsettled => j = i
    BY <2>2, <2>4, MovesOneStatus DEF OperationsFit
  <2> QED BY <2>3, <2>5, <2>6 DEF OneAtATime
<1>4. CASE OtherOperation
  <2>1. operations' = operations
        /\ (occupied' => \A i \in DOMAIN operations : operations[i].status \notin Unsettled)
    BY <1>4 DEF OtherOperation, Busy
  <2> QED BY <2>1 DEF OneAtATime
<1>5. CASE World
  BY <1>1, <1>4, <1>5 DEF World, ClockAdvances, ChangeApprovers, ChangeConnection,
                          ChangeModule, ChangePolicy, MaintenanceWindow
<1>6. CASE Edits
  BY <1>1, <1>6 DEF Edits, GetSchedule, ApproveSchedule, DeleteSchedule, SaveSchedule,
                    SetScheduleEnabled
<1>7. CASE Scheduler
  BY <1>1, <1>2, <1>7 DEF Scheduler, TickBegins, NothingDue, RefreshClock, SkipOccurrence,
                          TickFails
<1>8. CASE UNCHANGED vars
  BY <1>1, <1>8 DEF vars
<1> QED BY <1>3, <1>5, <1>6, <1>7, <1>8 DEF Next

\* No instant of a revision gives two operations (OncePerInstant).
LEMMA InstantSteps ==
  ASSUME RowInv, OperationsFit, OncePerInstant, [Next]_vars
  PROVE  OncePerInstant'
<1>1. ASSUME UNCHANGED operations
      PROVE  OncePerInstant'
  BY <1>1 DEF OncePerInstant
<1>2. ASSUME NEW w \in Workers, QueueOccurrence(w)
      PROVE  OncePerInstant'
  <2>1. /\ schedule.spec \in Specs /\ schedule.next \in schedule.spec
        /\ schedule.next # NoSlot /\ ~TakenOut(schedule.spec, schedule.next)
    BY <1>2 DEF RowInv, RowFits, QueueOccurrence, Due, Claimed, Runs
  <2>2. ASSUME NEW i \in DOMAIN operations, operations[i].revision = schedule.revision,
               operations[i].slot.due = schedule.next.due
        PROVE  FALSE
    <3> DEFINE a == operations[i].slot
    <3>1. a \in schedule.spec /\ ~a.out /\ Before(a, schedule.next)
      BY <2>1, <2>2 DEF OperationsFit
    <3>2. a.action = schedule.next.action /\ ~schedule.next.out
      BY <2>1, <2>2, <3>1 DEF TakenOut
    <3> HIDE DEF a
    <3>3. a = schedule.next
      BY <2>1, <2>2, <3>1, <3>2, SchedulesAssumption DEF a
    <3>4. schedule.next.due \in Nat /\ schedule.next.place \in Nat
      BY <2>1, SchedulesAssumption
    <3> QED BY <3>1, <3>3, <3>4 DEF Before
  <2>3. \A i \in DOMAIN operations' : i \in DOMAIN operations \/ i = Len(operations) + 1
    BY <1>2, QueuedFits DEF OperationsFit
  <2> QED BY <1>2, <2>2, <2>3, QueuedFits DEF OncePerInstant
<1>3. CASE Dispatcher
  <2>1. PICK i \in DOMAIN operations : \E status \in Status : Moves(i, status)
    BY <1>3, DispatcherMoves
  <2> QED BY <2>1, MovesOneStatus DEF OncePerInstant, OperationsFit
<1>4. CASE World
  BY <1>1, <1>4 DEF World, ClockAdvances, ChangeApprovers, ChangeConnection, ChangeModule,
                    ChangePolicy, MaintenanceWindow, OtherOperation
<1>5. CASE Edits
  BY <1>1, <1>5 DEF Edits, GetSchedule, ApproveSchedule, DeleteSchedule, SaveSchedule,
                    SetScheduleEnabled
<1>6. CASE Scheduler
  BY <1>1, <1>2, <1>6 DEF Scheduler, TickBegins, NothingDue, RefreshClock, SkipOccurrence,
                          TickFails
<1>7. CASE UNCHANGED vars
  BY <1>1, <1>7 DEF vars
<1> QED BY <1>3, <1>4, <1>5, <1>6, <1>7 DEF Next

\* What is queued is due and keeps the deadline of its slot.
LEMMA TimeSteps ==
  ASSUME RowInv, OperationsFit, InTime, [Next]_vars
  PROVE  InTime'
<1>0. /\ clock \in Nat /\ clock' \in Nat /\ clock <= clock'
      /\ \A w \in Workers : tick[w] \in Time \cup {NoTick}
      /\ \A i \in DOMAIN operations : operations[i].slot.due \in Nat
  <2>1. clock \in Nat
    BY DEF RowInv, WorldFits, Time
  <2>2. clock' = clock \/ clock' = clock + 1
    BY DEF Next, Edits, GetSchedule, ApproveSchedule, DeleteSchedule, SaveSchedule,
           SetScheduleEnabled, Scheduler, TickBegins, NothingDue, RefreshClock,
           QueueOccurrence, SkipOccurrence, TickFails, Dispatcher, DispatchOperation,
           RefuseOperation, ExpireOperation, AbandonOperation, ObserveOperation,
           ReconcileOperation, ResolveOperation, Moves, World, ClockAdvances,
           ChangeApprovers, ChangeConnection, ChangeModule, ChangePolicy,
           MaintenanceWindow, OtherOperation, vars
  <2>3. \A i \in DOMAIN operations : operations[i] \in Operation
    BY DEF OperationsFit
  <2>4. \A i \in DOMAIN operations : operations[i].slot.due \in Nat
    BY <2>3, SchedulesAssumption DEF Operation
  <2> QED BY <2>1, <2>2, <2>4 DEF RowInv, WorldFits
<1>1. ASSUME UNCHANGED <<operations, tick>>
      PROVE  InTime'
  BY <1>0, <1>1 DEF InTime, Time, NoTick
<1>2. ASSUME NEW w \in Workers,
             tick' = [tick EXCEPT ![w] = clock] \/ tick' = [tick EXCEPT ![w] = NoTick]
      PROVE  \A v \in Workers : tick'[v] # NoTick => tick'[v] <= clock'
  <2>1. \A v \in Workers : tick'[v] \in {tick[v], clock, NoTick}
    BY <1>2 DEF RowInv, WorldFits
  <2> QED BY <1>0, <2>1 DEF InTime, Time, NoTick
<1>3. ASSUME NEW w \in Workers, UNCHANGED operations,
             tick' = [tick EXCEPT ![w] = clock] \/ tick' = [tick EXCEPT ![w] = NoTick]
      PROVE  InTime'
  BY <1>0, <1>2, <1>3 DEF InTime
<1>4. ASSUME NEW w \in Workers, QueueOccurrence(w)
      PROVE  InTime'
  <2>1. schedule.next.due <= tick[w] /\ tick[w] # NoTick /\ schedule.next \in Slot
    BY <1>4, SchedulesAssumption DEF QueueOccurrence, Due, Claimed, RowInv, RowFits
  <2>2. schedule.next.due \in Nat /\ schedule.next.due <= clock
    BY <1>0, <2>1, SchedulesAssumption DEF InTime, Time, NoTick
  <2>3. tick' = [tick EXCEPT ![w] = NoTick]
    BY <1>4 DEF QueueOccurrence, Ends
  <2>4. \A i \in DOMAIN operations' : i \in DOMAIN operations \/ i = Len(operations) + 1
    BY <1>4, QueuedFits DEF OperationsFit
  <2>5. ASSUME NEW i \in DOMAIN operations'
        PROVE  /\ operations'[i].slot.due <= clock'
               /\ operations'[i].expires = operations'[i].slot.due + Grace
    <3>1. CASE i \in DOMAIN operations
      <4>1. operations'[i] = operations[i]
        BY <1>4, <3>1, QueuedFits
      <4> QED BY <1>0, <3>1, <4>1 DEF InTime
    <3>2. CASE i = Len(operations) + 1
      <4>1. /\ operations'[i].slot = schedule.next
            /\ operations'[i].expires = schedule.next.due + Grace
        BY <1>4, <3>2, QueuedFits
      <4> QED BY <1>0, <2>2, <4>1
    <3> QED BY <2>4, <3>1, <3>2
  <2> QED BY <1>2, <2>3, <2>5 DEF InTime
<1>5. CASE Dispatcher
  <2>1. PICK i \in DOMAIN operations : \E status \in Status : Moves(i, status)
    BY <1>5, DispatcherMoves
  <2>2. PICK status \in Status : Moves(i, status)
    BY <2>1
  <2>3. tick' = tick
    BY <2>2 DEF Moves
  <2>4. DOMAIN operations' = DOMAIN operations
        /\ \A j \in DOMAIN operations :
             operations'[j].slot = operations[j].slot
             /\ operations'[j].expires = operations[j].expires
    BY <2>2, MovesOneStatus DEF OperationsFit
  <2> QED BY <1>0, <2>3, <2>4 DEF InTime, Time, NoTick
<1>6. CASE World
  BY <1>1, <1>6 DEF World, ClockAdvances, ChangeApprovers, ChangeConnection, ChangeModule,
                    ChangePolicy, MaintenanceWindow, OtherOperation
<1>7. CASE Edits
  BY <1>1, <1>7 DEF Edits, GetSchedule, ApproveSchedule, DeleteSchedule, SaveSchedule,
                    SetScheduleEnabled
<1>8. CASE Scheduler
  <2>1. PICK w \in Workers :
          \/ TickBegins(w) \/ NothingDue(w) \/ RefreshClock(w)
          \/ QueueOccurrence(w) \/ SkipOccurrence(w) \/ TickFails(w)
    BY <1>8 DEF Scheduler
  <2> QED BY <1>3, <1>4, <2>1 DEF TickBegins, NothingDue, RefreshClock, SkipOccurrence,
                                  TickFails, Ends
<1>9. CASE UNCHANGED vars
  BY <1>1, <1>9 DEF vars
<1> QED BY <1>5, <1>6, <1>7, <1>8, <1>9 DEF Next

-----------------------------------------------------------------------------
(* Theorems.                                                               *)

\* The invariant holds in every state.
THEOREM Invariant == Spec => []Inv
<1>1. Init => Inv
  <2> SUFFICES ASSUME Init PROVE Inv
    OBVIOUS
  <2>1. operations = <<>>
    BY DEF Init
  <2>2. operations \in Seq(Operation) /\ DOMAIN operations = {}
    BY <2>1
  <2>3. OperationsFit /\ OneAtATime /\ OncePerInstant /\ InTime
    BY <2>2 DEF OperationsFit, OneAtATime, OncePerInstant, InTime, Init
  <2> QED BY <2>3, InitRow DEF Inv
<1>2. Inv /\ [Next]_vars => Inv'
  BY RowSteps, OperationSteps, ExclusionSteps, InstantSteps, TimeSteps DEF Inv
<1> QED BY <1>1, <1>2, PTL DEF Spec

\* Rows, screens, clocks and operations stay well typed; what is queued has an
\* approver (TypeOK).
THEOREM TypeCorrect == Spec => []TypeOK
<1>1. Inv => TypeOK
  BY DEF Inv, RowInv, WorldFits, PeopleFit, RowFits, OperationsFit, TypeOK
<1> QED BY <1>1, Invariant, PTL

\* However many replicas tick with clocks that are behind, no instant of a
\* revision gives two operations (OncePerInstant).
THEOREM NoInstantTwice == Spec => []OncePerInstant
<1>1. Inv => OncePerInstant
  BY DEF Inv
<1> QED BY <1>1, Invariant, PTL

\* A scheduled operation begins only beside settled work (OneAtATime).
THEOREM NoOverlap == Spec => []OneAtATime
<1>1. Inv => OneAtATime
  BY DEF Inv
<1> QED BY <1>1, Invariant, PTL

\* Only the dispatch checks begin an operation.
LEMMA DispatchedIsChecked ==
  ASSUME Inv, [Next]_vars, NEW i \in DOMAIN operations, Dispatched(i)
  PROVE  DispatchOperation(i) /\ UNCHANGED <<schedule, connection, module, clock, reviewed>>
<1>1. operations \in Seq(Operation) /\ operations[i].status = "queued"
      /\ operations'[i].status = "dispatched"
  BY DEF Inv, OperationsFit, Dispatched
<1>2. ASSUME NEW w \in Workers, QueueOccurrence(w)
      PROVE  FALSE
  BY <1>1, <1>2, QueuedFits DEF Inv
<1>3. operations' # operations
  BY <1>1
<1>4. CASE Dispatcher
  <2>1. PICK j \in DOMAIN operations :
          \/ DispatchOperation(j) \/ RefuseOperation(j) \/ ExpireOperation(j)
          \/ AbandonOperation(j)
          \/ ObserveOperation(j) \/ ReconcileOperation(j) \/ ResolveOperation(j)
    BY <1>4 DEF Dispatcher
  <2>2. PICK status \in Status : Moves(j, status)
    BY <2>1 DEF DispatchOperation, RefuseOperation, ExpireOperation, AbandonOperation,
                ObserveOperation, ReconcileOperation, ResolveOperation, Status
  <2>3. j = i
    BY <1>1, <2>2, MovesOneStatus
  <2>4. DispatchOperation(i)
    <3>1. ASSUME Moves(i, "over") \/ Moves(i, "uncertain") PROVE FALSE
      BY <1>1, <3>1, MovesOneStatus DEF Status
    <3> QED BY <1>1, <2>1, <2>3, <3>1
            DEF RefuseOperation, ExpireOperation, AbandonOperation, ObserveOperation,
                ReconcileOperation, ResolveOperation
  <2> QED BY <2>4 DEF DispatchOperation, Moves, world
<1>5. CASE World
  BY <1>3, <1>5 DEF World, ClockAdvances, ChangeApprovers, ChangeConnection, ChangeModule,
                    ChangePolicy, MaintenanceWindow, OtherOperation
<1>6. CASE Edits
  BY <1>3, <1>6 DEF Edits, GetSchedule, ApproveSchedule, DeleteSchedule, SaveSchedule,
                    SetScheduleEnabled
<1>7. CASE Scheduler
  BY <1>2, <1>3, <1>7 DEF Scheduler, TickBegins, NothingDue, RefreshClock, SkipOccurrence,
                          TickFails
<1>8. CASE UNCHANGED vars
  BY <1>3, <1>8 DEF vars
<1> QED BY <1>4, <1>5, <1>6, <1>7, <1>8 DEF Next

\* What runs was on its approver's screen, against the target as it was then,
\* and nothing has been paused since (RunsAsReviewed).
THEOREM ApprovedWorkOnly == Spec => RunsAsReviewed
<1>1. ASSUME Inv, [Next]_vars, NEW i \in DOMAIN operations, Dispatched(i)
      PROVE  /\ operations[i].slot \in reviewed.spec
             /\ reviewed.target = Target
             /\ schedule.status = "live" /\ schedule.enabled
  <2>1. DispatchOperation(i)
    BY <1>1, DispatchedIsChecked
  <2>2. /\ schedule.status = "live" /\ schedule.enabled /\ schedule.approver # Nobody
        /\ schedule.revision = operations[i].revision
        /\ operations[i].target.connection = connection.revision
        /\ operations[i].target.module = module.revision
    BY <2>1 DEF DispatchOperation, ScheduleAuthorizes, ConnectionFits, ModuleFits
  <2>3. operations[i].slot \in schedule.spec /\ operations[i].target = schedule.target
    BY <1>1, <2>2 DEF Inv, OperationsFit
  <2>4. reviewed.spec = schedule.spec /\ reviewed.target = schedule.target
    BY <1>1, <2>2 DEF Inv, RowInv, RowFits
  <2>5. operations[i].target = Target
    <3>1. schedule.target \in Revisions
      BY <1>1 DEF Inv, RowInv, RowFits, Schedule
    <3> QED BY <2>2, <2>3, <3>1 DEF Revisions, Target
  <2> QED BY <2>2, <2>3, <2>4, <2>5
<1>2. Inv /\ [Next]_vars =>
        [\A i \in DOMAIN operations : Dispatched(i) =>
           /\ operations[i].slot \in reviewed.spec
           /\ reviewed.target = Target
           /\ schedule.status = "live" /\ schedule.enabled]_vars
  BY <1>1
<1> QED BY <1>2, Invariant, PTL DEF Spec, RunsAsReviewed

\* A slot runs between its instant and the end of its grace or not at all, although
\* dispatch compares the clock with a stored deadline only (RunsInItsWindow).
THEOREM OnTime == Spec => RunsInItsWindow
<1>1. ASSUME Inv, [Next]_vars, NEW i \in DOMAIN operations, Dispatched(i)
      PROVE  operations[i].slot.due <= clock /\ clock <= operations[i].slot.due + Grace
  <2>1. clock <= operations[i].expires
    BY <1>1, DispatchedIsChecked DEF DispatchOperation
  <2> QED BY <1>1, <2>1 DEF Inv, InTime
<1>2. Inv /\ [Next]_vars =>
        [\A i \in DOMAIN operations : Dispatched(i) =>
           /\ operations[i].slot.due <= clock
           /\ clock <= operations[i].slot.due + Grace]_vars
  BY <1>1
<1> QED BY <1>2, Invariant, PTL DEF Spec, RunsInItsWindow

-----------------------------------------------------------------------------
(* The clock of a zone.                                                    *)

\* What the schedule and the windows are computed from.
Inputs ==
  zone \in Zones /\ starts \in Rules /\ exceptions \in Closures /\ duration \in Durations

\* The types of those inputs; a change of the clock and a window are a day at most.
LEMMA InputTypes ==
  ASSUME Inputs
  PROVE  /\ zone.at \in Int /\ zone.before \in Int /\ zone.after \in Int
         /\ zone.before - zone.after <= Day /\ zone.after - zone.before <= Day
         /\ Day \in Nat \ {0} /\ Horizon \in Nat
         /\ duration \in Nat /\ 1 <= duration /\ duration <= Day
         /\ \A w \in starts : w \in Int
BY CalendarAssumption, ZonesAssumption DEF Inputs

\* The offset before and from the change of the clock on.
LEMMA Offsets ==
  ASSUME Inputs, NEW i \in Int
  PROVE  /\ Offset(i) \in Int /\ Local(i) \in Int /\ Local(i) = i + Offset(i)
         /\ i < zone.at => Offset(i) = zone.before
         /\ i >= zone.at => Offset(i) = zone.after
BY InputTypes DEF Offset, Local

\* A wall time lies in its date.
LEMMA DateBounds ==
  ASSUME Day \in Nat \ {0}, NEW w \in Int
  PROVE  /\ Date(w) \in Int
         /\ Date(w) * Day <= w /\ w < (Date(w) + 1) * Day
         /\ Date(w) * Day \in Int /\ (Date(w) + 1) * Day = Date(w) * Day + Day
BY DEF Date

\* Midnights of different dates are a day or more apart.
LEMMA Multiples ==
  ASSUME Day \in Nat \ {0}, NEW d \in Int, NEW e \in Int, d < e
  PROVE  d * Day \in Int /\ e * Day \in Int /\ d * Day + Day <= e * Day
OBVIOUS

\* A wall time between two midnights is of the date that begins at the first.
LEMMA DateIs ==
  ASSUME Day \in Nat \ {0}, NEW d \in Int
  PROVE  /\ d * Day \in Int /\ Date(d * Day) = d
         /\ \A w \in Int : d * Day <= w /\ w < d * Day + Day => Date(w) = d
<1>1. d * Day \in Int OBVIOUS
<1>2. ASSUME NEW w \in Int, d * Day <= w, w < d * Day + Day PROVE Date(w) = d
  <2>1. PICK e : e = Date(w) OBVIOUS
  <2>2. e \in Int /\ e * Day <= w /\ w < e * Day + Day /\ e * Day \in Int
    <3>1. (Date(w) + 1) * Day = Date(w) * Day + Day BY DateBounds
    <3> QED BY <2>1, <3>1, DateBounds
  <2>3. ~(e < d)
    <3> SUFFICES ASSUME e < d PROVE FALSE OBVIOUS
    <3>1. e * Day + Day <= d * Day BY <2>2, Multiples
    <3> QED BY <1>1, <1>2, <2>2, <3>1
  <2>4. ~(d < e)
    <3> SUFFICES ASSUME d < e PROVE FALSE OBVIOUS
    <3>1. d * Day + Day <= e * Day BY <2>2, Multiples
    <3> QED BY <1>1, <1>2, <2>2, <3>1
  <2> QED BY <2>1, <2>2, <2>3, <2>4
<1>3. d * Day < d * Day + Day BY <1>1
<1> QED BY <1>1, <1>2, <1>3

\* The least element is what Min picks.
LEMMA MinIs ==
  ASSUME NEW S \in SUBSET Int, NEW m \in S, \A y \in S : m <= y
  PROVE  Min(S) = m
<1>1. PICK n : n = Min(S) OBVIOUS
<1>2. n \in S /\ \A y \in S : n <= y BY <1>1, Zenon DEF Min
<1>3. n <= m /\ m <= n /\ n \in Int /\ m \in Int BY <1>2
<1> QED BY <1>1, <1>3

\* The greatest element is what Max picks.
LEMMA MaxIs ==
  ASSUME NEW S \in SUBSET Int, NEW m \in S, \A y \in S : m >= y
  PROVE  Max(S) = m
<1>1. PICK n : n = Max(S) OBVIOUS
<1>2. n \in S /\ \A y \in S : n >= y BY <1>1, Zenon DEF Max
<1>3. n >= m /\ m >= n /\ n \in Int /\ m \in Int BY <1>2
<1> QED BY <1>1, <1>3

\* Both offsets of the zone are tried where they matter.
LEMMA OffsetsTried ==
  ASSUME Inputs, NEW w \in Int
  PROVE  /\ Instant(w) \in Int
         /\ wallOffsets(w) \subseteq {zone.before, zone.after}
         /\ wallOffsets(w) # {}
         /\ w - zone.before < zone.at + Day => zone.before \in wallOffsets(w)
         /\ w - zone.after >= zone.at - Day => zone.after \in wallOffsets(w)
<1>1. \A i \in Int : Offset(i) \in {zone.before, zone.after} BY Offsets, InputTypes DEF Offset
<1>2. /\ Instant(w) \in {w - zone.before, w - zone.after}
      /\ Instant(w) \in Int
  <2>1. w - Offset(w) \in Int BY Offsets
  <2>2. Offset(w - Offset(w)) \in {zone.before, zone.after} BY <1>1, <2>1
  <2> QED BY <2>2, InputTypes DEF Instant
<1>3. \A d \in -2..2 : Offset(Instant(w) + d * Day) \in wallOffsets(w) BY DEF wallOffsets
<1>4. \A d \in -2..2 : Instant(w) + d * Day \in Int BY <1>2, InputTypes
<1>5. /\ Offset(Instant(w) - 2 * Day) \in wallOffsets(w)
      /\ Offset(Instant(w) + 2 * Day) \in wallOffsets(w)
  <2>1. Instant(w) + (-2) * Day = Instant(w) - 2 * Day BY <1>2, InputTypes
  <2>2. -2 \in -2..2 /\ 2 \in -2..2 OBVIOUS
  <2>3. Offset(Instant(w) + (-2) * Day) \in wallOffsets(w) BY <1>3, <2>2
  <2> QED BY <1>3, <2>1, <2>2, <2>3
<1>6. wallOffsets(w) \subseteq {zone.before, zone.after} BY <1>1, <1>4 DEF wallOffsets
<1>7. ASSUME w - zone.before < zone.at + Day PROVE zone.before \in wallOffsets(w)
  <2>1. Instant(w) - 2 * Day < zone.at BY <1>2, <1>7, InputTypes
  <2>2. Instant(w) - 2 * Day \in Int BY <1>2, InputTypes
  <2> QED BY <1>5, <2>1, <2>2, Offsets
<1>8. ASSUME w - zone.after >= zone.at - Day PROVE zone.after \in wallOffsets(w)
  <2>1. Instant(w) + 2 * Day >= zone.at BY <1>2, <1>8, InputTypes
  <2>2. Instant(w) + 2 * Day \in Int BY <1>2, InputTypes
  <2> QED BY <1>5, <2>1, <2>2, Offsets
<1> QED BY <1>2, <1>5, <1>6, <1>7, <1>8

\* Real finds every instant that shows a local time.
LEMMA RealAreShown ==
  ASSUME Inputs, NEW w \in Int
  PROVE  Real(w) = {i \in Int : Local(i) = w}
<1>1. Candidates(w) \subseteq Int BY OffsetsTried, InputTypes DEF Candidates
<1>2. ASSUME NEW i \in Int, Local(i) = w PROVE i \in Candidates(w)
  <2>1. CASE i < zone.at
    <3>1. i = w - zone.before BY <1>2, <2>1, Offsets, InputTypes
    <3>2. zone.before \in wallOffsets(w) BY <2>1, <3>1, OffsetsTried, InputTypes
    <3> QED BY <3>1, <3>2 DEF Candidates
  <2>2. CASE i >= zone.at
    <3>1. i = w - zone.after BY <1>2, <2>2, Offsets, InputTypes
    <3>2. zone.after \in wallOffsets(w) BY <2>2, <3>1, OffsetsTried, InputTypes
    <3> QED BY <3>1, <3>2 DEF Candidates
  <2> QED BY <2>1, <2>2, InputTypes
<1> QED BY <1>1, <1>2 DEF Real

\* A local time the clock skips.
LEMMA Skipped ==
  ASSUME Inputs, NEW w \in Int, \A i \in Int : Local(i) # w
  PROVE  w - zone.before >= zone.at /\ w - zone.after < zone.at
<1>1. w - zone.before \in Int /\ w - zone.after \in Int BY InputTypes
<1>2. ~(w - zone.before < zone.at)
  <2> SUFFICES ASSUME w - zone.before < zone.at PROVE FALSE OBVIOUS
  <2>1. Local(w - zone.before) = w BY <1>1, Offsets, InputTypes
  <2> QED BY <1>1, <2>1
<1>3. ~(w - zone.after >= zone.at)
  <2> SUFFICES ASSUME w - zone.after >= zone.at PROVE FALSE OBVIOUS
  <2>1. Local(w - zone.after) = w BY <1>1, Offsets, InputTypes
  <2> QED BY <1>1, <2>1
<1> QED BY <1>1, <1>2, <1>3, InputTypes

\* Instants that show one local time are a day apart at most.
LEMMA ShownApart ==
  ASSUME Inputs, NEW i \in Int, NEW j \in Int, Local(i) = Local(j)
  PROVE  i - j <= Day
BY Offsets, InputTypes

\* resolveWall: the first instant that shows a local time, or as long after the change as
\* if there were none.
LEMMA Resolved ==
  ASSUME Inputs, NEW w \in Int, NEW found, found = resolveWall(w)
  PROVE  /\ found.due \in Int /\ found.missing \in BOOLEAN
         /\ ~found.missing => /\ Local(found.due) = w
                              /\ \A i \in Int : Local(i) = w => found.due <= i
         /\ found.missing => /\ \A i \in Int : Local(i) # w
                             /\ found.due = w - zone.before
<1>1. CASE Real(w) # {}
  <2>1. found = [due |-> Min(Real(w)), missing |-> FALSE] BY <1>1 DEF resolveWall
  <2>2. PICK i \in Int : Local(i) = w BY <1>1, RealAreShown
  <2>3. PICK m \in Int : /\ Local(m) = w /\ \A j \in Int : Local(j) = w => m <= j
    <3>1. CASE w - zone.before < zone.at
      <4>1. Local(w - zone.before) = w /\ w - zone.before \in Int
        BY <3>1, Offsets, InputTypes
      <4>2. ASSUME NEW j \in Int, Local(j) = w PROVE w - zone.before <= j
        <5>1. CASE j < zone.at BY <4>2, <5>1, Offsets, InputTypes
        <5>2. CASE j >= zone.at BY <3>1, <5>2, InputTypes
        <5> QED BY <5>1, <5>2, InputTypes
      <4> QED BY <4>1, <4>2
    <3>2. CASE ~(w - zone.before < zone.at)
      <4>1. ASSUME NEW j \in Int, Local(j) = w PROVE j = w - zone.after
        <5>1. ~(j < zone.at) BY <3>2, <4>1, Offsets, InputTypes
        <5> QED BY <4>1, <5>1, Offsets, InputTypes
      <4>2. i = w - zone.after BY <2>2, <4>1
      <4>3. \A j \in Int : Local(j) = w => i <= j BY <2>2, <4>1, <4>2
      <4> QED BY <2>2, <4>3
    <3> QED BY <3>1, <3>2
  <2>4. Min(Real(w)) = m
    <3>1. m \in Real(w) /\ \A j \in Real(w) : m <= j BY <2>3, RealAreShown
    <3>2. Real(w) \in SUBSET Int BY RealAreShown
    <3> QED BY <3>1, <3>2, MinIs
  <2>5. found.due = m /\ found.missing = FALSE BY <2>1, <2>4
  <2> QED BY <2>3, <2>5
<1>2. CASE Real(w) = {}
  <2>1. found = [due |-> Max(Candidates(w)), missing |-> TRUE] BY <1>2 DEF resolveWall
  <2>2. \A i \in Int : Local(i) # w BY <1>2, RealAreShown
  <2>3. w - zone.before >= zone.at /\ w - zone.after < zone.at BY <2>2, Skipped
  <2>4. zone.before \in wallOffsets(w) BY <2>3, OffsetsTried, InputTypes
  <2>5. Max(Candidates(w)) = w - zone.before
    <3>1. Candidates(w) \in SUBSET Int BY OffsetsTried, InputTypes DEF Candidates
    <3>2. w - zone.before \in Candidates(w) BY <2>4 DEF Candidates
    <3>3. \A y \in Candidates(w) : w - zone.before >= y
      BY <2>3, OffsetsTried, InputTypes DEF Candidates
    <3> QED BY <3>1, <3>2, <3>3, MaxIs
  <2>6. found.due = w - zone.before /\ found.missing = TRUE BY <2>1, <2>5
  <2>7. found.due \in Int BY <2>6, InputTypes
  <2> QED BY <2>2, <2>6, <2>7
<1> QED BY <1>1, <1>2

\* The properties go through Instants, which is wide enough.
LEMMA FirstShownIsDue ==
  ASSUME Inputs, NEW w \in Int, NEW found, found = resolveWall(w),
         (\A i \in Int : Local(i) # w)
           \/ \E i \in Int : Local(i) = w /\ -Day <= i /\ i <= Horizon + 2 * Day
  PROVE  /\ FirstShown(w) = found.due
         /\ Shown(w) # {} <=> ~found.missing
<1>1. Shown(w) \in SUBSET Int /\ \A i \in Shown(w) : Local(i) = w
  BY InputTypes DEF Shown, Instants
<1>2. CASE found.missing
  <2>1. \A i \in Int : Local(i) # w BY <1>2, Resolved
  <2>2. Shown(w) = {} BY <1>1, <2>1
  <2> QED BY <1>2, <2>2, Resolved DEF FirstShown
<1>3. CASE ~found.missing
  <2>1. /\ found.due \in Int /\ Local(found.due) = w
        /\ \A i \in Int : Local(i) = w => found.due <= i
    BY <1>3, Resolved
  <2>2. PICK i \in Int : Local(i) = w /\ -Day <= i /\ i <= Horizon + 2 * Day BY <2>1
  <2>3. found.due <= i /\ i - found.due <= Day BY <2>1, <2>2, ShownApart
  <2>4. found.due \in Instants BY <2>1, <2>2, <2>3, InputTypes DEF Instants
  <2>5. found.due \in Shown(w) BY <2>1, <2>4 DEF Shown
  <2>6. Min(Shown(w)) = found.due BY <1>1, <2>1, <2>5, MinIs
  <2> QED BY <1>3, <2>5, <2>6 DEF FirstShown
<1>4. found.missing \in BOOLEAN BY Resolved
<1> QED BY <1>2, <1>3, <1>4

-----------------------------------------------------------------------------
(* Maintenance windows.                                                    *)

\* Spread bounds the difference of any two offsets that were found.
LEMMA SpreadCovers ==
  ASSUME NEW x \in Int, NEW y \in Int, NEW S \in SUBSET {x, y}, NEW a \in S, NEW b \in S
  PROVE  Spread(S) \in Int /\ a - b <= Spread(S)
<1>1. S \in SUBSET Int OBVIOUS
<1>2. PICK low \in S : \A z \in S : low <= z
  <2>1. CASE x \in S /\ (y \in S => x <= y) BY <2>1
  <2>2. CASE y \in S /\ (x \in S => y <= x) BY <2>2
  <2> QED BY <2>1, <2>2
<1>3. PICK high \in S : \A z \in S : high >= z
  <2>1. CASE x \in S /\ (y \in S => x >= y) BY <2>1
  <2>2. CASE y \in S /\ (x \in S => y >= x) BY <2>2
  <2> QED BY <2>1, <2>2
<1>4. Min(S) = low BY <1>1, <1>2, MinIs
<1>5. Max(S) = high BY <1>1, <1>3, MaxIs
<1>6. Spread(S) = high - low BY <1>4, <1>5 DEF Spread
<1>7. low \in Int /\ high \in Int /\ low <= b /\ a <= high BY <1>1, <1>2, <1>3
<1> QED BY <1>1, <1>6, <1>7

\* Every start of a window that is open is among the wall times gone through.
LEMMA StartsAreConsidered ==
  ASSUME Inputs, NEW at \in Int, NEW due \in Int, due > at - duration, due <= at,
         NEW w \in starts, w = Local(due)
  PROVE  w \in WindowWalls(at)
<1> DEFINE after == at - duration
           offsets == {Offset(at)} \cup
                        {Offset(a + d * Day) : a \in {after, at}, d \in {-2, 0, 2}}
<1>1. after \in Int /\ after < due BY InputTypes
<1>2. \A i \in Int : Offset(i) \in {zone.before, zone.after} BY DEF Offset
<1>3. offsets \in SUBSET {zone.before, zone.after}
  <2>1. \A a \in {after, at}, d \in {-2, 0, 2} : a + d * Day \in Int BY <1>1, InputTypes
  <2> QED BY <1>2, <2>1
<1>4. Offset(at) \in offsets OBVIOUS
<1>5. Offset(after) \in offsets
  <2>1. after + 0 * Day = after BY <1>1, InputTypes
  <2>2. Offset(after + 0 * Day) \in offsets OBVIOUS
  <2> QED BY <2>1, <2>2
<1>6. Offset(due) \in offsets
  <2>1. CASE due < zone.at
    <3>1. Offset(due) = Offset(after) BY <1>1, <2>1, Offsets, InputTypes
    <3> QED BY <1>5, <3>1
  <2>2. CASE due >= zone.at
    <3>1. Offset(due) = Offset(at) BY <2>2, Offsets, InputTypes
    <3> QED BY <1>4, <3>1
  <2> QED BY <2>1, <2>2, InputTypes
<1> HIDE DEF offsets
<1>7. Spread(offsets) \in Int /\ Offset(after) - Offset(due) <= Spread(offsets)
        /\ Offset(due) - Offset(at) <= Spread(offsets)
  BY <1>3, <1>4, <1>5, <1>6, InputTypes, SpreadCovers
<1>8. w > Local(after) - Spread(offsets) /\ w <= Local(at) + Spread(offsets)
  <2>1. w = due + Offset(due) /\ Local(after) = after + Offset(after)
          /\ Local(at) = at + Offset(at) /\ Offset(due) \in Int /\ Offset(after) \in Int
          /\ Offset(at) \in Int
    BY <1>1, Offsets
  <2> QED BY <1>1, <1>7, <2>1
<1> QED BY <1>8 DEF WindowWalls, offsets

\* The instants from which the rule holds a window open.
OpenStart(w, at) ==
  /\ w \in starts /\ ~resolveWall(w).missing /\ Date(w) \notin exceptions
  /\ resolveWall(w).due > at - duration /\ resolveWall(w).due <= at

\* The walls maintenanceWindow goes through miss no start that opens a window now.
LEMMA OpenedByStarts ==
  ASSUME Inputs, NEW at \in Int
  PROVE  {w \in WindowWalls(at) : OpenedBy(w, at)} = {w \in starts : OpenStart(w, at)}
<1>1. ASSUME NEW w \in starts, OpenStart(w, at) PROVE w \in WindowWalls(at)
  <2>1. PICK found : found = resolveWall(w) OBVIOUS
  <2>2. w \in Int BY InputTypes
  <2>3. found.due \in Int /\ Local(found.due) = w BY <1>1, <2>1, <2>2, Resolved DEF OpenStart
  <2> QED BY <1>1, <2>1, <2>3, StartsAreConsidered DEF OpenStart
<1>2. WindowWalls(at) \subseteq starts BY DEF WindowWalls
<1> QED BY <1>1, <1>2 DEF OpenedBy, OpenStart

\* A bounded set of integers has a greatest element.
LEMMA GreatestIs ==
  ASSUME NEW S \in SUBSET Int, S # {}, NEW bound \in Int, \A x \in S : x <= bound
  PROVE  \E m \in S : \A y \in S : m >= y
<1> DEFINE T == {bound - x : x \in S}
<1>1. T \subseteq Nat /\ T # {}
  <2>1. \A x \in S : bound - x \in Nat OBVIOUS
  <2> QED BY <2>1
<1>2. PICK t \in T : \A s \in T : t <= s
  <2> HIDE DEF T
  <2> QED BY <1>1, LeastNatural
<1>3. PICK m \in S : t = bound - m OBVIOUS
<1>4. ASSUME NEW y \in S PROVE m >= y
  <2>1. t <= bound - y BY <1>2
  <2> QED BY <1>3, <2>1
<1> QED BY <1>4

\* What maintenanceWindow returns: the instant itself, or a later end.
LEMMA WindowEnds ==
  ASSUME Inputs, NEW at \in Int
  PROVE  LET today == Date(Local(at))
             midnight == resolveWall((today + 1) * Day).due
             until == maintenanceWindow(at)
         IN /\ until \in Int
            /\ ~maintenanceOpen(at) => until <= at
            /\ maintenanceOpen(at) <=>
                 /\ today \notin exceptions
                 /\ \E w \in starts : OpenStart(w, at)
                 /\ today + 1 \in exceptions => at < midnight
            /\ maintenanceOpen(at) =>
                 /\ today + 1 \in exceptions => until <= midnight
                 /\ \E w \in starts : OpenStart(w, at) /\ until <= resolveWall(w).due + duration
<1> DEFINE today == Date(Local(at))
           nextDay == (today + 1) * Day
           midnight == resolveWall(nextDay).due
           opening == {w \in starts : OpenStart(w, at)}
           ends == {resolveWall(w).due + duration : w \in opening}
<1>1. today \in Int /\ nextDay \in Int /\ Date(nextDay) = today + 1 /\ midnight \in Int
  <2>1. Local(at) \in Int BY Offsets
  <2>2. today \in Int BY <2>1, InputTypes, DateBounds
  <2>3. nextDay \in Int BY <2>2, InputTypes
  <2>4. Date(nextDay) = today + 1
    <3>1. today + 1 \in Int BY <2>2
    <3> QED BY <3>1, InputTypes, DateIs
  <2>5. midnight \in Int BY <2>3, Resolved
  <2> QED BY <2>2, <2>3, <2>4, <2>5
<1>2. \A w \in starts : resolveWall(w).due \in Int BY Resolved, InputTypes
<1>3. /\ ends \in SUBSET Int
      /\ \A x \in ends : x > at /\ x <= at + duration
  BY <1>2, InputTypes DEF OpenStart
<1>4. maintenanceWindow(at) =
        IF today \in exceptions \/ ends = {} THEN at ELSE Clipped(Max(ends), Local(at))
  BY OpenedByStarts DEF maintenanceWindow
<1>5. CASE today \in exceptions \/ ends = {}
  <2>1. maintenanceWindow(at) = at BY <1>4, <1>5
  <2>2. ~maintenanceOpen(at) BY <2>1 DEF maintenanceOpen
  <2>3. today \in exceptions \/ ~\E w \in starts : OpenStart(w, at) BY <1>5
  <2> QED BY <2>1, <2>2, <2>3
<1>6. CASE today \notin exceptions /\ ends # {}
  <2>1. PICK last \in ends : \A y \in ends : last >= y
    <3>1. at + duration \in Int BY InputTypes
    <3> QED BY <1>3, <1>6, <3>1, GreatestIs
  <2>2. Max(ends) = last BY <1>3, <2>1, MaxIs
  <2>3. PICK w \in starts : OpenStart(w, at) /\ last = resolveWall(w).due + duration
    OBVIOUS
  <2>4. last \in Int /\ last > at BY <1>3
  <2>5. maintenanceWindow(at) =
          IF today + 1 \in exceptions /\ midnight < last THEN midnight ELSE last
    BY <1>1, <1>4, <1>6, <2>2 DEF Clipped
  <2> HIDE DEF today, nextDay, midnight, opening, ends
  <2>6. maintenanceWindow(at) \in Int /\ maintenanceWindow(at) <= last BY <1>1, <2>4, <2>5
  <2>7. maintenanceOpen(at) <=> (today + 1 \in exceptions => at < midnight)
    BY <1>1, <2>4, <2>5 DEF maintenanceOpen
  <2>8. today + 1 \in exceptions => maintenanceWindow(at) <= midnight BY <1>1, <2>4, <2>5
  <2>9. ~maintenanceOpen(at) => maintenanceWindow(at) <= at BY <2>6 DEF maintenanceOpen
  <2> QED BY <1>6, <2>3, <2>6, <2>7, <2>8, <2>9 DEF today, nextDay, midnight
<1> QED BY <1>5, <1>6

\* maintenanceOpen, between midnight of the first day and the horizon.
LEMMA WindowAsRuled ==
  ASSUME Inputs, NEW at \in 0..Horizon
  PROVE  maintenanceOpen(at) <=> OpenByRule(at)
<1>0. at \in Int /\ 0 <= at /\ at <= Horizon BY InputTypes
<1>1. ASSUME NEW w \in starts
      PROVE  OpenStart(w, at) <=>
               /\ Shown(w) # {} /\ Date(w) \notin exceptions
               /\ FirstShown(w) <= at /\ at < FirstShown(w) + duration
  <2>1. PICK found : found = resolveWall(w) OBVIOUS
  <2>2. w \in Int BY InputTypes
  <2>3. /\ found.due \in Int
        /\ ~found.missing => Local(found.due) = w
        /\ found.missing => \A i \in Int : Local(i) # w
    BY <2>1, <2>2, Resolved
  <2>4. CASE OpenStart(w, at)
    <3>1. ~found.missing /\ -Day <= found.due /\ found.due <= Horizon + 2 * Day
      BY <1>0, <2>1, <2>3, <2>4, InputTypes DEF OpenStart
    <3>2. FirstShown(w) = found.due /\ Shown(w) # {}
      BY <2>1, <2>2, <2>3, <3>1, FirstShownIsDue
    <3> QED BY <1>0, <2>1, <2>3, <2>4, <3>2, InputTypes DEF OpenStart
  <2>5. CASE /\ Shown(w) # {} /\ Date(w) \notin exceptions
             /\ FirstShown(w) <= at /\ at < FirstShown(w) + duration
    <3>1. PICK i : i = FirstShown(w) OBVIOUS
    <3>2. /\ Shown(w) \in SUBSET Instants /\ \A j \in Shown(w) : Local(j) = w
          /\ Instants \subseteq Int /\ \A j \in Instants : -(2 * Day) <= j
      BY InputTypes DEF Shown, Instants
    <3>3. i \in Shown(w)
      <4>1. \E m \in Shown(w) : \A y \in Shown(w) : m <= y
        <5>1. PICK j \in Shown(w) : TRUE BY <2>5
        <5>2. ~found.missing BY <2>3, <3>2, <5>1
        <5>3. \A y \in Int : Local(y) = w => found.due <= y BY <2>1, <2>2, <5>2, Resolved
        <5>4. CASE found.due \in Shown(w) BY <3>2, <5>3, <5>4
        <5>5. CASE found.due \notin Shown(w)
          <6>1. \A y \in Shown(w) : y = j
            <7> SUFFICES ASSUME NEW y \in Shown(w), y # j PROVE FALSE
              OBVIOUS
            <7>1. y \in Int /\ j \in Int /\ Local(y) = w /\ Local(j) = w BY <3>2
            <7>2. y # found.due /\ j # found.due BY <5>5, <5>1
            <7>3. \A x \in Int : Local(x) = w => x = w - zone.before \/ x = w - zone.after
              BY Offsets, InputTypes
            <7> QED BY <2>3, <5>2, <7>1, <7>2, <7>3
          <6>2. j \in Instants BY <3>2, <5>1
          <6>3. j \in Int BY <3>2, <6>2
          <6>4. \A y \in Shown(w) : j <= y BY <6>1, <6>3
          <6> QED BY <6>4
        <5> QED BY <5>4, <5>5
      <4>2. PICK m \in Shown(w) : \A y \in Shown(w) : m <= y BY <4>1
      <4>3. Min(Shown(w)) = m BY <3>2, <4>2, MinIs
      <4> QED BY <2>5, <3>1, <4>2, <4>3 DEF FirstShown
    <3>4. i \in Int /\ Local(i) = w /\ -Day <= i /\ i <= Horizon + 2 * Day
      <4>1. i \in Int /\ Local(i) = w BY <3>2, <3>3
      <4>2. i <= at /\ at < i + duration BY <2>5, <3>1
      <4> QED BY <1>0, <4>1, <4>2, InputTypes
    <3>5. i = found.due /\ ~found.missing
      BY <2>1, <2>2, <2>5, <3>1, <3>4, FirstShownIsDue
    <3> QED BY <1>0, <2>1, <2>5, <3>1, <3>4, <3>5, InputTypes DEF OpenStart
  <2> QED BY <2>4, <2>5
<1>2. PICK today : today = Date(Local(at)) OBVIOUS
<1>3. PICK next0 : next0 = (today + 1) * Day OBVIOUS
<1>4. today \in Int /\ next0 \in Int /\ Local(at) < next0 /\ next0 <= Local(at) + Day
  <2>1. Local(at) \in Int BY <1>0, Offsets
  <2> QED BY <1>2, <1>3, <2>1, InputTypes, DateBounds
<1>5. FirstShown(next0) = resolveWall(next0).due
  <2>1. ASSUME NEW i \in Int, Local(i) = next0 PROVE -Day <= i /\ i <= Horizon + 2 * Day
    BY <1>0, <1>4, <2>1, Offsets, InputTypes
  <2>2. PICK found : found = resolveWall(next0) OBVIOUS
  <2>3. (\A i \in Int : Local(i) # next0)
           \/ \E i \in Int : Local(i) = next0 /\ -Day <= i /\ i <= Horizon + 2 * Day
    BY <2>1
  <2> QED BY <1>4, <2>2, <2>3, FirstShownIsDue
<1>6. maintenanceOpen(at) <=>
        /\ today \notin exceptions
        /\ \E w \in starts : OpenStart(w, at)
        /\ today + 1 \in exceptions => at < resolveWall(next0).due
  BY <1>0, <1>2, <1>3, WindowEnds
<1>7. OpenByRule(at) <=>
        /\ today \notin exceptions
        /\ today + 1 \in exceptions => at < FirstShown(next0)
        /\ \E w \in starts :
             /\ Shown(w) # {} /\ Date(w) \notin exceptions
             /\ FirstShown(w) <= at /\ at < FirstShown(w) + duration
  BY <1>2, <1>3 DEF OpenByRule
<1> QED BY <1>1, <1>5, <1>6, <1>7

\* A clock that does not change across midnight jumps over none.
LEMMA NoMidnightSkipped ==
  ASSUME Inputs, ~AcrossMidnight, NEW d \in Int, NEW m, m = d * Day
  PROVE  /\ m \in Int
         /\ ~(zone.at + zone.before < m /\ m < zone.at + zone.after)
         /\ ~(zone.at + zone.after < m /\ m < zone.at + zone.before)
<1>1. m \in Int BY InputTypes
<1>2. ASSUME NEW x \in Int, x < m PROVE (Date(x) + 1) * Day <= m
  <2>1. PICK e : e = Date(x) OBVIOUS
  <2>2. e \in Int /\ e * Day <= x /\ e * Day \in Int /\ (e + 1) * Day = e * Day + Day
    BY <2>1, InputTypes, DateBounds
  <2>3. e < d
    <3> SUFFICES ASSUME ~(e < d) PROVE FALSE OBVIOUS
    <3>1. CASE e = d BY <1>1, <1>2, <2>2, <3>1
    <3>2. CASE d < e
      <4>1. m + Day <= e * Day BY <2>2, <3>2, InputTypes, Multiples
      <4> QED BY <1>1, <1>2, <2>2, <4>1, InputTypes
    <3> QED BY <2>2, <3>1, <3>2
  <2>4. e * Day + Day <= m BY <2>2, <2>3, InputTypes, Multiples
  <2> QED BY <2>1, <2>2, <2>4
<1>3. /\ ~((Date(zone.at + zone.before) + 1) * Day < zone.at + zone.after)
      /\ ~((Date(zone.at + zone.after) + 1) * Day < zone.at + zone.before)
  BY DEF AcrossMidnight
<1>4. /\ zone.at + zone.before \in Int /\ zone.at + zone.after \in Int
      /\ (Date(zone.at + zone.before) + 1) * Day \in Int
      /\ (Date(zone.at + zone.after) + 1) * Day \in Int
  <2>1. zone.at + zone.before \in Int /\ zone.at + zone.after \in Int BY InputTypes
  <2> QED BY <2>1, InputTypes, DateBounds
<1> QED BY <1>1, <1>2, <1>3, <1>4

\* What maintenanceWindow told at p holds as long as it told.
LEMMA PromiseHolds ==
  ASSUME Inputs, ~AcrossMidnight, ~OverTwoMidnights, NEW p \in Int, NEW n \in Int, p <= n,
         n < maintenanceWindow(p)
  PROVE  maintenanceOpen(n)
<1>1. PICK day : day = Date(Local(p)) OBVIOUS
<1>2. PICK today : today = Date(Local(n)) OBVIOUS
<1>3. PICK m : m = (day + 1) * Day OBVIOUS
<1>4. PICK until : until = maintenanceWindow(p) OBVIOUS
<1>5. /\ until \in Int /\ n < until /\ day \notin exceptions
      /\ day + 1 \in exceptions => until <= resolveWall(m).due
      /\ \E w \in starts : OpenStart(w, p) /\ until <= resolveWall(w).due + duration
  <2>1. maintenanceWindow(p) \in Int /\ (~maintenanceOpen(p) => maintenanceWindow(p) <= p)
    BY WindowEnds
  <2>2. maintenanceOpen(p) BY <2>1
  <2> QED BY <1>1, <1>3, <1>4, <2>1, <2>2, WindowEnds
<1>6. PICK w \in starts : OpenStart(w, p) /\ until <= resolveWall(w).due + duration
  BY <1>5
<1>7. OpenStart(w, n) /\ n - p < duration
  <2>1. resolveWall(w).due \in Int BY Resolved, InputTypes
  <2> QED BY <1>5, <1>6, <2>1, InputTypes DEF OpenStart
<1>8. /\ Local(p) \in Int /\ Local(n) \in Int /\ day \in Int /\ today \in Int
      /\ day * Day \in Int /\ today * Day \in Int /\ m = day * Day + Day
      /\ day * Day <= Local(p) /\ Local(p) < m
      /\ today * Day <= Local(n) /\ Local(n) < today * Day + Day
  BY <1>1, <1>2, <1>3, Offsets, InputTypes, DateBounds
<1>9. ~(today < day)
  <2> SUFFICES ASSUME today < day PROVE FALSE OBVIOUS
  <2>1. today * Day + Day <= day * Day BY <1>8, InputTypes, Multiples
  <2>2. Local(n) < day * Day BY <1>8, <2>1, InputTypes
  <2>3. p < zone.at /\ zone.at <= n BY <1>8, <2>2, Offsets, InputTypes
  <2>4. zone.at + zone.after < day * Day /\ day * Day < zone.at + zone.before
    BY <1>8, <2>2, <2>3, Offsets, InputTypes
  <2> QED BY <1>8, <2>4, NoMidnightSkipped
<1>10. ~(day + 1 < today)
  <2> SUFFICES ASSUME day + 1 < today PROVE FALSE OBVIOUS
  <2>1. (day + 1) * Day + Day <= today * Day BY <1>8, InputTypes, Multiples
  <2>2. Local(n) - Local(p) > Day BY <1>3, <1>8, <2>1, InputTypes
  <2>3. duration <= Day - (zone.after - zone.before) BY InputTypes DEF OverTwoMidnights
  <2>4. CASE p < zone.at /\ zone.at <= n
    <3>1. Local(p) = p + zone.before /\ Local(n) = n + zone.after
      BY <2>4, Offsets, InputTypes
    <3> QED BY <1>7, <2>2, <2>3, <3>1, InputTypes
  <2>5. CASE ~(p < zone.at /\ zone.at <= n)
    <3>1. CASE n < zone.at
      <4>1. Local(p) = p + zone.before /\ Local(n) = n + zone.before
        BY <3>1, Offsets, InputTypes
      <4> QED BY <1>7, <2>2, <4>1, InputTypes
    <3>2. CASE p >= zone.at
      <4>1. Local(p) = p + zone.after /\ Local(n) = n + zone.after
        BY <3>2, Offsets, InputTypes
      <4> QED BY <1>7, <2>2, <4>1, InputTypes
    <3> QED BY <2>5, <3>1, <3>2, InputTypes
  <2> QED BY <2>4, <2>5
<1>11. today = day \/ today = day + 1 BY <1>8, <1>9, <1>10
<1>12. PICK found : found = resolveWall(m) OBVIOUS
<1>13. m \in Int /\ found.due \in Int
       /\ (~found.missing => /\ Local(found.due) = m
                             /\ \A i \in Int : Local(i) = m => found.due <= i)
       /\ (found.missing => /\ \A i \in Int : Local(i) # m
                            /\ found.due = m - zone.before)
  <2>1. m \in Int BY <1>8, InputTypes
  <2> QED BY <1>12, <2>1, Resolved
<1>14. CASE today = day
  <2>1. today + 1 \in exceptions => n < resolveWall((today + 1) * Day).due
    BY <1>3, <1>5, <1>12, <1>13, <1>14
  <2> QED BY <1>2, <1>5, <1>7, <1>14, <2>1, WindowEnds
<1>15. CASE today = day + 1
  <2>1. m <= Local(n) BY <1>3, <1>8, <1>15
  <2>2. today \notin exceptions
    <3> SUFFICES ASSUME today \in exceptions PROVE FALSE OBVIOUS
    <3>1. n < found.due BY <1>5, <1>12, <1>13, <1>15
    <3>2. CASE found.missing
      <4>1. m - zone.after < zone.at BY <1>13, <3>2, Skipped
      <4>2. n >= zone.at BY <1>13, <2>1, <3>1, <3>2, Offsets, InputTypes
      <4>3. zone.at + zone.before < m /\ m < zone.at + zone.after
        BY <1>13, <3>1, <3>2, <4>1, <4>2, InputTypes
      <4>4. day + 1 \in Int BY <1>8
      <4> QED BY <1>3, <4>3, <4>4, NoMidnightSkipped
    <3>3. CASE ~found.missing
      <4>1. Local(n) # m BY <1>13, <3>1, <3>3
      <4>2. n < zone.at /\ zone.at <= found.due
        BY <1>8, <1>13, <2>1, <3>1, <3>3, <4>1, Offsets, InputTypes
      <4>3. m - zone.before \in Int /\ m - zone.before < n
        <5>1. Local(n) = n + zone.before BY <4>2, Offsets, InputTypes
        <5> QED BY <1>8, <1>13, <2>1, <4>1, <5>1, InputTypes
      <4>4. Local(m - zone.before) = m BY <4>2, <4>3, <1>13, Offsets, InputTypes
      <4> QED BY <1>13, <3>1, <3>3, <4>3, <4>4
    <3>4. found.missing \in BOOLEAN BY <1>12, <1>13, Resolved
    <3> QED BY <3>2, <3>3
  <2>3. PICK m2 : m2 = (today + 1) * Day OBVIOUS
  <2>4. m2 \in Int /\ Local(n) < m2
    BY <1>8, <2>3, InputTypes
  <2>5. PICK next2 : next2 = resolveWall(m2) OBVIOUS
  <2>6. /\ next2.due \in Int
        /\ ~next2.missing => Local(next2.due) = m2
        /\ next2.missing => /\ \A i \in Int : Local(i) # m2
                            /\ next2.due = m2 - zone.before
    BY <2>4, <2>5, Resolved
  <2>7. n < next2.due
    <3> SUFFICES ASSUME next2.due <= n PROVE FALSE BY <2>6
    <3>1. CASE next2.missing
      <4>1. m2 - zone.before >= zone.at /\ m2 - zone.after < zone.at
        BY <2>4, <2>6, <3>1, Skipped
      <4> QED BY <2>4, <2>6, <3>1, <4>1, Offsets, InputTypes
    <3>2. CASE ~next2.missing
      <4>1. next2.due < zone.at /\ zone.at <= n
        BY <1>8, <2>4, <2>6, <3>2, Offsets, InputTypes
      <4>2. zone.at + zone.after < m2 /\ m2 < zone.at + zone.before
        BY <1>8, <2>4, <2>6, <3>2, <4>1, Offsets, InputTypes
      <4>3. today + 1 \in Int BY <1>8
      <4> QED BY <2>3, <4>2, <4>3, NoMidnightSkipped
    <3> QED BY <3>1, <3>2
  <2> QED BY <1>2, <1>7, <2>2, <2>3, <2>5, <2>7, WindowEnds
<1> QED BY <1>11, <1>14, <1>15

-----------------------------------------------------------------------------
(* The windows of a running schedule.                                      *)

\* What was told about the window was told in some instant.
Told == \E p \in 0..now : promise = maintenanceWindow(p)

\* The invariant of the windows.
WindowInv == Inputs /\ now \in 0..Horizon /\ Told

\* The window invariant holds initially.
LEMMA WindowInit == CalendarInit => WindowInv
<1> SUFFICES ASSUME CalendarInit PROVE WindowInv OBVIOUS
<1>1. Inputs BY DEF CalendarInit, Inputs
<1>2. now = 0 /\ 0 \in 0..Horizon /\ 0 \in 0..now BY CalendarAssumption DEF CalendarInit
<1>3. Told BY <1>2 DEF CalendarInit, Told
<1> QED BY <1>1, <1>2, <1>3 DEF WindowInv

\* The window of an instant depends on the instant and on what does not change.
LEMMA SameWindow ==
  ASSUME UNCHANGED input, NEW p
  PROVE  maintenanceWindow(p)' = maintenanceWindow(p)
<1>1. /\ zone' = zone /\ starts' = starts /\ exceptions' = exceptions /\ duration' = duration
  BY DEF input
<1>2. \A i : Offset(i)' = Offset(i) BY <1>1 DEF Offset
<1>3. \A w : wallOffsets(w)' = wallOffsets(w) BY <1>2 DEF wallOffsets, Instant
<1>4. \A w : Candidates(w)' = Candidates(w) /\ Real(w)' = Real(w)
  BY <1>2, <1>3 DEF Candidates, Real, Local
<1>5. \A w : resolveWall(w)' = resolveWall(w) BY <1>4 DEF resolveWall
<1>6. WindowWalls(p)' = WindowWalls(p) BY <1>1, <1>2 DEF WindowWalls, Local
<1>7. \A w : OpenedBy(w, p)' <=> OpenedBy(w, p) BY <1>1, <1>5 DEF OpenedBy
<1>8. \A until, local : Clipped(until, local)' = Clipped(until, local)
  BY <1>1, <1>5 DEF Clipped
<1> QED BY <1>1, <1>2, <1>5, <1>6, <1>7, <1>8 DEF maintenanceWindow, Local

\* Every step keeps the window invariant.
LEMMA WindowStep ==
  ASSUME WindowInv, [CalendarNext]_calendarVars
  PROVE  WindowInv'
<1>1. UNCHANGED input BY DEF CalendarNext, Take, Passes, calendarVars, input
<1>2. Inputs' BY <1>1 DEF WindowInv, Inputs, input
<1>3. \A p : maintenanceWindow(p)' = maintenanceWindow(p) BY <1>1, SameWindow
<1>4. CASE now' = now /\ promise' = promise
  BY <1>2, <1>3, <1>4 DEF WindowInv, Told
<1>5. CASE Passes
  <2>1. /\ now' = now + 1 /\ now < Horizon
        /\ promise' = Max({promise, maintenanceWindow(now + 1)})
    BY <1>5 DEF Passes
  <2>2. now \in 0..Horizon /\ now' \in 0..Horizon BY <2>1, CalendarAssumption DEF WindowInv
  <2>3. PICK p \in 0..now : promise = maintenanceWindow(p) BY DEF WindowInv, Told
  <2>4. p \in 0..now' /\ now + 1 \in 0..now' BY <2>1, <2>2
  <2>5. PICK x : x = maintenanceWindow(now + 1) OBVIOUS
  <2>6. promise \in Int /\ x \in Int
    <3>1. p \in Int /\ now + 1 \in Int BY <2>2
    <3> QED BY <2>3, <2>5, <3>1, WindowEnds DEF WindowInv
  <2>7. promise' = promise \/ promise' = x
    <3>1. {promise, x} \in SUBSET Int BY <2>6
    <3>2. CASE promise >= x
      <4>1. promise \in {promise, x} /\ \A y \in {promise, x} : promise >= y BY <2>6, <3>2
      <4> QED BY <2>1, <2>5, <3>1, <4>1, MaxIs
    <3>3. CASE x >= promise
      <4>1. x \in {promise, x} /\ \A y \in {promise, x} : x >= y BY <2>6, <3>3
      <4> QED BY <2>1, <2>5, <3>1, <4>1, MaxIs
    <3> QED BY <2>6, <3>2, <3>3
  <2>8. \E q \in 0..now' : promise' = maintenanceWindow(q) BY <2>3, <2>4, <2>5, <2>7
  <2>9. Told' BY <1>3, <2>8 DEF Told
  <2> QED BY <1>2, <2>2, <2>9 DEF WindowInv
<1> QED BY <1>4, <1>5 DEF CalendarNext, Take, calendarVars

\* The window invariant holds in every reachable state.
LEMMA WindowInvHolds == CalendarSpec => []WindowInv
<1>1. WindowInv /\ [CalendarNext]_calendarVars => WindowInv' BY WindowStep
<1> QED BY WindowInit, <1>1, PTL DEF CalendarSpec

\* A window is open exactly when a wall calendar says so: maintenanceWindow finds every start
\* that holds it open and resolves it, for any zone that changes its clock by a day at most,
\* any rule and any excepted dates.
THEOREM OpensAsRuled == CalendarSpec => []OpenAsRuled
<1>1. WindowInv => OpenAsRuled BY WindowAsRuled DEF WindowInv, OpenAsRuled
<1> QED BY <1>1, WindowInvHolds, PTL

\* The end of the window that a request was told holds, except across the two corners that
\* maintenance.go, which looks one date ahead, does not see.
THEOREM PromiseIsKept == CalendarSpec => []PromiseKept
<1>1. WindowInv => PromiseKept
  <2> SUFFICES ASSUME WindowInv, ~AcrossMidnight, ~OverTwoMidnights, now < promise
               PROVE  maintenanceOpen(now)
    BY DEF PromiseKept
  <2>1. PICK p \in 0..now : promise = maintenanceWindow(p) BY DEF WindowInv, Told
  <2>2. now \in Int /\ p \in Int /\ p <= now BY InputTypes DEF WindowInv
  <2> QED BY <2>1, <2>2, PromiseHolds DEF WindowInv
<1> QED BY <1>1, WindowInvHolds, PTL

-----------------------------------------------------------------------------
(* The occurrences of a schedule.                                          *)

\* What a slot may be for.
Actions == {"start", "shutdown"}

\* An occurrence is what makeOccurrence says of its wall time and action.
LEMMA OccurrenceIs ==
  ASSUME Inputs, NEW w \in Int, NEW a \in Actions, NEW o, o = makeOccurrence(w, a)
  PROVE  /\ o \in Occurrence /\ o.due \in Int
         /\ o.due = resolveWall(w).due /\ o.wall = w /\ o.action = a
         /\ o.skip # "paired"
         /\ o.skip = "none" <=> ~resolveWall(w).missing /\ Date(w) \notin exceptions
<1>1. PICK found : found = resolveWall(w) OBVIOUS
<1>2. found.due \in Int /\ found.missing \in BOOLEAN BY <1>1, Resolved
<1>3. PICK skip : skip = IF Date(w) \in exceptions THEN "exception"
                         ELSE IF found.missing THEN "missing" ELSE "none"
  OBVIOUS
<1>4. o = [due |-> found.due, wall |-> w, action |-> a, skip |-> skip]
  BY <1>1, <1>3 DEF makeOccurrence
<1>5. /\ skip \in {"none", "exception", "missing"}
      /\ skip = "none" <=> ~found.missing /\ Date(w) \notin exceptions
  BY <1>3
<1> HIDE <1>3
<1> QED BY <1>1, <1>2, <1>4, <1>5 DEF Occurrence, Actions

\* The earliest candidate of a wall time.
LEMMA FirstCandidate ==
  ASSUME Inputs, NEW w \in Int
  PROVE  /\ Min(Candidates(w)) \in Int
         /\ zone.before \in wallOffsets(w) => Min(Candidates(w)) <= w - zone.before
         /\ zone.after \in wallOffsets(w) => Min(Candidates(w)) <= w - zone.after
<1>1. /\ Candidates(w) \in SUBSET {w - zone.before, w - zone.after}
      /\ Candidates(w) # {}
  BY OffsetsTried DEF Candidates
<1>2. PICK m \in Candidates(w) : \A c \in Candidates(w) : m <= c
  <2>1. w - zone.before \in Int /\ w - zone.after \in Int BY InputTypes
  <2>2. PICK x \in Int, y \in Int : Candidates(w) \in SUBSET {x, y} BY <1>1, <2>1
  <2>3. CASE x \in Candidates(w) /\ (y \in Candidates(w) => x <= y) BY <2>2, <2>3
  <2>4. CASE y \in Candidates(w) /\ (x \in Candidates(w) => y <= x) BY <2>2, <2>4
  <2> QED BY <1>1, <2>2, <2>3, <2>4
<1>3. Candidates(w) \in SUBSET Int BY <1>1, InputTypes
<1>4. Min(Candidates(w)) = m BY <1>2, <1>3, MinIs
<1>5. zone.before \in wallOffsets(w) => w - zone.before \in Candidates(w) BY DEF Candidates
<1>6. zone.after \in wallOffsets(w) => w - zone.after \in Candidates(w) BY DEF Candidates
<1> QED BY <1>2, <1>3, <1>4, <1>5, <1>6

\* No later wall time comes before the earliest candidate of an earlier one: the loop
\* over a rule may end there.
LEMMA LaterWallsComeLater ==
  ASSUME Inputs, NEW u \in Int, NEW w \in Int, u <= w
  PROVE  Min(Candidates(u)) <= resolveWall(w).due
<1>1. PICK found : found = resolveWall(w) OBVIOUS
<1>2. PICK m : m = Min(Candidates(u)) OBVIOUS
<1>3. /\ found.due \in Int /\ m \in Int
      /\ zone.before \in wallOffsets(u) => m <= u - zone.before
      /\ zone.after \in wallOffsets(u) => m <= u - zone.after
  BY <1>1, <1>2, FirstCandidate, Resolved
<1>4. CASE found.missing
  <2>1. w - zone.before >= zone.at /\ w - zone.after < zone.at /\ found.due = w - zone.before
    BY <1>1, <1>4, Resolved, Skipped
  <2>2. u - zone.before < zone.at + Day BY <2>1, InputTypes
  <2>3. zone.before \in wallOffsets(u) BY <2>2, OffsetsTried
  <2> QED BY <1>1, <1>2, <1>3, <2>1, <2>3, InputTypes
<1>5. CASE ~found.missing /\ found.due < zone.at
  <2>1. found.due = w - zone.before BY <1>1, <1>3, <1>5, Resolved, Offsets, InputTypes
  <2>2. u - zone.before < zone.at + Day BY <1>5, <2>1, InputTypes
  <2>3. zone.before \in wallOffsets(u) BY <2>2, OffsetsTried
  <2> QED BY <1>1, <1>2, <1>3, <2>1, <2>3, InputTypes
<1>6. CASE ~found.missing /\ found.due >= zone.at
  <2>1. found.due = w - zone.after BY <1>1, <1>3, <1>6, Resolved, Offsets, InputTypes
  <2>2. CASE u - zone.after >= zone.at - Day
    <3>1. zone.after \in wallOffsets(u) BY <2>2, OffsetsTried
    <3> QED BY <1>1, <1>2, <1>3, <2>1, <3>1, InputTypes
  <2>3. CASE u - zone.after < zone.at - Day
    <3>1. u - zone.before < zone.at BY <2>3, InputTypes
    <3>2. zone.before \in wallOffsets(u) BY <3>1, OffsetsTried, InputTypes
    <3> QED BY <1>1, <1>2, <1>3, <1>6, <3>1, <3>2, InputTypes
  <2> QED BY <2>2, <2>3, InputTypes
<1>7. found.missing \in BOOLEAN BY <1>1, Resolved
<1> QED BY <1>3, <1>4, <1>5, <1>6, <1>7, InputTypes

\* Nor does an occurrence to come lie before the wall time the search begins at.
LEMMA SearchIsEarlyEnough ==
  ASSUME Inputs, NEW after \in Int, NEW w \in Int, resolveWall(w).due >= after
  PROVE  /\ SearchFrom(after) \in Int
         /\ w >= SearchFrom(after)
         /\ resolveWall(w).due > after => w > SearchFrom(after)
<1> DEFINE local == Local(after)
           tried == wallOffsets(local)
<1>1. PICK found : found = resolveWall(w) OBVIOUS
<1>2. /\ found.due \in Int /\ found.missing \in BOOLEAN /\ found.due >= after
      /\ local \in Int /\ Offset(after) \in Int /\ local = after + Offset(after)
  BY <1>1, Resolved, Offsets
<1>3. tried \in SUBSET {zone.before, zone.after} BY <1>2, OffsetsTried
<1>4. Offset(after) \in tried
  <2>1. CASE after < zone.at
    <3>1. Offset(after) = zone.before BY <2>1, Offsets
    <3>2. local - zone.before < zone.at + Day BY <1>2, <2>1, <3>1, InputTypes
    <3> QED BY <1>2, <3>1, <3>2, OffsetsTried
  <2>2. CASE after >= zone.at
    <3>1. Offset(after) = zone.after BY <2>2, Offsets
    <3>2. local - zone.after >= zone.at - Day BY <1>2, <2>2, <3>1, InputTypes
    <3> QED BY <1>2, <3>1, <3>2, OffsetsTried
  <2> QED BY <2>1, <2>2, InputTypes
<1>5. /\ Spread(tried) \in Int /\ 0 <= Spread(tried)
      /\ \A o \in tried : Offset(after) - o <= Spread(tried)
  <2>1. Spread(tried) \in Int BY <1>3, <1>4, SpreadCovers, InputTypes
  <2>2. \A o \in tried : Offset(after) - o <= Spread(tried)
    BY <1>3, <1>4, SpreadCovers, InputTypes
  <2>3. Offset(after) - Offset(after) <= Spread(tried) BY <1>4, <2>2
  <2> QED BY <1>2, <2>1, <2>2, <2>3
<1>6. SearchFrom(after) = local - Spread(tried) BY DEF SearchFrom
<1> HIDE DEF tried
<1>7. CASE found.missing
  <2>1. w - zone.before >= zone.at /\ w - zone.after < zone.at /\ found.due = w - zone.before
    BY <1>1, <1>7, Resolved, Skipped
  <2>2. CASE after < zone.at
    <3>1. Offset(after) = zone.before BY <2>2, Offsets
    <3> QED BY <1>1, <1>2, <1>5, <1>6, <2>1, <3>1, InputTypes
  <2>3. CASE after >= zone.at
    <3>1. Offset(after) = zone.after BY <2>3, Offsets
    <3>2. zone.before \in tried
      <4>1. PICK i : i = Instant(local) OBVIOUS
      <4>2. i \in {local - zone.before, local - zone.after} /\ i \in Int
        <5>1. local - Offset(local) \in Int BY <1>2, Offsets
        <5>2. Offset(local - Offset(local)) \in {zone.before, zone.after} BY DEF Offset
        <5> QED BY <1>2, <4>1, <5>2, OffsetsTried DEF Instant
      <4>3. i - 2 * Day < zone.at
        BY <1>2, <2>1, <3>1, <4>2, InputTypes
      <4>4. i + (-2) * Day = i - 2 * Day /\ i - 2 * Day \in Int BY <4>2, InputTypes
      <4>5. Offset(i + (-2) * Day) = zone.before BY <4>3, <4>4, Offsets
      <4>6. -2 \in -2..2 OBVIOUS
      <4> QED BY <4>1, <4>5, <4>6 DEF tried, wallOffsets
    <3>3. Offset(after) - zone.before <= Spread(tried) BY <1>5, <3>2
    <3> QED BY <1>1, <1>2, <1>5, <1>6, <2>1, <3>1, <3>3, InputTypes
  <2> QED BY <1>2, <2>2, <2>3, InputTypes
<1>8. CASE ~found.missing
  <2>1. /\ w = found.due + Offset(found.due) /\ Offset(found.due) \in Int
    BY <1>1, <1>2, <1>8, Resolved, Offsets
  <2>2. CASE Offset(found.due) \in tried
    <3>1. Offset(after) - Offset(found.due) <= Spread(tried) BY <1>5, <2>2
    <3> QED BY <1>1, <1>2, <1>5, <1>6, <2>1, <3>1
  <2>3. CASE Offset(found.due) \notin tried
    <3>1. after < zone.at /\ found.due >= zone.at
      BY <1>2, <1>4, <2>3, Offsets, InputTypes
    <3>2. Offset(after) = zone.before /\ Offset(found.due) = zone.after
      BY <1>2, <3>1, Offsets
    <3>3. local - zone.after < zone.at - Day
      <4>1. ~(local - zone.after >= zone.at - Day) BY <1>2, <2>3, <3>2, OffsetsTried DEF tried
      <4> QED BY <1>2, <4>1, InputTypes
    <3> QED BY <1>1, <1>2, <1>5, <1>6, <2>1, <3>1, <3>2, <3>3, InputTypes
  <2> QED BY <2>2, <2>3
<1>9. SearchFrom(after) \in Int BY <1>2, <1>5, <1>6
<1> QED BY <1>2, <1>7, <1>8, <1>9
\* A set of integers with a lower bound has a least element.
LEMMA LeastInteger ==
  ASSUME NEW S \in SUBSET Int, S # {}, NEW bound \in Int, \A x \in S : bound <= x
  PROVE  \E m \in S : \A y \in S : m <= y
<1> DEFINE T == {x - bound : x \in S}
<1>1. T \subseteq Nat /\ T # {}
  <2>1. \A x \in S : x - bound \in Nat OBVIOUS
  <2> QED BY <2>1
<1>2. PICK t \in T : \A s \in T : t <= s
  <2> HIDE DEF T
  <2> QED BY <1>1, LeastNatural
<1>3. PICK m \in S : t = m - bound OBVIOUS
<1>4. ASSUME NEW y \in S PROVE m <= y
  <2>1. t <= y - bound BY <1>2
  <2> QED BY <1>3, <2>1
<1> QED BY <1>4

\* An occurrence that is eligible is not over.
LEMMA EligibleIsAhead ==
  ASSUME NEW o \in Occurrence, NEW after \in Int, NEW prior, Eligible(o, after, prior)
  PROVE  o.due >= after
BY DEF Eligible, Occurrence

\* The loop over a rule misses an occurrence only after it has found an earlier one.
LEMMA SearchReaches ==
  ASSUME Inputs, NEW after \in Int, NEW prior, NEW a \in Actions,
         NEW rule \in SUBSET Int, NEW bound \in Int, \A w \in rule : bound <= w,
         NEW earlier \in SUBSET Occurrence, \A o \in earlier : o.action # a,
         NEW w \in rule, NEW o, o = makeOccurrence(w, a), o.due >= after
  PROVE  LET reached == Search(earlier, rule, a, after, prior)
         IN \/ o \in reached
            \/ \E c \in earlier \cup reached : Eligible(c, after, prior) /\ c.due < o.due
<1> DEFINE all == {makeOccurrence(v, a) : v \in rule}
           Closes(u) == \E c \in earlier \cup all :
                        /\ c.action = a => c.wall < u
                        /\ Eligible(c, after, prior) /\ Min(Candidates(u)) > c.due
           ended == {u \in rule : u <= w /\ Closes(u)}
           reached == Search(earlier, rule, a, after, prior)
<1>1. reached = {c \in all : c.due >= after /\ \A u \in rule : u <= c.wall => ~Closes(u)}
  BY DEF Search
<1>2. \A v \in rule : LET c == makeOccurrence(v, a)
                      IN c \in Occurrence /\ c.due \in Int /\ c.wall = v /\ c.action = a
                         /\ c.due = resolveWall(v).due
  BY OccurrenceIs
<1>3. o \in all /\ o.wall = w /\ o.due = resolveWall(w).due /\ o.due \in Int BY <1>2
<1> HIDE DEF Closes, reached
<1>4. CASE ended = {}
  <2>1. \A u \in rule : u <= o.wall => ~Closes(u) BY <1>3, <1>4
  <2> QED BY <1>1, <1>3, <2>1 DEF reached
<1>5. CASE ended # {}
  <2>1. PICK u \in ended : \A v \in ended : u <= v
    <3>1. ended \in SUBSET Int /\ \A v \in ended : bound <= v OBVIOUS
    <3> HIDE DEF ended
    <3> QED BY <1>5, <3>1, LeastInteger
  <2>2. PICK c \in earlier \cup all :
          /\ c.action = a => c.wall < u
          /\ Eligible(c, after, prior) /\ Min(Candidates(u)) > c.due
    BY <2>1 DEF Closes
  <2>3. c \in Occurrence /\ c.due \in Int BY <1>2, <2>2 DEF Occurrence
  <2>4. c.due < o.due
    <3>1. u \in Int /\ w \in Int /\ u <= w BY <2>1
    <3>2. Min(Candidates(u)) <= o.due BY <1>3, <3>1, LaterWallsComeLater
    <3>3. Min(Candidates(u)) \in Int BY <3>1, FirstCandidate
    <3> QED BY <1>3, <2>2, <2>3, <3>2, <3>3
  <2>5. c \in earlier \cup reached
    <3> SUFFICES ASSUME c \in all PROVE c \in reached BY <2>2
    <3>1. PICK v \in rule : c = makeOccurrence(v, a) OBVIOUS
    <3>2. c.wall = v /\ c.action = a /\ v < u BY <1>2, <2>2, <3>1
    <3>3. ASSUME NEW x \in rule, x <= v PROVE ~Closes(x)
      <4>1. u \in Int /\ v \in Int /\ x \in Int /\ u <= w /\ w \in Int BY <2>1
      <4>2. x < u /\ x <= w BY <3>2, <3>3, <4>1
      <4>3. ~(u <= x) BY <4>1, <4>2
      <4> QED BY <2>1, <3>3, <4>2, <4>3
    <3>4. c.due >= after BY <2>2, <2>3, EligibleIsAhead
    <3> QED BY <1>1, <3>2, <3>3, <3>4
  <2> QED BY <2>2, <2>4, <2>5 DEF reached
<1> QED BY <1>4, <1>5

-----------------------------------------------------------------------------
(* What comes next.                                                        *)

\* What the slots are computed from.
ScheduleInputs == Inputs /\ stops \in StopRules

\* The occurrences of both rules.
Listed == {makeOccurrence(w, "start") : w \in starts}
            \cup {makeOccurrence(w, "shutdown") : w \in stops}

\* An occurrence of the rules is the one of its wall time and action.
LEMMA ListedAre ==
  ASSUME ScheduleInputs, NEW o \in Listed
  PROVE  /\ o \in Occurrence /\ o.due \in Int /\ o.wall \in Int /\ o.action \in Actions
         /\ o = makeOccurrence(o.wall, o.action) /\ o.due = resolveWall(o.wall).due
         /\ o.action = "start" => o.wall \in starts
         /\ o.action = "shutdown" => o.wall \in stops
         /\ o.skip # "paired"
<1>1. starts \in SUBSET Int /\ stops \in SUBSET Int
  BY CalendarAssumption DEF ScheduleInputs, Inputs
<1>2. PICK w \in Int, a \in Actions :
        /\ o = makeOccurrence(w, a)
        /\ a = "start" => w \in starts
        /\ a = "shutdown" => w \in stops
  BY <1>1 DEF Listed, Actions
<1> QED BY <1>2, OccurrenceIs DEF ScheduleInputs

\* Sooner orders the occurrences of the rules.
LEMMA SoonerOrders ==
  ASSUME NEW o \in Occurrence, NEW p \in Occurrence, NEW q \in Occurrence
  PROVE  /\ ~(Sooner(o, p) /\ Sooner(p, o))
         /\ Sooner(o, p) /\ Sooner(p, q) => Sooner(o, q)
         /\ Sooner(o, p) \/ Sooner(p, o) \/ Plain(o) = Plain(p)
         /\ Plain(o) = Plain(p) => (Sooner(o, q) <=> Sooner(p, q))
         /\ Plain(o) = Plain(p) => (Sooner(q, o) <=> Sooner(q, p))
         /\ Plain(o) = Plain(p) <=> o.due = p.due /\ o.wall = p.wall /\ o.action = p.action
<1>1. \A x \in Occurrence :
        x.due \in Int /\ x.wall \in Int /\ x.action \in {"start", "shutdown"}
  BY DEF Occurrence
<1>2. Plain(o) = Plain(p) <=> o.due = p.due /\ o.wall = p.wall /\ o.action = p.action
  BY DEF Plain
<1> HIDE DEF Occurrence
<1> QED BY <1>1, <1>2 DEF Sooner, SlotBefore

\* Some occurrence is soonest.
LEMMA SoonestExists ==
  ASSUME NEW found \in SUBSET Occurrence, found # {}, NEW bound \in Int,
         \A o \in found : bound <= o.due /\ bound <= o.wall
  PROVE  \E o \in found : \A p \in found : ~Sooner(p, o)
<1>1. \A x \in found :
        x.due \in Int /\ x.wall \in Int /\ x.action \in {"start", "shutdown"}
  BY DEF Occurrence
<1>2. PICK d \in {o.due : o \in found} : \A e \in {o.due : o \in found} : d <= e
  <2> DEFINE dues == {o.due : o \in found}
  <2>1. dues \in SUBSET Int /\ dues # {} /\ \A e \in dues : bound <= e BY <1>1
  <2> HIDE DEF dues
  <2>2. \E d \in dues : \A e \in dues : d <= e BY <2>1, LeastInteger
  <2> QED BY <2>2 DEF dues
<1> DEFINE First == {o \in found : o.due = d}
<1>3. PICK w \in {o.wall : o \in First} : \A v \in {o.wall : o \in First} : w <= v
  <2>1. {o.wall : o \in First} \in SUBSET Int /\ {o.wall : o \in First} # {} BY <1>1, <1>2
  <2>2. \A v \in {o.wall : o \in First} : bound <= v OBVIOUS
  <2> HIDE DEF First
  <2> QED BY <2>1, <2>2, LeastInteger
<1>4. PICK o \in First : o.wall = w /\
        ((\E p \in First : p.wall = w /\ p.action = "shutdown") => o.action = "shutdown")
  BY <1>3
<1>5. ASSUME NEW p \in found, Sooner(p, o) PROVE FALSE
  <2>1. d <= p.due /\ o.due = d BY <1>2, <1>4
  <2>2. p.due = d BY <1>1, <1>4, <1>5, <2>1 DEF Sooner
  <2>3. w <= p.wall BY <1>3, <2>2
  <2>4. p.wall = w BY <1>1, <1>4, <1>5, <2>1, <2>2, <2>3 DEF Sooner, SlotBefore
  <2>5. p.action = "shutdown" /\ o.action = "start"
    BY <1>1, <1>4, <1>5, <2>1, <2>2, <2>4 DEF Sooner, SlotBefore
  <2> QED BY <1>4, <2>2, <2>4, <2>5
<1> QED BY <1>4, <1>5
\* The wall times a search goes through, and the occurrences it considers.
Ahead(rule, after, prior) ==
  {w \in rule : w > SearchFrom(after) \/ (prior # NoOccurrence /\ w = SearchFrom(after))}

Opening(after, prior) == Search({}, Ahead(starts, after, prior), "start", after, prior)

Considered(after, prior) ==
  Opening(after, prior)
    \cup Search(Opening(after, prior), Ahead(stops, after, prior), "shutdown", after, prior)

\* What is considered is of the rules and lies ahead.
LEMMA ConsideredAre ==
  ASSUME ScheduleInputs, NEW after \in Int, NEW prior, NEW c \in Considered(after, prior)
  PROVE  /\ c \in Listed /\ c \in Occurrence /\ c.due \in Int /\ c.due >= after
         /\ SearchFrom(after) \in Int /\ c.wall \in Int /\ c.wall >= SearchFrom(after)
         /\ c \in Opening(after, prior) => c.action = "start"
<1>1. starts \in SUBSET Int /\ stops \in SUBSET Int
  BY CalendarAssumption DEF ScheduleInputs, Inputs
<1>2. PICK rule \in {starts, stops}, a \in Actions, w \in Int :
        /\ w \in rule /\ c = makeOccurrence(w, a) /\ c.due >= after
        /\ c \in Opening(after, prior) => a = "start"
        /\ (rule = starts /\ a = "start") \/ (rule = stops /\ a = "shutdown")
  <2>1. CASE c \in Opening(after, prior)
    BY <1>1, <2>1 DEF Opening, Search, Ahead, Actions
  <2>2. CASE c \notin Opening(after, prior)
    BY <1>1, <2>2 DEF Considered, Search, Ahead, Actions
  <2> QED BY <2>1, <2>2
<1>3. c \in Listed BY <1>2 DEF Listed
<1>4. c.wall = w /\ c.action = a /\ c.due = resolveWall(w).due
  BY <1>2, OccurrenceIs DEF ScheduleInputs
<1>5. w >= SearchFrom(after) /\ SearchFrom(after) \in Int
  BY <1>2, <1>4, SearchIsEarlyEnough DEF ScheduleInputs
<1> QED BY <1>2, <1>3, <1>4, <1>5, ListedAre

\* An occurrence of the rules that may come next is considered, or an earlier one is.
LEMMA ConsideredCover ==
  ASSUME ScheduleInputs, NEW after \in Int, NEW prior, NEW o \in Listed,
         o.due > after \/ (o.due = after /\ prior # NoOccurrence)
  PROVE  \/ o \in Considered(after, prior)
         \/ \E c \in Considered(after, prior) : Eligible(c, after, prior) /\ c.due < o.due
<1> DEFINE from == SearchFrom(after)
           w == o.wall
<1>1. /\ o.due \in Int /\ w \in Int /\ o = makeOccurrence(w, o.action)
      /\ o.due = resolveWall(w).due /\ o.due >= after
  BY ListedAre
<1>2. from \in Int /\ w >= from /\ (o.due > after => w > from)
  BY <1>1, SearchIsEarlyEnough DEF ScheduleInputs
<1>3. \A rule : w \in rule => w \in Ahead(rule, after, prior)
  BY <1>1, <1>2 DEF Ahead
<1>4. \A rule \in SUBSET Int : /\ Ahead(rule, after, prior) \in SUBSET Int
                               /\ \A v \in Ahead(rule, after, prior) : from <= v
  <2> SUFFICES ASSUME NEW rule \in SUBSET Int, NEW v \in Ahead(rule, after, prior)
               PROVE  v \in Int /\ from <= v
    BY Zenon
  <2>1. v \in rule /\ (v > from \/ v = from) BY DEF Ahead
  <2> HIDE DEF from
  <2> QED BY <1>2, <2>1
<1>5. starts \in SUBSET Int /\ stops \in SUBSET Int
  BY CalendarAssumption DEF ScheduleInputs, Inputs
<1>6. Inputs BY DEF ScheduleInputs
<1>7. CASE o.action = "start"
  <2>1. w \in Ahead(starts, after, prior) BY <1>3, <1>7, ListedAre
  <2>2. \/ o \in Opening(after, prior)
        \/ \E c \in {} \cup Opening(after, prior) : Eligible(c, after, prior) /\ c.due < o.due
    <3> DEFINE rule == Ahead(starts, after, prior)
    <3>1. rule \in SUBSET Int /\ \A v \in rule : from <= v BY <1>4, <1>5
    <3>2. o = makeOccurrence(w, "start") /\ "start" \in Actions BY <1>1, <1>7 DEF Actions
    <3>3. {} \in SUBSET Occurrence /\ \A c \in {} : c.action # "start" OBVIOUS
    <3> HIDE DEF rule, from, w
    <3> QED BY <1>1, <1>2, <1>6, <2>1, <3>1, <3>2, <3>3, SearchReaches DEF Opening, rule
  <2> QED BY <2>2 DEF Considered
<1>8. CASE o.action = "shutdown"
  <2>1. w \in Ahead(stops, after, prior) BY <1>3, <1>8, ListedAre
  <2> DEFINE rule == Ahead(stops, after, prior)
             earlier == Opening(after, prior)
  <2>2. \/ o \in Search(earlier, rule, "shutdown", after, prior)
        \/ \E c \in earlier \cup Search(earlier, rule, "shutdown", after, prior) :
             Eligible(c, after, prior) /\ c.due < o.due
    <3>1. rule \in SUBSET Int /\ \A v \in rule : from <= v BY <1>4, <1>5
    <3>2. o = makeOccurrence(w, "shutdown") /\ "shutdown" \in Actions BY <1>1, <1>8 DEF Actions
    <3>3. earlier \in SUBSET Occurrence /\ \A c \in earlier : c.action # "shutdown"
      BY ConsideredAre DEF Considered
    <3> HIDE DEF rule, from, w, earlier
    <3> QED BY <1>1, <1>2, <1>6, <2>1, <3>1, <3>2, <3>3, SearchReaches DEF rule
  <2> QED BY <2>2 DEF Considered
<1> QED BY <1>7, <1>8, ListedAre DEF Actions

\* Whether an occurrence is to be acted on: it stands in the calendar, and none of the
\* other action comes at its instant.
Unblocked(o) ==
  /\ o.skip = "none"
  /\ \A p \in Listed : p.skip = "none" /\ p.due = o.due => p.action = o.action

\* nextScheduleAfter returns the soonest of the occurrences that are eligible, and says
\* whether it is to be acted on.
LEMMA NextIs ==
  ASSUME ScheduleInputs, NEW after \in Int, NEW prior, NEW n, n = nextScheduleAfter(after, prior)
  PROVE  /\ n = NoOccurrence => \A o \in Listed : ~Eligible(o, after, prior)
         /\ n # NoOccurrence =>
              /\ n \in Occurrence
              /\ \E o \in Listed :
                   /\ Eligible(o, after, prior) /\ Plain(n) = Plain(o)
                   /\ n.skip = "none" <=> Unblocked(o)
              /\ \A o \in Listed : Eligible(o, after, prior) => ~Sooner(o, n)
<1> DEFINE candidates == Considered(after, prior)
           upcoming == {o \in candidates : Eligible(o, after, prior)}
           Paired(o) == \E p \in candidates :
                          p.skip = "none" /\ p.due = o.due /\ p.action # o.action
           Marked(o) == IF o.skip = "none" /\ Paired(o) THEN [o EXCEPT !.skip = "paired"] ELSE o
<1>1. n = IF upcoming = {} THEN NoOccurrence
          ELSE CHOOSE o \in {Marked(p) : p \in upcoming} : \A p \in upcoming : ~Sooner(p, o)
  BY Zenon DEF nextScheduleAfter, Considered, Opening, Ahead
<1>2. \A c \in candidates : /\ c \in Listed /\ c \in Occurrence /\ c.due \in Int /\ c.due >= after
                            /\ c.wall \in Int /\ c.wall >= SearchFrom(after)
                            /\ SearchFrom(after) \in Int
  BY ConsideredAre
<1>3. \A o \in Listed : Eligible(o, after, prior) =>
        o \in upcoming \/ \E c \in upcoming : c.due < o.due
  <2> SUFFICES ASSUME NEW o \in Listed, Eligible(o, after, prior)
               PROVE  o \in upcoming \/ \E c \in upcoming : c.due < o.due
    OBVIOUS
  <2>1. o.due > after \/ (o.due = after /\ prior # NoOccurrence) BY DEF Eligible
  <2> QED BY <2>1, ConsideredCover
<1>4. CASE upcoming = {}
  BY <1>1, <1>3, <1>4
<1>5. CASE upcoming # {}
  <2>1. PICK first \in upcoming : \A p \in upcoming : ~Sooner(p, first)
    <3>1. PICK bound \in Int : bound <= after /\ bound <= SearchFrom(after)
      <4>1. SearchFrom(after) \in Int BY <1>2, <1>5
      <4>2. CASE after <= SearchFrom(after) BY <4>1, <4>2
      <4>3. CASE SearchFrom(after) <= after BY <4>1, <4>3
      <4> QED BY <4>1, <4>2, <4>3
    <3>2. upcoming \in SUBSET Occurrence BY <1>2
    <3>3. \A o \in upcoming : bound <= o.due /\ bound <= o.wall BY <1>2, <3>1
    <3> HIDE DEF upcoming
    <3> QED BY <1>5, <3>1, <3>2, <3>3, SoonestExists
  <2>2. \A p \in upcoming : Marked(p) \in Occurrence /\ Plain(Marked(p)) = Plain(p)
    BY <1>2 DEF Occurrence, Plain
  <2>3. \A p \in upcoming : ~Sooner(p, Marked(first))
    BY <1>2, <2>1, <2>2, SoonerOrders
  <2>4. PICK q \in upcoming : n = Marked(q) /\ \A p \in upcoming : ~Sooner(p, n)
    <3>1. \E o \in {Marked(p) : p \in upcoming} : \A p \in upcoming : ~Sooner(p, o) BY <2>1, <2>3
    <3> HIDE DEF Marked, upcoming
    <3>2. /\ n \in {Marked(p) : p \in upcoming}
          /\ \A p \in upcoming : ~Sooner(p, n)
      BY <1>1, <1>5, <3>1
    <3> QED BY <3>2
  <2>5. /\ q \in Listed /\ q \in Occurrence /\ n \in Occurrence
        /\ Eligible(q, after, prior) /\ Plain(n) = Plain(q)
    BY <1>2, <2>2, <2>4
  <2>6. /\ n.due = q.due /\ n.wall = q.wall /\ n.action = q.action
        /\ q.due \in Int
    BY <1>2, <2>5, SoonerOrders
  <2>7. \A c \in upcoming : ~(c.due < q.due) BY <2>4, <2>6 DEF Sooner
  <2>8. ASSUME NEW o \in Listed, Eligible(o, after, prior) PROVE ~Sooner(o, n)
    <3>1. CASE o \in upcoming BY <2>4, <3>1
    <3>2. CASE \E c \in upcoming : c.due < o.due
      <4>1. PICK c \in upcoming : c.due < o.due BY <3>2
      <4>2. ~(c.due < q.due) /\ c.due \in Int /\ o.due \in Int BY <1>2, <2>7, ListedAre
      <4>3. ~(o.due <= q.due) BY <2>6, <4>1, <4>2
      <4> QED BY <2>6, <4>2, <4>3 DEF Sooner
    <3> QED BY <1>3, <2>8, <3>1, <3>2
  <2>9. Paired(q) <=> \E p \in Listed : p.skip = "none" /\ p.due = q.due /\ p.action # q.action
    <3>1. ASSUME NEW p \in Listed, p.due = q.due PROVE p \in candidates
      <4>1. p.due > after \/ (p.due = after /\ prior # NoOccurrence)
        BY <2>5, <3>1 DEF Eligible
      <4>2. ~\E c \in candidates : Eligible(c, after, prior) /\ c.due < p.due
        BY <2>7, <3>1
      <4> QED BY <4>1, <4>2, ConsideredCover
    <3> QED BY <1>2, <3>1
  <2>10. n.skip = "none" <=> q.skip = "none" /\ ~Paired(q)
    <3>1. CASE q.skip = "none" /\ Paired(q)
      <4>1. n = [q EXCEPT !.skip = "paired"] BY <2>4, <3>1
      <4> QED BY <2>5, <3>1, <4>1 DEF Occurrence
    <3>2. CASE ~(q.skip = "none" /\ Paired(q)) BY <2>4, <3>2
    <3> QED BY <3>1, <3>2
  <2>11. n.skip = "none" <=> Unblocked(q) BY <2>9, <2>10 DEF Unblocked
  <2>12. n # NoOccurrence BY <2>5, CalendarAssumption
  <2> QED BY <2>5, <2>8, <2>11, <2>12
<1> QED BY <1>4, <1>5
-----------------------------------------------------------------------------
(* The schedule takes its occurrences in turn.                             *)

\* An occurrence of the rules, and whether it is to be acted on.
Shows(o) ==
  /\ o \in Occurrence
  /\ \E s \in Listed : s.due > 0 /\ Plain(o) = Plain(s) /\ (o.skip = "none" <=> Unblocked(s))

\* It has been taken.
Has(s) == \E o \in taken : Plain(o) = Plain(s)

\* Exactly the occurrences that come sooner than the next one have been taken.
InTurn ==
  \A s \in Listed : s.due > 0 => (Has(s) <=> next = NoOccurrence \/ Sooner(s, next))

\* The invariant of the schedule: it waits for, and has taken, occurrences of its rules.
TurnInv ==
  /\ ScheduleInputs /\ now \in 0..Horizon
  /\ next # NoOccurrence => Shows(next)
  /\ \A o \in taken : Shows(o) /\ o.due <= now
  /\ InTurn

\* The invariant holds initially.
LEMMA TurnInit == CalendarInit => TurnInv
<1> SUFFICES ASSUME CalendarInit PROVE TurnInv OBVIOUS
<1>1. ScheduleInputs BY DEF CalendarInit, ScheduleInputs, Inputs
<1>2. now \in 0..Horizon /\ taken = {} BY CalendarAssumption DEF CalendarInit
<1>3. next = nextScheduleAfter(0, NoOccurrence) BY DEF CalendarInit
<1>4. \A s \in Listed : Eligible(s, 0, NoOccurrence) <=> s.due > 0
  BY <1>1, ListedAre DEF Eligible
<1>5. next # NoOccurrence => Shows(next)
  <2> SUFFICES ASSUME next # NoOccurrence PROVE Shows(next) OBVIOUS
  <2>1. PICK o \in Listed : /\ Eligible(o, 0, NoOccurrence) /\ Plain(next) = Plain(o)
                            /\ next.skip = "none" <=> Unblocked(o)
    BY <1>1, <1>3, NextIs
  <2> QED BY <1>1, <1>3, <1>4, <2>1, NextIs DEF Shows
<1>6. InTurn
  <2> SUFFICES ASSUME NEW s \in Listed, s.due > 0
               PROVE  next # NoOccurrence /\ ~Sooner(s, next)
    BY <1>2 DEF InTurn, Has
  <2>1. Eligible(s, 0, NoOccurrence) BY <1>4
  <2> QED BY <1>1, <1>3, <2>1, NextIs
<1> QED BY <1>1, <1>2, <1>5, <1>6 DEF TurnInv

\* The occurrences depend on what does not change.
LEMMA SameOccurrences ==
  ASSUME UNCHANGED input
  PROVE  /\ Listed' = Listed
         /\ \A o : Unblocked(o)' <=> Unblocked(o)
         /\ \A o : Shows(o)' <=> Shows(o)
         /\ ScheduleInputs => ScheduleInputs'
<1>1. /\ zone' = zone /\ starts' = starts /\ stops' = stops
      /\ exceptions' = exceptions /\ duration' = duration
  BY DEF input
<1>2. \A i : Offset(i)' = Offset(i) BY <1>1 DEF Offset
<1>3. \A w : wallOffsets(w)' = wallOffsets(w) BY <1>2 DEF wallOffsets, Instant
<1>4. \A w : Candidates(w)' = Candidates(w) /\ Real(w)' = Real(w)
  BY <1>2, <1>3 DEF Candidates, Real, Local
<1>5. \A w : resolveWall(w)' = resolveWall(w) BY <1>4 DEF resolveWall
<1>6. \A w, a : makeOccurrence(w, a)' = makeOccurrence(w, a) BY <1>1, <1>5 DEF makeOccurrence
<1>7. Listed' = Listed BY <1>1, <1>6 DEF Listed
<1>8. \A o : Unblocked(o)' <=> Unblocked(o) BY <1>7 DEF Unblocked
<1>9. \A o : Shows(o)' <=> Shows(o) BY <1>7, <1>8 DEF Shows, Plain
<1>10. ScheduleInputs => ScheduleInputs' BY <1>1 DEF ScheduleInputs, Inputs
<1> QED BY <1>7, <1>8, <1>9, <1>10

\* Taking an occurrence moves on to the one after it.
LEMMA TakeInTurn ==
  ASSUME TurnInv, Take
  PROVE  TurnInv'
<1>1. /\ next # NoOccurrence /\ next.due <= now /\ taken' = taken \cup {next}
      /\ next' = nextScheduleAfter(next.due, next)
      /\ UNCHANGED input /\ now' = now
  BY DEF Take, IsDue
<1>2. ScheduleInputs /\ Shows(next) /\ next \in Occurrence /\ next.due \in Int
  BY <1>1 DEF TurnInv, Shows, Occurrence
<1>3. next.due > 0
  <2>1. PICK s \in Listed : s.due > 0 /\ Plain(next) = Plain(s) BY <1>2 DEF Shows
  <2> QED BY <2>1 DEF Plain
<1>4. \A s \in Listed : Eligible(s, next.due, next) <=> Sooner(next, s)
  BY <1>1, <1>2, ListedAre DEF Eligible, Sooner
<1>5. \A s \in Listed : s \in Occurrence /\ s.due \in Int BY <1>2, ListedAre
<1>6. /\ next' = NoOccurrence => \A s \in Listed : ~Sooner(next, s)
      /\ next' # NoOccurrence =>
           /\ next' \in Occurrence
           /\ \E o \in Listed : /\ Sooner(next, o) /\ Plain(next') = Plain(o)
                                /\ next'.skip = "none" <=> Unblocked(o)
           /\ \A o \in Listed : Sooner(next, o) => ~Sooner(o, next')
  BY <1>1, <1>2, <1>4, NextIs
<1>7. next' # NoOccurrence => Shows(next')
  <2> SUFFICES ASSUME next' # NoOccurrence PROVE Shows(next') OBVIOUS
  <2>1. PICK o \in Listed : /\ Sooner(next, o) /\ Plain(next') = Plain(o)
                            /\ next'.skip = "none" <=> Unblocked(o)
    BY <1>6
  <2>2. o.due > 0 BY <1>2, <1>3, <1>5, <2>1 DEF Sooner
  <2> QED BY <1>6, <2>1, <2>2 DEF Shows
<1>8. ASSUME NEW s \in Listed, s.due > 0
      PROVE  (\E o \in taken' : Plain(o) = Plain(s)) <=> next' = NoOccurrence \/ Sooner(s, next')
  <2>1. (\E o \in taken' : Plain(o) = Plain(s)) <=> Sooner(s, next) \/ Plain(next) = Plain(s)
    BY <1>1, <1>8 DEF TurnInv, InTurn, Has
  <2>2. CASE Sooner(next, s)
    <3>1. ~Sooner(s, next) /\ Plain(next) # Plain(s)
      BY <1>2, <1>5, <2>2, SoonerOrders
    <3>2. next' # NoOccurrence /\ ~Sooner(s, next') BY <1>6, <2>2
    <3> QED BY <2>1, <3>1, <3>2
  <2>3. CASE ~Sooner(next, s)
    <3>1. Sooner(s, next) \/ Plain(next) = Plain(s) BY <1>2, <1>5, <2>3, SoonerOrders
    <3>2. ASSUME next' # NoOccurrence PROVE Sooner(s, next')
      <4>1. PICK o \in Listed : Sooner(next, o) /\ Plain(next') = Plain(o) BY <1>6, <3>2
      <4>2. next' \in Occurrence /\ o \in Occurrence /\ s \in Occurrence BY <1>5, <1>6, <3>2
      <4>3. Sooner(next, next') BY <1>2, <4>1, <4>2, SoonerOrders
      <4> QED BY <1>2, <3>1, <4>2, <4>3, SoonerOrders
    <3> QED BY <2>1, <3>1, <3>2
  <2> QED BY <2>2, <2>3
<1>9. Listed' = Listed /\ (\A o : Shows(o)' <=> Shows(o)) /\ ScheduleInputs'
  BY <1>1, <1>2, SameOccurrences
<1>10. InTurn'
  BY <1>8, <1>9 DEF InTurn, Has, Plain, Sooner, SlotBefore
<1>11. \A o \in taken' : Shows(o) /\ o.due <= now BY <1>1, <1>2 DEF TurnInv
<1> QED BY <1>1, <1>7, <1>9, <1>10, <1>11 DEF TurnInv

\* Every step keeps the invariant.
LEMMA TurnStep ==
  ASSUME TurnInv, [CalendarNext]_calendarVars
  PROVE  TurnInv'
<1>1. CASE Take BY <1>1, TakeInTurn
<1>2. CASE Passes \/ UNCHANGED calendarVars
  <2>1. UNCHANGED <<input, next, taken>> BY <1>2 DEF Passes, calendarVars, input
  <2>2. now \in Int /\ now' \in 0..Horizon /\ now <= now'
    BY <1>2, CalendarAssumption DEF Passes, calendarVars, TurnInv
  <2>3. Listed' = Listed /\ (\A o : Shows(o)' <=> Shows(o)) /\ ScheduleInputs'
    BY <2>1, SameOccurrences DEF TurnInv
  <2>4. InTurn' BY <2>1, <2>3 DEF TurnInv, InTurn, Has, Plain, Sooner, SlotBefore
  <2>5. \A o \in taken : o.due \in Int BY DEF TurnInv, Shows, Occurrence
  <2>6. \A o \in taken : Shows(o) /\ o.due <= now' BY <2>2, <2>5 DEF TurnInv
  <2> QED BY <2>1, <2>2, <2>3, <2>4, <2>6 DEF TurnInv
<1> QED BY <1>1, <1>2 DEF CalendarNext

\* It holds in every reachable state.
LEMMA TurnInvHolds == CalendarSpec => []TurnInv
<1>1. TurnInv /\ [CalendarNext]_calendarVars => TurnInv' BY TurnStep
<1> QED BY TurnInit, <1>1, PTL DEF CalendarSpec
-----------------------------------------------------------------------------
(* What a reader of the calendar expects.                                  *)

\* When a local time is shown first is one of the instants that show it, or none does.
LEMMA FirstShownIs ==
  ASSUME Inputs, NEW w \in Int
  PROVE  /\ FirstShown(w) \in Int
         /\ Shown(w) # {} => FirstShown(w) \in Instants /\ Local(FirstShown(w)) = w
         /\ Shown(w) = {} => FirstShown(w) = w - zone.before
<1>1. Shown(w) \in SUBSET Int /\ \A i \in Shown(w) : -(2 * Day) <= i
  BY InputTypes DEF Shown, Instants
<1>2. CASE Shown(w) # {}
  <2>1. -(2 * Day) \in Int BY InputTypes
  <2>2. PICK m \in Shown(w) : \A i \in Shown(w) : m <= i BY <1>1, <1>2, <2>1, LeastInteger
  <2>3. FirstShown(w) = m BY <1>1, <1>2, <2>2, MinIs DEF FirstShown
  <2>4. m \in Int /\ m \in Instants /\ Local(m) = w BY <1>1, <2>2 DEF Shown
  <2> QED BY <1>2, <2>3, <2>4
<1>3. CASE Shown(w) = {}
  BY <1>3, InputTypes DEF FirstShown
<1> QED BY <1>2, <1>3

\* Between the first day and the horizon, the occurrences of a rule are its slots.
LEMMA SlotIs ==
  ASSUME Inputs, NEW w \in Int, NEW a \in Actions,
         NEW o, o = makeOccurrence(w, a), NEW s, s = SlotOf(w, a),
         NEW i \in 1..Horizon, i = o.due \/ i = s.due
  PROVE  /\ s.due = o.due /\ s.wall = o.wall /\ s.action = o.action
         /\ s.real <=> o.skip = "none"
<1>1. PICK found : found = resolveWall(w) OBVIOUS
<1>2. PICK first : first = FirstShown(w) OBVIOUS
<1>3. /\ o.due = found.due /\ o.wall = w /\ o.action = a /\ o.due \in Int
      /\ o.skip = "none" <=> ~found.missing /\ Date(w) \notin exceptions
  BY <1>1, OccurrenceIs
<1>4. /\ s.due = first /\ s.wall = w /\ s.action = a
      /\ s.real <=> Shown(w) # {} /\ Date(w) \notin exceptions
  BY <1>2 DEF SlotOf
<1>5. /\ first \in Int
      /\ Shown(w) # {} => Local(first) = w
      /\ Shown(w) = {} => first = w - zone.before
  BY <1>2, FirstShownIs
<1>6. i \in Int /\ 1 <= i /\ i <= Horizon BY InputTypes
<1>7. \/ \A j \in Int : Local(j) # w
      \/ \E j \in Int : Local(j) = w /\ -Day <= j /\ j <= Horizon + 2 * Day
  <2> SUFFICES ASSUME NEW j \in Int, Local(j) = w
               PROVE  \E k \in Int : Local(k) = w /\ -Day <= k /\ k <= Horizon + 2 * Day
    BY Zenon
  <2>1. CASE i = found.due
    <3>1. Local(i) = w
      <4>1. found.missing => \A k \in Int : Local(k) # w BY <1>1, Resolved
      <4>2. ~found.missing => Local(found.due) = w BY <1>1, Resolved
      <4> QED BY <2>1, <4>1, <4>2
    <3> QED BY <1>6, <3>1, InputTypes
  <2>2. CASE i = first /\ Shown(w) # {}
    BY <1>5, <1>6, <2>2, InputTypes
  <2>3. CASE i = first /\ Shown(w) = {}
    <3>1. i = w - zone.before BY <1>5, <2>3
    <3>2. j = w - zone.before \/ j = w - zone.after BY Offsets, InputTypes
    <3>3. i - Day <= j /\ j <= i + Day BY <1>6, <3>1, <3>2, InputTypes
    <3>4. -Day <= j /\ j <= Horizon + 2 * Day BY <1>6, <3>3, InputTypes
    <3> QED BY <3>4
  <2> QED BY <1>3, <1>4, <2>1, <2>2, <2>3
<1>8. first = found.due /\ (Shown(w) # {} <=> ~found.missing)
  BY <1>1, <1>2, <1>7, FirstShownIsDue
<1> QED BY <1>3, <1>4, <1>8

\* The occurrence of a slot, and the slot of an occurrence.
LEMMA SlotsAreListed ==
  ASSUME ScheduleInputs
  PROVE  /\ \A s \in Slots : s.due \in Int /\ s.due > 0
         /\ \A s \in Slots : s.due <= Horizon =>
              \E o \in Listed : Plain(o) = Plain(s) /\ (s.real <=> o.skip = "none")
         /\ \A o \in Listed : o.due \in 1..Horizon =>
              \E s \in Slots : Plain(o) = Plain(s) /\ (s.real <=> o.skip = "none")
<1>1. starts \in SUBSET Int /\ stops \in SUBSET Int /\ Inputs
  BY CalendarAssumption DEF ScheduleInputs, Inputs
<1>2. ASSUME NEW s \in Slots
      PROVE  \E w \in Int, a \in Actions :
               s = SlotOf(w, a) /\ makeOccurrence(w, a) \in Listed /\ s.due > 0
  BY <1>1 DEF Slots, Listed, Actions
<1>3. \A w \in Int, a \in Actions : SlotOf(w, a).due \in Int
  BY <1>1, FirstShownIs DEF SlotOf
<1>4. ASSUME NEW s \in Slots, s.due <= Horizon
      PROVE  \E o \in Listed : Plain(o) = Plain(s) /\ (s.real <=> o.skip = "none")
  <2>1. PICK w \in Int, a \in Actions :
          s = SlotOf(w, a) /\ makeOccurrence(w, a) \in Listed /\ s.due > 0
    BY <1>2
  <2>2. PICK o : o = makeOccurrence(w, a) OBVIOUS
  <2>3. s.due \in 1..Horizon BY <1>1, <1>3, <1>4, <2>1, InputTypes
  <2>4. /\ s.due = o.due /\ s.wall = o.wall /\ s.action = o.action
        /\ s.real <=> o.skip = "none"
    BY <1>1, <2>1, <2>2, <2>3, SlotIs
  <2> QED BY <2>1, <2>2, <2>4 DEF Plain
<1>5. ASSUME NEW o \in Listed, o.due \in 1..Horizon
      PROVE  \E s \in Slots : Plain(o) = Plain(s) /\ (s.real <=> o.skip = "none")
  <2>1. PICK w \in Int, a \in Actions :
          /\ o = makeOccurrence(w, a)
          /\ a = "start" => w \in starts
          /\ a = "shutdown" => w \in stops
    BY ListedAre
  <2>2. PICK s : s = SlotOf(w, a) OBVIOUS
  <2>3. /\ s.due = o.due /\ s.wall = o.wall /\ s.action = o.action
        /\ s.real <=> o.skip = "none"
    BY <1>1, <1>5, <2>1, <2>2, SlotIs
  <2>4. s.due > 0 BY <1>5, <2>3
  <2>5. s \in Slots BY <2>1, <2>2, <2>4 DEF Slots, Actions
  <2> QED BY <2>3, <2>5 DEF Plain
<1>6. \A s \in Slots : s.due \in Int /\ s.due > 0 BY <1>2, <1>3
<1> QED BY <1>4, <1>5, <1>6

\* Every slot of the rules is taken once it is due, and acted on if it stands.
LEMMA SlotsInTurn ==
  ASSUME TurnInv
  PROVE  EverySlotInTurn
<1> DEFINE Expected == {s \in Slots : IF IsDue THEN Sooner(s, next) ELSE s.due <= now}
<1>1. ScheduleInputs /\ now \in Int /\ now <= Horizon
  BY CalendarAssumption DEF TurnInv
<1>2. \A o \in taken : o \in Occurrence /\ o.due \in Int /\ o.due <= now
  BY DEF TurnInv, Shows, Occurrence
<1>3. \A o \in taken : \E s \in Listed :
        /\ s.due \in 1..Horizon /\ Plain(o) = Plain(s)
        /\ o.skip = "none" <=> Unblocked(s)
  <2> SUFFICES ASSUME NEW o \in taken
               PROVE  \E s \in Listed :
                        /\ s.due \in 1..Horizon /\ Plain(o) = Plain(s)
                        /\ o.skip = "none" <=> Unblocked(s)
    OBVIOUS
  <2>1. PICK s \in Listed :
          /\ s.due > 0 /\ Plain(o) = Plain(s)
          /\ o.skip = "none" <=> Unblocked(s)
    BY DEF TurnInv, Shows
  <2>2. s.due = o.due BY <2>1 DEF Plain
  <2>3. s.due \in 1..Horizon BY <1>1, <1>2, <2>1, <2>2, InputTypes DEF ScheduleInputs
  <2> QED BY <2>1, <2>3
<1>4. next # NoOccurrence => next \in Occurrence /\ next.due \in Int
  BY DEF TurnInv, Shows, Occurrence
\* Taken before the next one, or due.
<1>5. ASSUME NEW s \in Listed, s.due > 0
      PROVE  Has(s) <=> IF IsDue THEN Sooner(s, next) ELSE s.due <= now
  <2>1. Has(s) <=> next = NoOccurrence \/ Sooner(s, next) BY <1>5 DEF TurnInv, InTurn
  <2>2. Has(s) => s.due <= now BY <1>2 DEF Has, Plain
  <2>3. s.due \in Int BY <1>1, ListedAre
  <2>4. CASE IsDue BY <2>1, <2>4 DEF IsDue
  <2>5. CASE ~IsDue
    <3>1. s.due <= now => next = NoOccurrence \/ Sooner(s, next)
      BY <1>1, <1>4, <2>3, <2>5 DEF IsDue, Sooner
    <3> QED BY <2>1, <2>2, <2>5, <3>1
  <2> QED BY <2>4, <2>5
<1>6. ASSUME NEW s, NEW o \in Listed, Plain(o) = Plain(s)
      PROVE  /\ s.due = o.due
             /\ (IF IsDue THEN Sooner(s, next) ELSE s.due <= now)
                  <=> (IF IsDue THEN Sooner(o, next) ELSE o.due <= now)
             /\ \A t : Plain(t) = Plain(s) <=> Plain(t) = Plain(o)
  <2>1. s.due = o.due /\ s.wall = o.wall /\ s.action = o.action BY <1>6 DEF Plain
  <2> QED BY <1>6, <2>1 DEF Sooner, SlotBefore
<1>7. \A s \in Expected : s.due <= Horizon
  <2> SUFFICES ASSUME NEW s \in Expected PROVE s.due <= Horizon OBVIOUS
  <2>1. s.due \in Int BY <1>1, SlotsAreListed
  <2>2. CASE IsDue
    <3>1. s.due <= next.due /\ next.due <= now BY <1>4, <2>1, <2>2 DEF IsDue, Sooner
    <3> QED BY <1>1, <1>4, <2>1, <2>2, <3>1, CalendarAssumption DEF IsDue
  <2>3. CASE ~IsDue BY <1>1, <2>1, <2>3, CalendarAssumption
  <2> QED BY <2>2, <2>3
<1>8. ASSUME NEW s \in Expected PROVE \E o \in taken : Plain(o) = Plain(s)
  <2>1. PICK p \in Listed : Plain(p) = Plain(s) BY <1>1, <1>7, SlotsAreListed
  <2>2. p.due > 0 /\ (IF IsDue THEN Sooner(p, next) ELSE p.due <= now)
    BY <1>1, <1>6, <2>1, SlotsAreListed
  <2>3. Has(p) BY <1>5, <2>2
  <2> QED BY <1>6, <2>1, <2>3 DEF Has
<1>9. ASSUME NEW o \in taken PROVE \E s \in Expected : Plain(o) = Plain(s)
  <2>1. PICK p \in Listed : p.due \in 1..Horizon /\ Plain(o) = Plain(p) BY <1>3
  <2>2. PICK s \in Slots : Plain(p) = Plain(s) BY <1>1, <2>1, SlotsAreListed
  <2>3. Has(p) /\ p.due > 0 BY <2>1 DEF Has
  <2>4. IF IsDue THEN Sooner(p, next) ELSE p.due <= now BY <1>5, <2>3
  <2>5. s \in Expected BY <1>6, <2>2, <2>4
  <2> QED BY <2>1, <2>2, <2>5
<1>10. ASSUME NEW o \in taken, NEW s \in Slots, Plain(o) = Plain(s)
       PROVE  o.skip = "none" <=> Stands(s)
  <2>1. PICK p \in Listed :
          /\ p.due \in 1..Horizon /\ Plain(o) = Plain(p)
          /\ o.skip = "none" <=> Unblocked(p)
    BY <1>3
  <2>2. s.due = p.due /\ s.wall = p.wall /\ s.action = p.action BY <1>10, <2>1 DEF Plain
  <2>3. s.due <= Horizon BY <2>1, <2>2
  <2>4. PICK q \in Listed : Plain(q) = Plain(s) /\ (s.real <=> q.skip = "none")
    BY <1>1, <2>3, SlotsAreListed
  <2>5. q = p
    <3>1. q.wall = p.wall /\ q.action = p.action BY <2>2, <2>4 DEF Plain
    <3> QED BY <1>1, <3>1, ListedAre
  <2>6. ASSUME Unblocked(p), NEW r \in Slots, r.real, r.due = s.due PROVE r.action = s.action
    <3>1. PICK x \in Listed : Plain(x) = Plain(r) /\ (r.real <=> x.skip = "none")
      BY <1>1, <2>3, <2>6, SlotsAreListed
    <3>2. x.due = p.due /\ x.action = r.action /\ x.skip = "none" BY <2>2, <2>6, <3>1 DEF Plain
    <3> QED BY <2>2, <2>6, <3>2 DEF Unblocked
  <2>7. ASSUME Stands(s), NEW x \in Listed, x.skip = "none", x.due = p.due
        PROVE  x.action = p.action
    <3>1. PICK r \in Slots : Plain(x) = Plain(r) /\ (r.real <=> x.skip = "none")
      BY <1>1, <2>1, <2>7, SlotsAreListed
    <3>2. r.due = s.due /\ r.action = x.action /\ r.real BY <2>2, <2>7, <3>1 DEF Plain
    <3> QED BY <2>2, <2>7, <3>2 DEF Stands
  <2>8. s.real <=> p.skip = "none" BY <2>4, <2>5
  <2> QED BY <2>1, <2>6, <2>7, <2>8 DEF Stands, Unblocked
<1>11. {Plain(o) : o \in taken} = {Plain(s) : s \in Expected} BY <1>8, <1>9
<1> QED BY <1>10, <1>11 DEF EverySlotInTurn

\* What the schedule waits for, has taken and was told stays well typed.
LEMMA CalendarTypes ==
  ASSUME TurnInv, WindowInv
  PROVE  CalendarTypeOK
<1>1. zone \in Zones /\ starts \in Rules /\ stops \in StopRules
        /\ exceptions \in Closures /\ duration \in Durations
  BY DEF TurnInv, ScheduleInputs, Inputs
<1>2. next \in Occurrence \cup {NoOccurrence} /\ taken \subseteq Occurrence
  BY DEF TurnInv, Shows
<1>3. promise \in Int /\ promise <= now + Day
  <2>1. PICK p \in 0..now : promise = maintenanceWindow(p) BY DEF WindowInv, Told
  <2>2. now \in Int /\ p \in Int /\ p <= now /\ Inputs BY CalendarAssumption DEF WindowInv
  <2>3. promise \in Int BY <2>1, <2>2, WindowEnds
  <2>4. promise <= p + Day
    <3>1. CASE ~maintenanceOpen(p) BY <2>1, <2>2, <2>3, <3>1, WindowEnds, InputTypes
    <3>2. CASE maintenanceOpen(p)
      <4>1. PICK w \in starts : OpenStart(w, p) /\ promise <= resolveWall(w).due + duration
        BY <2>1, <2>2, <3>2, WindowEnds
      <4>2. resolveWall(w).due \in Int /\ resolveWall(w).due <= p
        BY <2>2, <4>1, Resolved, InputTypes DEF OpenStart
      <4> QED BY <2>2, <2>3, <4>1, <4>2, InputTypes
    <3> QED BY <3>1, <3>2
  <2> QED BY <2>2, <2>3, <2>4, InputTypes
<1> QED BY <1>1, <1>2, <1>3 DEF CalendarTypeOK, TurnInv

\* The schedule takes every slot of its rules exactly when it is due, in order and once, and
\* lets those act that stand, for all rules, closures and zones: nextScheduleAfter starts its
\* search early enough and never stops it too soon.
THEOREM SlotsTakenInTurn == CalendarSpec => []CalendarInv
<1>1. TurnInv /\ WindowInv => CalendarInv
  BY SlotsInTurn, CalendarTypes DEF CalendarInv
<1> QED BY <1>1, TurnInvHolds, WindowInvHolds, PTL
=============================================================================
