------------------------------ MODULE Calendar ------------------------------
(***************************************************************************)
(* Local calendar rules on a real time line: schedule_time.go, and the     *)
(* window arithmetic of maintenance.go.                                    *)
(*                                                                         *)
(* An instant and a local ("wall") time are integers in one unit, of which *)
(* a day has Day; a zone shifts its clock once, forward or back.  A cron   *)
(* rule is the set of wall times it names.  Time goes by, the schedule     *)
(* takes its occurrences one after the other, and the maintenance window   *)
(* is looked at in every instant.                                          *)
(***************************************************************************)
EXTENDS Integers, FiniteSetsExt

CONSTANTS
  Day,       \* units of a local day
  Horizon,   \* bound on the instants gone through
  Zones,     \* records of an instant and the offsets before and after it
  Rules,     \* sets of wall times a rule may name
  StopRules,
  Closures,  \* sets of excepted dates
  Durations, \* lengths of maintenance windows, at most a day
  NoOccurrence

\* A time of a rule, with what is to be done then and why it may not be.
Occurrence ==
  [due : Int, wall : Int, action : {"start", "shutdown"},
   skip : {"none", "exception", "missing", "paired"}]

ASSUME CalendarAssumption ==
  /\ Day \in Nat \ {0} /\ Horizon \in Nat
  /\ Durations \subseteq 1..Day
  /\ Rules \subseteq SUBSET Int /\ StopRules \subseteq SUBSET Int
  /\ NoOccurrence \notin Occurrence

\* A zone changes its clock by a day at most, as where the date line moved.
ASSUME ZonesAssumption ==
  \A z \in Zones :
    /\ z.at \in Int /\ z.before \in Int /\ z.after \in Int
    /\ z.before - z.after \in -Day..Day

VARIABLES
  zone,
  starts, stops,  \* the rule, and the shutdown rule of a paired window
  exceptions,     \* excepted dates
  duration,       \* of a maintenance window
  now,
  next,           \* the occurrence the schedule waits for
  taken,          \* the occurrences it has taken
  promise         \* the latest end of a window that was told to anybody

input == <<zone, starts, stops, exceptions, duration>>
calendarVars == <<zone, starts, stops, exceptions, duration, now, next, taken, promise>>

-----------------------------------------------------------------------------
(* The clock of the zone, and Go's time.Date.                              *)

Offset(i) == IF i < zone.at THEN zone.before ELSE zone.after
Local(i) == i + Offset(i)
Date(wall) == wall \div Day

\* time.Date reads the wall time as if it were an instant, and looks again when
\* the offset found there is not in force at the instant it leads to.
Instant(wall) == wall - Offset(wall - Offset(wall))

-----------------------------------------------------------------------------
(* schedule_time.go                                                        *)

wallOffsets(wall) == {Offset(Instant(wall) + d * Day) : d \in -2..2}

Candidates(wall) == {wall - o : o \in wallOffsets(wall)}
Real(wall) == {i \in Candidates(wall) : Local(i) = wall}

\* Fault: a repeated local time is taken when it comes for the second time.
resolveLast(wall) ==
  IF Real(wall) # {} THEN [due |-> Max(Real(wall)), missing |-> FALSE]
                     ELSE [due |-> Max(Candidates(wall)), missing |-> TRUE]

\* The first of a repeated local time; a missing one falls after the change.
resolveWall(wall) ==
  IF Real(wall) # {} THEN [due |-> Min(Real(wall)), missing |-> FALSE]
                     ELSE [due |-> Max(Candidates(wall)), missing |-> TRUE]

makeOccurrence(wall, action) ==
  LET found == resolveWall(wall) IN
  [due |-> found.due, wall |-> wall, action |-> action,
   skip |-> IF Date(wall) \in exceptions THEN "exception"
            ELSE IF found.missing THEN "missing" ELSE "none"]

\* The order of slot strings: local time, then "shutdown" before "start".
SlotBefore(o, p) ==
  o.wall < p.wall \/ (o.wall = p.wall /\ o.action = "shutdown" /\ p.action = "start")

Sooner(o, p) == o.due < p.due \/ (o.due = p.due /\ SlotBefore(o, p))

Eligible(o, after, prior) ==
  o.due > after \/ (o.due = after /\ prior # NoOccurrence /\ SlotBefore(prior, o))

Spread(offsets) == Max(offsets) - Min(offsets)

\* The loop over a rule goes through its wall times in order and ends at the first
\* one whose instants all come after an occurrence that was found before it.
Search(earlier, rule, action, after, prior) ==
  LET all == {makeOccurrence(w, action) : w \in rule}
      Ends(wall) ==
        \E o \in earlier \cup all :
          /\ o.action = action => o.wall < wall
          /\ Eligible(o, after, prior) /\ Min(Candidates(wall)) > o.due
  IN {o \in all : o.due >= after /\ \A w \in rule : w <= o.wall => ~Ends(w)}

\* Fault: the search begins at the present local time.
NoPadding(after) == Local(after)

SearchFrom(after) == Local(after) - Spread(wallOffsets(Local(after)))

nextScheduleAfter(after, prior) ==
  LET from == SearchFrom(after)
      Ahead(rule) == {w \in rule : w > from \/ (prior # NoOccurrence /\ w = from)}
      opening == Search({}, Ahead(starts), "start", after, prior)
      candidates == opening \cup Search(opening, Ahead(stops), "shutdown", after, prior)
      upcoming == {o \in candidates : Eligible(o, after, prior)}
      Paired(o) == \E p \in candidates :
                     p.skip = "none" /\ p.due = o.due /\ p.action # o.action
      Marked(o) == IF o.skip = "none" /\ Paired(o) THEN [o EXCEPT !.skip = "paired"] ELSE o
  IN IF upcoming = {} THEN NoOccurrence
     ELSE CHOOSE o \in {Marked(p) : p \in upcoming} : \A p \in upcoming : ~Sooner(p, o)

-----------------------------------------------------------------------------
(* maintenance.go: the end of the window that is open, 0 units from its     *)
(* instant if none is.                                                      *)

\* Fault: a window that an exception closes at midnight keeps its end.
NotClipped(until, local) == until

Clipped(until, local) ==
  LET nextDay == (Date(local) + 1) * Day
      midnight == resolveWall(nextDay).due
  IN IF Date(nextDay) \in exceptions /\ midnight < until THEN midnight ELSE until

\* The wall times of the rule that may be starts of a window open at that instant.
WindowWalls(at) ==
  LET after == at - duration
      offsets == {Offset(at)} \cup
                 {Offset(a + d * Day) : a \in {after, at}, d \in {-2, 0, 2}}
  IN {w \in starts : /\ w > Local(after) - Spread(offsets)
                     /\ w <= Local(at) + Spread(offsets)}

OpenedBy(w, at) ==
  LET found == resolveWall(w) IN
  /\ ~found.missing
  /\ found.due > at - duration /\ found.due <= at
  /\ Date(w) \notin exceptions

maintenanceWindow(at) ==
  LET ends == {resolveWall(w).due + duration :
                 w \in {v \in WindowWalls(at) : OpenedBy(v, at)}}
  IN IF Date(Local(at)) \in exceptions \/ ends = {} THEN at
     ELSE Clipped(Max(ends), Local(at))

maintenanceOpen(at) == maintenanceWindow(at) > at

-----------------------------------------------------------------------------
CalendarInit ==
  /\ zone \in Zones
  /\ starts \in Rules /\ stops \in StopRules
  /\ exceptions \in Closures
  /\ duration \in Durations
  /\ now = 0
  /\ next = nextScheduleAfter(0, NoOccurrence)
  /\ taken = {}
  /\ promise = maintenanceWindow(0)

IsDue == next # NoOccurrence /\ next.due <= now

\* The tick takes the occurrence that is due and looks for the one after it.
Take ==
  /\ IsDue
  /\ taken' = taken \cup {next}
  /\ next' = nextScheduleAfter(next.due, next)
  /\ UNCHANGED <<input, now, promise>>

Passes ==
  /\ ~IsDue /\ now < Horizon
  /\ now' = now + 1
  /\ promise' = Max({promise, maintenanceWindow(now + 1)})
  /\ UNCHANGED <<input, next, taken>>

CalendarNext == Take \/ Passes

CalendarSpec == CalendarInit /\ [][CalendarNext]_calendarVars

-----------------------------------------------------------------------------
\* Type invariant of the schedule row and of what was told about the window.
CalendarTypeOK ==
  /\ zone \in Zones /\ starts \in Rules /\ stops \in StopRules
  /\ exceptions \in Closures /\ duration \in Durations
  /\ now \in 0..Horizon
  /\ next \in Occurrence \cup {NoOccurrence}
  /\ taken \subseteq Occurrence
  /\ promise \in Int /\ promise <= now + Day

(***************************************************************************)
(* Properties, against definitions that go through the instants themselves. *)
(***************************************************************************)

Instants == -(2 * Day)..(Horizon + 3 * Day)
Shown(wall) == {i \in Instants : Local(i) = wall}

\* When a local time comes for the first time; one the clock skips comes as long
\* after the change as it would have without it.
FirstShown(wall) == IF Shown(wall) # {} THEN Min(Shown(wall)) ELSE wall - zone.before

SlotOf(wall, action) ==
  [due |-> FirstShown(wall), wall |-> wall, action |-> action,
   real |-> Shown(wall) # {} /\ Date(wall) \notin exceptions]

Slots == {s \in {SlotOf(w, "start") : w \in starts} \cup {SlotOf(w, "shutdown") : w \in stops} :
            s.due > 0}

\* Blocked by the calendar, or by the other action at the same instant.
Stands(s) ==
  s.real /\ \A p \in Slots : p.real /\ p.due = s.due => p.action = s.action

Plain(o) == [due |-> o.due, wall |-> o.wall, action |-> o.action]

\* Whatever the clock does, the schedule takes every slot of its rules exactly
\* when it is due, in order and once, and lets those act that stand.
EverySlotInTurn ==
  LET Expected == {s \in Slots : IF IsDue THEN Sooner(s, next) ELSE s.due <= now} IN
  /\ {Plain(o) : o \in taken} = {Plain(s) : s \in Expected}
  /\ \A o \in taken, s \in Slots :
       Plain(o) = Plain(s) => (o.skip = "none" <=> Stands(s))

\* Types, and the walk of nextScheduleAfter through its rules.
CalendarInv == CalendarTypeOK /\ EverySlotInTurn

\* A maintenance window is open from a real start of its rule for its duration,
\* on dates that are not excepted.  A clock that goes back across midnight shows
\* an evening again after the excepted date has begun; that stays closed.
OpenByRule(at) ==
  LET today == Date(Local(at)) IN
  /\ today \notin exceptions
  /\ today + 1 \in exceptions => at < FirstShown((today + 1) * Day)
  /\ \E w \in starts :
       /\ Shown(w) # {} /\ Date(w) \notin exceptions
       /\ FirstShown(w) <= at /\ at < FirstShown(w) + duration

OpenAsRuled == maintenanceOpen(now) <=> OpenByRule(now)

\* The clock changes between an evening and some time after midnight.
AcrossMidnight ==
  LET before == zone.at + zone.before
      after == zone.at + zone.after
      Midnight(wall) == (Date(wall) + 1) * Day
  IN Midnight(before) < after \/ Midnight(after) < before

\* Longer than the shortest day of the zone: it can touch three dates.
OverTwoMidnights == duration > Day - (zone.after - zone.before)

\* What a request is told about the end of its window holds: up to that instant
\* the window stays open.  maintenance.go looks one date ahead, so this leaves
\* out a clock that changes across midnight and a window over two midnights.
PromiseKept ==
  ~AcrossMidnight /\ ~OverTwoMidnights /\ now < promise => maintenanceOpen(now)
=============================================================================
