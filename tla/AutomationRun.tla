--------------------------- MODULE AutomationRun ----------------------------
(***************************************************************************)
(* Automation validation and the launcher together: a replica's call is a  *)
(* call of the launcher, and a job is its own call, as it is claimed once. *)
(***************************************************************************)
EXTENDS AutomationValidation, Launcher

ASSUME AutomationRunAssumption == Calls = Jobs

runVars == <<vars, launcherVars>>

InitRun == Init /\ InitLauncher

\* The replica's request reaches the launcher, which takes it or turns it away.
SendRequest(w) ==
  StartCall(w) /\ (Accept(worker[w].job) \/ TurnAway(worker[w].job))

RunEnds(j, answer) ==
  /\ Exits(j, answer)
  /\ passed' = IF answer = "succeeded" THEN passed \cup {j} ELSE passed
  /\ UNCHANGED <<catalog, job, worker, drifted>>

\* Fault: any answer counts.
HearsAnything(w) ==
  /\ worker[w].pc = "calling" /\ call[worker[w].job].pc = "over"
  /\ Return(w, "succeeded")
  /\ UNCHANGED <<catalog, job, passed, drifted, launcherVars>>

HearsSuccess(w) ==
  /\ AnsweredSucceeded(w)
  /\ call[worker[w].job] = [pc |-> "over", answer |-> "succeeded"]
  /\ UNCHANGED launcherVars

\* Any other answer, none within the deadline, or watchValidation stops a call
\* whose job is no longer running.
HearsOtherwise(w) == AnsweredOtherwise(w) /\ UNCHANGED launcherVars

Replica(w) ==
  \/ RefuseCall(w)
  \/ DropVerdict(w)
  \/ RecordVerdict(w)
  \/ Crash(w)

LauncherWorks(c) ==
  \/ Create(c)
  \/ BecomesHealthy(c)
  \/ CommandFails(c)
  \/ CleanUp(c)
  \/ Background(c)

NextRun ==
  \/ (Catalog \/ Requests \/ Tick \/ Time) /\ UNCHANGED launcherVars
  \/ \E w \in Workers : Replica(w) /\ UNCHANGED launcherVars
  \/ \E w \in Workers : SendRequest(w) \/ HearsSuccess(w) \/ HearsOtherwise(w)
  \/ \E c \in Jobs : LauncherWorks(c) /\ UNCHANGED vars
  \/ \E c \in Jobs : \E a \in {"succeeded", "failed"} : RunEnds(c, a)
  \/ Restart /\ UNCHANGED vars

SpecRun == InitRun /\ [][NextRun]_runVars
FairSpecRun == SpecRun /\ Fairness /\ FairnessLauncher

-----------------------------------------------------------------------------
(* Properties *)

\* Both components keep their types, and whatever job is claimed, canceled or
\* asked for again while an isolated run goes on, one verdict at a time is open.
RunInv == TypeOK /\ LauncherTypeOK /\ OneVerdictAtATime
=============================================================================
