------------------------ MODULE AutomationValidation ------------------------
(***************************************************************************)
(* Validation of published automation versions: automation_validation.go,  *)
(* automation_versions.go and their SQL, for one catalog entry, one bound  *)
(* connection and console replicas that each run                           *)
(* StartAutomationValidation.                                              *)
(*                                                                         *)
(* Every transaction here locks the organization row first and is one      *)
(* action; the claim and the expiry are single statements without that     *)
(* lock.  The isolated run lies between two of them.  A job is claimed     *)
(* at most once (nothing returns it to the queue), so a lease that has not *)
(* passed is represented by the replica that wrote it.  Versions are the   *)
(* consecutive versions of one name; a project pins its version for good   *)
(* and adds nothing but a key to the index of active jobs.                 *)
(***************************************************************************)
EXTENDS Naturals

CONSTANTS
  Jobs,          \* validation rows that may be requested
  Publishers,
  Workers,       \* console replicas
  MaxVersion,    \* bound on the versions published
  MaxRevision,   \* bound on changes of the connection
  Nobody

ASSUME AutomationValidationAssumption ==
  /\ MaxVersion \in Nat /\ MaxRevision \in Nat
  /\ Nobody \notin Workers \cup Publishers

VARIABLES
  version,     \* the rows of automation_versions
  connection,  \* revision and enabled flag of the bound connection
  permitted,   \* publishers with templates.publish and an allowed identity
  job,         \* the rows of automation_validations
  worker,      \* per replica: the claimed job and how far it has come
  passed,      \* jobs whose isolated run has accepted the source
  drifted      \* history: jobs whose version or connection has changed since

catalog == <<version, connection, permitted>>
vars == <<version, connection, permitted, job, worker, passed, drifted>>

-----------------------------------------------------------------------------
Versions == 1..MaxVersion
Revision == 0..MaxRevision
Active == {"queued", "running"}
Verdict == {"succeeded", "failed", "canceled"}

Version == [status : {"absent", "published", "retired", "revoked"},
            connection : Revision]
Job == [status : {"absent"} \cup Active \cup Verdict, version : Versions \cup {0},
        requester : Publishers \cup {Nobody},
        lease : Workers \cup {Nobody}, stale : BOOLEAN]
Worker == [pc : {"idle"}, job : {Nobody}, verdict : {"failed"}] \cup
          [pc : {"claimed", "calling", "called"}, job : Jobs, verdict : Verdict]

NoJob == [status |-> "absent", version |-> 0, requester |-> Nobody,
          lease |-> Nobody, stale |-> FALSE]
Idle == [pc |-> "idle", job |-> Nobody, verdict |-> "failed"]

Init ==
  /\ version = [v \in Versions |-> [status |-> "absent", connection |-> 0]]
  /\ connection = [revision |-> 0, enabled |-> TRUE]
  /\ permitted = Publishers
  /\ job = [j \in Jobs |-> NoJob]
  /\ worker = [w \in Workers |-> Idle]
  /\ passed = {} /\ drifted = {}

-----------------------------------------------------------------------------
(* The catalog.                                                            *)

\* The version after the latest, on the screen of whoever publishes it, with
\* the present revision of the connection.
PublishAutomationVersion(u, v) ==
  /\ u \in permitted
  /\ version[v].status = "absent"
  /\ \A n \in Versions : n < v => version[n].status # "absent"
  /\ connection.enabled
  /\ version' = [version EXCEPT ![v] =
       [status |-> "published", connection |-> connection.revision]]
  /\ UNCHANGED <<connection, permitted, job, worker, passed, drifted>>

\* Jobs that are not settled and whose facts change in this step.
Drift(js) == drifted' = drifted \cup {j \in js : job[j].status \in Active}

SetAutomationVersionStatus(u, v, status) ==
  /\ u \in permitted
  /\ \/ version[v].status = "published" /\ status \in {"retired", "revoked"}
     \/ version[v].status = "retired" /\ status = "revoked"
  /\ version' = [version EXCEPT ![v].status = status]
  /\ Drift({j \in Jobs : job[j].version = v})
  /\ UNCHANGED <<connection, permitted, job, worker, passed>>

\* Rotation and switching of the connection.
ChangeConnection(enabled) ==
  /\ connection.revision < MaxRevision
  /\ connection' = [revision |-> connection.revision + 1, enabled |-> enabled]
  /\ Drift(Jobs)
  /\ UNCHANGED <<version, permitted, job, worker, passed>>

ChangeAccess(us) ==
  /\ permitted' = us
  /\ UNCHANGED <<version, connection, job, worker, passed, drifted>>

-----------------------------------------------------------------------------
(* Requests.                                                               *)

\* Fault: the connection only has to be enabled.
SourceOnAnyRevision(u, v) ==
  u \in permitted /\ version[v].status = "published" /\ connection.enabled

\* validationSource: runtimes and artifacts are not state of this system, and
\* what else it may refuse for is a choice of its callers.
ValidationSource(u, v) ==
  /\ u \in permitted
  /\ version[v].status = "published"
  /\ connection.enabled /\ connection.revision = version[v].connection

ActiveJobs(v) == {j \in Jobs : job[j].version = v /\ job[j].status \in Active}

\* A request that meets an active job of the version returns that job and is
\* no step.
RequestAutomationValidation(j, u, v) ==
  /\ job[j].status = "absent"
  /\ ValidationSource(u, v)
  /\ ActiveJobs(v) = {}
  /\ job' = [job EXCEPT ![j] = [NoJob EXCEPT !.status = "queued",
                                 !.version = v, !.requester = u]]
  /\ UNCHANGED <<catalog, worker, passed, drifted>>

Settle(j, status) ==
  job' = [job EXCEPT ![j].status = status, ![j].lease = Nobody, ![j].stale = FALSE]

CancelAutomationValidation(j, u) ==
  /\ u \in permitted
  /\ job[j].status \in Active
  /\ Settle(j, "canceled")
  /\ UNCHANGED <<catalog, worker, passed, drifted>>

-----------------------------------------------------------------------------
(* automationValidationTick: expire, then claim one job and run it.        *)

\* Fault: only waiting jobs expire.
ExpireQueued(j) ==
  /\ job[j].status = "queued" /\ job[j].stale
  /\ Settle(j, "failed")
  /\ UNCHANGED <<catalog, worker, passed, drifted>>

ExpireAutomationValidation(j) ==
  /\ \/ job[j].status = "running" /\ job[j].lease = Nobody
     \/ job[j].status = "queued" /\ job[j].stale
  /\ Settle(j, "failed")
  /\ UNCHANGED <<catalog, worker, passed, drifted>>

ClaimAutomationValidation(w, j) ==
  /\ worker[w].pc = "idle"
  /\ job[j].status = "queued" /\ ~job[j].stale
  /\ job' = [job EXCEPT ![j].status = "running", ![j].lease = w]
  /\ worker' = [worker EXCEPT ![w] =
       [pc |-> "claimed", job |-> j, verdict |-> "failed"]]
  /\ UNCHANGED <<catalog, passed, drifted>>

\* LockAutomationValidation finds the row.
Current(w) ==
  job[worker[w].job].status = "running" /\ job[worker[w].job].lease = w

SourceStands(w) ==
  LET row == job[worker[w].job] IN ValidationSource(row.requester, row.version)

Return(w, verdict) ==
  worker' = [worker EXCEPT ![w].pc = "called", ![w].verdict = verdict]

\* First transaction.  Any error, a passed lease included, is a cancellation,
\* and what cannot be opened or sent is a failure without a call.
RefuseCall(w) ==
  /\ worker[w].pc = "claimed"
  /\ Return(w, "canceled") \/ (Current(w) /\ SourceStands(w) /\ Return(w, "failed"))
  /\ UNCHANGED <<catalog, job, passed, drifted>>

StartCall(w) ==
  /\ worker[w].pc = "claimed"
  /\ Current(w) /\ SourceStands(w)
  /\ worker' = [worker EXCEPT ![w].pc = "calling"]
  /\ UNCHANGED <<catalog, job, passed, drifted>>

\* The isolated run accepts the source, whether or not anybody still waits for
\* its answer.
RunPasses(j) ==
  /\ job[j].status \notin {"absent", "queued"}
  /\ passed' = passed \cup {j}
  /\ UNCHANGED <<catalog, job, worker, drifted>>

AnsweredSucceeded(w) ==
  /\ worker[w].pc = "calling" /\ worker[w].job \in passed
  /\ Return(w, "succeeded")
  /\ UNCHANGED <<catalog, job, passed, drifted>>

\* Rejected, busy, timed out, unreachable, or stopped by watchValidation.
AnsweredOtherwise(w) ==
  /\ worker[w].pc = "calling"
  /\ Return(w, "failed")
  /\ UNCHANGED <<catalog, job, passed, drifted>>

Release(w) == worker' = [worker EXCEPT ![w] = Idle]

\* Second transaction: a job that was settled meanwhile keeps its outcome.
DropVerdict(w) ==
  /\ worker[w].pc = "called" /\ ~Current(w)
  /\ Release(w)
  /\ UNCHANGED <<catalog, job, passed, drifted>>

RecordVerdict(w) ==
  /\ worker[w].pc = "called" /\ Current(w)
  /\ \/ SourceStands(w) /\ Settle(worker[w].job, worker[w].verdict)
     \/ Settle(worker[w].job, "canceled")
  /\ Release(w)
  /\ UNCHANGED <<catalog, passed, drifted>>

\* The replica restarts, or a transaction fails and its error is only logged.
Crash(w) ==
  /\ worker[w].pc # "idle"
  /\ Release(w)
  /\ UNCHANGED <<catalog, job, passed, drifted>>

-----------------------------------------------------------------------------
(* Time: three minutes of lease, thirty of waiting.                        *)

LeaseLapses(j) ==
  /\ job[j].lease # Nobody
  /\ job' = [job EXCEPT ![j].lease = Nobody]
  /\ UNCHANGED <<catalog, worker, passed, drifted>>

WaitsTooLong(j) ==
  /\ job[j].status = "queued" /\ ~job[j].stale
  /\ job' = [job EXCEPT ![j].stale = TRUE]
  /\ UNCHANGED <<catalog, worker, passed, drifted>>

-----------------------------------------------------------------------------
Catalog ==
  \/ \E u \in Publishers, v \in Versions :
       \/ PublishAutomationVersion(u, v)
       \/ \E s \in {"retired", "revoked"} : SetAutomationVersionStatus(u, v, s)
  \/ \E b \in BOOLEAN : ChangeConnection(b)
  \/ \E us \in SUBSET Publishers : ChangeAccess(us)

Requests ==
  \E j \in Jobs, u \in Publishers :
    \/ \E v \in Versions : RequestAutomationValidation(j, u, v)
    \/ CancelAutomationValidation(j, u)

Tick ==
  \E j \in Jobs :
    \/ ExpireAutomationValidation(j)
    \/ \E w \in Workers : ClaimAutomationValidation(w, j)

Run ==
  \/ \E w \in Workers :
       \/ RefuseCall(w)
       \/ StartCall(w)
       \/ AnsweredSucceeded(w)
       \/ AnsweredOtherwise(w)
       \/ DropVerdict(w)
       \/ RecordVerdict(w)
       \/ Crash(w)
  \/ \E j \in Jobs : RunPasses(j)

Time == \E j \in Jobs : LeaseLapses(j) \/ WaitsTooLong(j)

Next == Catalog \/ Requests \/ Tick \/ Run \/ Time

Spec == Init /\ [][Next]_vars

\* Clocks advance, and a replica that ticks every second expires what is due.
Fairness ==
  \A j \in Jobs :
    WF_vars(LeaseLapses(j) \/ WaitsTooLong(j) \/ ExpireAutomationValidation(j))

FairSpec == Spec /\ Fairness

-----------------------------------------------------------------------------
(* Properties *)

\* Every variable has its type, and only a running job is leased.
TypeOK ==
  /\ version \in [Versions -> Version]
  /\ connection \in [revision : Revision, enabled : BOOLEAN]
  /\ permitted \subseteq Publishers
  /\ job \in [Jobs -> Job]
  /\ \A j \in Jobs : job[j].lease # Nobody => job[j].status = "running"
  /\ worker \in [Workers -> Worker]
  /\ passed \subseteq Jobs /\ drifted \subseteq Jobs

\* A success was earned by the job's own isolated run: not by the run of a job
\* of the same version that was canceled or expired, whose late answer meets a
\* newer job.
SuccessIsEarned == \A j \in Jobs : job[j].status = "succeeded" => j \in passed

Reporting(w) == worker[w].pc # "idle" /\ Current(w)

\* A version has one active job, and of all the replicas at work on jobs of
\* the version, however late, at most one can still record a verdict.
OneVerdictAtATime ==
  /\ \A v \in Versions : \A i, j \in ActiveJobs(v) : i = j
  /\ \A w, x \in {y \in Workers : Reporting(y)} :
       job[worker[w].job].version = job[worker[x].job].version => w = x

\* A verdict stands, and success is about what was asked for: the version and
\* the revision of its connection are still those of the request.
VerdictsStand ==
  [][\A j \in Jobs :
       /\ job[j].status \in Verdict => job'[j].status = job[j].status
       /\ job'[j].status = "succeeded" /\ job[j].status # "succeeded" =>
            j \notin drifted]_vars

\* Whatever crashes, a requested validation is settled.
Settles == \A j \in Jobs : []<>(job[j].status \notin Active)
=============================================================================
