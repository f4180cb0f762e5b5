-------------------------- MODULE AutomationRunProofs --------------------------
(***************************************************************************)
(* Proofs about AutomationRun for every number of jobs, versions, replicas *)
(* and launcher slots: verdicts are the job's own and about what was asked *)
(* for, and a call at work keeps what it has started.                      *)
(***************************************************************************)
EXTENDS AutomationRun, TLAPS

USE AutomationValidationAssumption, LauncherAssumption, AutomationRunAssumption

-----------------------------------------------------------------------------
(* The inductive invariant of the validation jobs.                         *)

\* A job that exists is about a version that was published once.
JobsFit ==
  \A j \in Jobs : job[j].status # "absent" =>
    job[j].version \in Versions /\ version[job[j].version].status # "absent"

\* Versions are published with a revision the connection has had.
VersionsFollow == \A v \in Versions : version[v].connection <= connection.revision

OneActive == \A v \in Versions : \A i, j \in ActiveJobs(v) : i = j

\* A replica that will report success has heard it from the job's own run.
AnswerIsEarned ==
  \A w \in Workers : worker[w].verdict = "succeeded" => worker[w].job \in passed

Stands(v) ==
  version[v].status = "published" /\ version[v].connection = connection.revision

\* Versions do not come back and revisions only grow: what drifted shows.
DriftShows ==
  \A j \in drifted :
    /\ job[j].status # "absent"
    /\ job[j].status \in Active => ~Stands(job[j].version)

IInv ==
  /\ TypeOK
  /\ JobsFit
  /\ VersionsFollow
  /\ OneActive
  /\ AnswerIsEarned
  /\ SuccessIsEarned
  /\ DriftShows

\* Initially there is no version and no job.
LEMMA InitEstablishes == Init => IInv
BY DEF Init, IInv, TypeOK, JobsFit, VersionsFollow, OneActive, AnswerIsEarned,
       SuccessIsEarned, DriftShows, ActiveJobs, Active, NoJob, Idle, Version, Versions,
       Revision, Job, Worker, Verdict

USE DEF Versions, Revision, Active, Verdict

\* The catalog changes under the jobs: versions, the connection and accounts.
LEMMA CatalogPreserves ==
  ASSUME IInv, Catalog
  PROVE  IInv'
<1> USE DEF IInv
<1>1. ASSUME NEW u \in Publishers, NEW v \in Versions, PublishAutomationVersion(u, v)
      PROVE  IInv'
  <2> USE <1>1 DEF PublishAutomationVersion
  <2>1. TypeOK' BY DEF TypeOK, Version
  <2>2. \A x \in Versions \ {v} : version'[x] = version[x] BY DEF TypeOK
  <2>3. version'[v] = [status |-> "published", connection |-> connection.revision]
    BY DEF TypeOK
  <2>4. \A j \in Jobs : job[j].status # "absent" => job[j].version # v BY DEF JobsFit
  <2>5. JobsFit' BY <2>2, <2>4 DEF JobsFit
  <2>6. VersionsFollow' BY <2>2, <2>3 DEF VersionsFollow, TypeOK
  <2>7. DriftShows'
    BY <2>2, <2>4 DEF DriftShows, Stands, JobsFit, TypeOK
  <2> QED BY <2>1, <2>5, <2>6, <2>7 DEF OneActive, ActiveJobs, AnswerIsEarned, SuccessIsEarned
<1>2. ASSUME NEW u \in Publishers, NEW v \in Versions, NEW s \in {"retired", "revoked"},
             SetAutomationVersionStatus(u, v, s)
      PROVE  IInv'
  <2> USE <1>2 DEF SetAutomationVersionStatus, Drift
  <2>1. TypeOK' BY DEF TypeOK, Version
  <2>2. \A x \in Versions \ {v} : version'[x] = version[x] BY DEF TypeOK
  <2>3. version'[v].status = s /\ version'[v].connection = version[v].connection
    BY DEF TypeOK, Version
  <2>4. \A x \in Versions : version[x].status # "absent" => version'[x].status # "absent"
    BY <2>2, <2>3
  <2>5. JobsFit' BY <2>4 DEF JobsFit
  <2>6. VersionsFollow' BY <2>2, <2>3 DEF VersionsFollow
  <2>7. DriftShows' BY <2>2, <2>3 DEF DriftShows, Stands, JobsFit, TypeOK
  <2> QED BY <2>1, <2>5, <2>6, <2>7 DEF OneActive, ActiveJobs, AnswerIsEarned, SuccessIsEarned
<1>3. ASSUME NEW b \in BOOLEAN, ChangeConnection(b)
      PROVE  IInv'
  <2> USE <1>3 DEF ChangeConnection, Drift
  <2>1. TypeOK' BY DEF TypeOK
  <2>2. \A v \in Versions : version[v].connection \in Nat BY DEF TypeOK, Version
  <2>3. connection.revision \in Nat /\ connection'.revision = connection.revision + 1
    BY DEF TypeOK
  <2>4. VersionsFollow' BY <2>2, <2>3 DEF VersionsFollow
  <2>5. \A v \in Versions : ~Stands(v)' BY <2>2, <2>3 DEF Stands, VersionsFollow
  <2>6. DriftShows' BY <2>5 DEF DriftShows, JobsFit, TypeOK
  <2> QED BY <2>1, <2>4, <2>6 DEF JobsFit, OneActive, ActiveJobs, AnswerIsEarned, SuccessIsEarned
<1>4. ASSUME NEW us \in SUBSET Publishers, ChangeAccess(us)
      PROVE  IInv'
  BY <1>4 DEF ChangeAccess, TypeOK, JobsFit, VersionsFollow, OneActive, ActiveJobs,
              AnswerIsEarned, SuccessIsEarned, DriftShows, Stands
<1> QED BY <1>1, <1>2, <1>3, <1>4 DEF Catalog

\* What settling makes of a row.
Settled(row, s) == [row EXCEPT !.status = s, !.lease = Nobody, !.stale = FALSE]

LEMMA SettledRow ==
  ASSUME NEW row \in Job, NEW s \in Verdict
  PROVE  Settled(row, s) \in Job
BY DEF Job, Settled

\* An active job takes a verdict that it may take, whatever the replicas do.
LEMMA SettlingPreserves ==
  ASSUME IInv, NEW j \in Jobs, job[j].status \in Active, NEW s \in Verdict, Settle(j, s),
         s = "succeeded" => j \in passed,
         UNCHANGED <<catalog, passed, drifted>>,
         worker' \in [Workers -> Worker], AnswerIsEarned'
  PROVE  IInv'
<1>1. \A i \in Jobs \ {j} : job'[i] = job[i] BY DEF IInv, TypeOK, Settle
<1>2. /\ job'[j].status = s /\ job'[j].version = job[j].version
      /\ job'[j].lease = Nobody /\ job'[j] \in Job
  <2>1. job[j] \in Job BY DEF IInv, TypeOK
  <2>2. job'[j] = Settled(job[j], s) BY DEF IInv, TypeOK, Settle, Settled
  <2>3. job'[j] \in Job BY <2>1, <2>2, SettledRow
  <2> QED BY <2>1, <2>2, <2>3 DEF Job, Settled
<1> USE DEF IInv, catalog
<1>3. TypeOK'
  <2>1. job' \in [Jobs -> Job] BY <1>1, <1>2 DEF TypeOK, Settle
  <2>2. \A i \in Jobs : job'[i].lease # Nobody => job'[i].status = "running"
    BY <1>1, <1>2 DEF TypeOK
  <2> QED BY <2>1, <2>2 DEF TypeOK
<1>4. JobsFit' BY <1>1, <1>2 DEF JobsFit
<1>5. OneActive'
  <2>1. \A v \in Versions : ActiveJobs(v)' \subseteq ActiveJobs(v)
    BY <1>1, <1>2 DEF ActiveJobs
  <2> QED BY <2>1 DEF OneActive
<1>6. SuccessIsEarned' BY <1>1, <1>2 DEF SuccessIsEarned
<1>7. DriftShows'
  <2>1. \A v \in Versions \cup {0} : Stands(v)' = Stands(v) BY DEF Stands
  <2> QED BY <1>1, <1>2, <2>1 DEF DriftShows, TypeOK, Job
<1> QED BY <1>3, <1>4, <1>5, <1>6, <1>7 DEF VersionsFollow

\* A job that goes on changes nothing of what the invariant says about it.
LEMMA GoingOnPreserves ==
  ASSUME IInv, NEW j \in Jobs, job[j].status \in Active, NEW r \in Job,
         r.status \in Active, r.version = job[j].version,
         r.lease # Nobody => r.status = "running",
         job' = [job EXCEPT ![j] = r],
         UNCHANGED <<catalog, passed, drifted>>,
         worker' \in [Workers -> Worker], AnswerIsEarned'
  PROVE  IInv'
<1> USE DEF IInv, catalog
<1>1. \A i \in Jobs \ {j} : job'[i] = job[i] BY DEF TypeOK
<1>2. job'[j] = r BY DEF TypeOK
<1>3. TypeOK' BY <1>1, <1>2 DEF TypeOK
<1>4. JobsFit' BY <1>1, <1>2 DEF JobsFit
<1>5. OneActive'
  <2>1. \A v \in Versions : ActiveJobs(v)' \subseteq ActiveJobs(v)
    BY <1>1, <1>2 DEF ActiveJobs
  <2> QED BY <2>1 DEF OneActive
<1>6. SuccessIsEarned' BY <1>1, <1>2 DEF SuccessIsEarned
<1>7. DriftShows' BY <1>1, <1>2 DEF DriftShows, Stands
<1> QED BY <1>3, <1>4, <1>5, <1>6, <1>7 DEF VersionsFollow

\* Only the replicas and the isolated runs go on.
LEMMA WorkingPreserves ==
  ASSUME IInv, UNCHANGED <<catalog, job, drifted>>, passed \subseteq passed',
         passed' \subseteq Jobs, worker' \in [Workers -> Worker], AnswerIsEarned'
  PROVE  IInv'
BY DEF IInv, catalog, TypeOK, JobsFit, VersionsFollow, OneActive, ActiveJobs,
       SuccessIsEarned, DriftShows, Stands

\* Requests are refused while the version has an active job.
LEMMA RequestsPreserve ==
  ASSUME IInv, Requests
  PROVE  IInv'
<1> USE DEF IInv
<1>1. ASSUME NEW j \in Jobs, NEW u \in Publishers, NEW v \in Versions,
             RequestAutomationValidation(j, u, v)
      PROVE  IInv'
  <2> USE <1>1 DEF RequestAutomationValidation, ValidationSource, NoJob, catalog
  <2>1. \A i \in Jobs \ {j} : job'[i] = job[i] BY DEF TypeOK
  <2>2. /\ job'[j].status = "queued" /\ job'[j].version = v
        /\ job'[j].lease = Nobody /\ job'[j] \in Job
    BY DEF TypeOK, Job
  <2>3. TypeOK' BY <2>1, <2>2 DEF TypeOK
  <2>4. JobsFit' BY <2>1, <2>2 DEF JobsFit
  <2>5. OneActive' BY <2>1, <2>2 DEF OneActive, ActiveJobs
  <2>6. SuccessIsEarned' BY <2>1, <2>2 DEF SuccessIsEarned
  <2>7. DriftShows' BY <2>1, <2>2 DEF DriftShows, Stands, TypeOK
  <2> QED BY <2>3, <2>4, <2>5, <2>6, <2>7 DEF VersionsFollow, AnswerIsEarned
<1>2. ASSUME NEW j \in Jobs, NEW u \in Publishers, CancelAutomationValidation(j, u)
      PROVE  IInv'
  BY <1>2, SettlingPreserves DEF CancelAutomationValidation, TypeOK, AnswerIsEarned
<1> QED BY <1>1, <1>2 DEF Requests

\* The tick and the clocks.
LEMMA TickPreserves ==
  ASSUME IInv, Tick \/ Time
  PROVE  IInv'
<1> USE DEF IInv
<1>1. ASSUME NEW j \in Jobs, ExpireAutomationValidation(j)
      PROVE  IInv'
  BY <1>1, SettlingPreserves DEF ExpireAutomationValidation, TypeOK, AnswerIsEarned
<1>2. ASSUME NEW j \in Jobs, NEW w \in Workers, ClaimAutomationValidation(w, j)
      PROVE  IInv'
  <2> USE <1>2 DEF ClaimAutomationValidation
  <2> DEFINE r == [job[j] EXCEPT !.status = "running", !.lease = w]
  <2>1. r \in Job /\ r.status = "running" /\ r.version = job[j].version
    BY DEF TypeOK, Job
  <2>2. job' = [job EXCEPT ![j] = r] BY DEF TypeOK
  <2>3. worker' \in [Workers -> Worker] BY DEF TypeOK, Worker
  <2>4. AnswerIsEarned' BY DEF AnswerIsEarned, TypeOK
  <2> QED BY <2>1, <2>2, <2>3, <2>4, GoingOnPreserves
<1>3. ASSUME NEW j \in Jobs, LeaseLapses(j) \/ WaitsTooLong(j)
      PROVE  IInv'
  <2> USE <1>3 DEF LeaseLapses, WaitsTooLong
  <2>1. job[j] \in Job BY DEF TypeOK
  <2>2. \/ job'[j] = [job[j] EXCEPT !.lease = Nobody]
        \/ job[j].lease = Nobody /\ job'[j] = [job[j] EXCEPT !.stale = TRUE]
    BY DEF TypeOK
  <2>3. job[j].status \in Active BY DEF TypeOK
  <2>4. /\ job'[j] \in Job /\ job'[j].status = job[j].status
        /\ job'[j].version = job[j].version /\ job'[j].lease = Nobody
    BY <2>1, <2>2 DEF Job
  <2>5. job' = [job EXCEPT ![j] = job'[j]] BY DEF TypeOK
  <2>6. worker' \in [Workers -> Worker] /\ AnswerIsEarned' BY DEF TypeOK, AnswerIsEarned
  <2> QED BY <2>3, <2>4, <2>5, <2>6, GoingOnPreserves
<1> QED BY <1>1, <1>2, <1>3 DEF Tick, Time

\* A replica works on its job, and records no success that was not earned.
LEMMA ReplicaPreserves ==
  ASSUME IInv, Run
  PROVE  IInv'
<1> USE DEF IInv
<1>1. ASSUME NEW w \in Workers, RecordVerdict(w)
      PROVE  IInv'
  <2> USE <1>1 DEF RecordVerdict, Release, Idle, Current
  <2>1. worker[w].job \in Jobs /\ worker[w].verdict \in Verdict BY DEF TypeOK, Worker
  <2>2. worker' \in [Workers -> Worker] BY DEF TypeOK, Worker
  <2>3. AnswerIsEarned' BY DEF AnswerIsEarned, TypeOK
  <2>4. worker[w].verdict = "succeeded" => worker[w].job \in passed BY DEF AnswerIsEarned
  <2> QED BY <2>1, <2>2, <2>3, <2>4, SettlingPreserves
<1>2. ASSUME NEW w \in Workers,
             RefuseCall(w) \/ StartCall(w) \/ AnsweredOtherwise(w)
      PROVE  IInv'
  <2> USE <1>2 DEF RefuseCall, StartCall, AnsweredOtherwise, Return
  <2>0. worker[w] \in [pc : {"claimed", "calling", "called"}, job : Jobs, verdict : Verdict]
    BY DEF TypeOK, Worker
  <2>1. worker' \in [Workers -> Worker]
    <3>1. CASE StartCall(w) BY <2>0, <3>1 DEF TypeOK, Worker
    <3>2. CASE RefuseCall(w) \/ AnsweredOtherwise(w) BY <2>0, <3>2 DEF TypeOK, Worker
    <3> QED BY <3>1, <3>2
  <2>2. AnswerIsEarned'
    <3>1. CASE StartCall(w) BY <3>1 DEF AnswerIsEarned, TypeOK
    <3>2. CASE RefuseCall(w)
      <4>1. worker'[w].verdict # "succeeded" /\ worker'[w].job = worker[w].job
        BY <2>0, <3>2 DEF TypeOK
      <4>2. \A x \in Workers \ {w} : worker'[x] = worker[x] BY <3>2 DEF TypeOK
      <4> QED BY <3>2, <4>1, <4>2 DEF AnswerIsEarned
    <3>3. CASE AnsweredOtherwise(w) BY <3>3 DEF AnswerIsEarned, TypeOK
    <3> QED BY <3>1, <3>2, <3>3
  <2>3. UNCHANGED <<catalog, job, drifted, passed>> OBVIOUS
  <2> QED BY <2>1, <2>2, <2>3, WorkingPreserves DEF TypeOK
<1>3. ASSUME NEW w \in Workers, AnsweredSucceeded(w)
      PROVE  IInv'
  <2> USE <1>3 DEF AnsweredSucceeded, Return
  <2>1. worker' \in [Workers -> Worker] BY DEF TypeOK, Worker
  <2>2. AnswerIsEarned' BY DEF AnswerIsEarned, TypeOK
  <2> QED BY <2>1, <2>2, WorkingPreserves DEF TypeOK
<1>4. ASSUME NEW w \in Workers, DropVerdict(w) \/ Crash(w)
      PROVE  IInv'
  <2> USE <1>4 DEF DropVerdict, Crash, Release, Idle
  <2>1. worker' \in [Workers -> Worker] BY DEF TypeOK, Worker
  <2>2. AnswerIsEarned' BY DEF AnswerIsEarned, TypeOK
  <2> QED BY <2>1, <2>2, WorkingPreserves DEF TypeOK
<1>5. ASSUME NEW j \in Jobs, RunPasses(j)
      PROVE  IInv'
  BY <1>5, WorkingPreserves DEF RunPasses, TypeOK, AnswerIsEarned
<1> QED BY <1>1, <1>2, <1>3, <1>4, <1>5 DEF Run

\* Every step preserves the invariant.
LEMMA StepPreserves == IInv /\ [Next]_vars => IInv'
<1> SUFFICES ASSUME IInv, [Next]_vars PROVE IInv' OBVIOUS
<1>1. CASE UNCHANGED vars
  BY <1>1, WorkingPreserves DEF IInv, vars, catalog, TypeOK, AnswerIsEarned
<1> QED BY <1>1, CatalogPreserves, RequestsPreserve, TickPreserves, ReplicaPreserves DEF Next

\* The invariant behind the theorems about verdicts.
THEOREM InductiveInvariant == Spec => []IInv
BY InitEstablishes, StepPreserves, PTL DEF Spec

\* Every variable of the validation jobs keeps its type.
THEOREM TypeCorrect == Spec => []TypeOK
<1>1. IInv => TypeOK BY DEF IInv
<1> QED BY <1>1, InductiveInvariant, PTL

\* Of all replicas at work on jobs of a version, one can record a verdict.
LEMMA OneReporter == IInv => OneVerdictAtATime
<1> SUFFICES ASSUME IInv PROVE OneVerdictAtATime OBVIOUS
<1>1. ASSUME NEW w \in Workers, NEW x \in Workers, Reporting(w), Reporting(x),
             job[worker[w].job].version = job[worker[x].job].version
      PROVE  w = x
  <2>1. worker[w].job \in Jobs /\ worker[x].job \in Jobs
    BY <1>1 DEF IInv, TypeOK, Worker, Reporting
  <2>2. /\ job[worker[w].job].status = "running" /\ job[worker[w].job].lease = w
        /\ job[worker[x].job].status = "running" /\ job[worker[x].job].lease = x
    BY <1>1 DEF Reporting, Current
  <2>3. job[worker[w].job].version \in Versions BY <2>1, <2>2 DEF IInv, JobsFit
  <2>4. worker[w].job = worker[x].job
    BY <1>1, <2>1, <2>2, <2>3 DEF IInv, OneActive, ActiveJobs
  <2> QED BY <2>2, <2>4
<1> QED BY <1>1 DEF IInv, OneActive, OneVerdictAtATime

-----------------------------------------------------------------------------
(* Verdicts.                                                               *)

\* A success is the success of the job's own isolated run.
THEOREM EarnedSuccess == Spec => []SuccessIsEarned
<1>1. IInv => SuccessIsEarned BY DEF IInv
<1> QED BY <1>1, InductiveInvariant, PTL

\* Settling stores its status in one active job and leaves the others.
LEMMA SettlingMoves ==
  ASSUME TypeOK, NEW i \in Jobs, job[i].status \in Active, NEW s, Settle(i, s),
         NEW j \in Jobs, job'[j].status # job[j].status
  PROVE  job[j].status \in Active /\ job'[j].status = s
BY DEF Settle, TypeOK

\* What may happen to the status of a job in one step.
LEMMA StatusMoves ==
  ASSUME TypeOK, [Next]_vars, NEW j \in Jobs, job'[j].status # job[j].status
  PROVE  \/ job[j].status = "absent" /\ job'[j].status = "queued"
         \/ job[j].status = "queued" /\ job'[j].status = "running"
         \/ job[j].status \in Active /\ job'[j].status \in {"failed", "canceled"}
         \/ /\ job[j].status \in Active /\ job'[j].status \in Verdict
            /\ \E w \in Workers : RecordVerdict(w) /\ worker[w].job = j /\ SourceStands(w)
<1>1. CASE Catalog
  BY <1>1 DEF Catalog, PublishAutomationVersion, SetAutomationVersionStatus,
              ChangeConnection, ChangeAccess
<1>2. CASE Requests
  <2>1. ASSUME NEW i \in Jobs, NEW u \in Publishers, NEW v \in Versions,
               RequestAutomationValidation(i, u, v)
        PROVE  job[j].status = "absent" /\ job'[j].status = "queued"
    BY <2>1 DEF RequestAutomationValidation, TypeOK, NoJob
  <2>2. ASSUME NEW i \in Jobs, NEW u \in Publishers, CancelAutomationValidation(i, u)
        PROVE  job[j].status \in Active /\ job'[j].status = "canceled"
    BY <2>2, SettlingMoves DEF CancelAutomationValidation
  <2> QED BY <1>2, <2>1, <2>2 DEF Requests
<1>3. CASE Tick
  <2>1. ASSUME NEW i \in Jobs, ExpireAutomationValidation(i)
        PROVE  job[j].status \in Active /\ job'[j].status = "failed"
    BY <2>1, SettlingMoves DEF ExpireAutomationValidation
  <2>2. ASSUME NEW i \in Jobs, NEW w \in Workers, ClaimAutomationValidation(w, i)
        PROVE  job[j].status = "queued" /\ job'[j].status = "running"
    BY <2>2 DEF ClaimAutomationValidation, TypeOK
  <2> QED BY <1>3, <2>1, <2>2 DEF Tick
<1>4. CASE Run
  <2>1. ASSUME NEW w \in Workers, RecordVerdict(w)
        PROVE  /\ job[j].status \in Active /\ worker[w].job = j
               /\ \/ SourceStands(w) /\ job'[j].status \in Verdict
                  \/ job'[j].status = "canceled"
    <3>1. worker[w].job \in Jobs /\ worker[w].verdict \in Verdict
      BY <2>1 DEF RecordVerdict, TypeOK, Worker
    <3>2. job[worker[w].job].status \in Active BY <2>1 DEF RecordVerdict, Current
    <3>3. worker[w].job = j BY <2>1, <3>1 DEF RecordVerdict, Settle, TypeOK
    <3>4. CASE SourceStands(w) /\ Settle(worker[w].job, worker[w].verdict)
      BY <3>1, <3>2, <3>3, <3>4, SettlingMoves
    <3>5. CASE Settle(worker[w].job, "canceled")
      BY <3>1, <3>2, <3>3, <3>5, SettlingMoves
    <3> QED BY <2>1, <3>4, <3>5 DEF RecordVerdict
  <2>2. PICK w \in Workers : RecordVerdict(w)
    BY <1>4 DEF Run, RefuseCall, StartCall, AnsweredSucceeded, AnsweredOtherwise,
                DropVerdict, Crash, RunPasses
  <2> QED BY <2>1, <2>2
<1>5. CASE Time
  <2>1. ASSUME NEW i \in Jobs, LeaseLapses(i) PROVE job'[j].status = job[j].status
    BY <2>1 DEF LeaseLapses, TypeOK
  <2>2. ASSUME NEW i \in Jobs, WaitsTooLong(i) PROVE job'[j].status = job[j].status
    BY <2>2 DEF WaitsTooLong, TypeOK
  <2> QED BY <1>5, <2>1, <2>2 DEF Time
<1>6. CASE UNCHANGED vars BY <1>6 DEF vars
<1> QED BY <1>1, <1>2, <1>3, <1>4, <1>5, <1>6 DEF Next

\* A verdict stays, and success is about the version and the revision of the
\* connection that were asked for.
THEOREM LastingVerdicts == Spec => VerdictsStand
<1>1. IInv /\ [Next]_vars =>
        [\A j \in Jobs :
           /\ job[j].status \in Verdict => job'[j].status = job[j].status
           /\ job'[j].status = "succeeded" /\ job[j].status # "succeeded" =>
                j \notin drifted]_vars
  <2> SUFFICES ASSUME IInv, [Next]_vars, NEW j \in Jobs
               PROVE  /\ job[j].status \in Verdict => job'[j].status = job[j].status
                      /\ job'[j].status = "succeeded" /\ job[j].status # "succeeded" =>
                           j \notin drifted
    OBVIOUS
  <2>1. CASE job'[j].status = job[j].status BY <2>1
  <2>2. CASE job'[j].status # job[j].status
    <3>1. job[j].status \notin Verdict BY <2>2, StatusMoves DEF IInv
    <3>2. ASSUME job'[j].status = "succeeded"
          PROVE  j \notin drifted
      <4>1. PICK w \in Workers : RecordVerdict(w) /\ worker[w].job = j /\ SourceStands(w)
        BY <2>2, <3>2, StatusMoves DEF IInv
      <4>2. job[j].status \in Active BY <4>1 DEF RecordVerdict, Current
      <4>3. Stands(job[j].version) BY <4>1 DEF SourceStands, ValidationSource, Stands
      <4> QED BY <4>2, <4>3 DEF IInv, DriftShows
    <3> QED BY <3>1, <3>2
  <2> QED BY <2>1, <2>2
<1> QED BY <1>1, InductiveInvariant, PTL DEF Spec, VerdictsStand

-----------------------------------------------------------------------------
(* The launcher.                                                           *)

\* What holds of one call: its handler r, its objects o and its time a.  A call
\* nobody has made yet has touched nothing, and one at work is in time.
CallFits(c, r, o, a) ==
  /\ r \in Call /\ o \in [Kinds -> Presence] /\ a \in 0..Expiry
  /\ r.pc = "new" => a = 0 /\ \A k \in Kinds : o[k] = "absent"
  /\ r.pc \in Working => a <= Deadline
  /\ r.pc = "running" => o["main"] = "there"
  /\ c \in Proxied =>
       /\ r.pc \in {"health", "main", "running"} => o["proxy"] = "there"
       /\ r.pc \in {"proxy", "health", "main", "running"} => o["volume"] = "there"

Shaped ==
  /\ call \in [Calls -> Call] /\ object \in [Calls -> [Kinds -> Presence]]
  /\ age \in [Calls -> 0..Expiry]

LauncherInv ==
  Shaped /\ \A c \in Calls : CallFits(c, call[c], object[c], age[c])

\* Initially no call has been made.
LEMMA LauncherInit == InitLauncher => LauncherInv
BY DEF InitLauncher, LauncherInv, Shaped, CallFits, Call, Kinds, Presence, Working, Live

\* A step of one call needs to be right for that call.
LEMMA OneCallMoves ==
  ASSUME LauncherInv, NEW c \in Calls, Shaped',
         \A d \in Calls \ {c} :
           call'[d] = call[d] /\ object'[d] = object[d] /\ age'[d] = age[d],
         CallFits(c, call'[c], object'[c], age'[c])
  PROVE  LauncherInv'
BY DEF LauncherInv

\* A handler is called, makes its objects, fails, hears the end, and cleans up.
LEMMA HandlerPreserves ==
  ASSUME LauncherInv, NEW c \in Calls, Accept(c) \/ TurnAway(c) \/ Handler(c)
  PROVE  LauncherInv'
<1> USE DEF Shaped, CallFits, Call, Kinds, Presence, Working, Cleaning, Live
<1>0. CallFits(c, call[c], object[c], age[c]) /\ Shaped BY DEF LauncherInv
<1>1. CASE Accept(c) BY <1>0, <1>1, OneCallMoves DEF Accept
<1>2. CASE TurnAway(c) BY <1>0, <1>2, OneCallMoves DEF TurnAway
<1>3. CASE Create(c) BY <1>0, <1>3, OneCallMoves DEF Create, Wanted, After
<1>4. CASE BecomesHealthy(c) BY <1>0, <1>4, OneCallMoves DEF BecomesHealthy
<1>5. CASE CommandFails(c) BY <1>0, <1>5, OneCallMoves DEF CommandFails, Fail, Wanted
<1>6. CASE CleanUp(c)
  <2>1. PICK p \in {"removeProxy", "removeVolume", "over"} :
          call' = [call EXCEPT ![c].pc = p]
    BY <1>6 DEF CleanUp
  <2>2. \/ object' = object
        \/ \E k \in Kinds : object' = [object EXCEPT ![c][k] = "absent"]
    BY <1>6 DEF CleanUp, Removal
  <2>3. call[c].pc \in Cleaning /\ age' = age BY <1>6 DEF CleanUp
  <2>4. /\ call'[c].pc = p /\ call'[c].answer = call[c].answer
        /\ \A d \in Calls \ {c} : call'[d] = call[d]
    BY <1>0, <2>1
  <2>5. /\ object'[c] \in [Kinds -> Presence]
        /\ \A d \in Calls \ {c} : object'[d] = object[d]
    BY <1>0, <2>2
  <2>6. Shaped'
    <3>1. call' \in [Calls -> Call] BY <1>0, <2>1
    <3>2. object' \in [Calls -> [Kinds -> Presence]] BY <1>0, <2>2
    <3> QED BY <1>0, <2>3, <3>1, <3>2
  <2>7. CallFits(c, call'[c], object'[c], age'[c])
    BY <1>0, <2>3, <2>4, <2>5, <2>6
  <2> QED BY <2>3, <2>4, <2>5, <2>6, <2>7, OneCallMoves
<1>7. ASSUME NEW answer \in {"succeeded", "failed"}, Exits(c, answer)
      PROVE  LauncherInv'
  BY <1>0, <1>7, OneCallMoves DEF Exits
<1> QED BY <1>1, <1>2, <1>3, <1>4, <1>5, <1>6, <1>7 DEF Handler

\* Time, the daemon and the reaper; labels outlast the deadline.
LEMMA BackgroundPreserves ==
  ASSUME LauncherInv, NEW c \in Calls, Background(c)
  PROVE  LauncherInv'
<1> USE DEF Shaped, CallFits, Call, Kinds, Presence, Working, Cleaning, Live
<1>0. CallFits(c, call[c], object[c], age[c]) /\ Shaped BY DEF LauncherInv
<1>1. CASE EndsAlone(c) BY <1>0, <1>1, OneCallMoves DEF EndsAlone
<1>2. CASE TimePasses(c) BY <1>0, <1>2, OneCallMoves DEF TimePasses, Remains
<1>3. ASSUME NEW k \in Kinds, Arrives(c, k) PROVE LauncherInv'
  BY <1>0, <1>3, OneCallMoves DEF Arrives
<1>4. ASSUME NEW k \in Kinds, ReapExpired(c, k) PROVE LauncherInv'
  BY <1>0, <1>4, OneCallMoves DEF ReapExpired, Expired
<1> QED BY <1>1, <1>2, <1>3, <1>4 DEF Background

\* A restart ends the calls at work.
LEMMA RestartPreserves ==
  ASSUME LauncherInv, Restart
  PROVE  LauncherInv'
BY DEF LauncherInv, Shaped, CallFits, Restart, Call, Kinds, Presence, Working, Live

-----------------------------------------------------------------------------
(* Both together.                                                          *)

\* A call is made for a job that is claimed: its run can only pass such a job.
CallsAreClaimed ==
  \A j \in Jobs : call[j].pc # "new" => job[j].status \notin {"absent", "queued"}

RunIInv == IInv /\ LauncherInv /\ CallsAreClaimed

\* Initially nothing is queued or called.
LEMMA RunInitEstablishes == InitRun => RunIInv
<1> SUFFICES ASSUME InitRun PROVE RunIInv OBVIOUS
<1>1. IInv /\ LauncherInv BY InitEstablishes, LauncherInit DEF InitRun
<1>2. CallsAreClaimed BY DEF InitRun, InitLauncher, CallsAreClaimed
<1> QED BY <1>1, <1>2 DEF RunIInv

\* A claimed job never waits again.
LEMMA ClaimedStays ==
  ASSUME IInv, [Next]_vars, CallsAreClaimed,
         \A j \in Jobs : call'[j].pc # "new" =>
           call[j].pc # "new" \/ job'[j].status \notin {"absent", "queued"}
  PROVE  CallsAreClaimed'
<1> SUFFICES ASSUME NEW j \in Jobs, call[j].pc # "new"
             PROVE  job'[j].status \notin {"absent", "queued"}
  BY DEF CallsAreClaimed
<1> QED BY StatusMoves DEF IInv, CallsAreClaimed

\* Each step of both is a step of the jobs, or none, and right for the launcher.
LEMMA RunStep ==
  ASSUME RunIInv, [NextRun]_runVars
  PROVE  RunIInv' /\ [Next]_vars
<1> USE DEF RunIInv
<1>0. ASSUME [Next]_vars, LauncherInv',
             \A j \in Jobs : call'[j].pc # "new" =>
               call[j].pc # "new" \/ job'[j].status \notin {"absent", "queued"}
      PROVE  RunIInv' /\ [Next]_vars
  BY <1>0, StepPreserves, ClaimedStays
<1>1. CASE (Catalog \/ Requests \/ Tick \/ Time) /\ UNCHANGED launcherVars
  BY <1>0, <1>1 DEF Next, launcherVars, LauncherInv, Shaped
<1>2. ASSUME NEW w \in Workers, Replica(w) /\ UNCHANGED launcherVars
      PROVE  RunIInv' /\ [Next]_vars
  <2>1. Run BY <1>2 DEF Replica, Run
  <2> QED BY <1>0, <1>2, <2>1 DEF Next, launcherVars, LauncherInv, Shaped
<1>3. ASSUME NEW w \in Workers, SendRequest(w)
      PROVE  RunIInv' /\ [Next]_vars
  <2>1. worker[w].job \in Calls BY <1>3 DEF SendRequest, StartCall, IInv, TypeOK, Worker
  <2>2. LauncherInv' BY <1>3, <2>1, HandlerPreserves DEF SendRequest
  <2>3. [Next]_vars BY <1>3 DEF SendRequest, Next, Run
  <2>4. job'[worker[w].job].status = "running"
    BY <1>3 DEF SendRequest, StartCall, Current
  <2>5. \A j \in Jobs \ {worker[w].job} : call'[j] = call[j]
    BY <1>3 DEF SendRequest, Accept, TurnAway, LauncherInv, Shaped
  <2> QED BY <1>0, <2>2, <2>3, <2>4, <2>5
<1>4. ASSUME NEW w \in Workers, HearsSuccess(w) \/ HearsOtherwise(w)
      PROVE  RunIInv' /\ [Next]_vars
  <2>1. Run BY <1>4 DEF HearsSuccess, HearsOtherwise, Run
  <2>2. UNCHANGED launcherVars BY <1>4 DEF HearsSuccess, HearsOtherwise
  <2> QED BY <1>0, <2>1, <2>2 DEF Next, launcherVars, LauncherInv, Shaped
<1>5. ASSUME NEW c \in Jobs, LauncherWorks(c), UNCHANGED vars
      PROVE  RunIInv' /\ [Next]_vars
  <2>1. LauncherInv'
    BY <1>5, HandlerPreserves, BackgroundPreserves DEF LauncherWorks, Handler
  <2>2. \A j \in Jobs : call'[j].pc # "new" => call[j].pc # "new"
    BY <1>5 DEF LauncherWorks, Create, BecomesHealthy, CommandFails, Fail, CleanUp,
       Background, EndsAlone, TimePasses, Arrives, ReapExpired, LauncherInv, Shaped,
       Working, Cleaning
  <2> QED BY <1>0, <1>5, <2>1, <2>2
<1>6. ASSUME NEW c \in Jobs, NEW a \in {"succeeded", "failed"}, RunEnds(c, a)
      PROVE  RunIInv' /\ [Next]_vars
  <2>1. LauncherInv' BY <1>6, HandlerPreserves DEF RunEnds, Handler
  <2>2. \A j \in Jobs : call'[j].pc # "new" => call[j].pc # "new"
    BY <1>6 DEF RunEnds, Exits, LauncherInv, Shaped
  <2>3. job[c].status \notin {"absent", "queued"}
    BY <1>6 DEF RunEnds, Exits, CallsAreClaimed
  <2>4. RunPasses(c) \/ UNCHANGED vars BY <1>6, <2>3 DEF RunEnds, RunPasses, vars, catalog
  <2>5. [Next]_vars BY <2>4 DEF Next, Run
  <2> QED BY <1>0, <2>1, <2>2, <2>5
<1>7. CASE Restart /\ UNCHANGED vars
  <2>1. \A j \in Jobs : call'[j].pc # "new" => call[j].pc # "new"
    BY <1>7 DEF Restart, Live, Working, Cleaning
  <2> QED BY <1>0, <1>7, <2>1, RestartPreserves
<1>8. CASE UNCHANGED runVars
  BY <1>0, <1>8 DEF runVars, launcherVars, vars, LauncherInv, Shaped
<1> QED BY <1>1, <1>2, <1>3, <1>4, <1>5, <1>6, <1>7, <1>8 DEF NextRun

\* The invariant of validation jobs and launcher together.
THEOREM RunInvariant == SpecRun => []RunIInv
<1>1. RunIInv /\ [NextRun]_runVars => RunIInv' BY RunStep
<1> QED BY <1>1, RunInitEstablishes, PTL DEF SpecRun

\* Validation with the launcher is validation: what holds of the jobs with an
\* isolated run that may pass at any time holds with the containers it needs.
THEOREM ImplementsValidation == SpecRun => Spec
<1>1. InitRun => Init BY DEF InitRun
<1>2. RunIInv /\ [NextRun]_runVars => [Next]_vars BY RunStep
<1> QED BY <1>1, <1>2, RunInvariant, PTL DEF SpecRun, Spec

\* Types, and one open verdict at a time, whatever the launcher does.
THEOREM RunCorrect == SpecRun => []RunInv
<1>1. RunIInv => RunInv
  <2> SUFFICES ASSUME RunIInv PROVE RunInv OBVIOUS
  <2>1. TypeOK /\ OneVerdictAtATime BY OneReporter DEF RunIInv, IInv
  <2>2. LauncherTypeOK BY DEF RunIInv, LauncherInv, Shaped, LauncherTypeOK
  <2> QED BY <2>1, <2>2 DEF RunInv
<1> QED BY <1>1, RunInvariant, PTL

\* Neither the reaper nor a removal takes anything from a call at work.
THEOREM WorkIsSafe == SpecRun => []WorkKeepsItsObjects
<1>1. RunIInv => WorkKeepsItsObjects
  BY DEF RunIInv, LauncherInv, CallFits, WorkKeepsItsObjects
<1> QED BY <1>1, RunInvariant, PTL

\* Successes are earned and verdicts stand with the launcher as without it.
THEOREM RunVerdicts == SpecRun => []SuccessIsEarned /\ VerdictsStand
BY ImplementsValidation, EarnedSuccess, LastingVerdicts, PTL
=============================================================================
