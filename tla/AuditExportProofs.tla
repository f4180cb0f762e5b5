-------------------------- MODULE AuditExportProofs --------------------------
(***************************************************************************)
(* Proofs about AuditExport for every number of transactions and replicas, *)
(* every batch size and every bound.                                       *)
(***************************************************************************)
EXTENDS AuditExport, TLAPS

USE AuditExportAssumption

-----------------------------------------------------------------------------
(* The inductive invariant.                                                *)

\* A transaction that has allocated ids holds the organization lock.
LockOwner == \A t \in Writers : uncommitted[t] # {} => lock = t

\* Ids come from the sequence; those not committed yet follow all committed.
IdsOrdered ==
  /\ \A i \in events : i < nextId
  /\ \A t \in Writers : \A i \in uncommitted[t] :
       i < nextId /\ \A j \in events : j < i

LogInv == LockOwner /\ IdsOrdered

\* An audit job for configuration c holds all of es from beyond c's cursor to
\* the job's last event, and nothing later; jobs never belong to the future.
Fits(job, es, c) ==
  /\ job.revision <= c.revision
  /\ job.kind = "audit" /\ job.revision = c.revision =>
       /\ job.last \in es
       /\ job.rows \subseteq {i \in es : i <= job.last}
       /\ \A i \in es : c.cursor < i /\ i <= job.last => i \in job.rows

JobsFit ==
  /\ batch.status # "none" => Fits(batch.job, events, config)
  /\ \A w \in Workers : worker[w].pc # "idle" => Fits(worker[w].job, events, config)

\* A batch still pending or running is for the present configuration.
BatchIsCurrent ==
  batch.status # "none" =>
    /\ batch.job.revision = config.revision
    /\ batch.job.kind \in {"test", "audit"}
    /\ batch.job.kind = "audit" =>
         batch.job.last > config.cursor /\ config.enabled /\ config.verified

LeaseHolder ==
  \A w \in Workers : Current(w) /\ worker[w].pc # "idle" => worker[w].job = batch.job

WrittenIsStored ==
  \A w \in Workers : worker[w].pc = "stored" =>
    LET job == worker[w].job IN
    /\ job.rows \subseteq stored[job.revision]
    /\ job.kind = "test" => job.revision \in probed

RowsOnlyInAudit ==
  /\ batch.job.kind # "audit" => batch.job.rows = {}
  /\ \A w \in Workers : worker[w].job.kind # "audit" => worker[w].job.rows = {}

CursorCommitted == config.cursor \in events \cup {0}

Prefix(es, n) == {i \in es : i <= n}

\* What a destination holds is a prefix of the committed log.
StoredPrefix ==
  \/ stored[config.revision] = {}
  \/ \E n \in events : stored[config.revision] = Prefix(events, n)

FutureEmpty ==
  \A r \in Revision : r > config.revision => stored[r] = {} /\ r \notin probed

ExportInv ==
  /\ JobsFit
  /\ BatchIsCurrent
  /\ LeaseHolder
  /\ WrittenIsStored
  /\ RowsOnlyInAudit
  /\ CursorCommitted
  /\ StoredPrefix
  /\ FutureEmpty
  /\ NothingSkipped
  /\ VerifiedMeansProbed

IInv == TypeOK /\ LogInv /\ ExportInv

-----------------------------------------------------------------------------
(* The committed log grows at its end.                                     *)

Grows ==
  /\ events \subseteq events' /\ events' \subseteq Ids
  /\ \A i \in events' \ events, j \in events : j < i

\* An exporter transaction writes at most one event, with the lock to itself.
LEMMA ExclusiveGrows ==
  ASSUME TypeOK, LogInv, Exclusive, Audit \/ NoAudit
  PROVE  LogInv' /\ Grows /\ nextId' \in 1..(MaxId + 1) /\ lock' = lock
         /\ uncommitted' = uncommitted
<1>1. \A t \in Writers : uncommitted[t] = {}
  BY DEF LogInv, LockOwner, Exclusive
<1>2. CASE Audit /\ nextId <= MaxId
  <2>1. nextId \in Ids /\ nextId' = nextId + 1 /\ events' = events \cup {nextId}
    BY <1>2 DEF Audit, TypeOK, Ids
  <2>2. Grows BY <2>1 DEF Grows, LogInv, IdsOrdered, TypeOK, Ids
  <2>3. IdsOrdered' BY <1>1, <2>1 DEF IdsOrdered, LogInv, Exclusive, TypeOK, Ids
  <2>4. LockOwner' BY DEF LogInv, LockOwner, Exclusive
  <2> QED BY <2>1, <2>2, <2>3, <2>4 DEF LogInv, Ids, Exclusive
<1>3. CASE UNCHANGED <<events, nextId>>
  BY <1>3 DEF LogInv, LockOwner, IdsOrdered, Exclusive, Grows, TypeOK
<1> QED BY <1>2, <1>3 DEF Audit, NoAudit, TypeOK, Ids

\* A transaction allocates ids under the lock and commits them after all others.
LEMMA TransactionGrows ==
  ASSUME TypeOK, LogInv, NEW t \in Writers, AddAudit(t) \/ Commit(t) \/ Rollback(t)
  PROVE  /\ LogInv' /\ Grows
         /\ nextId' \in 1..(MaxId + 1)
         /\ lock' \in Writers \cup {Nobody}
         /\ uncommitted' \in [Writers -> SUBSET Ids]
<1> USE DEF TypeOK, LogInv, LockOwner, IdsOrdered, Grows, Ids
<1>1. CASE AddAudit(t)
  <2>1. \A s \in Writers \ {t} : uncommitted[s] = {}
    BY <1>1 DEF AddAudit
  <2>2. \A s \in Writers : uncommitted'[s] = IF s = t THEN uncommitted[t] \cup {nextId} ELSE {}
    BY <1>1, <2>1 DEF AddAudit
  <2> QED BY <1>1, <2>1, <2>2 DEF AddAudit
<1>2. CASE EndTransaction(t) /\ (events' = events \cup uncommitted[t] \/ UNCHANGED events)
  <2>1. lock = t BY <1>2 DEF EndTransaction
  <2>2. \A s \in Writers : uncommitted'[s] = {}
    BY <1>2, <2>1 DEF EndTransaction
  <2> QED BY <1>2, <2>1, <2>2 DEF EndTransaction
<1> QED BY <1>1, <1>2 DEF Commit, Rollback

\* Growth at the end disturbs neither jobs nor the stored prefix.
LEMMA GrowthFits ==
  ASSUME TypeOK, Grows, NEW job \in Jobs, Fits(job, events, config)
  PROVE  Fits(job, events', config)
BY DEF Fits, Grows, TypeOK, Ids, Jobs

-----------------------------------------------------------------------------
(* Steps, by what they change besides the log.                             *)

\* A step that leaves the configuration, the batch's job and the storage alone
\* and at most releases workers, takes a lease away or ends the batch.
Passes ==
  /\ UNCHANGED <<config, storage>>
  /\ \/ batch' = NoBatch
     \/ /\ batch'.job = batch.job /\ batch'.status # "none" /\ batch.status # "none"
        /\ batch' \in [status : {"none", "pending", "running"}, job : Jobs,
                       due : BOOLEAN, lease : Workers \cup {Nobody}]
        /\ batch'.lease # Nobody =>
             batch'.status = "running" /\ batch'.status = batch.status
             /\ batch'.lease = batch.lease
     \/ UNCHANGED batch
  /\ \A w \in Workers :
       \/ worker'[w] = Idle
       \/ worker'[w] = worker[w]
       \/ worker[w].pc = "claimed" /\ worker'[w] = [worker[w] EXCEPT !.pc = "writing"]
  /\ worker' \in [Workers -> [pc : {"idle", "claimed", "writing", "stored"}, job : Jobs]]

\* New events come after whatever was the end of a prefix.
LEMMA PrefixStays ==
  ASSUME TypeOK, Grows, NEW n \in events
  PROVE  Prefix(events, n) = Prefix(events', n)
<1>1. \A i \in events' : i <= n => i \in events BY DEF Grows, Ids, TypeOK
<1> QED BY <1>1 DEF Prefix, Grows

\* What depends on the log and the configuration alone survives growth.
LEMMA GrowthKeeps ==
  ASSUME TypeOK, ExportInv, Grows, UNCHANGED <<config, storage>>
  PROVE  /\ CursorCommitted' /\ StoredPrefix' /\ FutureEmpty'
         /\ NothingSkipped' /\ VerifiedMeansProbed'
<1> USE DEF ExportInv, storage
<1>1. CursorCommitted' BY DEF CursorCommitted, Grows
<1>2. StoredPrefix'
  <2>1. CASE stored[config.revision] = {} BY <2>1 DEF StoredPrefix
  <2>2. CASE \E n \in events : stored[config.revision] = Prefix(events, n)
    <3>1. PICK n \in events : stored[config.revision] = Prefix(events, n) BY <2>2
    <3>2. Prefix(events, n) = Prefix(events', n) BY PrefixStays
    <3> QED BY <3>1, <3>2 DEF StoredPrefix, Grows
  <2> QED BY <2>1, <2>2 DEF StoredPrefix
<1>3. FutureEmpty' BY DEF FutureEmpty
<1>4. NothingSkipped'
  <2> SUFFICES ASSUME NEW i \in events', i <= config.cursor
               PROVE  i \in stored[config.revision]
    BY DEF NothingSkipped
  <2>1. i \in events
    BY DEF CursorCommitted, Grows, Ids, TypeOK
  <2> QED BY <2>1 DEF NothingSkipped
<1>5. VerifiedMeansProbed' BY DEF VerifiedMeansProbed
<1> QED BY <1>1, <1>2, <1>3, <1>4, <1>5

\* Steps that pass keep the invariant.
LEMMA PassesPreserve ==
  ASSUME TypeOK, ExportInv, Grows, Passes
  PROVE  ExportInv'
<1> USE DEF ExportInv
<1>1. CursorCommitted' /\ StoredPrefix' /\ FutureEmpty' /\ NothingSkipped' /\ VerifiedMeansProbed'
  BY GrowthKeeps DEF Passes
<1>2. \A w \in Workers : worker[w].job \in Jobs /\ batch.job \in Jobs BY DEF TypeOK
<1>3. JobsFit'
  <2>1. batch'.status # "none" => Fits(batch'.job, events', config')
    BY <1>2, GrowthFits DEF JobsFit, Passes, NoBatch, TypeOK
  <2>2. ASSUME NEW w \in Workers, worker'[w].pc # "idle"
        PROVE  Fits(worker'[w].job, events', config')
    <3>1. worker[w].pc # "idle" /\ worker'[w].job = worker[w].job
      BY <2>2 DEF Passes, Idle, TypeOK
    <3> QED BY <1>2, <3>1, GrowthFits DEF JobsFit, Passes
  <2> QED BY <2>1, <2>2 DEF JobsFit
<1>4. BatchIsCurrent' BY DEF BatchIsCurrent, Passes, NoBatch
<1>5. LeaseHolder'
  <2> SUFFICES ASSUME NEW w \in Workers, Current(w)', worker'[w].pc # "idle"
               PROVE  worker'[w].job = batch'.job
    BY DEF LeaseHolder
  <2>1. worker[w].pc # "idle" /\ worker'[w].job = worker[w].job
    BY DEF Passes, Idle, TypeOK
  <2>2. Current(w) /\ batch'.job = batch.job
    BY DEF Passes, Current, NoBatch, TypeOK
  <2> QED BY <2>1, <2>2 DEF LeaseHolder
<1>6. WrittenIsStored' BY DEF WrittenIsStored, Passes, Idle, storage, TypeOK
<1>7. RowsOnlyInAudit' BY DEF RowsOnlyInAudit, Passes, Idle, NoJob, NoBatch, TypeOK
<1> QED BY <1>1, <1>3, <1>4, <1>5, <1>6, <1>7

-----------------------------------------------------------------------------
(* The steps that do more.                                                 *)

\* A new configuration starts from nothing: no job is for it, no batch is left.
LEMMA SavePreserves ==
  ASSUME TypeOK, ExportInv, Grows, SaveAuditExport
  PROVE  TypeOK' /\ ExportInv'
<1> USE DEF ExportInv, SaveAuditExport, storage
<1>1. /\ config'.revision = config.revision + 1 /\ config'.revision \in Revision
      /\ config'.cursor = 0 /\ ~config'.enabled /\ ~config'.verified
  BY DEF TypeOK, Revision
<1>2. JobsFit'
  BY <1>1 DEF JobsFit, Fits, NoBatch, TypeOK, Revision, Jobs
<1>3. stored'[config'.revision] = {} BY <1>1 DEF FutureEmpty, TypeOK, Revision
<1>4. FutureEmpty' BY <1>1 DEF FutureEmpty, TypeOK, Revision
<1>5. NothingSkipped' BY <1>1 DEF NothingSkipped, Grows, Ids
<1>6. CursorCommitted' /\ StoredPrefix' /\ VerifiedMeansProbed'
  BY <1>1, <1>3 DEF CursorCommitted, StoredPrefix, VerifiedMeansProbed
<1>7. BatchIsCurrent' /\ LeaseHolder' /\ WrittenIsStored' /\ RowsOnlyInAudit'
  BY DEF BatchIsCurrent, LeaseHolder, Current, WrittenIsStored, RowsOnlyInAudit,
         NoBatch, NoJob, TypeOK
<1>8. TypeOK'
  <2>1. batch' \in [status : {"none", "pending", "running"}, job : Jobs,
                    due : BOOLEAN, lease : Workers \cup {Nobody}]
    BY DEF NoBatch, NoJob, Jobs, Revision
  <2>2. nextId' \in 1..(MaxId + 1) BY DEF Audit, TypeOK
  <2>3. lock' = lock /\ uncommitted' = uncommitted BY DEF Exclusive
  <2>4. events' \subseteq Ids BY DEF Grows
  <2>5. config' \in [revision : Revision, enabled : BOOLEAN, verified : BOOLEAN,
                     cursor : 0..MaxId]
    BY <1>1
  <2> QED BY <2>1, <2>2, <2>3, <2>4, <2>5 DEF TypeOK, NoBatch
<1> QED BY <1>2, <1>4, <1>5, <1>6, <1>7, <1>8

\* Pausing or enabling touches neither the cursor nor the revision; a pause
\* leaves no batch.
LEMMA EnablePreserves ==
  ASSUME TypeOK, ExportInv, Grows, NEW b \in BOOLEAN, SetAuditExportEnabled(b)
  PROVE  TypeOK' /\ ExportInv'
<1> USE DEF ExportInv, SetAuditExportEnabled, storage
<1>1. /\ config'.revision = config.revision /\ config'.cursor = config.cursor
      /\ config'.verified = config.verified /\ config'.enabled = b
      /\ config' \in [revision : Revision, enabled : BOOLEAN, verified : BOOLEAN,
                      cursor : 0..MaxId]
  BY DEF TypeOK
<1>2. TypeOK'
  BY <1>1 DEF TypeOK, NoBatch, NoJob, Jobs, Revision, Grows, Exclusive, Audit
<1>3. \A job \in Jobs : Fits(job, events, config) => Fits(job, events', config')
  BY <1>1, GrowthFits DEF Fits
<1>4. JobsFit' BY <1>3 DEF JobsFit, NoBatch, TypeOK
<1>5. BatchIsCurrent' BY <1>1 DEF BatchIsCurrent, NoBatch
<1>6. LeaseHolder' /\ WrittenIsStored' /\ RowsOnlyInAudit'
  BY DEF LeaseHolder, Current, WrittenIsStored, RowsOnlyInAudit, NoBatch, NoJob, TypeOK
<1>7. CursorCommitted' BY <1>1 DEF CursorCommitted, Grows
<1>8. StoredPrefix' BY <1>1, PrefixStays DEF StoredPrefix, Grows
<1>9. FutureEmpty' /\ VerifiedMeansProbed' BY <1>1 DEF FutureEmpty, VerifiedMeansProbed
<1>10. NothingSkipped'
  BY <1>1 DEF NothingSkipped, CursorCommitted, Grows, Ids, TypeOK
<1> QED BY <1>2, <1>4, <1>5, <1>6, <1>7, <1>8, <1>9, <1>10

\* A new batch holds everything from the cursor to its last event.
LEMMA BatchPreserves ==
  ASSUME TypeOK, ExportInv, Grows, TestAuditExport \/ PrepareAuditExport
  PROVE  TypeOK' /\ ExportInv'
<1> USE DEF ExportInv
<1>1. UNCHANGED <<config, worker, storage>> /\ batch = NoBatch
  BY DEF TestAuditExport, PrepareAuditExport
<1>2. PICK job \in Jobs :
        /\ batch' = Pending(job)
        /\ job.revision = config.revision
        /\ \/ job.kind = "test" /\ job.rows = {}
           \/ /\ job.kind = "audit" /\ job.last \in events /\ job.last > config.cursor
              /\ config.enabled /\ config.verified
              /\ job.rows = Between(config.cursor, job.last)
  <2>1. CASE TestAuditExport
    <3>1. config.revision \in Revision BY DEF TypeOK
    <3>2. [kind |-> "test", rows |-> {}, last |-> 0, revision |-> config.revision] \in Jobs
      BY <3>1 DEF Jobs
    <3> QED BY <2>1, <3>2 DEF TestAuditExport
  <2>2. CASE PrepareAuditExport
    <3>1. PICK last \in Backlog :
            batch' = Pending([kind |-> "audit", rows |-> Between(config.cursor, last),
                              last |-> last, revision |-> config.revision])
      BY <2>2 DEF PrepareAuditExport
    <3>2. last \in 0..MaxId BY DEF Backlog, TypeOK, Ids
    <3>3. config.revision \in Revision /\ Between(config.cursor, last) \in SUBSET Ids
      BY DEF Between, TypeOK
    <3>4. [kind |-> "audit", rows |-> Between(config.cursor, last),
           last |-> last, revision |-> config.revision] \in Jobs
      BY <3>2, <3>3 DEF Jobs
    <3> QED BY <2>2, <3>1, <3>4 DEF PrepareAuditExport, Backlog
  <2> QED BY <2>1, <2>2
<1>3. Fits(job, events, config)
  BY <1>2 DEF Fits, Between, TypeOK, Ids, Revision
<1>4. JobsFit'
  <2>1. \A w \in Workers : worker[w].job \in Jobs BY DEF TypeOK
  <2> QED BY <1>1, <1>2, <1>3, <2>1, GrowthFits DEF JobsFit, Pending
<1>5. BatchIsCurrent' BY <1>1, <1>2 DEF BatchIsCurrent, Pending
<1>6. LeaseHolder' /\ WrittenIsStored' /\ RowsOnlyInAudit'
  BY <1>1, <1>2 DEF LeaseHolder, Current, WrittenIsStored, RowsOnlyInAudit, Pending, storage
<1>7. CursorCommitted' /\ StoredPrefix' /\ FutureEmpty' /\ NothingSkipped' /\ VerifiedMeansProbed'
  BY <1>1, GrowthKeeps
<1>8. TypeOK'
  <2>1. nextId' \in 1..(MaxId + 1) /\ lock' = lock /\ uncommitted' = uncommitted
    BY DEF TestAuditExport, PrepareAuditExport, Exclusive, Audit, NoAudit, TypeOK
  <2> QED BY <1>1, <1>2, <2>1 DEF TypeOK, Pending, Grows, storage
<1> QED BY <1>4, <1>5, <1>6, <1>7, <1>8

\* A claim hands the batch's job to an idle replica.
LEMMA ClaimPreserves ==
  ASSUME TypeOK, ExportInv, NEW w \in Workers, ClaimAuditExportBatch(w)
  PROVE  TypeOK' /\ ExportInv'
<1> USE DEF ExportInv, ClaimAuditExportBatch, Take, trail, storage
<1>1. /\ batch'.status = "running" /\ batch'.lease = w /\ batch'.job = batch.job
      /\ batch' \in [status : {"none", "pending", "running"}, job : Jobs,
                     due : BOOLEAN, lease : Workers \cup {Nobody}]
      /\ batch.status # "none"
  BY DEF TypeOK
<1>2. \A v \in Workers :
        worker'[v] = IF v = w THEN [pc |-> "claimed", job |-> batch.job] ELSE worker[v]
  BY DEF TypeOK
<1>3. TypeOK' BY <1>1, <1>2 DEF TypeOK
<1>4. JobsFit' BY <1>1, <1>2 DEF JobsFit
<1>5. BatchIsCurrent' BY <1>1 DEF BatchIsCurrent
<1>6. LeaseHolder' BY <1>1, <1>2 DEF LeaseHolder, Current
<1>7. WrittenIsStored' /\ RowsOnlyInAudit'
  BY <1>1, <1>2 DEF WrittenIsStored, RowsOnlyInAudit
<1>8. CursorCommitted' /\ StoredPrefix' /\ FutureEmpty' /\ NothingSkipped' /\ VerifiedMeansProbed'
  BY DEF CursorCommitted, StoredPrefix, FutureEmpty, NothingSkipped, VerifiedMeansProbed
<1> QED BY <1>3, <1>4, <1>5, <1>6, <1>7, <1>8

\* An object that reaches the present destination keeps its content a prefix
\* of the log: a late write of an old attempt adds nothing new.
LEMMA StorePreserves ==
  ASSUME TypeOK, ExportInv, NEW w \in Workers, StoreObject(w)
  PROVE  /\ TypeOK' /\ ExportInv'
         /\ \/ stored'[config.revision] = stored[config.revision]
            \/ \E n \in events :
                 /\ stored[config.revision] \subseteq Prefix(events, n)
                 /\ stored'[config.revision] = Prefix(events, n)
<1> USE DEF ExportInv, StoreObject, trail
<1> DEFINE job == worker[w].job
<1>1. job \in Jobs /\ job.revision \in Revision /\ job.rows \subseteq Ids
      /\ worker[w].pc = "writing" /\ Fits(job, events, config)
  BY DEF TypeOK, Jobs, JobsFit
<1>2. \A v \in Workers :
        worker'[v] = IF v = w THEN [pc |-> "stored", job |-> job] ELSE worker[v]
  BY <1>1 DEF TypeOK
<1>3. \A r \in Revision : stored'[r] = IF r = job.revision THEN stored[r] \cup job.rows
                                                           ELSE stored[r]
  BY DEF TypeOK
<1>4. probed \subseteq probed' /\ (job.kind = "test" => job.revision \in probed')
      /\ \A r \in probed' \ probed : r = job.revision
  OBVIOUS
<1>5. TypeOK' BY <1>1, <1>2, <1>4 DEF TypeOK
<1>6. JobsFit' /\ BatchIsCurrent' /\ LeaseHolder' /\ RowsOnlyInAudit' /\ CursorCommitted'
  BY <1>1, <1>2 DEF JobsFit, BatchIsCurrent, LeaseHolder, Current, RowsOnlyInAudit, CursorCommitted
<1>7. WrittenIsStored'
  <2> SUFFICES ASSUME NEW v \in Workers, worker'[v].pc = "stored"
               PROVE  /\ worker'[v].job.rows \subseteq stored'[worker'[v].job.revision]
                      /\ worker'[v].job.kind = "test" => worker'[v].job.revision \in probed'
    BY DEF WrittenIsStored
  <2>1. worker[v].job.revision \in Revision BY DEF TypeOK, Jobs
  <2> QED BY <1>1, <1>2, <1>3, <1>4, <2>1 DEF WrittenIsStored
<1>8. config.revision \in Revision BY DEF TypeOK
<1>9. \/ stored'[config.revision] = stored[config.revision]
      \/ \E n \in events :
           /\ stored[config.revision] \subseteq Prefix(events, n)
           /\ stored'[config.revision] = Prefix(events, n)
  <2>1. CASE job.revision # config.revision BY <1>3, <1>8, <2>1
  <2>2. CASE job.kind # "audit"
    BY <1>3, <1>8, <2>2 DEF RowsOnlyInAudit
  <2>3. CASE job.revision = config.revision /\ job.kind = "audit"
    <3>1. /\ job.last \in events
          /\ job.rows \subseteq Prefix(events, job.last)
          /\ \A i \in events : config.cursor < i /\ i <= job.last => i \in job.rows
      BY <1>1, <2>3 DEF Fits, Prefix
    <3>2. \A i \in events : i <= job.last => i \in job.rows \/ i \in stored[config.revision]
      BY <3>1 DEF NothingSkipped, TypeOK, Ids
    <3>3. stored'[config.revision] = stored[config.revision] \cup job.rows
      BY <1>3, <1>8, <2>3
    <3>4. CASE stored[config.revision] \subseteq Prefix(events, job.last)
      <4>1. stored'[config.revision] = Prefix(events, job.last)
        BY <3>1, <3>2, <3>3, <3>4 DEF Prefix
      <4> QED BY <3>1, <3>4, <4>1
    <3>5. CASE ~(stored[config.revision] \subseteq Prefix(events, job.last))
      <4>1. PICK n \in events : stored[config.revision] = Prefix(events, n)
        BY <3>5 DEF StoredPrefix
      <4>2. job.last <= n
        BY <3>1, <3>5, <4>1 DEF Prefix, TypeOK, Ids
      <4>3. job.rows \subseteq Prefix(events, n)
        BY <3>1, <4>2 DEF Prefix, TypeOK, Ids
      <4> QED BY <3>3, <4>1, <4>3
    <3> QED BY <3>4, <3>5
  <2> QED BY <2>1, <2>2, <2>3
<1>10. StoredPrefix' BY <1>9 DEF StoredPrefix
<1>11. FutureEmpty'
  <2>1. job.revision <= config.revision BY <1>1 DEF Fits
  <2> QED BY <1>1, <1>3, <1>4, <1>8, <2>1 DEF FutureEmpty, Revision
<1>12. NothingSkipped' /\ VerifiedMeansProbed'
  BY <1>3, <1>4, <1>8 DEF NothingSkipped, VerifiedMeansProbed
<1> QED BY <1>5, <1>6, <1>7, <1>9, <1>10, <1>11, <1>12

\* The current attempt's success verifies the destination, or moves the cursor
\* over events that are all stored.
LEMMA SuccessPreserves ==
  ASSUME TypeOK, ExportInv, NEW w \in Workers, RecordSuccess(w)
  PROVE  /\ TypeOK' /\ ExportInv'
         /\ \/ config'.cursor = config.cursor
            \/ /\ config'.cursor \in events /\ config'.cursor > config.cursor
               /\ config.enabled /\ config.verified
               /\ Prefix(events, config'.cursor) \subseteq stored[config.revision]
<1> USE DEF ExportInv, RecordSuccess, Exclusive, NoAudit
<1> DEFINE job == worker[w].job
<1>1. /\ job \in Jobs /\ job = batch.job /\ batch.status = "running"
      /\ job.revision = config.revision /\ Fits(job, events, config)
      /\ job.kind \in {"test", "audit"}
      /\ job.kind = "audit" =>
           job.last > config.cursor /\ config.enabled /\ config.verified
  BY DEF TypeOK, Accepted, Current, LeaseHolder, JobsFit, BatchIsCurrent
<1>2. \A v \in Workers : worker'[v] = IF v = w THEN Idle ELSE worker[v]
  BY DEF Release, TypeOK
<1>3. batch' = NoBatch /\ UNCHANGED <<lock, nextId, events, uncommitted, stored, probed>>
  BY DEF storage
<1>4. config.revision \in Revision /\ config.cursor \in 0..MaxId /\ job.last \in 0..MaxId
  BY <1>1 DEF TypeOK, Jobs
<1>5. /\ config'.revision = config.revision /\ config'.enabled = config.enabled
      /\ config'.cursor = IF job.kind = "test" THEN config.cursor ELSE job.last
      /\ config'.verified = IF job.kind = "test" THEN TRUE ELSE config.verified
      /\ config' \in [revision : Revision, enabled : BOOLEAN, verified : BOOLEAN,
                      cursor : 0..MaxId]
  BY <1>4 DEF TypeOK
<1>6. config.cursor <= config'.cursor BY <1>1, <1>4, <1>5
<1>7. TypeOK'
  <2>1. Idle \in [pc : {"idle", "claimed", "writing", "stored"}, job : Jobs]
        /\ NoJob \in Jobs
    BY DEF Idle, NoJob, Jobs, Revision
  <2>2. worker' \in [Workers -> [pc : {"idle", "claimed", "writing", "stored"}, job : Jobs]]
    BY <2>1 DEF Release, TypeOK
  <2> QED BY <1>3, <1>5, <2>1, <2>2 DEF TypeOK, NoBatch
<1>8. JobsFit'
  <2>1. ASSUME NEW v \in Workers, worker'[v].pc # "idle"
        PROVE  Fits(worker'[v].job, events', config')
    <3>1. worker'[v].job = worker[v].job /\ Fits(worker[v].job, events, config)
          /\ worker[v].job \in Jobs
      BY <1>2, <2>1 DEF JobsFit, Idle, TypeOK
    <3>2. \A i \in events : config'.cursor < i => config.cursor < i
      BY <1>4, <1>5, <1>6 DEF TypeOK, Ids
    <3> QED BY <1>3, <1>5, <3>1, <3>2 DEF Fits
  <2>2. batch'.status = "none" BY <1>3 DEF NoBatch
  <2>3. (\A u \in Workers : worker[u].pc # "idle" => Fits(worker[u].job, events, config))'
    BY <2>1
  <2> HIDE DEF ExportInv, RecordSuccess
  <2> QED BY <2>2, <2>3 DEF JobsFit
<1>9. BatchIsCurrent' /\ LeaseHolder' /\ WrittenIsStored' /\ RowsOnlyInAudit'
  BY <1>2, <1>3 DEF BatchIsCurrent, LeaseHolder, Current, WrittenIsStored,
     RowsOnlyInAudit, NoBatch, NoJob, Idle, TypeOK
<1>10. CursorCommitted' BY <1>1, <1>3, <1>5 DEF CursorCommitted, Fits
<1>11. StoredPrefix' /\ FutureEmpty' BY <1>3, <1>5 DEF StoredPrefix, FutureEmpty
<1>12. job.kind = "audit" => Prefix(events, job.last) \subseteq stored[config.revision]
  <2> SUFFICES ASSUME job.kind = "audit", NEW i \in events, i <= job.last
               PROVE  i \in stored[config.revision]
    BY DEF Prefix
  <2>1. CASE i <= config.cursor BY <2>1 DEF NothingSkipped
  <2>2. CASE i > config.cursor BY <1>1, <2>2 DEF Fits, WrittenIsStored
  <2> QED BY <1>4, <2>1, <2>2 DEF TypeOK, Ids
<1>13. NothingSkipped'
  BY <1>1, <1>3, <1>5, <1>12 DEF NothingSkipped, Prefix
<1>14. VerifiedMeansProbed' BY <1>1, <1>3, <1>5 DEF VerifiedMeansProbed, WrittenIsStored
<1>15. \/ config'.cursor = config.cursor
       \/ /\ config'.cursor \in events /\ config'.cursor > config.cursor
          /\ config.enabled /\ config.verified
          /\ Prefix(events, config'.cursor) \subseteq stored[config.revision]
  BY <1>1, <1>5, <1>12 DEF Fits
<1> QED BY <1>7, <1>8, <1>9, <1>10, <1>11, <1>13, <1>14, <1>15

\* Everything else passes: it releases workers, takes leases away, reschedules.
LEMMA OthersPass ==
  ASSUME TypeOK, ExportInv,
         \/ RetryAuditExport \/ LeaseLapses \/ BackoffEnds
         \/ \E t \in Writers : AddAudit(t) \/ Commit(t) \/ Rollback(t)
         \/ \E w \in Workers : \/ DropClaim(w) \/ StartWrite(w) \/ RecordFailure(w)
                               \/ DropResult(w) \/ Crash(w)
  PROVE  Passes
<1> USE DEF Passes, TypeOK
<1>1. CASE RetryAuditExport BY <1>1 DEF RetryAuditExport, storage
<1>2. CASE LeaseLapses BY <1>2 DEF LeaseLapses, storage
<1>3. CASE BackoffEnds BY <1>3 DEF BackoffEnds, storage
<1>4. CASE \E t \in Writers : AddAudit(t) \/ Commit(t) \/ Rollback(t)
  BY <1>4 DEF AddAudit, Commit, Rollback, EndTransaction, storage
<1>5. ASSUME NEW w \in Workers,
             DropClaim(w) \/ StartWrite(w) \/ RecordFailure(w) \/ DropResult(w) \/ Crash(w)
      PROVE  Passes
  <2>1. Idle \in [pc : {"idle", "claimed", "writing", "stored"}, job : Jobs]
    BY DEF Idle, NoJob, Jobs, Revision
  <2>2. CASE DropClaim(w) \/ DropResult(w) \/ Crash(w)
    BY <2>1, <2>2 DEF DropClaim, DropResult, Crash, Release, storage
  <2>3. CASE StartWrite(w)
    BY <2>1, <2>3 DEF StartWrite, Release, storage
  <2>4. CASE RecordFailure(w)
    BY <2>1, <2>4 DEF RecordFailure, Accepted, Current, Release, storage
  <2> QED BY <1>5, <2>2, <2>3, <2>4
<1> QED BY <1>1, <1>2, <1>3, <1>4, <1>5

-----------------------------------------------------------------------------
(* The invariant, and what follows from it.                                *)

\* Every step keeps the log ordered and lets it grow at its end only.
LEMMA StepGrows ==
  ASSUME TypeOK, LogInv, [Next]_vars
  PROVE  LogInv' /\ Grows
<1>1. CASE Transactions BY <1>1, TransactionGrows DEF Transactions
<1>2. CASE Exclusive /\ (Audit \/ NoAudit) BY <1>2, ExclusiveGrows
<1>3. CASE UNCHANGED trail
  BY <1>3 DEF trail, LogInv, LockOwner, IdsOrdered, Grows, TypeOK
<1>4. CASE Administration \/ PrepareAuditExport
  BY <1>2, <1>4 DEF Administration, SaveAuditExport, TestAuditExport,
     SetAuditExportEnabled, RetryAuditExport, PrepareAuditExport
<1>5. CASE AuditExportTick
  BY <1>2, <1>3, <1>5 DEF AuditExportTick, ClaimAuditExportBatch, Take, DropClaim, StartWrite,
     StoreObject, RecordSuccess, RecordFailure, DropResult, Crash
<1>6. CASE LeaseLapses \/ BackoffEnds \/ UNCHANGED vars
  BY <1>3, <1>6 DEF LeaseLapses, BackoffEnds, vars, trail
<1> QED BY <1>1, <1>4, <1>5, <1>6 DEF Next

\* Steps that pass keep the types.
LEMMA PassesTyped ==
  ASSUME TypeOK, LogInv, Grows, Passes, [Next]_vars
  PROVE  TypeOK'
<1>1. nextId' \in 1..(MaxId + 1) /\ lock' \in Writers \cup {Nobody}
      /\ uncommitted' \in [Writers -> SUBSET Ids]
  <2>1. CASE Transactions BY <2>1, TransactionGrows DEF Transactions
  <2>2. CASE Exclusive /\ (Audit \/ NoAudit) BY <2>2, ExclusiveGrows DEF TypeOK
  <2>3. CASE UNCHANGED trail BY <2>3 DEF trail, TypeOK
  <2>4. CASE Administration \/ PrepareAuditExport
    BY <2>2, <2>4 DEF Administration, SaveAuditExport, TestAuditExport,
       SetAuditExportEnabled, RetryAuditExport, PrepareAuditExport
  <2>5. CASE AuditExportTick
    BY <2>2, <2>3, <2>5 DEF AuditExportTick, ClaimAuditExportBatch, Take, DropClaim, StartWrite,
       StoreObject, RecordSuccess, RecordFailure, DropResult, Crash
  <2>6. CASE LeaseLapses \/ BackoffEnds \/ UNCHANGED vars
    BY <2>3, <2>6 DEF LeaseLapses, BackoffEnds, vars, trail
  <2> QED BY <2>1, <2>4, <2>5, <2>6 DEF Next
<1>2. batch' \in [status : {"none", "pending", "running"}, job : Jobs,
                  due : BOOLEAN, lease : Workers \cup {Nobody}]
      /\ (batch'.lease # Nobody => batch'.status = "running")
  <2>1. NoBatch \in [status : {"none", "pending", "running"}, job : Jobs,
                     due : BOOLEAN, lease : Workers \cup {Nobody}]
    BY DEF NoBatch, NoJob, Jobs, Revision
  <2>2. NoBatch.lease = Nobody BY DEF NoBatch
  <2> QED BY <2>1, <2>2 DEF Passes, TypeOK
<1> QED BY <1>1, <1>2 DEF TypeOK, Passes, Grows, storage

\* Nothing is exported, configured or claimed at the start.
LEMMA InitEstablishes == Init => IInv
<1> SUFFICES ASSUME Init PROVE IInv OBVIOUS
<1> USE DEF Init
<1>1. NoJob \in Jobs /\ NoJob.kind = "none" /\ NoJob.rows = {}
  BY DEF NoJob, Jobs, Revision
<1>2. TypeOK
  BY <1>1 DEF TypeOK, NoBatch, Idle, Revision, Ids
<1>3. LogInv BY DEF LogInv, LockOwner, IdsOrdered
<1>4. \A w \in Workers : worker[w].pc = "idle" /\ worker[w].job = NoJob BY DEF Idle
<1>5. ExportInv
  BY <1>1, <1>2, <1>4 DEF ExportInv, JobsFit, BatchIsCurrent, LeaseHolder, WrittenIsStored,
     RowsOnlyInAudit, CursorCommitted, StoredPrefix, FutureEmpty, NothingSkipped,
     VerifiedMeansProbed, NoBatch, Revision, TypeOK
<1> QED BY <1>2, <1>3, <1>5 DEF IInv

\* Every step keeps the invariant.
LEMMA StepPreserves == IInv /\ [Next]_vars => IInv'
<1> SUFFICES ASSUME IInv, [Next]_vars PROVE IInv' OBVIOUS
<1>1. TypeOK /\ LogInv /\ ExportInv BY DEF IInv
<1>2. LogInv' /\ Grows BY <1>1, StepGrows
<1>3. CASE Passes BY <1>1, <1>2, <1>3, PassesPreserve, PassesTyped DEF IInv
<1>4. CASE Administration
  BY <1>1, <1>2, <1>3, <1>4, SavePreserves, BatchPreserves, EnablePreserves, OthersPass
  DEF Administration, IInv
<1>5. CASE AuditExportTick
  BY <1>1, <1>2, <1>3, <1>5, ClaimPreserves, StorePreserves, SuccessPreserves, OthersPass
  DEF AuditExportTick, IInv
<1>6. CASE PrepareAuditExport BY <1>1, <1>2, <1>6, BatchPreserves DEF IInv
<1>7. CASE Transactions \/ LeaseLapses \/ BackoffEnds
  BY <1>1, <1>3, <1>7, OthersPass DEF Transactions
<1>8. CASE UNCHANGED vars BY <1>1, <1>3, <1>8 DEF vars, Passes, storage, TypeOK
<1> QED BY <1>4, <1>5, <1>6, <1>7, <1>8 DEF Next

\* The inductive invariant holds in every reachable state.
THEOREM InductiveInvariant == Spec => []IInv
BY InitEstablishes, StepPreserves, PTL DEF Spec

\* Every variable keeps its type.
THEOREM TypeCorrect == Spec => []TypeOK
<1>1. IInv => TypeOK BY DEF IInv
<1> QED BY <1>1, InductiveInvariant, PTL

\* The export cursor skips no committed event, for any number of concurrent
\* transactions and replicas and any history of destinations.
THEOREM CursorSkipsNothing == Spec => []NothingSkipped
<1>1. IInv => NothingSkipped BY DEF IInv, ExportInv
<1> QED BY <1>1, InductiveInvariant, PTL

\* No destination is trusted on the strength of an older destination's probe.
THEOREM VerificationIsReal == Spec => []VerifiedMeansProbed
<1>1. IInv => VerifiedMeansProbed BY DEF IInv, ExportInv
<1> QED BY <1>1, InductiveInvariant, PTL

-----------------------------------------------------------------------------
(* Action properties and refinement.                                       *)

\* What a step does to the configuration and to the present destination.
LEMMA StepKinds ==
  ASSUME IInv, [Next]_vars
  PROVE  \/ UNCHANGED <<config, storage>>
         \/ SaveAuditExport
         \/ \E b \in BOOLEAN : SetAuditExportEnabled(b)
         \/ \E w \in Workers : StoreObject(w) \/ RecordSuccess(w)
<1>1. TypeOK /\ ExportInv BY DEF IInv
<1>2. CASE Passes BY <1>2 DEF Passes
<1>3. CASE Administration
  BY <1>1, <1>2, <1>3, OthersPass DEF Administration, TestAuditExport
<1>4. CASE AuditExportTick
  BY <1>1, <1>2, <1>4, OthersPass DEF AuditExportTick, ClaimAuditExportBatch, Take
<1>5. CASE PrepareAuditExport \/ Transactions \/ LeaseLapses \/ BackoffEnds
  BY <1>1, <1>2, <1>5, OthersPass DEF PrepareAuditExport, Transactions
<1>6. CASE UNCHANGED vars BY <1>6 DEF vars, storage
<1> QED BY <1>3, <1>4, <1>5, <1>6 DEF Next

\* The cursor of a paused or superseded export stays where it is.
THEOREM PauseHolds == Spec => PausedCursorStays
<1>1. IInv /\ [Next]_vars =>
        [config'.cursor > config.cursor => config.enabled /\ config.verified]_vars
  <2> SUFFICES ASSUME IInv, [Next]_vars, config'.cursor > config.cursor
               PROVE  config.enabled /\ config.verified
    OBVIOUS
  <2>1. TypeOK /\ ExportInv BY DEF IInv
  <2>2. config.cursor \in Nat BY <2>1 DEF TypeOK
  <2>3. CASE UNCHANGED config \/ config'.cursor = config.cursor BY <2>2, <2>3
  <2>4. CASE SaveAuditExport BY <2>2, <2>4 DEF SaveAuditExport
  <2>5. CASE \E b \in BOOLEAN : SetAuditExportEnabled(b)
    BY <2>1, <2>3, <2>5 DEF SetAuditExportEnabled, TypeOK
  <2>6. CASE \E w \in Workers : StoreObject(w) \/ RecordSuccess(w)
    BY <2>1, <2>3, <2>6, SuccessPreserves DEF StoreObject
  <2> QED BY <2>3, <2>4, <2>5, <2>6, StepKinds
<1> QED BY <1>1, InductiveInvariant, PTL DEF Spec, PausedCursorStays

\* Growth at the end is an abstract append.
LEMMA GrowthAppends ==
  ASSUME Grows
  PROVE  \E ids \in SUBSET (events' \ events) : Delivery!Append(ids)
<1>1. Delivery!Append(events' \ events) BY DEF Grows, Delivery!Append
<1> QED BY <1>1

\* The exporter implements the replicated log.
THEOREM Implements == Spec => DeliverySpec
<1>1. Init => Delivery!Init BY DEF Init, Delivery!Init, Revision
<1>2. IInv /\ [Next]_vars => [Delivery!Next]_(Delivery!vars)
  <2> SUFFICES ASSUME IInv, [Next]_vars PROVE Delivery!Next OBVIOUS
  <2>1. TypeOK /\ LogInv /\ ExportInv BY DEF IInv
  <2>2. Grows BY <2>1, StepGrows
  <2>3. ASSUME stored'[config'.revision] = stored[config.revision],
               config'.cursor = config.cursor
        PROVE  Delivery!Next
    BY <2>2, <2>3, GrowthAppends DEF Delivery!Next, Delivery!Grow
  <2>4. CASE UNCHANGED <<config, storage>> BY <2>3, <2>4 DEF storage
  <2>5. CASE SaveAuditExport
    <3>1. config'.revision \in Revision /\ config'.revision > config.revision
          /\ config'.cursor = 0
      BY <2>1, <2>5 DEF SaveAuditExport, TypeOK, Revision
    <3>2. stored'[config'.revision] = {}
      BY <2>1, <2>5, <3>1 DEF SaveAuditExport, storage, ExportInv, FutureEmpty
    <3> QED BY <2>2, <3>1, <3>2, GrowthAppends
      DEF Delivery!Next, Delivery!SwitchDestination
  <2>6. CASE \E b \in BOOLEAN : SetAuditExportEnabled(b)
    BY <2>1, <2>3, <2>6 DEF SetAuditExportEnabled, storage, TypeOK
  <2>7. ASSUME NEW w \in Workers, StoreObject(w) PROVE Delivery!Next
    <3>1. config' = config /\ events' = events BY <2>7 DEF StoreObject, trail
    <3>2. CASE stored'[config.revision] = stored[config.revision]
      BY <2>3, <3>1, <3>2
    <3>3. CASE \E n \in events :
                 /\ stored[config.revision] \subseteq Prefix(events, n)
                 /\ stored'[config.revision] = Prefix(events, n)
      BY <3>1, <3>3 DEF Prefix, Delivery!Next, Delivery!Extend, Delivery!UpTo
    <3> QED BY <2>1, <2>7, <3>2, <3>3, StorePreserves
  <2>8. ASSUME NEW w \in Workers, RecordSuccess(w) PROVE Delivery!Next
    <3>1. config'.revision = config.revision /\ events' = events /\ stored' = stored
      BY <2>1, <2>8 DEF RecordSuccess, NoAudit, storage, TypeOK
    <3>2. CASE config'.cursor = config.cursor BY <2>3, <3>1, <3>2
    <3>3. CASE /\ config'.cursor \in events /\ config'.cursor > config.cursor
               /\ Prefix(events, config'.cursor) \subseteq stored[config.revision]
      BY <3>1, <3>3 DEF Prefix, Delivery!Next, Delivery!Acknowledge, Delivery!UpTo
    <3> QED BY <2>1, <2>8, <3>2, <3>3, SuccessPreserves
  <2> QED BY <2>4, <2>5, <2>6, <2>7, <2>8, StepKinds
<1> QED BY <1>1, <1>2, InductiveInvariant, PTL DEF Spec, DeliverySpec, Delivery!Spec
=============================================================================
