----------------------------- MODULE AuditExport -----------------------------
(***************************************************************************)
(* Continuous audit export: internal/core/audit_export.go, its SQL, and    *)
(* the way audit events get their ids (AddAudit in queries/core.sql).  One *)
(* organization, transactions that write audit events, and console         *)
(* replicas that each run StartAuditExport.                                *)
(*                                                                         *)
(* Every exporter transaction first locks the organization row, so it is   *)
(* one action that waits for the lock; a transaction that writes events    *)
(* holds the lock from its first event to its end and is split into steps. *)
(* Clocks are events.  As a replica works on one batch at a time, "same    *)
(* attempt and lease, not past" is "the lease is this worker's".  Each     *)
(* saved configuration counts as a destination of its own.                 *)
(***************************************************************************)
EXTENDS Naturals, FiniteSets

CONSTANTS
  Writers,      \* transactions of the rest of the console
  Workers,      \* console replicas
  BatchSize,    \* events per batch: 100 in the code
  MaxId,        \* bound: audit events with larger ids are not tracked
  MaxRevision,  \* bound on how often the destination is configured
  Nobody

ASSUME AuditExportAssumption ==
  /\ BatchSize \in Nat \ {0}
  /\ MaxId \in Nat /\ MaxRevision \in Nat
  /\ Nobody \notin Writers \cup Workers

VARIABLES
  lock,         \* the transaction that holds the organization row
  nextId,       \* the identity sequence of audit_events
  uncommitted,  \* per transaction: ids it has allocated
  events,       \* ids of committed audit events
  config,       \* the audit_exports row; revision 0 before the first save
  batch,        \* the one pending or running row of audit_export_batches
  worker,       \* per replica: its claimed job and how far it has come
  stored,       \* per destination: ids of the events its objects hold
  probed        \* destinations that hold a probe object

trail == <<lock, nextId, uncommitted, events>>
storage == <<stored, probed>>
vars == <<lock, nextId, uncommitted, events, config, batch, worker, stored, probed>>

-----------------------------------------------------------------------------
Ids == 1..MaxId
Revision == 0..MaxRevision

NoJob == [kind |-> "none", rows |-> {}, last |-> 0, revision |-> 0]
Jobs == [kind : {"none", "test", "audit"}, rows : SUBSET Ids,
         last : 0..MaxId, revision : Revision]

NoBatch == [status |-> "none", job |-> NoJob, due |-> FALSE, lease |-> Nobody]
Idle == [pc |-> "idle", job |-> NoJob]

Init ==
  /\ lock = Nobody /\ nextId = 1 /\ events = {}
  /\ uncommitted = [t \in Writers |-> {}]
  /\ config = [revision |-> 0, enabled |-> FALSE, verified |-> FALSE, cursor |-> 0]
  /\ batch = NoBatch
  /\ worker = [w \in Workers |-> Idle]
  /\ stored = [r \in Revision |-> {}]
  /\ probed = {}

-----------------------------------------------------------------------------
(* Audit events.                                                           *)

\* Fault: the id is taken from the sequence without the organization lock.
AddAuditUnlocked(t) ==
  /\ nextId <= MaxId
  /\ uncommitted' = [uncommitted EXCEPT ![t] = @ \cup {nextId}]
  /\ nextId' = nextId + 1
  /\ UNCHANGED <<lock, events, config, batch, worker, storage>>

\* AddAudit locks the organization, then allocates the id.
AddAudit(t) ==
  /\ lock \in {Nobody, t} /\ nextId <= MaxId
  /\ lock' = t
  /\ uncommitted' = [uncommitted EXCEPT ![t] = @ \cup {nextId}]
  /\ nextId' = nextId + 1
  /\ UNCHANGED <<events, config, batch, worker, storage>>

EndTransaction(t) ==
  /\ uncommitted[t] # {}
  /\ uncommitted' = [uncommitted EXCEPT ![t] = {}]
  /\ lock' = IF lock = t THEN Nobody ELSE lock
  /\ UNCHANGED <<nextId, config, batch, worker, storage>>

Commit(t) == EndTransaction(t) /\ events' = events \cup uncommitted[t]

Rollback(t) == EndTransaction(t) /\ UNCHANGED events

\* An exporter transaction holds the lock by itself and may write one event.
Exclusive == lock = Nobody /\ UNCHANGED <<lock, uncommitted>>

Audit ==
  IF nextId <= MaxId
    THEN events' = events \cup {nextId} /\ nextId' = nextId + 1
    ELSE UNCHANGED <<events, nextId>>

NoAudit == UNCHANGED <<events, nextId>>

-----------------------------------------------------------------------------
(* Administration.                                                         *)

\* Fault: a new destination inherits the verification of the old one.
SaveKeepingVerified ==
  /\ Exclusive /\ Audit
  /\ config.revision < MaxRevision
  /\ config' = [config EXCEPT !.revision = @ + 1, !.enabled = FALSE, !.cursor = 0]
  /\ batch' = NoBatch
  /\ UNCHANGED <<worker, storage>>

\* Cancels whatever is pending or running.
SaveAuditExport ==
  /\ Exclusive /\ Audit
  /\ config.revision < MaxRevision
  /\ config' = [revision |-> config.revision + 1, enabled |-> FALSE,
                verified |-> FALSE, cursor |-> 0]
  /\ batch' = NoBatch
  /\ UNCHANGED <<worker, storage>>

Pending(job) == [status |-> "pending", job |-> job, due |-> TRUE, lease |-> Nobody]

TestAuditExport ==
  /\ Exclusive /\ Audit
  /\ config.revision > 0 /\ ~config.enabled
  /\ batch = NoBatch
  /\ batch' = Pending([kind |-> "test", rows |-> {}, last |-> 0,
                        revision |-> config.revision])
  /\ UNCHANGED <<config, worker, storage>>

SetAuditExportEnabled(enabled) ==
  /\ Exclusive /\ Audit
  /\ config.revision > 0
  /\ enabled => config.verified
  /\ config' = [config EXCEPT !.enabled = enabled]
  /\ batch' = IF enabled THEN batch ELSE NoBatch
  /\ UNCHANGED <<worker, storage>>

RetryAuditExport ==
  /\ Exclusive /\ Audit
  /\ batch' = IF batch.status = "pending" THEN [batch EXCEPT !.due = TRUE] ELSE batch
  /\ UNCHANGED <<config, worker, storage>>

-----------------------------------------------------------------------------
(* The worker loop.                                                        *)

Between(lo, hi) == {i \in events : lo < i /\ i <= hi}
Backlog == {i \in events : i > config.cursor}

\* ORDER BY id LIMIT 100, under the lock that orders the ids.  The backlog
\* warning is due or not: it depends on age.  A batch whose archive is beyond the
\* size limit fails the transaction and changes nothing; no other batch is then
\* tried, so Drains is about logs whose batches fit.
PrepareAuditExport ==
  /\ Exclusive /\ (Audit \/ NoAudit)
  /\ batch = NoBatch
  /\ config.enabled /\ config.verified
  /\ \E last \in Backlog :
       LET rows == Between(config.cursor, last) IN
       /\ Cardinality(rows) <= BatchSize
       /\ rows = Backlog \/ Cardinality(rows) = BatchSize
       /\ batch' = Pending([kind |-> "audit", rows |-> rows, last |-> last,
                            revision |-> config.revision])
  /\ UNCHANGED <<config, worker, storage>>

Take(w) ==
  /\ worker[w].pc = "idle"
  /\ batch' = [batch EXCEPT !.status = "running", !.lease = w]
  /\ worker' = [worker EXCEPT ![w] = [pc |-> "claimed", job |-> batch.job]]
  /\ UNCHANGED <<trail, config, storage>>

\* Fault: a batch whose worker died is not picked up again.
ClaimPendingOnly(w) ==
  /\ batch.status = "pending" /\ batch.due
  /\ Take(w)

\* A single statement without the organization lock.
ClaimAuditExportBatch(w) ==
  /\ \/ batch.status = "pending" /\ batch.due
     \/ batch.status = "running" /\ batch.lease = Nobody
  /\ Take(w)

Current(w) == batch.status = "running" /\ batch.lease = w

Release(w) == worker' = [worker EXCEPT ![w] = Idle]

\* The second check of the first transaction; the batch would be canceled.
Authorized(job) ==
  /\ config.revision = job.revision
  /\ job.kind = "audit" => config.enabled /\ config.verified

StartWrite(w) ==
  /\ worker[w].pc = "claimed" /\ Current(w)
  /\ Exclusive /\ NoAudit
  /\ IF Authorized(worker[w].job)
       THEN worker' = [worker EXCEPT ![w].pc = "writing"] /\ UNCHANGED batch
       ELSE Release(w) /\ batch' = NoBatch
  /\ UNCHANGED <<config, storage>>

DropClaim(w) ==
  /\ worker[w].pc = "claimed" /\ ~Current(w)
  /\ Exclusive /\ NoAudit
  /\ Release(w)
  /\ UNCHANGED <<config, batch, storage>>

\* The object reaches the destination the worker read from its configuration;
\* objects are never overwritten.  The response may still be lost.
StoreObject(w) ==
  LET job == worker[w].job IN
  /\ worker[w].pc = "writing"
  /\ worker' = [worker EXCEPT ![w].pc = "stored"]
  /\ stored' = [stored EXCEPT ![job.revision] = @ \cup job.rows]
  /\ probed' = IF job.kind = "test" THEN probed \cup {job.revision} ELSE probed
  /\ UNCHANGED <<trail, config, batch>>

Accepted(w) == Current(w) /\ config.revision = worker[w].job.revision

\* Only after the stored bytes were read back.
RecordSuccess(w) ==
  /\ worker[w].pc = "stored" /\ Accepted(w)
  /\ Exclusive /\ NoAudit
  /\ config' = IF worker[w].job.kind = "test"
                 THEN [config EXCEPT !.verified = TRUE]
                 ELSE [config EXCEPT !.cursor = worker[w].job.last]
  /\ batch' = NoBatch
  /\ Release(w)
  /\ UNCHANGED storage

RecordFailure(w) ==
  /\ worker[w].pc \in {"writing", "stored"} /\ Accepted(w)
  /\ Exclusive /\ Audit
  /\ batch' = [batch EXCEPT !.status = "pending", !.due = FALSE, !.lease = Nobody]
  /\ Release(w)
  /\ UNCHANGED <<config, storage>>

DropResult(w) ==
  /\ worker[w].pc \in {"writing", "stored"} /\ ~Accepted(w)
  /\ Exclusive /\ NoAudit
  /\ Release(w)
  /\ UNCHANGED <<config, batch, storage>>

\* A restart, or a transaction of the tick that fails.
Crash(w) ==
  /\ worker[w].pc # "idle"
  /\ Release(w)
  /\ UNCHANGED <<trail, config, batch, storage>>

LeaseLapses ==
  /\ batch.status = "running" /\ batch.lease # Nobody
  /\ batch' = [batch EXCEPT !.lease = Nobody]
  /\ UNCHANGED <<trail, config, worker, storage>>

BackoffEnds ==
  /\ batch.status = "pending" /\ ~batch.due
  /\ batch' = [batch EXCEPT !.due = TRUE]
  /\ UNCHANGED <<trail, config, worker, storage>>

-----------------------------------------------------------------------------
Transactions == \E t \in Writers : AddAudit(t) \/ Commit(t) \/ Rollback(t)

Administration ==
  \/ SaveAuditExport
  \/ TestAuditExport
  \/ \E b \in BOOLEAN : SetAuditExportEnabled(b)
  \/ RetryAuditExport

AuditExportTick ==
  \E w \in Workers :
    \/ ClaimAuditExportBatch(w)
    \/ DropClaim(w)
    \/ StartWrite(w)
    \/ StoreObject(w)
    \/ RecordSuccess(w)
    \/ RecordFailure(w)
    \/ DropResult(w)
    \/ Crash(w)

Next ==
  \/ Transactions
  \/ Administration
  \/ PrepareAuditExport
  \/ AuditExportTick
  \/ LeaseLapses
  \/ BackoffEnds

Spec == Init /\ [][Next]_vars

\* Transactions end; replicas tick every second and give up calls after 40 s;
\* storage and the attempt under the current lease do not fail for ever.
Fairness ==
  /\ \A t \in Writers : WF_vars(Commit(t) \/ Rollback(t))
  /\ \A w \in Workers : SF_vars(DropClaim(w) \/ DropResult(w))
  /\ SF_vars(PrepareAuditExport)
  /\ SF_vars(\E w \in Workers : ClaimAuditExportBatch(w))
  /\ SF_vars(\E w \in Workers : StartWrite(w))
  /\ SF_vars(\E w \in Workers : Current(w) /\ StoreObject(w))
  /\ SF_vars(\E w \in Workers : RecordSuccess(w))
  /\ WF_vars(LeaseLapses)
  /\ WF_vars(BackoffEnds)

FairSpec == Spec /\ Fairness

-----------------------------------------------------------------------------
(* Properties *)

\* Every variable has its type: a job carries ids and a revision that exist,
\* and only a running batch is leased.
TypeOK ==
  /\ lock \in Writers \cup {Nobody}
  /\ nextId \in 1..(MaxId + 1)
  /\ uncommitted \in [Writers -> SUBSET Ids]
  /\ events \subseteq Ids
  /\ config \in [revision : Revision, enabled : BOOLEAN, verified : BOOLEAN,
                 cursor : 0..MaxId]
  /\ batch \in [status : {"none", "pending", "running"}, job : Jobs,
                due : BOOLEAN, lease : Workers \cup {Nobody}]
  /\ batch.lease # Nobody => batch.status = "running"
  /\ worker \in [Workers -> [pc : {"idle", "claimed", "writing", "stored"}, job : Jobs]]
  /\ stored \in [Revision -> SUBSET Ids]
  /\ probed \subseteq Revision

\* The cursor skips nothing: every committed event up to it is in an object of
\* the current destination, although transactions allocate ids before they
\* commit, replicas overlap, and destinations change under a running write.
NothingSkipped ==
  \A i \in events : i <= config.cursor => i \in stored[config.revision]

\* A destination counts as verified only if a probe object was read back from
\* that destination, whatever older probes are still running.
VerifiedMeansProbed == config.verified => config.revision \in probed

\* A paused export, or one whose destination was replaced, does not move its
\* cursor, even if an upload was in flight when it was paused.
PausedCursorStays ==
  [][config'.cursor > config.cursor => config.enabled /\ config.verified]_vars

\* The exporter implements a replicated log with one writer order.
Delivery == INSTANCE AuditDelivery WITH
  log <- events, copy <- stored[config.revision], position <- config.cursor

\* AuditExport implements AuditDelivery: the destination always holds a prefix
\* of the committed log, and ids commit in the order they are read.
DeliverySpec == Delivery!Spec

\* Nothing is lost to outages and restarts: while export stays enabled and the
\* batches are within their size limit, every committed event is exported in the end.
Drains ==
  <>[]config.enabled => \A i \in Ids : [](i \in events => <>(i <= config.cursor))

=============================================================================
