----------------------------- MODULE Operations -----------------------------
(***************************************************************************)
(* The durable operation queue of internal/core/operations.go and the SQL  *)
(* it runs (internal/database/queries/operations.sql): one organization,   *)
(* one connection, several console replicas, each running operationTick.   *)
(*                                                                         *)
(* An action is one database transaction, or one event at the provider.    *)
(* Clocks are replaced by the events "this deadline has passed", which may *)
(* happen at any time: a worker may be as slow as it likes relative to its *)
(* lease.  A row's lease_until is represented by the worker whose claim    *)
(* wrote it, for as long as it lies in the future: a replica handles one   *)
(* claim at a time, so "equal to the claimed lease_until and not past" is  *)
(* "held by this worker".                                                  *)
(***************************************************************************)
EXTENDS Naturals, FiniteSets

CONSTANTS
  Ops,          \* operation rows that may be created
  Resources,
  Users,
  Keys,         \* idempotency keys clients send
  Workers,      \* console replicas
  Actions,      \* resource actions requested
  Exceptions,   \* whether requests carry a maintenance exception reason
  Changes,      \* administrative changes and permissions that may vary
  MaxRevision,  \* bound on connection, module and maintenance revisions
  Nobody, NoOp, NoResource

ASSUME OperationsAssumption ==
  /\ MaxRevision \in Nat
  /\ Actions \subseteq {"start", "shutdown", "delete"}
  /\ Exceptions \subseteq BOOLEAN
  /\ Nobody \notin Users \cup Workers
  /\ Ops \cap Keys = {}
  /\ NoOp \notin Ops
  /\ NoResource \notin Resources

VARIABLES
  op,           \* the operations table
  worker,       \* per replica: the claimed job and how far it has come
  submitted,    \* per operation: changes the provider has received for it
  onTheWay,     \* operations whose change may still reach the provider although
                \* the worker that sent it no longer waits for an answer
  inventory,    \* the status column of the resources table
  connection,   \* revision and enabled flag of the connection
  module,       \* revision and enabled flag of the provider module
  maintenance,  \* policy revision, current window, whether it is open
  approvalActions, \* organization resource policy: actions needing approval
  managed,      \* resources some managed IaC state owns
  grants,       \* effective permissions of each user
  reviews,      \* signed previews of bulk power actions, held by clients
  drifted       \* history: requests, and keys of previews, whose reviewed facts
                \* have changed since

rowVars == <<op, submitted, onTheWay, inventory, drifted>>
settings == <<connection, module, maintenance, approvalActions, managed, grants,
              reviews>>
vars == <<op, worker, submitted, onTheWay, inventory, connection, module,
          maintenance, approvalActions, managed, grants, reviews, drifted>>

-----------------------------------------------------------------------------
(* Types *)

Pending  == {"awaiting_approval", "queued"}
Blocking == Pending \cup {"dispatching", "observing", "uncertain"}
Settled  == {"succeeded", "failed", "rejected", "canceled", "expired", "resolved"}
Status   == {"absent"} \cup Blocking \cup Settled

ResourceStatus == {"running", "stopped", "deleted"}
Permissions == {"request", "approve", "authority", "override", "identity"}
Timer == {"none", "open", "passed"}
Revision == 0..MaxRevision

Row == [status     : Status,
        resource   : Resources \cup {NoResource},
        action     : Actions \cup {"none"},
        expected   : ResourceStatus,
        requester  : Users \cup {Nobody},
        key        : Keys \cup {"none"},
        exception  : BOOLEAN,
        approver   : Users \cup {Nobody},
        approval   : Timer,       \* approval_expires_at
        expired    : BOOLEAN,     \* expires_at has passed
        deadline   : Timer,       \* observation_deadline
        lease      : Workers \cup {Nobody},
        connection : Revision,
        module     : Revision,
        maintenance: Revision,
        window     : Revision]

NoRow == [status |-> "absent", resource |-> NoResource, action |-> "none",
          expected |-> "deleted", requester |-> Nobody, key |-> "none",
          exception |-> FALSE, approver |-> Nobody, approval |-> "none",
          expired |-> FALSE, deadline |-> "none", lease |-> Nobody,
          connection |-> 0, module |-> 0, maintenance |-> 0, window |-> 0]

\* A preview carries the key the request will use, and may be sent repeatedly.
Review == [key: Keys, user: Users, resource: Resources, action: Actions,
           expected: ResourceStatus, connection: Revision, module: Revision,
           maintenance: Revision, window: Revision]

\* "sent": the change has reached the provider, its answer is outstanding.
Idle == [pc |-> "idle", op |-> NoOp, phase |-> "none"]
Job == {Idle} \cup
       [pc    : {"claimed", "calling", "sent"},
        op    : Ops,
        phase : {"submit", "observe"}]

Init ==
  /\ op = [o \in Ops |-> NoRow]
  /\ worker = [w \in Workers |-> Idle]
  /\ submitted = [o \in Ops |-> 0]
  /\ onTheWay = {}
  /\ inventory = [r \in Resources |-> "running"]
  /\ connection = [revision |-> 0, enabled |-> TRUE]
  /\ module = [revision |-> 0, enabled |-> TRUE]
  /\ maintenance = [revision |-> 0, window |-> 0, open |-> TRUE]
  /\ approvalActions \in SUBSET Actions
  /\ managed = {}
  /\ grants = [u \in Users |-> Permissions]
  /\ reviews = {}
  /\ drifted = {}

-----------------------------------------------------------------------------
(* Guards shared by the handlers *)

Holds(u, ps) == u \in Users /\ ps \subseteq grants[u]

\* operations.delete is needed on top of operations.request or .approve.
Authority(a) == IF a = "delete" THEN {"authority"} ELSE {}
Override(exception) == IF exception THEN {"override"} ELSE {}

PowerAllowed(a, status) ==
  CASE a = "start"    -> status = "stopped"
    [] a = "shutdown" -> status = "running"
    [] a = "delete"   -> status \in {"running", "stopped"}

OwnershipGuard(r, a) == a \in {"start", "shutdown"} \/ r \notin managed

ApprovalRequired(a, exception) ==
  a \in approvalActions \/ (exception /\ approvalActions # {})

\* Fault: the unique index forgets uncertain work.
BusyUnlessUncertain(r) ==
  \E o \in Ops : op[o].resource = r /\ op[o].status \in Blocking \ {"uncertain"}

Busy(r) == \E o \in Ops : op[o].resource = r /\ op[o].status \in Blocking

OperationByKey(u, k) == {o \in Ops : op[o].requester = u /\ op[o].key = k}

ConnectionUnchanged(row) ==
  connection.enabled /\ connection.revision = row.connection
ModuleAllowed(row) == module.enabled /\ module.revision = row.module

\* The reviewed window has ended, or the policy restricts the action now.
MaintenanceAllows(row) ==
  /\ maintenance.revision = row.maintenance
  /\ row.exception \/ (maintenance.open /\ maintenance.window = row.window)

\* Fault: an approval, once given, stays good.
ApprovalGiven(row) == row.approver # Nobody /\ row.approver # row.requester

ApprovalStands(row) ==
  /\ row.approver # Nobody /\ row.approver # row.requester
  /\ row.approval = "open"
  /\ Holds(row.approver, {"approve"})

-----------------------------------------------------------------------------
(* Requests, reviews and manual decisions: one transaction each, which     *)
(* locks the connection, then the operation.                               *)

\* savePowerOutcome: an operation back in observation gives up its lease; the
\* observation deadline is set once and kept.  Every status it writes lies behind the
\* dispatch, where nothing reads expires_at and approval_expires_at any more, and
\* nothing reads the observation deadline of a settled row: what is no longer read is
\* forgotten.
Outcome(row, status) ==
  [row EXCEPT !.status = status,
              !.expired = FALSE, !.approval = "none",
              !.deadline = CASE status \in Settled -> "none"
                             [] status \notin Settled /\ @ = "none" -> "open"
                             [] OTHER -> @,
              !.lease = IF status = "observing" THEN Nobody ELSE @]

SaveOutcome(o, status) == op' = [op EXCEPT ![o] = Outcome(@, status)]

\* A request whose key is already known returns the recorded operation and
\* changes nothing, so only the first one is a step.
NewRequest(o, u, k, r, a, e) ==
  /\ op[o].status = "absent"
  /\ Holds(u, {"request", "identity"} \cup Authority(a) \cup Override(e))
  /\ OwnershipGuard(r, a)
  /\ OperationByKey(u, k) = {}
  /\ module.enabled /\ connection.enabled
  /\ PowerAllowed(a, inventory[r])
  /\ e \/ maintenance.open
  /\ ~Busy(r)
  /\ op' = [op EXCEPT ![o] =
       [NoRow EXCEPT
          !.status = IF ApprovalRequired(a, e) THEN "awaiting_approval" ELSE "queued",
          !.resource = r, !.action = a, !.expected = inventory[r],
          !.requester = u, !.key = k, !.exception = e,
          !.connection = connection.revision, !.module = module.revision,
          !.maintenance = maintenance.revision, !.window = maintenance.window]]
  /\ UNCHANGED <<worker, submitted, onTheWay, inventory, settings>>

RequestOperation(o, u, k, r, a, e) ==
  NewRequest(o, u, k, r, a, e) /\ UNCHANGED drifted

\* One eligible target of a bulk preview: its facts and a random key, signed.
PreviewBulkPower(u, k, r, a) ==
  /\ a \in {"start", "shutdown"} /\ Holds(u, {"request"})
  /\ \A v \in reviews : v.key # k
  /\ \A o \in Ops : op[o].key # k
  /\ module.enabled /\ connection.enabled
  /\ PowerAllowed(a, inventory[r])
  /\ maintenance.open
  /\ ~Busy(r)
  /\ reviews' = reviews \cup
       {[key |-> k, user |-> u, resource |-> r, action |-> a,
         expected |-> inventory[r], connection |-> connection.revision,
         module |-> module.revision, maintenance |-> maintenance.revision,
         window |-> maintenance.window]}
  /\ drifted' = drifted \ {k}
  /\ UNCHANGED <<op, worker, submitted, onTheWay, inventory, connection, module,
                 maintenance, approvalActions, managed, grants>>

\* Fault: only the signature of the preview is checked.
ReviewSigned(v) == v \in reviews

ReviewStands(v) ==
  /\ inventory[v.resource] = v.expected
  /\ connection.revision = v.connection /\ module.revision = v.module
  /\ maintenance.revision = v.maintenance /\ maintenance.window = v.window

\* One target of a bulk request: an ordinary request under the preview's key.
RequestBulkPower(o, v) ==
  /\ ReviewStands(v)
  /\ NewRequest(o, v.user, v.key, v.resource, v.action, FALSE)
  /\ drifted' = drifted \cup {p \in {o} : v.key \in drifted}

MayReview(u, row) ==
  Holds(u, {"approve"} \cup Authority(row.action)) /\ row.requester # u

ApproveOperation(o, u) ==
  LET row == op[o] IN
  /\ row.status = "awaiting_approval" /\ ~row.expired
  /\ MayReview(u, row)
  /\ ModuleAllowed(row)
  /\ MaintenanceAllows(row) /\ Holds(u, Override(row.exception))
  /\ inventory[row.resource] = row.expected
  /\ ConnectionUnchanged(row)
  /\ op' = [op EXCEPT ![o].status = "queued", ![o].approver = u,
                      ![o].approval = "open"]
  /\ UNCHANGED <<worker, submitted, onTheWay, inventory, settings, drifted>>

RejectOperation(o, u) ==
  /\ op[o].status = "awaiting_approval" /\ ~op[o].expired
  /\ MayReview(u, op[o])
  /\ op' = [op EXCEPT ![o].status = "rejected", ![o].approver = u,
                      ![o].approval = "open"]
  /\ UNCHANGED <<worker, submitted, onTheWay, inventory, settings, drifted>>

CancelOperation(o, u) ==
  /\ op[o].status \in Pending
  /\ op[o].requester = u /\ Holds(u, {"request"})
  /\ SaveOutcome(o, "canceled")
  /\ UNCHANGED <<worker, submitted, onTheWay, inventory, settings, drifted>>

\* Fault: checking uncertain work queues it once more.
ReconcileByRetry(o, u) ==
  /\ op[o].status = "uncertain" /\ op[o].lease = Nobody
  /\ Holds(u, {"request"})
  /\ ConnectionUnchanged(op[o])
  /\ op' = [op EXCEPT ![o].status = "queued"]
  /\ UNCHANGED <<worker, submitted, onTheWay, inventory, settings, drifted>>

\* Check provider state: back to observation, which only reads.
ReconcileOperation(o, u) ==
  /\ op[o].status = "uncertain" /\ op[o].lease = Nobody
  /\ Holds(u, {"request"})
  /\ ConnectionUnchanged(op[o])
  /\ op' = [op EXCEPT ![o].status = "observing", ![o].deadline = "open"]
  /\ UNCHANGED <<worker, submitted, onTheWay, inventory, settings, drifted>>

ResolveOperation(o, u) ==
  /\ op[o].status = "uncertain" /\ op[o].lease = Nobody
  /\ MayReview(u, op[o])
  /\ SaveOutcome(o, "resolved")
  /\ UNCHANGED <<worker, submitted, onTheWay, inventory, settings, drifted>>

-----------------------------------------------------------------------------
(* operationTick: each replica sweeps lapsed rows, then claims one job.    *)

ExpirePending(o) ==
  /\ op[o].status \in Pending
  /\ op[o].expired \/ op[o].approval = "passed"
  /\ SaveOutcome(o, "expired")
  /\ UNCHANGED <<worker, submitted, onTheWay, inventory, settings, drifted>>

\* Fault: a lapsed dispatch is simply taken up again.
RequeueDispatch(o) ==
  /\ op[o].status = "dispatching" /\ op[o].lease = Nobody
  /\ SaveOutcome(o, "queued")
  /\ UNCHANGED <<worker, submitted, onTheWay, inventory, settings, drifted>>

ExpireDispatch(o) ==
  /\ op[o].status = "dispatching" /\ op[o].lease = Nobody
  /\ SaveOutcome(o, "uncertain")
  /\ UNCHANGED <<worker, submitted, onTheWay, inventory, settings, drifted>>

\* FOR UPDATE SKIP LOCKED: two replicas never claim the same row.
ClaimOperation(w, o) ==
  /\ worker[w].pc = "idle"
  /\ op[o].status \in {"queued", "observing"} /\ op[o].lease = Nobody
  /\ op' = [op EXCEPT ![o].lease = w,
              ![o].status = IF @ = "queued" THEN "dispatching" ELSE @]
  /\ worker' = [worker EXCEPT ![w] =
       [pc |-> "claimed", op |-> o,
        phase |-> IF op[o].status = "queued" THEN "submit" ELSE "observe"]]
  /\ UNCHANGED <<submitted, onTheWay, inventory, settings, drifted>>

StatusOf(phase) == IF phase = "submit" THEN "dispatching" ELSE "observing"

\* The job a worker holds is still the one the row records.
Current(w) ==
  LET row == op[worker[w].op] IN
  row.lease = w /\ row.status = StatusOf(worker[w].phase)

\* What lets a claimed job go ahead; the second part only before a submission.
Observable(row) == Holds(row.requester, {"request"} \cup Authority(row.action))
                   /\ (row.approver # Nobody => Holds(row.approver, Authority(row.action)))
                   /\ ConnectionUnchanged(row)

Submittable(row) ==
  LET people == {row.requester} \cup ({row.approver} \ {Nobody}) IN
  /\ ModuleAllowed(row)
  /\ MaintenanceAllows(row)
  /\ \A u \in people : Holds(u, {"identity"} \cup Override(row.exception))
  /\ inventory[row.resource] = row.expected
  /\ ~row.expired
  /\ ApprovalRequired(row.action, row.exception) \/ row.approver # Nobody
       => ApprovalStands(row)
  /\ OwnershipGuard(row.resource, row.action)

\* Fault: observation goes on for ever.
PermittedForever(w) ==
  /\ Observable(op[worker[w].op])
  /\ worker[w].phase = "submit" => Submittable(op[worker[w].op])

Permitted(w) ==
  LET row == op[worker[w].op] IN
  /\ Observable(row)
  /\ worker[w].phase = "submit" => Submittable(row)
  /\ worker[w].phase = "observe" => row.deadline # "passed"

Release(w) == worker' = [worker EXCEPT ![w] = Idle]

\* First transaction of runOperation.  A missing runtime or credential, or a target
\* the request cannot express, refuses a permitted job too: a choice, as none of them
\* is state of this system.
DropClaim(w) ==
  /\ worker[w].pc = "claimed" /\ ~Current(w)
  /\ Release(w)
  /\ UNCHANGED <<rowVars, settings>>

RefuseClaim(w) ==
  /\ worker[w].pc = "claimed" /\ Current(w)
  /\ \/ SaveOutcome(worker[w].op,
          IF worker[w].phase = "submit" THEN "canceled" ELSE "uncertain")
     \/ /\ Permitted(w)
        /\ \E status \in {"failed"} \cup (IF worker[w].phase = "submit" THEN {}
                                                                   ELSE {"uncertain"}) :
             SaveOutcome(worker[w].op, status)
  /\ Release(w)
  /\ UNCHANGED <<submitted, onTheWay, inventory, settings, drifted>>

CallProvider(w) ==
  /\ worker[w].pc = "claimed" /\ Current(w) /\ Permitted(w)
  /\ worker' = [worker EXCEPT ![w].pc = "calling"]
  /\ UNCHANGED <<rowVars, settings>>

\* The provider receives the change; the answer may still be lost.
ProviderReceives(w) ==
  /\ worker[w].pc = "calling" /\ worker[w].phase = "submit"
  /\ worker' = [worker EXCEPT ![w].pc = "sent"]
  /\ submitted' = [submitted EXCEPT ![worker[w].op] = @ + 1]
  /\ UNCHANGED <<op, onTheWay, inventory, settings, drifted>>

\* The worker stops waiting before the change has arrived: the call timed out, the
\* connection broke, the replica died.
GivesUp(w) ==
  onTheWay' = onTheWay \cup {o \in Ops : /\ worker[w].pc = "calling"
                                        /\ worker[w].phase = "submit"
                                        /\ worker[w].op = o}

ArrivesLate(o) ==
  /\ o \in onTheWay
  /\ onTheWay' = onTheWay \ {o}
  /\ submitted' = [submitted EXCEPT ![o] = @ + 1]
  /\ UNCHANGED <<op, worker, inventory, settings, drifted>>

\* What a call may end with: no usable answer, one of the outcomes of the
\* provider protocol, or a success the observed state does not confirm.
Answers(w) ==
  IF worker[w].pc = "sent" \/ worker[w].phase = "observe"
    THEN {"none", "accepted", "succeeded", "unconfirmed", "failed", "uncertain"}
    ELSE {"none", "failed", "uncertain"}

StatusAfter(phase, answer) ==
  CASE answer = "none" -> IF phase = "submit" THEN "uncertain" ELSE "observing"
    [] answer = "accepted" -> "observing"
    [] answer = "unconfirmed" -> "uncertain"
    [] OTHER -> answer

\* Second transaction of runOperation: a late answer is dropped.
DropAnswer(w) ==
  /\ worker[w].pc \in {"calling", "sent"} /\ ~Current(w)
  /\ GivesUp(w)
  /\ Release(w)
  /\ UNCHANGED <<op, submitted, inventory, settings, drifted>>

RecordAnswer(w) ==
  /\ worker[w].pc \in {"calling", "sent"} /\ Current(w)
  /\ \E answer \in Answers(w) :
       LET o == worker[w].op
           status == StatusAfter(worker[w].phase, answer) IN
       /\ SaveOutcome(o, status)
       /\ inventory' = IF status = "succeeded" /\ op[o].action = "delete"
                         THEN [inventory EXCEPT ![op[o].resource] = "deleted"]
                         ELSE inventory
       /\ IF status = "failed" THEN UNCHANGED onTheWay ELSE GivesUp(w)
  /\ Release(w)
  /\ UNCHANGED <<submitted, settings, drifted>>

\* A replica restarts, or a transaction of runOperation fails and its error is
\* only logged: the claim stays in the row.
Crash(w) ==
  /\ worker[w].pc # "idle"
  /\ GivesUp(w)
  /\ Release(w)
  /\ UNCHANGED <<op, submitted, inventory, settings, drifted>>

-----------------------------------------------------------------------------
(* Time.  A timer that no handler reads any more is left alone.            *)

LeaseLapses(o) ==
  /\ op[o].status \in Blocking /\ op[o].lease # Nobody
  /\ op' = [op EXCEPT ![o].lease = Nobody]
  /\ UNCHANGED <<worker, submitted, onTheWay, inventory, settings, drifted>>

RequestExpires(o) ==
  /\ op[o].status \in Pending \cup {"dispatching"} /\ ~op[o].expired
  /\ op' = [op EXCEPT ![o].expired = TRUE]
  /\ UNCHANGED <<worker, submitted, onTheWay, inventory, settings, drifted>>

ApprovalLapses(o) ==
  /\ op[o].status \in {"queued", "dispatching"} /\ op[o].approval = "open"
  /\ op' = [op EXCEPT ![o].approval = "passed"]
  /\ UNCHANGED <<worker, submitted, onTheWay, inventory, settings, drifted>>

DeadlinePasses(o) ==
  /\ op[o].status = "observing" /\ op[o].deadline = "open"
  /\ op' = [op EXCEPT ![o].deadline = "passed"]
  /\ UNCHANGED <<worker, submitted, onTheWay, inventory, settings, drifted>>

ReviewLapses(v) ==
  /\ reviews' = reviews \ {v}
  /\ drifted' = drifted \ {v.key}
  /\ UNCHANGED <<op, worker, submitted, onTheWay, inventory, connection, module,
                 maintenance, approvalActions, managed, grants>>

-----------------------------------------------------------------------------
(* Administration and discovery, as far as operations depend on them.      *)

\* Requests not yet sent, and previews, whose reviewed facts change in this step.
Drift(os) ==
  drifted' = drifted \cup {v.key : v \in reviews}
                     \cup {o \in os : op[o].status \in Pending \cup {"dispatching"}}

ChangeConnection(enabled) ==
  /\ "connection" \in Changes /\ connection.revision < MaxRevision
  /\ connection' = [revision |-> connection.revision + 1, enabled |-> enabled]
  /\ Drift(Ops)
  /\ UNCHANGED <<op, worker, submitted, onTheWay, inventory, module, maintenance,
                 approvalActions, managed, grants, reviews>>

ChangeModule(enabled) ==
  /\ "module" \in Changes /\ module.revision < MaxRevision
  /\ module' = [revision |-> module.revision + 1, enabled |-> enabled]
  /\ Drift(Ops)
  /\ UNCHANGED <<op, worker, submitted, onTheWay, inventory, connection, maintenance,
                 approvalActions, managed, grants, reviews>>

ChangeMaintenancePolicy(open) ==
  /\ "maintenance" \in Changes /\ maintenance.revision < MaxRevision
  /\ maintenance' = [maintenance EXCEPT !.revision = @ + 1, !.open = open]
  /\ Drift(Ops)
  /\ UNCHANGED <<op, worker, submitted, onTheWay, inventory, connection, module,
                 approvalActions, managed, grants, reviews>>

WindowCloses ==
  /\ "maintenance" \in Changes /\ maintenance.open
  /\ maintenance' = [maintenance EXCEPT !.open = FALSE]
  /\ Drift({o \in Ops : ~op[o].exception})
  /\ UNCHANGED <<op, worker, submitted, onTheWay, inventory, connection, module,
                 approvalActions, managed, grants, reviews>>

WindowOpens ==
  /\ "maintenance" \in Changes /\ ~maintenance.open
  /\ maintenance.window < MaxRevision
  /\ maintenance' = [maintenance EXCEPT !.window = @ + 1, !.open = TRUE]
  /\ UNCHANGED <<op, worker, submitted, onTheWay, inventory, connection, module,
                 approvalActions, managed, grants, reviews, drifted>>

SaveResourcePolicy(actions) ==
  /\ "policy" \in Changes
  /\ approvalActions' = actions
  /\ UNCHANGED <<op, worker, submitted, onTheWay, inventory, connection, module,
                 maintenance, managed, grants, reviews, drifted>>

IndexOwnership(r) ==
  /\ "ownership" \in Changes
  /\ managed' = managed \cup {r}
  /\ UNCHANGED <<op, worker, submitted, onTheWay, inventory, connection, module,
                 maintenance, approvalActions, grants, reviews, drifted>>

ChangeAccess(u, p) ==
  /\ p \in Changes
  /\ grants' = [grants EXCEPT ![u] = IF p \in @ THEN @ \ {p} ELSE @ \cup {p}]
  /\ UNCHANGED <<op, worker, submitted, onTheWay, inventory, connection, module,
                 maintenance, approvalActions, managed, reviews, drifted>>

DiscoveryObserves(r, status) ==
  /\ "inventory" \in Changes
  /\ inventory' = [inventory EXCEPT ![r] = status]
  /\ UNCHANGED <<op, worker, submitted, onTheWay, settings, drifted>>

-----------------------------------------------------------------------------
Handlers ==
  \E o \in Ops, u \in Users :
    \/ \E k \in Keys, r \in Resources, a \in Actions, e \in Exceptions :
         \/ RequestOperation(o, u, k, r, a, e)
         \/ PreviewBulkPower(u, k, r, a)
    \/ \E v \in reviews : RequestBulkPower(o, v)
    \/ ApproveOperation(o, u)
    \/ RejectOperation(o, u)
    \/ CancelOperation(o, u)
    \/ ReconcileOperation(o, u)
    \/ ResolveOperation(o, u)

Tick ==
  \E o \in Ops :
    \/ ExpirePending(o)
    \/ ExpireDispatch(o)
    \/ \E w \in Workers : ClaimOperation(w, o)

RunOperation ==
  \E w \in Workers :
    \/ DropClaim(w)
    \/ RefuseClaim(w)
    \/ CallProvider(w)
    \/ ProviderReceives(w)
    \/ DropAnswer(w)
    \/ RecordAnswer(w)
    \/ Crash(w)

Provider == \E o \in Ops : ArrivesLate(o)

Time ==
  \/ \E o \in Ops :
       \/ LeaseLapses(o)
       \/ RequestExpires(o)
       \/ ApprovalLapses(o)
       \/ DeadlinePasses(o)
  \/ \E v \in reviews : ReviewLapses(v)

Administration ==
  \/ \E b \in BOOLEAN :
       \/ ChangeConnection(b)
       \/ ChangeModule(b)
       \/ ChangeMaintenancePolicy(b)
  \/ WindowCloses
  \/ WindowOpens
  \/ \E actions \in SUBSET Actions : SaveResourcePolicy(actions)
  \/ \E r \in Resources : IndexOwnership(r)
  \/ \E u \in Users, p \in Permissions : ChangeAccess(u, p)
  \/ \E r \in Resources, s \in ResourceStatus : DiscoveryObserves(r, s)

Next == Handlers \/ Tick \/ RunOperation \/ Provider \/ Time \/ Administration

Spec == Init /\ [][Next]_vars

\* A claim of this operation gets past its first transaction.
Proceed(o) == \E w \in Workers :
  worker[w].op = o /\ (RefuseClaim(w) \/ CallProvider(w))

\* Clocks advance; a replica ticks every second; provider calls time out; the
\* claim query takes the longest-due row first, and a claim does not lose its
\* lease before its first transaction every single time.
Fairness ==
  /\ \A o \in Ops :
       /\ WF_vars(LeaseLapses(o))
       /\ WF_vars(RequestExpires(o))
       /\ WF_vars(DeadlinePasses(o))
       /\ WF_vars(ExpirePending(o))
       /\ WF_vars(ExpireDispatch(o))
       /\ SF_vars(\E w \in Workers : ClaimOperation(w, o))
       /\ SF_vars(Proceed(o))
  /\ \A w \in Workers :
       /\ WF_vars(DropClaim(w) \/ RefuseClaim(w))
       /\ WF_vars(DropAnswer(w) \/ RecordAnswer(w))

FairSpec == Spec /\ Fairness

-----------------------------------------------------------------------------
(* Properties *)

\* Every variable has its type; in particular only the eleven statuses of the
\* operations table's CHECK constraint are ever stored.
TypeOK ==
  /\ op \in [Ops -> Row]
  /\ worker \in [Workers -> Job]
  /\ submitted \in [Ops -> Nat]
  /\ onTheWay \subseteq Ops
  /\ inventory \in [Resources -> ResourceStatus]
  /\ connection \in [revision: Revision, enabled: BOOLEAN]
  /\ module \in [revision: Revision, enabled: BOOLEAN]
  /\ maintenance \in [revision: Revision, window: Revision, open: BOOLEAN]
  /\ approvalActions \subseteq Actions
  /\ managed \subseteq Resources
  /\ grants \in [Users -> SUBSET Permissions]
  /\ reviews \subseteq Review
  /\ drifted \subseteq Ops \cup Keys

\* However often a client retries a request key, whatever crashes, expires or
\* is reconciled, the provider receives at most one change for that key.
KeySubmitsOnce ==
  \A o, p \in Ops :
    /\ submitted[o] <= 1
    /\ submitted[o] > 0 /\ submitted[p] > 0
         /\ op[o].requester = op[p].requester /\ op[o].key = op[p].key => o = p

\* A request that reads as pending, canceled, rejected or expired has not been
\* sent, and no worker, however slow, is still about to send it, nor is a change
\* for it still on its way.
UnsentIsUnsent ==
  \A o \in Ops :
    op[o].status \in {"absent", "canceled", "rejected", "expired"} \cup Pending =>
      /\ submitted[o] = 0 /\ o \notin onTheWay
      /\ \A w \in Workers : worker[w].op = o => worker[w].pc \notin {"calling", "sent"}

Submitting(w) == worker[w].phase = "submit" /\ worker[w].pc # "idle"

\* While a worker submits under its lease, its row is the only unsettled one of
\* the resource, nobody else submits for the row, and any other worker still
\* submitting for the resource has lost its lease.
LeaseFencesSubmission ==
  \A w \in Workers :
    LET o == worker[w].op IN
    Submitting(w) /\ op[o].lease = w =>
      /\ op[o].status = "dispatching"
      /\ \A p \in Ops \ {o} :
           op[p].resource = op[o].resource => op[p].status \notin Blocking
      /\ \A v \in Workers \ {w} :
           LET p == worker[v].op IN
           Submitting(v) /\ op[p].resource = op[o].resource =>
             p # o /\ op[p].lease # v

StartsSubmission(w) ==
  /\ worker[w].pc = "claimed" /\ worker[w].phase = "submit"
  /\ worker'[w].pc = "calling"

\* What is sent is what was reviewed: between the request, or the preview of a
\* bulk request, and the start of the submission the credential, the module and
\* the maintenance policy have not changed, and the reviewed window has not
\* ended, even if they changed back.
SubmitsOnlyReviewedFacts ==
  [][\A w \in Workers : StartsSubmission(w) => worker[w].op \notin drifted]_vars

\* The rules in force when a submission starts decide, not those under which
\* the request was queued: an action that now needs approval has an unexpired
\* one by somebody else who may still approve, a deletion has two people's
\* standing authority, and a resource an IaC state has taken over is left alone.
CurrentRulesGovern ==
  [][\A w \in Workers : StartsSubmission(w) =>
       LET row == op[worker[w].op] IN
       /\ row.action \in approvalActions =>
            \E u \in Users \ {row.requester} :
              /\ row.approver = u /\ row.approval = "open"
              /\ {"approve"} \cup Authority(row.action) \subseteq grants[u]
       /\ row.action = "delete" =>
            /\ "authority" \in grants[row.requester]
            /\ row.resource \notin managed
            /\ inventory[row.resource] # "deleted"]_vars

\* The coordinator implements the operation life cycle.
PhaseOf(row) ==
  CASE row.status = "absent" -> "absent"
    [] row.status \in Pending -> "pending"
    [] row.status \in {"succeeded", "failed"} -> "finished"
    [] row.status \in {"rejected", "canceled", "expired"} -> "withdrawn"
    [] OTHER -> row.status

Lifecycle == INSTANCE OperationLifecycle WITH
  phase <- [o \in Ops |-> PhaseOf(op[o])],
  target <- [o \in Ops |-> op[o].resource],
  sent <- submitted

\* Operations implements OperationLifecycle: exclusive, sent at most once, and
\* uncertain work is settled by observation or by a person, never by a late
\* answer.
LifecycleSpec == Lifecycle!Spec

\* Work does not linger: whatever crashes, each request is settled or handed
\* to a person as uncertain.
Decided ==
  \A o \in Ops :
    op[o].status \in Blocking \ {"uncertain"}
      ~> op[o].status \in Settled \cup {"uncertain"}

=============================================================================
