# Verification of Providah Community

Providah is a self-hosted console for cloud operations: a Go service (Connect
RPC over PostgreSQL), one or more replicas of it, a launcher that starts one
container per provider call, and a web console. This directory holds TLA+
models of its core, TLC configurations that check them, and TLAPS proofs.

Everything the console does to the outside world goes through rows of
PostgreSQL: a request writes a row, every replica polls for claimable rows once
a second, a claim takes a lease, the call to the cloud (or bucket, or mail
server) happens between two transactions, and a second transaction records what
happened if the row is still the claimed one. That shape is the same for
operations, scans, audit batches, notifications, schedules and validations; the
hard questions are the same too: who may act on a row between the two
transactions, what a late answer may still change, what a crash leaves behind,
and which of the facts read before the call still hold after it.

## Components

| Component (source) | State | Operations | Interacts with | Hard behaviour | Correct means |
|---|---|---|---|---|---|
| Operation coordinator (`internal/core/operations.go`) | `operations` rows: status, lease, approval, deadlines, reviewed revisions | request, review, cancel, reconcile, resolve; expiry sweep, claim, dispatch, observe, record | provider runtimes, inventory, connection, module, maintenance and resource policy, permissions | two replicas, lost leases, late answers, crash between intent and call, settings that change while a request waits | one change per request key; unsent means unsent; one change in flight per resource; current rules decide; every request is settled or handed to a person |
| Provider protocol and adapters (`sdk/provider`, `internal/providers`) | none | power, create, discover, tags, snapshots | clouds | answer lost, accepted but not completed | outcome words mean what the coordinator takes them for |
| Maintenance windows (`maintenance.go`) | policies with weekly windows | save, delete, evaluate | operations, schedules | time zones, windows that end between review and dispatch | a restricted action does not start outside its reviewed window |
| Provider modules, runtimes (`modules.go`, `runtime_audit.go`) | enablement, selected runtime, revision | enable, select, audit | operations, discovery | changes while work is claimed | work runs only under the module revision it was queued for |
| Resource policy, ownership (`resource_policy.go`, `ownership.go`) | actions that need approval; resources an IaC state owns | save, index | operations, managed state | policy stricter after review | as above |
| Connections, credentials (`service.go`, `security.go`) | encrypted credential, enabled, revision | create, rotate, enable, disable, delete | everything that calls a cloud | rotation during a call | results of an old credential are not attributed to the new one |
| Inventory discovery (`discovery.go`) | `scan_jobs`, `resources` | refresh, queue due, claim, list, publish, expire | operations write the same rows | overtaken and late scans | the inventory never goes back, and converges |
| Audit export (`audit_export.go`) | cursor, configuration, one open batch | save, test, enable, pause, retry, prepare, claim, write, record | every transaction that writes audit events, S3 | id order against commit order, paused or replaced destination with a write in flight | nothing skipped, nothing recorded for the wrong destination, drains |
| Schedules (`schedules.go`) | definitions, occurrences | save, approve, enable, delete, tick | operations | missed and overlapping occurrences | none twice, none late, none without its approval |
| Notifications (`notifications.go`) | outbox, attempts, destinations | enqueue, deliver, redeliver, subscribe | SMTP, webhooks | crash during delivery, edited destination | bounded attempts, nothing to a stale destination |
| Automation validation (`automation_validation.go`, `automation_versions.go`) | versions, validation runs | publish, retire, queue, cancel, expire, claim, record | launcher, connections | late result after cancel, connection rotated during a run | a success is the job's own and about the version and connection asked for; every job is settled |
| Launcher (`internal/launcher`) | slots; containers and volumes at the docker daemon | start, clean up, reap | validations, docker | killed commands that take effect later, restarts | the reaper spares calls at work; nothing stays behind |
| Managed IaC state (`managed_state.go`) | encrypted state, lock, serial, lineage | lock, unlock, upload, read | ownership index | concurrent clients, lost response | no lost update, retries are harmless |
| Sessions and account (`service.go`, `recovery.go`, `administrator.go`, `oidc.go`) | password, authenticator seed and step, recovery codes, identity link, refresh tokens | login, refresh, logout, change password, codes, MFA, link, unlink, revoke | every handler, OIDC provider | checks made before the transaction, two tabs, lost answers, an administrator meanwhile | open sessions fit the present credentials; proofs are spent; the browser keeps a good token |
| Membership and access (`access.go`, `teams.go`, `identity_policy.go`, `installation_directory.go`) | roles, members, team, invitations, identity policy, accounts | edit, invite, revoke, accept, enforce | all handlers | concurrent demotion, terms that change under an invitation | an administrator remains; nobody changes permissions beyond their own |
| Bulk power, creation, deletion, templates | signed previews held by clients; operations without or with many rows | preview, request | operations | facts that change, or change back, between preview and request; a request answered in part and sent again | what is sent is what was previewed; one change per key |
| Key rotation, recovery (`key_rotation.go`, `recovery.go`) | encryption envelopes, offline accounts | re-encrypt all, reset | every encrypted column | one transaction that locks the tables | no envelope left behind |
| Artifacts, sources, storage clients, HTTP surface, telemetry, command-line client, web, generated code | | | | | not modelled: see below |

## Modules

| Module | What it is |
|---|---|
| `OperationLifecycle` | What the operation coordinator promises: a resource has at most one unsettled operation, an operation is sent at most once and only while dispatching, uncertain work is settled by observation or by a person. |
| `Operations` | `operations.go` and its SQL, and the bulk requests of `bulk_power.go`, one action per handler, sweep, claim and transaction. |
| `OperationsProofs` | Inductive invariant and action properties of `Operations`; the refinement of `OperationLifecycle`. |
| `AuditDelivery` | What audit export promises: the copy is a prefix of the committed log. |
| `AuditExport` | `audit_export.go`, its SQL, and the allocation of event ids. |
| `AuditExportProofs` | Invariant, action property and the refinement of `AuditDelivery`. |
| `Discovery` | `discovery.go` and its SQL, against operations that write the inventory. |
| `DiscoveryProofs` | Invariant and both action properties. |
| `StateRegister` | What managed state promises: a register with a history, in which no version is replaced by one computed without it. |
| `ManagedState` | `managed_state.go` for one project, against the Terraform processes that use it and a network that loses, delays and repeats. |
| `ManagedStateProofs` | Invariant, exclusion, durability and the refinement of `StateRegister`. |
| `Notifications` | `notifications.go` and its SQL for one destination. |
| `NotificationsProofs` | Invariants, and the theorems about addresses, history and the budget of attempts. |
| `Schedules` | `schedules.go` for one schedule with one target, and the dispatch checks of its operations. |
| `SchedulesProofs` | Invariant of `Schedules` and theorems for all its properties; the slots and maintenance windows of `Calendar`. |
| `AutomationValidation` | `automation_validation.go`, publishing and retiring versions, and the SQL of both. |
| `Launcher` | `internal/launcher` for isolated validation runs, and the docker daemon it commands. |
| `AutomationRun` | Both composed: a replica's call is a call of the launcher. |
| `AutomationRunProofs` | Invariants of both, and that the composition implements `AutomationValidation`. |
| `Calendar` | `schedule_time.go` and the windows of `maintenance.go`, as functions on a clock that is changed once. |
| `Sessions` | Sign-in, refresh and account changes of one person. |
| `Access` | Roles, members, a team, invitations, the identity policy and installation accounts. |
| `IdentityProofs` | Invariants and action properties of `Sessions` and of `Access`. |
| `MC...` | What TLC needs: symmetry, small input sets, and `Within`, the region a run explores (see *Bounds*). |

### Operations

A database transaction is one action; the call to the provider lies between
two of them and is split where the world can change (`CallProvider` commits the
intent, `ProviderReceives` is the moment the cloud acts, `RecordAnswer` or
`DropAnswer` the second transaction). A call whose worker stops waiting for it,
because of its deadline, a broken connection or a crash, may still be on its
way: `onTheWay` holds such changes and `ArrivesLate` delivers them, at any later
moment or never. Timestamps are represented by events that
may occur at any time: `LeaseLapses`, `RequestExpires`, `ApprovalLapses`,
`DeadlinePasses`. A lease is represented by the worker that holds it, because a
replica works on one claim at a time and a reclaimed row has a new
`lease_until`. Settings are revisions and flags; they change under the model's
feet at any moment, and a history variable (`drifted`) remembers requests whose
reviewed facts have changed since, even if they changed back. `Changes` names
what varies in a run, so that each run explores one kind of interference
completely. Reasons a claim may be refused that depend on data outside the
model (a runtime that is gone, a credential that does not decrypt, stale
inventory) are a free choice in `RefuseClaim`. An idempotent retry that finds
its row changes nothing and is a stuttering step.

Bulk power keeps no state of its own: a preview is a signed token per target
that carries the facts shown and the request key to use, and a bulk request is
one ordinary request after the other, each in its own transaction. `reviews`
is the set of tokens in the clients' hands; `PreviewBulkPower` and
`RequestBulkPower` handle one target, `NewRequest` is what single and bulk
requests share, and `ReviewStands` is what the request compares with the token.
The preview reads its facts one by one; since revisions only grow and each is
compared for itself, a preview at one instant has the same effect.

A stalled replica can send its change after its row was marked uncertain, even
after a person resolved it: the code holds no fence at the provider.
`OperationLifecycle` says so (sending is possible until then), and the
properties say what does hold: the key is still sent at most once, and while a
*leased* submission runs the resource has no other unsettled row. The same is
true of a change that arrives when nobody waits for it any more.

### Audit export

Every exporter transaction begins by locking the organization row
(`LockAuditScope`), and so does `AddAudit` before it draws an id. That lock is
what makes "ids below the cursor are all committed" true; transactions that
write events are therefore split into allocation and commit, and the exporter's
own transactions wait for the lock. The object store is the set of ids a
destination holds; a destination is identified by the revision of the saved
configuration. A request that the client gave up may reach the bucket later; it
rewrites nothing (`If-None-Match: *`) and carries rows the retry carries too.

An archive beyond the size limit (`audit_export.go:68`, `:80`) fails the
transaction that prepares the batch. That stores nothing and is no step of the
model. Since the next tick prepares the same batch again, such a log stands
still until somebody acts; `Drains` is about logs whose batches fit.

### Discovery

The cloud's picture of a resource is a version number. Inventory rows and
listings carry the version they were read at, so "goes back" is an inequality.
The overtaken check compares `operations.updated_at` (the start of the
operation's last transaction) with `scan_jobs.created_at`; the model keeps the
result of that comparison per resource (`touched`) and the one thing it depends
on, whether the recording transaction started before or after the scan was
queued (`fresh`). One connection is modelled: scans of different connections
share nothing but the claim order. All kinds of resources are taken to be
covered by the listing.

An operation may itself write an older picture over a newer scan (it asks for a
refresh in the same transaction); `ScansNeverGoBack` is about the scan's own
steps, and `Refreshed` says that the rows converge.

### Managed state

The HTTP backend's handler is one transaction per request, so each request is
one action. What makes it hard lies outside: a Terraform process locks, reads,
computes, uploads and unlocks, and its answers may be lost, its requests
repeated, or arrive after it gave up. `ManagedState` therefore keeps the set of
requests that may still arrive; uploads and unlocks may arrive late, any number
of times or never. A LOCK request is answered or withdrawn: the runner waits for
it before it does anything, and the server drops a request whose connection is
closed. A document is its lineage, its serial and what else its
hash covers, together with what its author knew when it computed it. The lock never expires
(the code has no such rule), so a dead runner blocks the project until its
session unlocks it, and nothing about liveness is claimed. Project creation, the
read-only views and the ownership index kept beside the state are left out.

### Notifications

One destination is modelled: destinations share nothing but the claim order. A
configuration (address and secret) is named by the revision it was saved at and
a verification code by the delivery that carries it; whoever has received that
delivery can answer the challenge. The worker's tick is split at its three
transactions: `ClaimDelivery`, `ReadDestination` (outside any transaction, and
what is sent is what was read here), `SendMessage`, and `RecordOutcome` or
`DropOutcome`. A message that was received may be recorded as a failure, since
its answer may be lost. Events that are grouped away or not subscribed to queue
nothing and are left out, as are deactivated organizations and the
organization's mail server settings.

### Schedules

A slot is an occurrence that `nextScheduleAfter` can return: its instant, its
place among the slots of that instant (local times differ at a change of
offset, and a window has two rules), its action, and whether the calendar takes
it out. How slots are computed from rules and time zones is in `Calendar`; the
order in which the code walks them, and the rule that paired actions at one
instant cancel each other, are modelled here (`Earliest`, `AfterSlot`,
`TakenOut`). Users act on the row they last loaded (`screen`), and `reviewed`
remembers what the standing approval was given to. A tick is two actions, since
its time is read before its transaction begins and waits for row locks
(`TickBegins`, then one of the others); an edit's first slot may be computed a
moment early for the same reason. What a tick queues carries its deadline: it is
computed once, from the slot (`Deadline`), stored in the operation's row
(`expires`), and the dispatch, refusal and expiry of the operation look at the
stored value only. `RunsInItsWindow` compares the dispatch with the slot itself.
The schedule's switch and its automation
identity's are always tested together and are one flag. Of the operation's life
only what matters here is kept: *queued* until the dispatch checks are passed,
*dispatched*, *uncertain* and *over*; `Operations` has the rest. Reasons to skip
or refuse that rest on inventory, runtimes or sign-in policy are a free choice
(`SkipOccurrence`, `RefuseOperation`), and the maintenance window a late tick
sees is the one at its own time. `RefreshClock` is for rows from before
migration 00010; their stored slot is taken to be marked as the present code
would mark it. Occurrence rows, permissions to manage schedules and schedules
with several targets (each is decided by itself) are left out.

### Automation validation and launcher

A job is claimed at most once (nothing returns it to the queue), so a job is
its own call of the launcher, and `AutomationRun` identifies the two. Between a
replica's two transactions lies the isolated run: `StartCall` is where the
first transaction has committed, `RunPasses` the moment the run accepts the
source, whether or not anybody still listens. `drifted` remembers jobs whose
version or connection has changed since they were requested. `SourceStands` is
`validationSource`, repeated before the call and before the record; what else
that function may refuse for (artifacts, runtimes) is the free choice of a
refusal.

`Launcher` keeps, per call, the place of the handler, its objects at the daemon
(a container, and for runtimes with dependency hosts a proxy and a volume), and
the time since it began. An object is *coming* when its command was killed
after the daemon may have taken it on. Deadlines are guards on `TimePasses`:
`exec.CommandContext` kills a command at its deadline, so a handler is never
found beyond it. The labels are taken to be written at the beginning of the
call, which is earlier than the code does and hence the harder case for
`WorkKeepsItsObjects`. Provider calls, which start one container without volume
or proxy, trust checks and the filtering of the proxy are left out.

### Calendar

Instants and wall times are integers; a zone has one change of offset. A cron
rule is the set of wall times it names; the grammar of cron expressions is left
out, and so are one-shot schedules and several policies at once. The functions
of the code (`wallOffsets`, the search in `nextScheduleAfter`, pairing,
exceptions, `maintenanceOpen` and the end of its window) are translated as they
are written, except that the loop over the wall times of a rule is stated by
what it reaches: all of them, in order, up to the first that can come no sooner
than something already found. The code's limit of 6000 wall times per rule is
left out: from the padded start to the next occurrence a rule has fewer. The
properties compare them with what a reader of a wall calendar would say
(`EverySlotInTurn`, `OpenAsRuled`). `PromiseKept` says that a window stays open
until the end that was told. It leaves out two corners: a clock that changes
across midnight, and a window that can touch three dates, because the code looks
one date ahead. `NoOccurrence` is the end of the bounded rules; cron rules have
none.

### Sessions

One person, two tabs, one browser. Every handler that changes an account or
opens a session compares something slow or external before its transaction (a
password hash, the answer of the identity provider) and repeats what matters
under the lock of the account row, the authenticator code included; then it
reads the clock once more to consume the code, and commits. Each is therefore
three actions: `Begin...`, `LockRecoveryUser` and the commit, which bears the
handler's name. Everything that does not need the locked row may happen in
between, the clock's next step too. `VerifyMfa`, `Refresh`, `Logout` and the
callback of the identity provider take no such lock or take it for one
statement; the first compares its code before its transaction, and may consume
it for a session that has been revoked meanwhile: the account's step moves on,
no session is confirmed. Credentials are numbered as they are replaced, and the
clock counts authenticator steps.

`jar` is what the browser's cookies name. Answers travel back as a separate
step, may be lost and arrive in any order; those of `Logout`, a change of
password, MFA turned on or off, the removal of a link and the revocation of
one's own session make the browser forget its cookies. A call remembers the
cookies it came with: one for a session that is not in them is made from
another browser, whose cookies are not modelled. `astray` is the history of
sessions the browser was not told of, or was told of another since.

`sessions` keeps every session ever opened, so that `ProofsAreSpent` can speak
about all of them. That part of `SessionsInv` is weaker than what the
repository's own README promises ("a used code cannot be reused to log in",
README.md:24). `checkTOTP` reads the clock (`service.go:186`) and `ConsumeTOTP`
is given another reading (`service.go:319`), so a code that was consumed in its
own step still passes a check at the very end of that step and is consumed once
more as one of the next. Two sessions from one code are possible in the model as
in the code; what is proved is that there is never a third, and that the second
is of this kind.

Left out: setup, the MFA policies of organizations, rate limits, that several
people may use one browser, a session whose thirty days end while a call that
was made with it holds the lock, and the revocation of a session that has
expired, which spends a code and changes nothing else.

### Access

Three people whose transactions overlap as far as the row locks of the code
allow: `tx` holds those that have made their checks and not committed. Their
commits change what was checked at most through rows they did not lock, which is
what the properties are about. An invitation keeps its role and the revision
of that role. A request with an old expected revision is refused
and leaves no trace, so such requests are not enumerated. Left out: the secret
of an enrollment, the creation of roles and organizations, MFA policies and the
sign-in policy check, and that an organization may be switched off
(`SetInstallationOrganization`), in which case `LockAccess` refuses every
change. `AdministratorStays` asks for an active membership that administers the
organization; whether its account is enabled is up to the installation's
administrators. Three facts of the code a reader may like to know:
reactivating a member restores the team membership; `SetInstallationUser` looks
at installation administrators only, not at those of organizations; and
`NoGrantBeyondOwn` is about edits whose author was not changed by an
installation administrator meanwhile.

## Runs

| Run | Instance | Question |
|---|---|---|
| `operations` | 2 requests, 1 resource, 2 replicas, 2 users, 1 key under steady settings; or 1 request, 1 bulk preview and 1 replica while connection, module, maintenance and reviewers change | every interleaving of claims, lapsed leases, crashes, late answers, changes that arrive late, cancel, reconcile and resolve; what is sent is what was reviewed; the coordinator implements the life cycle |
| `operations_rules` | 1 deletion, 2 replicas; authority, policy, ownership and inventory change; fairness | the rules in force decide, and every request is decided |
| `audit_export` | 2 transactions, 2 replicas, batches of 2, 2 events, 2 destinations; fairness | verification, the replicated log, drains |
| `discovery` | 1 resource, 2 replicas, 2 versions, 1 revision; fairness | late and overtaken scans, rotation, converges |
| `managed_state` | 2 sessions with plain documents, or 1 with 2 lineages and contents; 2 lock periods, 2 requests under way | the lock excludes, acknowledged means stored, no update is lost |
| `notifications_queue` | 2 deliveries, 2 replicas, 2 attempts, 1 redelivery, 2 revisions | budget of attempts; attempts and status agree |
| `notifications_edits` | 2 deliveries, 1 replica, 1 attempt, 3 revisions; fairness | where messages go; every delivery is settled |
| `schedules` | 2 users, 2 replicas, 3 writes, 1 change of anything else at a time, a recurring and a paired specification over 2 instants | once, between its instant and its deadline, as reviewed, never beside other work |
| `automation` | 2 jobs, 2 replicas, 1 version, 1 slot, one call with a proxy; fairness | verdicts, settling, the reaper |
| `calendar` | days of 4 units, 12 instants, 12 zones, rules of one or two wall times, shutdown rules, excepted dates, windows of half a day and a day | slots and windows around a change of the clock |
| `sessions` | 2 tabs, 3 steps of the clock, 3 sessions, 2 refresh tokens, one replacement of each credential | credentials, proofs, tokens and cookies, the authenticator of an account |
| `access` | 3 people in two organizations to start from, 3 roles, 4 permissions, 1 team, 2 invitations, 3 edits | administrators remain; authority; terms of invitations |

### Bounds, and why they are enough

Two replicas are needed for every race over a row (a stalled holder and its
successor); a third replica could only repeat the role of the stalled one. Two
operations on one resource are needed for exclusion and for a key reused after
its first row has settled; different resources share nothing but the claim
query. `MaxRevision = 1` gives settings that change and, for flags, change
back. Two destinations of the export are one that is superseded and one that
is current. Two versions of a resource are one a listing has read and one an
operation has made since. Two lock periods with two requests under way are the
least in which an upload or unlock of the first period can meet a version of
the second. Two deliveries and three revisions are a challenge, an edit (and
the edit back on) and a message to the new configuration; that run allows one
attempt, so that the retry logic is left to `notifications_queue`. Three
writes of a schedule are a save, a second save and an approval given on the
screen of the first; three instants with a grace of one are a slot on time, one
that is late, and one queued on time whose operation expires. Two jobs of one
version are a canceled one whose run goes on and its successor; one slot makes
the launcher refuse; labels that live for three units outlast one of deadline
and one of cleanup, as ten minutes outlast 130 seconds and the removals. Zones
put their change before, at and after a midnight, in both directions and across
zero offset. Three sessions are one that acts, one that is revoked and one that
is opened meanwhile. Three edits are two that overlap and one that uses what
they left.

Where one instance with everything would not finish, `Within` in the MC module
is a state constraint that names a union of regions, each complete in some
directions and quiet in the others:

* `MCOperations`: two requests and replicas with untouched settings, or one of
  each with changing ones, where a preview is kept until its request leaves the
  queue.
* `MCDiscovery`: what moves at a time (replicas at work, changes of the cloud,
  of connection and module) is bounded by a sum.
* `MCManagedState`: one session with every document, or two with plain ones.
* `MCSchedules`: two ticks under way at a time while nothing else has changed or
  the schedule has been written twice, or one tick whatever has changed.
* `MCAutomationRun`: docker does what it is asked while two jobs and replicas
  race, or it does not, for one job of one replica.
* `MCSessions`: `Rotating` (refresh tokens, lost and overtaken answers, with two
  sessions), `Recovering` (passwords and recovery codes), `Enrolling` (MFA off
  and on, two seeds), `Federated` (identity links and flows). In the last three
  no token is replaced and answers arrive in the order of the sign-ins.
* `MCAccess`: everything with one edit done and two transactions under way, all
  that two edits lead to, and three edits in two kinds of stories (`Inviting`,
  `Enforcing`).

Liveness under a constraint is liveness of the behaviours that stay within it.
The proofs know no bounds and no constraint.

`CHECK_DEADLOCK FALSE` is set where the model really ends: all requests or
deliveries are settled (operations, notifications), the horizon is reached
(calendar), or the bounds on edits, sessions and the clock are used up
(sessions, access). In the other runs the system never stops, and TLC checks
that.

### Fairness

Each replica runs its loops from a one-second ticker and gives every provider
or storage call a deadline (140 s, 40 s), so a claim is dropped, refused or
recorded: weak fairness per replica. Clocks advance: weak fairness on lapses,
expiries and back-offs. The claim queries order by due time, so a row that is
claimable again and again is claimed: strong fairness on claims. That a claim
does not lose its lease before its first transaction every single time, and
that storage does not fail for ever, is strong fairness on the step concerned;
without it no retry loop terminates. (`Notifications` needs it only for the
steps before and after sending: a message may be interrupted every single time,
and the attempt budget still ends the delivery.) `AutomationValidation` needs
only that its clocks advance and that what is due is expired by a tick, weak
fairness per job: no claim and no answer is needed for a job to be settled.
`Launcher` needs that a call goes on, weak fairness on all its steps together,
since commands have deadlines and the reaper runs every minute. Crashes are
never fair and may happen any number of times. `Refreshed` assumes that settings
and operations come to rest: a comment at the overtaken check
(`discovery.go:237`) accepts that churn can keep discarding scans.

## What is proved

For every value of the constants, from the named assumptions on them only
(revisions are natural numbers, `Nobody` is not a replica, and the like):

* `OperationsProofs`: `TypeCorrect`, `SubmitsOnce`, `UnsentStaysUnsent`,
  `LeaseFences`. The properties are not inductive: a worker that reaches
  "calling" in a row that looks unsent must be excluded beforehand, and so must a
change that is still on its way. The
  strengthening follows one submission from its claim to its end: a submitting
  worker's row is past the pending statuses (`JobsAreDispatched`), there is one
  submission per operation (`OneSubmissionJob`) and none after the change is
  out (`NotSentBefore`) or on its way (`OnTheWayIsLast`), observation starts only later (`ObserversComeLater`),
  a row that is leased for submission is dispatching (`LeaseMeansDispatching`),
  and keys and resources are exclusive among rows. `SubmitsWhatWasReviewed` and
  `RulesGovern` are action properties. The first needs that a change of facts
  cannot hide: revisions and windows only grow, so what has drifted differs
  from the settings for ever (`DriftShows`), for requests and for previews; the
  second that nothing already gone is requested to be deleted.
  `Implements` follows from the same invariant, one lemma per kind of step.
* `AuditExportProofs`: `TypeCorrect`, `CursorSkipsNothing`,
  `VerificationIsReal`, `PauseHolds`, `Implements`. The invariant says that
  uncommitted ids follow all committed ones and belong to the lock holder, that
  a batch covers everything between the cursor and its last event (`Fits`), and
  that a destination holds a prefix of the log.
* `DiscoveryProofs`: `TypeCorrect`, `ScansGoForward`,
  `PublishesCurrentCredential`. The invariant says that a running listing is
  behind an inventory row only if an operation touched it (`ListingIsAhead`);
  it needs that a transaction begun before the scan was queued carries nothing
  newer than the listing.

* `ManagedStateProofs`: `TypeCorrect`, `LockExcludes`,
  `NothingAcknowledgedIsLost`, `Implements`. The invariant says which requests
  can still be under way for which lock period, and that only the holder of the
  lock can know the newest version and be about to replace it.
* `NotificationsProofs`: `TypeCorrect`, `GoesWhereIntended`, `ProvenAddresses`,
  `HistoryIsTrue`, `BudgetHolds`. A delivery of the present revision is of the present
  configuration (`QueuedForRevision`), jobs match their rows (`JobsMatch`), a
  pending challenge is for the present configuration (`ChallengeFits`), and
  verified means that a challenge arrived there (`VerifiedIsProven`). The proofs
  go through what one step may do to a row, a job, the destination and the
  messages (`RowSteps`, `JobSteps`, `DestinationSteps`, `ReceivedSteps`).
  `BudgetHolds` counts: what a cycle has sent and the attempts that may still
  send are together no more than its claims (`SentAndHeld`). A stalled replica
  and its successor never hold one number (`AttemptIsOnes`), and a replica left
  over from an earlier cycle counts for nothing (`Spends`).
* `SchedulesProofs`: `TypeCorrect`, `NoInstantTwice`, `NoOverlap`,
  `ApprovedWorkOnly`, `OnTime`. Three agreements carry the argument: a screen
  that passes the write-revision check shows the present row (`ScreensFit`), a
  standing approval is for the present specification and target (`RowFits`),
  and an operation of the present revision has a slot of that specification
  that lies behind the next one in order (`OperationsFit`), so that no tick,
  however late, can reach its instant again. `OnTime` needs that clocks of ticks
  are behind and never ahead, and that the stored deadline is the slot's
  (`InTime`). That the earliest of some slots
  exists follows from the well-foundedness of the natural numbers.
* `SchedulesProofs`, about `Calendar`: `SlotsTakenInTurn`, `OpensAsRuled`,
  `PromiseIsKept`. First the clock: the offsets that `wallOffsets` tries include
  every one under which a wall time is shown (`RealAreShown`), so `resolveWall`
  finds the first instant that shows it or, where the clock skipped it, the
  change itself (`Resolved`, `FirstShownIsDue`). For the slots, the search is
  padded enough that no occurrence to come has an earlier wall time
  (`SearchIsEarlyEnough`), and where its loop ends nothing later in wall time
  can come sooner (`LaterWallsComeLater`), so it returns the soonest eligible
  occurrence and sees every one that could be paired with it (`NextIs`). The
  invariant then is that exactly the occurrences sooner than the next one have
  been taken (`InTurn`). For the windows, a start that is open now is among the
  wall times `maintenanceWindow` goes through (`StartsAreConsidered`), which
  makes the window the one of the rule (`WindowAsRuled`); the end it returns is
  clipped at an excepted midnight that the clock really shows
  (`NoMidnightSkipped`), and what was told was computed in some instant (`Told`).
  `ZonesAssumption` says that a zone changes its clock by a day at most, the
  reach of the code's own search for offsets.

* `AutomationRunProofs`: `TypeCorrect`, `EarnedSuccess`, `LastingVerdicts` for
  the validation jobs; `ImplementsValidation`, `RunCorrect`, `WorkIsSafe`,
  `RunVerdicts` for the composition with the launcher, of which the first
  carries every safety result over. What drifted shows, since versions do not
  come back and revisions only grow (`DriftShows`); a replica that will report
  success has heard it from its job's run (`AnswerIsEarned`); a call is made
  for a claimed job (`CallsAreClaimed`). `WorkIsSafe` rests on one assumption
  about times, `Deadline < Expiry`, and on the fact that a call nobody has made
  yet has touched nothing (`CallFits`).

* `IdentityProofs`, about `Sessions`: `TypeCorrect`, `SessionsHold`,
  `PresentCredentials`, `SecondFactor`, `SeedProved`, `BrowserHoldsTheToken`.
  One call at a time holds the account's row, and what it compared still stands
  (`RowLocksHold`). What opened a session is spent (`AllSpent`): recovery codes
  and flows are gone, and the account's step is not before the one in which a
  code was consumed. A session that asks to be confirmed does so with the
  present seed (`VerifiesPresentSeed`): the seed is compared before the
  transaction, and is replaced only while MFA is off. For the cookies, an answer
  under way for an open session is the only one about it and carries its good
  token (`Fresh`), and a browser that still has an older token can ask with it
  and will be refused (`Behind`).
* `IdentityProofs`, about `Access`: `AccessHolds`, `GrantsAreOwn`,
  `InvitationTerms`. What a transaction has checked still holds when it
  commits (`AllSound`), because at most one transaction holds the lock of the
  organization, and nobody but the holder of an account's row changes it
  (`LocksHold`). So a demotion still leaves an administrator, and an
  installation administrator who disables another is not the target of a
  third. Invitations of a role's present revision grant what the role grants
  (`TermsKept`). Accounts may change under an edit of the organization, which
  is why the invariant remembers what the edit saw (`SeenPermissions`).

The assumptions on `Access` are about where it starts: an installation with an
administrator and an organization with one, in which only existing accounts
are active and only members are in the team (`OrganizationsAssumption`).
`NoCallAssumption` and `NoMemberAssumption` say that the values for "no call"
and "no membership" are not rows.

The type invariants of the first six components, `UnsentIsUnsent`,
`NothingSkipped`, `PausedCursorStays` and `RunInv` (types, and one open verdict per version) are
theorems that no run repeats: `LifecycleSpec`, `DeliverySpec` and the other properties of the runs say most of
the same on the small instances.

Only model-checked: the liveness properties (`Decided`, `Drains`, `Refreshed`,
`EventuallySettled`, `Settles`, `NothingStays`), since fairness is beyond the
proof system used. Every safety property of the runs is a theorem.

## Not modelled

Resizing, restart, snapshots, tags and creation take the paths of `Operations`
with other eligibility data; templates fill in a creation, and the impact
digest of a deletion is one more fact compared when it is requested. Artifacts and sources are content-addressed blobs
and archive parsing. Provider calls of the launcher start one container and
have nothing of a validation run but the reaper. Storage clients, HTTP routing,
telemetry, presentation data (dashboards, inventory views, events, mail
settings), the command-line client and the web console hold no protocol state.
Generated code is represented by the SQL it is generated from; it is almost
half of the implementation's lines. Key rotation runs in one transaction with
exclusive table locks while replicas are stopped, so there is no interleaving to
check.

## Plan

1. `Schedules` with two schedules: the claim order, a schedule that fails at
   every tick, and more schedules due at once than the ticks can take.
2. The MFA policies of organizations and the sign-in policy in `Sessions` and
   `Access`, which now stop where the two meet.
