------------------------------ MODULE Discovery ------------------------------
(***************************************************************************)
(* Inventory discovery: internal/core/discovery.go and its SQL, for one    *)
(* connection, with console replicas that scan it and operations that      *)
(* write the same inventory rows when the provider confirms their outcome. *)
(*                                                                         *)
(* What the cloud says of a resource is a version number; an inventory row *)
(* is the version it was last written from.  Of an operation only what     *)
(* discovery depends on is kept: when its provider call was answered, when *)
(* its outcome transaction started (now() in SQL) and when it committed.   *)
(* Every transaction here locks the connection row first and is one        *)
(* action.  As only one scan of a connection is active and a replica works *)
(* on one, "this job is still running and its lease not past" is "the      *)
(* lease of the active scan is this worker's".                             *)
(***************************************************************************)
EXTENDS Naturals

CONSTANTS
  Resources,
  Workers,      \* console replicas
  MaxVersion,   \* bound on changes of one resource in the cloud
  MaxRevision,  \* bound on changes of the connection and of the module
  Nobody

ASSUME DiscoveryAssumption ==
  /\ MaxVersion \in Nat /\ MaxRevision \in Nat
  /\ Nobody \notin Workers

VARIABLES
  cloud,       \* per resource: its version at the provider
  inventory,   \* per resource: the version its row was written from
  operation,   \* per resource: the operation in flight on it
  connection,  \* revision, enabled, and whether the next scan is due
  module,      \* revision and enabled flag of the provider module
  scan,        \* the queued or running row of scan_jobs
  worker       \* per replica: the claimed scan and what it has listed

vars == <<cloud, inventory, operation, connection, module, scan, worker>>

-----------------------------------------------------------------------------
Version == 0..MaxVersion
Revision == 0..MaxRevision
Listing == [Resources -> Version]

ScanJob == [status : {"none", "queued", "running"}, connection : Revision,
            module : Revision, lease : Workers \cup {Nobody}]
Scanner == [pc : {"idle", "claimed", "listing", "failed"}, connection : Revision,
            module : Revision, credential : Revision, listed : SUBSET Resources,
            listing : Listing]
Outcome == [pc : {"none", "read", "begun"}, read : Version,
            fresh : BOOLEAN, touched : BOOLEAN]

NoScan == [status |-> "none", connection |-> 0, module |-> 0, lease |-> Nobody]
Idle == [pc |-> "idle", connection |-> 0, module |-> 0, credential |-> 0,
         listed |-> {}, listing |-> [r \in Resources |-> 0]]

\* "touched": updated_at of the row is not before created_at of the active scan.
\* "fresh": neither is the start of the transaction that is about to update it.
NoOperation == [pc |-> "none", read |-> 0, fresh |-> FALSE, touched |-> FALSE]

Init ==
  /\ cloud = [r \in Resources |-> 0]
  /\ inventory = [r \in Resources |-> 0]
  /\ operation = [r \in Resources |-> NoOperation]
  /\ connection = [revision |-> 0, enabled |-> TRUE, due |-> TRUE]
  /\ module = [revision |-> 0, enabled |-> TRUE]
  /\ scan = NoScan
  /\ worker = [w \in Workers |-> Idle]

-----------------------------------------------------------------------------
(* Operations, and the cloud itself.                                       *)

CloudChanges(r) ==
  /\ cloud[r] < MaxVersion
  /\ cloud' = [cloud EXCEPT ![r] = @ + 1]
  /\ UNCHANGED <<inventory, operation, connection, module, scan, worker>>

\* The provider has answered.  The row was updated when it was claimed, before
\* or after the active scan was queued.
OperationReads(r) ==
  /\ operation[r].pc = "none"
  /\ \E claimed \in {operation[r].touched, TRUE} :
       operation' = [operation EXCEPT ![r] =
         [pc |-> "read", read |-> cloud[r], fresh |-> FALSE, touched |-> claimed]]
  /\ UNCHANGED <<cloud, inventory, connection, module, scan, worker>>

\* The outcome transaction starts, and waits for the connection row.
OperationBegins(r) ==
  /\ operation[r].pc = "read"
  /\ operation' = [operation EXCEPT ![r].pc = "begun", ![r].fresh = TRUE]
  /\ UNCHANGED <<cloud, inventory, connection, module, scan, worker>>

\* A confirmed deletion, creation or tag change is written to the inventory;
\* any outcome asks for a refresh.
OperationRecords(r) ==
  /\ operation[r].pc = "begun"
  /\ operation' = [operation EXCEPT ![r] =
       [NoOperation EXCEPT !.touched = operation[r].fresh]]
  /\ \/ inventory' = [inventory EXCEPT ![r] = operation[r].read]
     \/ UNCHANGED inventory
  /\ connection' = [connection EXCEPT !.due = @ \/ connection.enabled]
  /\ UNCHANGED <<cloud, module, scan, worker>>

\* The worker of the operation crashes, or its answer is dropped.
OperationDrops(r) ==
  /\ operation[r].pc # "none"
  /\ operation' = [operation EXCEPT ![r].pc = "none"]
  /\ UNCHANGED <<cloud, inventory, connection, module, scan, worker>>

-----------------------------------------------------------------------------
(* Administration.                                                         *)

ChangeConnection(enabled) ==
  /\ connection.revision < MaxRevision
  /\ connection' = [revision |-> connection.revision + 1, enabled |-> enabled,
                    due |-> TRUE]
  /\ UNCHANGED <<cloud, inventory, operation, module, scan, worker>>

ChangeModule(enabled) ==
  /\ module.revision < MaxRevision
  /\ module' = [revision |-> module.revision + 1, enabled |-> enabled]
  /\ UNCHANGED <<cloud, inventory, operation, connection, scan, worker>>

-----------------------------------------------------------------------------
(* The scan queue.                                                         *)

\* All operation rows known so far are older than the new scan.
QueueScan ==
  /\ scan.status = "none"
  /\ connection.enabled /\ module.enabled
  /\ scan' = [status |-> "queued", connection |-> connection.revision,
              module |-> module.revision, lease |-> Nobody]
  /\ operation' = [r \in Resources |->
       [operation[r] EXCEPT !.fresh = FALSE, !.touched = FALSE]]
  /\ UNCHANGED <<cloud, inventory, connection, module, worker>>

RefreshConnection == QueueScan

QueueDue == connection.due /\ QueueScan

ScanFallsDue ==
  /\ ~connection.due
  /\ connection' = [connection EXCEPT !.due = TRUE]
  /\ UNCHANGED <<cloud, inventory, operation, module, scan, worker>>

ClaimScan(w) ==
  /\ worker[w].pc = "idle"
  /\ scan.status = "queued"
  /\ scan' = [scan EXCEPT !.status = "running", !.lease = w]
  /\ worker' = [worker EXCEPT ![w] =
       [Idle EXCEPT !.pc = "claimed", !.connection = scan.connection,
                    !.module = scan.module]]
  /\ UNCHANGED <<cloud, inventory, operation, connection, module>>

LeaseLapses ==
  /\ scan.lease # Nobody
  /\ scan' = [scan EXCEPT !.lease = Nobody]
  /\ UNCHANGED <<cloud, inventory, operation, connection, module, worker>>

\* RecordScanFailure, which only touches the revision that was scanned.
Later(revision) ==
  connection' = [connection EXCEPT
    !.due = IF revision = connection.revision THEN FALSE ELSE @]

\* Fault: an interrupted scan is only ended on the connection it was queued for.
ExpireUnchangedScan ==
  /\ scan.status = "running" /\ scan.lease = Nobody
  /\ scan.connection = connection.revision
  /\ scan' = NoScan
  /\ Later(scan.connection)
  /\ UNCHANGED <<cloud, inventory, operation, module, worker>>

ExpireScan ==
  /\ scan.status = "running" /\ scan.lease = Nobody
  /\ scan' = NoScan
  /\ Later(scan.connection)
  /\ UNCHANGED <<cloud, inventory, operation, module, worker>>

-----------------------------------------------------------------------------
(* runScan: a transaction, the provider call, a transaction.               *)

\* Fault: it is enough that the connection is enabled.
ConnectionEnabled(job) == connection.enabled

SameConnection(job) == connection.enabled /\ connection.revision = job.connection

SameModule(job) == module.enabled /\ module.revision = job.module

StartListing(w) ==
  /\ worker[w].pc = "claimed"
  /\ SameConnection(worker[w]) /\ SameModule(worker[w])
  /\ worker' = [worker EXCEPT ![w].pc = "listing", ![w].credential = connection.revision]
  /\ UNCHANGED <<cloud, inventory, operation, connection, module, scan>>

\* The provider is listed piece by piece while the cloud goes on changing.
ReadResource(w, r) ==
  /\ worker[w].pc = "listing" /\ r \notin worker[w].listed
  /\ worker' = [worker EXCEPT ![w].listed = @ \cup {r}, ![w].listing[r] = cloud[r]]
  /\ UNCHANGED <<cloud, inventory, operation, connection, module, scan>>

\* The first transaction refuses, or the call fails or times out.
ListingFails(w) ==
  /\ worker[w].pc \in {"claimed", "listing"}
  /\ worker' = [worker EXCEPT ![w].pc = "failed"]
  /\ UNCHANGED <<cloud, inventory, operation, connection, module, scan>>

Complete(w) == worker[w].pc = "listing" /\ worker[w].listed = Resources

Finishing(w) == Complete(w) \/ worker[w].pc = "failed"

Current(w) == scan.status = "running" /\ scan.lease = w

\* Fault: only operations that are still under way count.
OvertakenByActive == \E r \in Resources : operation[r].touched /\ operation[r].pc # "none"

ScanOvertaken == \E r \in Resources : operation[r].touched

Release(w) == worker' = [worker EXCEPT ![w] = Idle]

DropResult(w) ==
  /\ Finishing(w) /\ ~Current(w)
  /\ Release(w)
  /\ UNCHANGED <<cloud, inventory, operation, connection, module, scan>>

CancelScan(w) ==
  /\ Finishing(w) /\ Current(w)
  /\ ~SameConnection(worker[w]) \/ ~SameModule(worker[w])
  /\ scan' = NoScan
  /\ Release(w)
  /\ UNCHANGED <<cloud, inventory, operation, connection, module>>

FailScan(w) ==
  /\ worker[w].pc = "failed" /\ Current(w)
  /\ SameConnection(worker[w]) /\ SameModule(worker[w])
  /\ scan' = NoScan
  /\ Later(worker[w].connection)
  /\ Release(w)
  /\ UNCHANGED <<cloud, inventory, operation, module>>

DiscardOvertaken(w) ==
  /\ Complete(w) /\ Current(w)
  /\ SameConnection(worker[w]) /\ SameModule(worker[w])
  /\ ScanOvertaken
  /\ scan' = NoScan
  /\ connection' = [connection EXCEPT !.due = TRUE]
  /\ Release(w)
  /\ UNCHANGED <<cloud, inventory, operation, module>>

\* Every listed resource is written, every missing one retired.
PublishScan(w) ==
  /\ Complete(w) /\ Current(w)
  /\ SameConnection(worker[w]) /\ SameModule(worker[w])
  /\ ~ScanOvertaken
  /\ inventory' = worker[w].listing
  /\ scan' = NoScan
  /\ connection' = [connection EXCEPT !.due = FALSE]
  /\ Release(w)
  /\ UNCHANGED <<cloud, operation, module>>

\* A restart, or a transaction of the scan that fails.
Crash(w) ==
  /\ worker[w].pc # "idle"
  /\ Release(w)
  /\ UNCHANGED <<cloud, inventory, operation, connection, module, scan>>

-----------------------------------------------------------------------------
Operations ==
  \E r \in Resources :
    \/ CloudChanges(r)
    \/ OperationReads(r)
    \/ OperationBegins(r)
    \/ OperationRecords(r)
    \/ OperationDrops(r)

Administration ==
  \E b \in BOOLEAN : ChangeConnection(b) \/ ChangeModule(b)

Queue ==
  \/ RefreshConnection
  \/ ScanFallsDue
  \/ LeaseLapses
  \/ ExpireScan

RunScan ==
  \E w \in Workers :
    \/ ClaimScan(w)
    \/ StartListing(w)
    \/ \E r \in Resources : ReadResource(w, r)
    \/ ListingFails(w)
    \/ DropResult(w)
    \/ CancelScan(w)
    \/ FailScan(w)
    \/ DiscardOvertaken(w)
    \/ PublishScan(w)
    \/ Crash(w)

Next == Operations \/ Administration \/ Queue \/ RunScan

Spec == Init /\ [][Next]_vars

\* The clock advances and replicas tick every second; a call is given up after
\* 140 seconds and a lease after three minutes; listing does not fail for ever.
Fairness ==
  /\ WF_vars(QueueDue)
  /\ WF_vars(ScanFallsDue)
  /\ WF_vars(LeaseLapses)
  /\ WF_vars(ExpireScan)
  /\ SF_vars(\E w \in Workers : ClaimScan(w))
  /\ SF_vars(\E w \in Workers : Current(w) /\ StartListing(w))
  /\ \A r \in Resources : SF_vars(\E w \in Workers : Current(w) /\ ReadResource(w, r))
  /\ SF_vars(\E w \in Workers : PublishScan(w))
  /\ \A w \in Workers :
       /\ WF_vars(StartListing(w) \/ ListingFails(w))
       /\ WF_vars(DropResult(w) \/ CancelScan(w) \/ FailScan(w) \/ DiscardOvertaken(w))

FairSpec == Spec /\ Fairness

-----------------------------------------------------------------------------
(* Properties *)

\* Every variable has its type, and only a running scan is leased.
TypeOK ==
  /\ cloud \in [Resources -> Version]
  /\ inventory \in [Resources -> Version]
  /\ operation \in [Resources -> Outcome]
  /\ connection \in [revision : Revision, enabled : BOOLEAN, due : BOOLEAN]
  /\ module \in [revision : Revision, enabled : BOOLEAN]
  /\ scan \in ScanJob
  /\ scan.lease # Nobody => scan.status = "running"
  /\ worker \in [Workers -> Scanner]

\* A scan never takes an inventory row back to an older state of the cloud: a
\* listing from before an operation confirmed a deletion or a creation, or from
\* before a newer scan, is not published, however late it arrives.
ScansNeverGoBack ==
  [][scan' # scan => \A r \in Resources : inventory'[r] >= inventory[r]]_vars

\* What a scan publishes was listed with the credential the connection has now.
CredentialIsCurrent ==
  [][\A w \in Workers :
       scan.lease = w /\ inventory' # inventory /\ worker'[w] # worker[w] =>
         worker[w].credential = connection.revision]_vars

\* No crash, rotation or expiry leaves the connection without refreshes: once
\* the settings and operations come to rest, the inventory shows the cloud.
Settled ==
  /\ connection.enabled /\ module.enabled
  /\ \A r \in Resources : operation[r].pc = "none"
Refreshed == <>[]Settled => <>[](inventory = cloud)

=============================================================================
