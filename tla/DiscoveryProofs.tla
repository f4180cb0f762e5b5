--------------------------- MODULE DiscoveryProofs ---------------------------
(***************************************************************************)
(* Proofs about Discovery for every number of resources and replicas and   *)
(* every bound.                                                            *)
(***************************************************************************)
EXTENDS Discovery, TLAPS

USE DiscoveryAssumption

-----------------------------------------------------------------------------
(* The inductive invariant.                                                *)

Recording(r) == operation[r].pc \in {"read", "begun"}

\* Nobody knows more than the cloud.
NothingFromTheFuture ==
  \A r \in Resources :
    /\ inventory[r] <= cloud[r]
    /\ Recording(r) => operation[r].read <= cloud[r]
    /\ \A w \in Workers : r \in worker[w].listed => worker[w].listing[r] <= cloud[r]

NewlyClaimed == \A w \in Workers : worker[w].pc \in {"idle", "claimed"} => worker[w].listed = {}

\* A transaction begun on a row touched since the scan was queued is as recent.
StampsGrow ==
  \A r \in Resources : operation[r].pc = "begun" /\ operation[r].touched => operation[r].fresh

\* The active scan is behind an inventory row only if an operation touched it;
\* a transaction begun before the scan was queued carries nothing newer.
ListingIsAhead ==
  \A w \in Workers : scan.lease = w => \A r \in worker[w].listed :
    /\ operation[r].touched \/ inventory[r] <= worker[w].listing[r]
    /\ operation[r].pc = "begun" /\ ~operation[r].fresh =>
         operation[r].read <= worker[w].listing[r]

ListedWithJob ==
  \A w \in Workers : worker[w].pc = "listing" => worker[w].credential = worker[w].connection

OrderInv ==
  /\ NothingFromTheFuture
  /\ NewlyClaimed
  /\ ListingIsAhead
  /\ ListedWithJob
  /\ StampsGrow

IInv == TypeOK /\ OrderInv

\* The parts of rows and listings that the invariant compares.
LEMMA Fields ==
  ASSUME TypeOK
  PROVE  /\ \A r \in Resources : cloud[r] \in Nat /\ inventory[r] \in Nat
         /\ \A r \in Resources : operation[r].read \in Nat
         /\ \A w \in Workers : worker[w].listed \subseteq Resources
         /\ \A w \in Workers : worker[w].listing \in [Resources -> Nat]
BY DEF TypeOK, Version, Listing, Scanner, Outcome

\* Initially nothing is queued, listed or under way.
LEMMA InitEstablishes == Init => IInv
<1> SUFFICES ASSUME Init PROVE IInv OBVIOUS
<1> USE DEF Init, Idle, NoOperation, NoScan, Version, Revision
<1>1. TypeOK BY DEF TypeOK, Listing, ScanJob, Scanner, Outcome
<1>2. OrderInv
  BY DEF OrderInv, NothingFromTheFuture, Recording, NewlyClaimed, ListingIsAhead,
         ListedWithJob, StampsGrow
<1> QED BY <1>1, <1>2 DEF IInv

-----------------------------------------------------------------------------
(* Operations and the cloud.                                               *)

\* Steps of operations keep the types and touch no scan.
LEMMA OperationTypes ==
  ASSUME TypeOK, Operations
  PROVE  TypeOK' /\ scan' = scan /\ worker' = worker
<1>1. PICK r \in Resources : \/ CloudChanges(r) \/ OperationReads(r) \/ OperationBegins(r)
                             \/ OperationRecords(r) \/ OperationDrops(r)
  BY DEF Operations
<1> USE DEF TypeOK
<1>2. CASE CloudChanges(r) BY <1>2 DEF CloudChanges, Version
<1>3. CASE OperationReads(r)
  <2>1. PICK claimed \in BOOLEAN : operation' = [operation EXCEPT ![r] =
          [pc |-> "read", read |-> cloud[r], fresh |-> FALSE, touched |-> claimed]]
    BY <1>3 DEF OperationReads, Outcome
  <2>2. [pc |-> "read", read |-> cloud[r], fresh |-> FALSE, touched |-> claimed] \in Outcome
    BY DEF Outcome
  <2> QED BY <1>3, <2>1, <2>2 DEF OperationReads
<1>4. CASE OperationBegins(r) BY <1>4 DEF OperationBegins, Outcome
<1>5. CASE OperationRecords(r)
  <2>1. [NoOperation EXCEPT !.touched = operation[r].fresh] \in Outcome
    <3>1. operation[r].fresh \in BOOLEAN BY DEF Outcome
    <3>2. NoOperation \in Outcome BY DEF NoOperation, Version, Outcome
    <3> QED BY <3>1, <3>2 DEF Outcome
  <2>2. operation' \in [Resources -> Outcome] BY <1>5, <2>1 DEF OperationRecords
  <2>3. inventory' \in [Resources -> Version]
    <3>1. operation[r].read \in Version BY DEF Outcome
    <3> QED BY <1>5, <3>1 DEF OperationRecords
  <2>4. connection' \in [revision : Revision, enabled : BOOLEAN, due : BOOLEAN]
    BY <1>5 DEF OperationRecords
  <2> QED BY <1>5, <2>2, <2>3, <2>4 DEF OperationRecords
<1>6. CASE OperationDrops(r) BY <1>6 DEF OperationDrops, Outcome
<1> QED BY <1>1, <1>2, <1>3, <1>4, <1>5, <1>6
  DEF CloudChanges, OperationReads, OperationBegins, OperationRecords, OperationDrops

\* A row moves past a running listing only together with its touched mark.
LEMMA OperationOrder ==
  ASSUME IInv, Operations
  PROVE  OrderInv'
<1>1. PICK r \in Resources : \/ CloudChanges(r) \/ OperationReads(r) \/ OperationBegins(r)
                             \/ OperationRecords(r) \/ OperationDrops(r)
  BY DEF Operations
<1>2. TypeOK /\ TypeOK' /\ scan' = scan /\ worker' = worker
  BY OperationTypes DEF IInv
<1>3. (NewlyClaimed /\ ListedWithJob)'
  BY <1>2 DEF IInv, OrderInv, NewlyClaimed, ListedWithJob
<1> USE DEF IInv, OrderInv, NothingFromTheFuture, Recording, ListingIsAhead
<1>3a. StampsGrow'
  <2>1. \A x \in Resources \ {r} : operation'[x] = operation[x]
    BY <1>1, <1>2 DEF TypeOK, CloudChanges, OperationReads, OperationBegins,
                      OperationRecords, OperationDrops
  <2>2. operation'[r].pc = "begun" => operation'[r] = operation[r] \/ operation'[r].fresh
    <3>1. operation \in [Resources -> Outcome] BY <1>2 DEF TypeOK
    <3>2. CASE CloudChanges(r) BY <3>2 DEF CloudChanges
    <3>3. CASE OperationReads(r) BY <3>1, <3>3 DEF OperationReads
    <3>4. CASE OperationBegins(r) BY <3>1, <3>4 DEF OperationBegins, Outcome
    <3>5. CASE OperationRecords(r) BY <3>1, <3>5 DEF OperationRecords, NoOperation
    <3>6. CASE OperationDrops(r) BY <3>1, <3>6 DEF OperationDrops, Outcome
    <3> QED BY <1>1, <3>2, <3>3, <3>4, <3>5, <3>6
  <2> QED BY <2>1, <2>2 DEF StampsGrow
<1>4. CASE CloudChanges(r)
  <2>1. \A x \in Resources : cloud[x] \in Nat /\ cloud'[x] \in Nat /\ cloud[x] <= cloud'[x]
    BY <1>2, <1>4 DEF CloudChanges, TypeOK, Version
  <2>2. \A x \in Resources : inventory[x] \in Nat /\ operation[x].read \in Nat
                             /\ \A w \in Workers : worker[w].listing[x] \in Nat
    BY <1>2, Fields
  <2>3. NothingFromTheFuture' BY <1>2, <1>4, <2>1, <2>2 DEF CloudChanges
  <2>4. ListingIsAhead' BY <1>2, <1>4 DEF CloudChanges
  <2> QED BY <1>3, <1>3a, <2>3, <2>4
<1>5. CASE OperationReads(r)
  <2>1. PICK claimed \in {operation[r].touched, TRUE} : operation' = [operation EXCEPT ![r] =
          [pc |-> "read", read |-> cloud[r], fresh |-> FALSE, touched |-> claimed]]
    BY <1>5 DEF OperationReads
  <2>2. NothingFromTheFuture' BY <1>2, <1>5, <2>1 DEF OperationReads, TypeOK, Version
  <2>3. ListingIsAhead'
    <3>1. operation'[r].pc = "read" /\ (operation[r].touched => operation'[r].touched)
      BY <1>2, <2>1 DEF TypeOK
    <3>2. \A x \in Resources \ {r} : operation'[x] = operation[x] BY <1>2, <2>1 DEF TypeOK
    <3> QED BY <1>2, <1>5, <3>1, <3>2, Fields DEF OperationReads
  <2> QED BY <1>3, <1>3a, <2>2, <2>3
<1>6. CASE OperationBegins(r)
  <2>1. NothingFromTheFuture' BY <1>2, <1>6 DEF OperationBegins, TypeOK
  <2>2. ListingIsAhead'
    <3>1. operation'[r].fresh /\ operation'[r].touched = operation[r].touched
      BY <1>2, <1>6 DEF OperationBegins, TypeOK, Outcome
    <3>2. \A x \in Resources \ {r} : operation'[x] = operation[x]
      BY <1>2, <1>6 DEF OperationBegins, TypeOK
    <3> QED BY <1>2, <1>6, <3>1, <3>2, Fields DEF OperationBegins
  <2> QED BY <1>3, <1>3a, <2>1, <2>2
<1>7. CASE OperationRecords(r)
  <2>1. operation'[r].pc = "none"
        /\ (operation[r].fresh \/ operation[r].touched => operation'[r].touched)
    BY <1>2, <1>7 DEF OperationRecords, NoOperation, TypeOK, Outcome, StampsGrow
  <2>2. \A x \in Resources \ {r} : operation'[x] = operation[x] /\ inventory'[x] = inventory[x]
    BY <1>2, <1>7 DEF OperationRecords, TypeOK
  <2>3. inventory'[r] \in {operation[r].read, inventory[r]} /\ cloud' = cloud
    BY <1>2, <1>7 DEF OperationRecords, TypeOK
  <2>4. operation[r].pc = "begun" BY <1>7 DEF OperationRecords
  <2>5. NothingFromTheFuture' BY <1>2, <2>1, <2>2, <2>3, <2>4
  <2>6. ASSUME NEW w \in Workers, scan.lease = w, NEW x \in worker[w].listed
        PROVE  /\ operation'[x].touched \/ inventory'[x] <= worker[w].listing[x]
               /\ operation'[x].pc = "begun" /\ ~operation'[x].fresh =>
                    operation'[x].read <= worker[w].listing[x]
    <3>1. x \in Resources BY <1>2, Fields
    <3>2. CASE x = r BY <2>1, <2>3, <2>4, <2>6, <3>2
    <3>3. CASE x # r BY <2>2, <2>6, <3>1, <3>3
    <3> QED BY <3>2, <3>3
  <2> QED BY <1>2, <1>3, <1>3a, <2>5, <2>6
<1>8. CASE OperationDrops(r)
  <2>1. \A x \in Resources : operation'[x].touched = operation[x].touched
          /\ (operation'[x].pc # "none" => operation'[x] = operation[x])
    BY <1>2, <1>8 DEF OperationDrops, TypeOK
  <2>2. NothingFromTheFuture' BY <1>2, <1>8, <2>1 DEF OperationDrops
  <2>3. ListingIsAhead' BY <1>2, <1>8, <2>1 DEF OperationDrops, TypeOK
  <2> QED BY <1>3, <1>3a, <2>2, <2>3
<1> QED BY <1>1, <1>4, <1>5, <1>6, <1>7, <1>8

-----------------------------------------------------------------------------
(* Administration and the queue.                                           *)

\* A step that leaves rows, operations and replicas alone and takes leases away
\* at most.
Quiet ==
  /\ UNCHANGED <<cloud, inventory, operation, worker>>
  /\ scan'.lease \in {scan.lease, Nobody}

\* Such a step preserves the order.
LEMMA QuietPreserves ==
  ASSUME IInv, Quiet
  PROVE  OrderInv'
BY DEF Quiet, IInv, OrderInv, NothingFromTheFuture, Recording, NewlyClaimed,
       ListingIsAhead, ListedWithJob, StampsGrow

\* Settings and the queue change under no running listing.
LEMMA QueuePreserves ==
  ASSUME IInv, Administration \/ Queue
  PROVE  IInv' /\ inventory' = inventory
<1> TypeOK BY DEF IInv
<1> USE DEF TypeOK, Revision
<1>1. CASE Administration
  <2>1. ASSUME NEW b \in BOOLEAN, ChangeConnection(b) PROVE TypeOK' /\ Quiet
    BY <2>1 DEF ChangeConnection, Quiet
  <2>2. ASSUME NEW b \in BOOLEAN, ChangeModule(b) PROVE TypeOK' /\ Quiet
    BY <2>2 DEF ChangeModule, Quiet
  <2>3. TypeOK' /\ Quiet BY <1>1, <2>1, <2>2 DEF Administration
  <2> QED BY <2>3, QuietPreserves DEF IInv, Quiet
<1>2. CASE ScanFallsDue
  <2>1. TypeOK' /\ Quiet BY <1>2 DEF ScanFallsDue, Quiet
  <2> QED BY <2>1, QuietPreserves DEF IInv, Quiet
<1>3. CASE LeaseLapses
  <2>1. TypeOK' /\ Quiet BY <1>3 DEF LeaseLapses, Quiet, ScanJob
  <2> QED BY <2>1, QuietPreserves DEF IInv, Quiet
<1>4. CASE ExpireScan
  <2>1. connection' \in [revision : Revision, enabled : BOOLEAN, due : BOOLEAN]
    BY <1>4 DEF ExpireScan, Later
  <2>2. scan' \in ScanJob /\ scan'.lease = Nobody BY <1>4 DEF ExpireScan, NoScan, ScanJob
  <2>3. TypeOK' /\ Quiet BY <1>4, <2>1, <2>2 DEF ExpireScan, Quiet
  <2> QED BY <2>3, QuietPreserves DEF IInv, Quiet
<1>5. CASE QueueScan
  <2>1. TypeOK'
    <3>1. \A r \in Resources :
            [operation[r] EXCEPT !.fresh = FALSE, !.touched = FALSE] \in Outcome
      BY DEF Outcome
    <3>2. operation' \in [Resources -> Outcome] BY <1>5, <3>1 DEF QueueScan
    <3>3. scan' \in ScanJob /\ scan'.lease = Nobody BY <1>5 DEF QueueScan, ScanJob
    <3> QED BY <1>5, <3>2, <3>3 DEF QueueScan
  <2>2. \A r \in Resources : /\ operation'[r].pc = operation[r].pc
                             /\ operation'[r].read = operation[r].read
                             /\ ~operation'[r].touched
    BY <1>5 DEF QueueScan, Outcome
  <2>3. scan'.lease = Nobody /\ UNCHANGED <<cloud, inventory, worker>>
    BY <1>5 DEF QueueScan
  <2>4. OrderInv'
    BY <2>2, <2>3 DEF IInv, OrderInv, NothingFromTheFuture, Recording, NewlyClaimed,
                      ListingIsAhead, ListedWithJob, StampsGrow
  <2> QED BY <2>1, <2>3, <2>4 DEF IInv
<1> QED BY <1>1, <1>2, <1>3, <1>4, <1>5 DEF Queue, RefreshConnection

-----------------------------------------------------------------------------
(* The scan itself.                                                        *)

\* A replica that ends its scan drops what it listed; the scan keeps or loses
\* its lease.
LEMMA ReleasePreserves ==
  ASSUME IInv, NEW w \in Workers, Release(w), UNCHANGED <<cloud, operation>>,
         \A r \in Resources : inventory'[r] <= cloud[r],
         scan'.lease = Nobody \/ (UNCHANGED inventory /\ scan' = scan)
  PROVE  OrderInv'
<1>1. \A v \in Workers : worker'[v] = IF v = w THEN Idle ELSE worker[v]
  BY DEF Release, IInv, TypeOK
<1> QED BY <1>1 DEF Idle, IInv, OrderInv, NothingFromTheFuture, Recording,
                    NewlyClaimed, ListingIsAhead, ListedWithJob, StampsGrow

\* What a complete, current and not overtaken listing brings is newer.
LEMMA PublishesForward ==
  ASSUME IInv, NEW w \in Workers, PublishScan(w)
  PROVE  \A r \in Resources : inventory'[r] >= inventory[r] /\ inventory'[r] <= cloud[r]
<1>1. worker[w].listed = Resources /\ inventory' = worker[w].listing /\ scan.lease = w
  BY DEF PublishScan, Complete, Current
<1>2. \A r \in Resources : ~operation[r].touched BY DEF PublishScan, ScanOvertaken
<1>3. \A r \in Resources : inventory[r] <= worker[w].listing[r] /\ worker[w].listing[r] <= cloud[r]
  BY <1>1, <1>2 DEF IInv, OrderInv, ListingIsAhead, NothingFromTheFuture
<1>4. \A r \in Resources : inventory[r] \in Nat /\ worker[w].listing[r] \in Nat
  BY Fields DEF IInv
<1> QED BY <1>1, <1>3, <1>4

\* Every step of a replica preserves the invariant.
LEMMA ScanPreserves ==
  ASSUME IInv, NEW w \in Workers,
         \/ ClaimScan(w) \/ StartListing(w) \/ \E r \in Resources : ReadResource(w, r)
         \/ ListingFails(w) \/ DropResult(w) \/ CancelScan(w) \/ FailScan(w)
         \/ DiscardOvertaken(w) \/ PublishScan(w) \/ Crash(w)
  PROVE  IInv'
<1>1. TypeOK BY DEF IInv
<1>2. Idle \in Scanner BY DEF Idle, Revision, Listing, Version, Scanner
<1>3. NoScan \in ScanJob /\ NoScan.lease = Nobody
  BY DEF NoScan, Revision, ScanJob
<1>4. \A r \in Resources : inventory[r] <= cloud[r]
  BY DEF IInv, OrderInv, NothingFromTheFuture
<1>5. CASE ClaimScan(w)
  <2>1. TypeOK'
    <3>1. [Idle EXCEPT !.pc = "claimed", !.connection = scan.connection,
                       !.module = scan.module] \in Scanner
      BY <1>1, <1>2 DEF TypeOK, Scanner, ScanJob
    <3>2. [scan EXCEPT !.status = "running", !.lease = w] \in ScanJob
      BY <1>1 DEF TypeOK, ScanJob
    <3>3. scan'.status = "running" BY <1>1, <1>5 DEF ClaimScan, TypeOK, ScanJob
    <3> QED BY <1>1, <1>5, <3>1, <3>2, <3>3 DEF ClaimScan, TypeOK
  <2>2. \A v \in Workers \ {w} : worker'[v] = worker[v] BY <1>1, <1>5 DEF ClaimScan, TypeOK
  <2>3. worker'[w].listed = {} /\ worker'[w].pc = "claimed"
    BY <1>1, <1>5 DEF ClaimScan, TypeOK, Idle, Scanner
  <2>4. scan'.lease = w /\ UNCHANGED <<cloud, inventory, operation>>
    BY <1>1, <1>5 DEF ClaimScan, TypeOK
  <2> QED BY <2>1, <2>2, <2>3, <2>4 DEF IInv, OrderInv, NothingFromTheFuture, Recording,
             NewlyClaimed, ListingIsAhead, ListedWithJob, StampsGrow
<1>6. CASE StartListing(w)
  <2>1. TypeOK'
    <3>1. [worker[w] EXCEPT !.pc = "listing", !.credential = connection.revision] \in Scanner
      BY <1>1 DEF TypeOK, Scanner
    <3> QED BY <1>1, <1>6, <3>1 DEF StartListing, TypeOK
  <2>2. \A v \in Workers : worker'[v].listed = worker[v].listed
                           /\ worker'[v].listing = worker[v].listing
    BY <1>1, <1>6 DEF StartListing, TypeOK
  <2>3. \A v \in Workers \ {w} : worker'[v] = worker[v] BY <1>1, <1>6 DEF StartListing, TypeOK
  <2>4. worker'[w].pc = "listing" /\ worker'[w].credential = worker'[w].connection
    BY <1>1, <1>6 DEF StartListing, SameConnection, TypeOK
  <2>5. UNCHANGED <<cloud, inventory, operation, scan>> BY <1>6 DEF StartListing
  <2> QED BY <2>1, <2>2, <2>3, <2>4, <2>5 DEF IInv, OrderInv, NothingFromTheFuture,
             Recording, NewlyClaimed, ListingIsAhead, ListedWithJob, StampsGrow
<1>7. ASSUME NEW r \in Resources, ReadResource(w, r) PROVE IInv'
  <2>1. TypeOK'
    <3>1. worker[w] \in Scanner /\ cloud[r] \in Version BY <1>1 DEF TypeOK
    <3>2. [worker[w] EXCEPT !.listed = @ \cup {r}, !.listing[r] = cloud[r]] \in Scanner
      BY <3>1 DEF Scanner, Listing
    <3> QED BY <1>1, <1>7, <3>2 DEF ReadResource, TypeOK
  <2>2. \A v \in Workers \ {w} : worker'[v] = worker[v] BY <1>1, <1>7 DEF ReadResource, TypeOK
  <2>3. /\ worker'[w].pc = "listing" /\ worker'[w].credential = worker'[w].connection
        /\ worker'[w].listed = worker[w].listed \cup {r}
        /\ worker'[w].listing = [worker[w].listing EXCEPT ![r] = cloud[r]]
    BY <1>1, <1>7 DEF ReadResource, TypeOK, Scanner, IInv, OrderInv, ListedWithJob
  <2>4. worker'[w].listing[r] = cloud[r]
        /\ \A x \in Resources \ {r} : worker'[w].listing[x] = worker[w].listing[x]
    BY <1>1, <2>3, Fields
  <2>5. UNCHANGED <<cloud, inventory, operation, scan>> BY <1>7 DEF ReadResource
  <2>6. NewlyClaimed' /\ ListedWithJob' /\ StampsGrow'
    BY <2>2, <2>3, <2>5 DEF IInv, OrderInv, NewlyClaimed, ListedWithJob, StampsGrow
  <2>7. cloud[r] \in Nat /\ cloud[r] <= cloud[r] BY <1>1 DEF TypeOK, Version
  <2>8. NothingFromTheFuture'
    BY <2>2, <2>3, <2>4, <2>5, <2>7 DEF IInv, OrderInv, NothingFromTheFuture, Recording
  <2>9. ListingIsAhead'
    <3>1. \A v \in Workers : worker[v].listed \subseteq Resources BY <1>1, Fields
    <3>2. operation[r].pc = "begun" => operation[r].read <= cloud[r]
      BY DEF IInv, OrderInv, NothingFromTheFuture, Recording
    <3> QED BY <1>4, <2>2, <2>3, <2>4, <2>5, <3>1, <3>2 DEF IInv, OrderInv, ListingIsAhead
  <2> QED BY <2>1, <2>6, <2>8, <2>9 DEF IInv, OrderInv
<1>8. CASE ListingFails(w)
  <2>1. TypeOK'
    <3>1. [worker[w] EXCEPT !.pc = "failed"] \in Scanner BY <1>1 DEF TypeOK, Scanner
    <3> QED BY <1>1, <1>8, <3>1 DEF ListingFails, TypeOK
  <2>2. \A v \in Workers : worker'[v].listed = worker[v].listed
                           /\ worker'[v].listing = worker[v].listing
    BY <1>1, <1>8 DEF ListingFails, TypeOK
  <2>3. \A v \in Workers \ {w} : worker'[v] = worker[v] BY <1>1, <1>8 DEF ListingFails, TypeOK
  <2>4. worker'[w].pc = "failed" BY <1>1, <1>8 DEF ListingFails, TypeOK
  <2>5. UNCHANGED <<cloud, inventory, operation, scan>> BY <1>8 DEF ListingFails
  <2> QED BY <2>1, <2>2, <2>3, <2>4, <2>5 DEF IInv, OrderInv, NothingFromTheFuture,
             Recording, NewlyClaimed, ListingIsAhead, ListedWithJob, StampsGrow
<1>9. CASE DropResult(w) \/ Crash(w)
  <2>1. TypeOK' BY <1>1, <1>2, <1>9 DEF DropResult, Crash, Release, TypeOK
  <2>2. OrderInv' BY <1>4, <1>9, ReleasePreserves DEF DropResult, Crash
  <2> QED BY <2>1, <2>2 DEF IInv
<1>10. CASE CancelScan(w) \/ FailScan(w) \/ DiscardOvertaken(w)
  <2>1. TypeOK'
    <3>1. connection' \in [revision : Revision, enabled : BOOLEAN, due : BOOLEAN]
      BY <1>1, <1>10 DEF CancelScan, FailScan, DiscardOvertaken, Later, TypeOK
    <3>2. worker' \in [Workers -> Scanner]
      BY <1>1, <1>2, <1>10 DEF CancelScan, FailScan, DiscardOvertaken, Release, TypeOK
    <3>3. scan' = NoScan /\ UNCHANGED <<cloud, inventory, operation, module>>
      BY <1>10 DEF CancelScan, FailScan, DiscardOvertaken
    <3> QED BY <1>1, <1>3, <3>1, <3>2, <3>3 DEF TypeOK
  <2>2. OrderInv'
    BY <1>3, <1>4, <1>10, ReleasePreserves DEF CancelScan, FailScan, DiscardOvertaken
  <2> QED BY <2>1, <2>2 DEF IInv
<1>11. CASE PublishScan(w)
  <2>1. TypeOK'
    <3>1. worker' \in [Workers -> Scanner] BY <1>1, <1>2, <1>11 DEF PublishScan, Release, TypeOK
    <3>2. inventory' \in [Resources -> Version]
      BY <1>1, <1>11 DEF PublishScan, TypeOK, Scanner, Listing
    <3>3. connection' \in [revision : Revision, enabled : BOOLEAN, due : BOOLEAN]
      BY <1>1, <1>11 DEF PublishScan, TypeOK
    <3> QED BY <1>1, <1>3, <1>11, <3>1, <3>2, <3>3 DEF PublishScan, TypeOK
  <2>2. OrderInv' BY <1>3, <1>11, ReleasePreserves, PublishesForward DEF PublishScan
  <2> QED BY <2>1, <2>2 DEF IInv
<1> QED BY <1>5, <1>6, <1>7, <1>8, <1>9, <1>10, <1>11

\* The invariant is inductive.
LEMMA StepPreserves == IInv /\ [Next]_vars => IInv'
<1> SUFFICES ASSUME IInv, [Next]_vars PROVE IInv' OBVIOUS
<1>1. CASE Operations BY <1>1, OperationTypes, OperationOrder DEF IInv
<1>2. CASE Administration \/ Queue BY <1>2, QueuePreserves
<1>3. CASE RunScan BY <1>3, ScanPreserves DEF RunScan
<1>4. CASE UNCHANGED vars
  BY <1>4 DEF vars, IInv, TypeOK, OrderInv, NothingFromTheFuture, Recording,
              NewlyClaimed, ListingIsAhead, ListedWithJob, StampsGrow
<1> QED BY <1>1, <1>2, <1>3, <1>4 DEF Next

\* The invariant behind both action properties.
THEOREM InductiveInvariant == Spec => []IInv
BY InitEstablishes, StepPreserves, PTL DEF Spec

\* Every variable keeps its type.
THEOREM TypeCorrect == Spec => []TypeOK
<1>1. IInv => TypeOK BY DEF IInv
<1> QED BY <1>1, InductiveInvariant, PTL

-----------------------------------------------------------------------------
(* Action properties.                                                      *)

\* Only a publication writes the inventory in a step that changes the scan.
LEMMA OnlyPublicationWrites ==
  ASSUME IInv, [Next]_vars, inventory' # inventory, worker' # worker \/ scan' # scan
  PROVE  \E w \in Workers : PublishScan(w)
<1>1. ~Operations BY OperationTypes DEF IInv
<1>2. ~Administration /\ ~Queue BY QueuePreserves
<1>3. ~UNCHANGED vars BY DEF vars
<1>4. RunScan BY <1>1, <1>2, <1>3 DEF Next
<1> QED BY <1>4 DEF RunScan, ClaimScan, StartListing, ReadResource, ListingFails,
           DropResult, CancelScan, FailScan, DiscardOvertaken, Crash

\* No scan step takes an inventory row back to an older state of the cloud.
THEOREM ScansGoForward == Spec => ScansNeverGoBack
<1>1. IInv /\ [Next]_vars =>
        [scan' # scan => \A r \in Resources : inventory'[r] >= inventory[r]]_vars
  <2> SUFFICES ASSUME IInv, [Next]_vars, scan' # scan, NEW r \in Resources
               PROVE  inventory'[r] >= inventory[r]
    OBVIOUS
  <2>1. inventory[r] \in Nat BY DEF IInv, TypeOK, Version
  <2>2. CASE inventory' = inventory BY <2>1, <2>2
  <2>3. CASE inventory' # inventory BY <2>3, OnlyPublicationWrites, PublishesForward
  <2> QED BY <2>2, <2>3
<1> QED BY <1>1, InductiveInvariant, PTL DEF Spec, ScansNeverGoBack

\* A publication was listed with the credential the connection has now.
THEOREM PublishesCurrentCredential == Spec => CredentialIsCurrent
<1>1. IInv /\ [Next]_vars =>
        [\A w \in Workers :
           scan.lease = w /\ inventory' # inventory /\ worker'[w] # worker[w] =>
             worker[w].credential = connection.revision]_vars
  <2> SUFFICES ASSUME IInv, [Next]_vars, NEW w \in Workers, scan.lease = w,
                      inventory' # inventory, worker'[w] # worker[w]
               PROVE  worker[w].credential = connection.revision
    OBVIOUS
  <2>1. PICK v \in Workers : PublishScan(v) BY OnlyPublicationWrites
  <2>2. v = w BY <2>1 DEF PublishScan, Current
  <2> QED BY <2>1, <2>2 DEF PublishScan, Complete, SameConnection, IInv, OrderInv, ListedWithJob
<1> QED BY <1>1, InductiveInvariant, PTL DEF Spec, CredentialIsCurrent
=============================================================================
