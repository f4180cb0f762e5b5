------------------------- MODULE ManagedStateProofs --------------------------
(***************************************************************************)
(* Proofs about ManagedState for every number of sessions and every bound: *)
(* the lock excludes, what was acknowledged is stored, and the backend     *)
(* implements the register with a history.                                 *)
(***************************************************************************)
EXTENDS ManagedState, TLAPS

USE ManagedStateAssumption

-----------------------------------------------------------------------------
(* The inductive invariant.                                                *)

Last == versions[Len(versions)]
Works(s) == runner[s].at \in {"locked", "editing", "posting"}

\* The project holds what its newest version holds.
PointsAtNewest ==
  /\ versions # <<>> => Hashed(Last) = Hashed(project)
  /\ \A i \in DOMAIN versions : versions[i].serial >= 0

\* Lock IDs in use have been drawn, and uploads have a serial.
Numbered ==
  /\ \A s \in Sessions : runner[s].lock <= locks
  /\ \A s \in Sessions : runner[s].at # "idle" => runner[s].lock >= 1
  /\ \A s \in Sessions : runner[s].at = "posting" => runner[s].copy.serial >= 0
  /\ \A m \in uploads : m.state.serial >= 0 /\ m.state.lock <= locks
  /\ \A m \in unlocks : m.lock <= locks
  /\ \A i \in DOMAIN versions : versions[i].lock <= locks

\* A runner asks for the release of its lock only when it has stopped working.
ReleasedLast ==
  \A m \in unlocks : runner[m.session].lock = m.lock => runner[m.session].at = "unlocking"

\* Nothing has been computed under a lock that is still being asked for.
LockedFirst ==
  \A s \in Sessions : runner[s].at = "locking" =>
    /\ \A t \in Sessions : t # s => runner[t].lock # runner[s].lock
    /\ \A m \in uploads : m.state.lock # runner[s].lock
    /\ \A i \in DOMAIN versions : versions[i].lock # runner[s].lock

\* The author of a state with this base and lock knows the newest version.
Knows(base, lock) == base = project.serial \/ (versions # <<>> /\ Last.lock = lock)

AuthorsAreCurrent ==
  /\ \A s \in Sessions : runner[s].at \in {"editing", "posting"} =>
       Knows(runner[s].base, runner[s].lock)
  /\ \A m \in uploads : m.state.lock = project.lock => Knows(m.state.base, m.state.lock)

IInv ==
  /\ TypeOK
  /\ PointsAtNewest
  /\ Numbered
  /\ ReleasedLast
  /\ LockedFirst
  /\ LockIsExclusive
  /\ AuthorsAreCurrent
  /\ AcknowledgedIsStored

Kinds == {"idle", "locking", "locked", "editing", "posting", "unlocking"}

\* The fields of the rows and requests the invariant is about.
LEMMA Fields ==
  ASSUME TypeOK
  PROVE  /\ project.lock \in Nat /\ project.serial \in Int /\ locks \in Nat
         /\ \A s \in Sessions : /\ runner[s].at \in Kinds
                                /\ runner[s].lock \in Nat /\ runner[s].base \in Int
                                /\ runner[s].copy.serial \in Int
         /\ \A m \in uploads : /\ m.session \in Sessions /\ m.state \in State
                               /\ m.state.lock \in Nat /\ m.state.serial \in Int
                               /\ m.state.base \in Int
         /\ \A m \in unlocks : m.session \in Sessions /\ m.lock \in Nat
         /\ Len(versions) \in Nat /\ DOMAIN versions = 1..Len(versions)
         /\ \A i \in DOMAIN versions : versions[i].lock \in Nat /\ versions[i].serial \in Int
<1> USE DEF TypeOK, LockId, Serial, NoLock
<1>1. project.lock \in Nat /\ project.serial \in Int /\ locks \in Nat
  BY DEF Project
<1>2. ASSUME NEW s \in Sessions
      PROVE  /\ runner[s].at \in Kinds
             /\ runner[s].lock \in Nat /\ runner[s].base \in Int
             /\ runner[s].copy.serial \in Int
  <2>1. runner[s] \in Runner OBVIOUS
  <2> QED BY <2>1 DEF Runner, Document, Kinds
<1>3. ASSUME NEW m \in uploads
      PROVE  /\ m.session \in Sessions /\ m.state \in State
             /\ m.state.lock \in Nat /\ m.state.serial \in Int
             /\ m.state.base \in Int
  <2>1. m \in Upload OBVIOUS
  <2> QED BY <2>1 DEF Upload, State
<1>4. ASSUME NEW m \in unlocks PROVE m.session \in Sessions /\ m.lock \in Nat
  <2>1. m \in Unlock OBVIOUS
  <2> QED BY <2>1 DEF Unlock
<1>5. Len(versions) \in Nat /\ DOMAIN versions = 1..Len(versions)
  OBVIOUS
<1>6. ASSUME NEW i \in DOMAIN versions
      PROVE  versions[i].lock \in Nat /\ versions[i].serial \in Int
  <2>1. versions[i] \in State BY <1>5
  <2> QED BY <2>1 DEF State
<1> QED BY <1>1, <1>2, <1>3, <1>4, <1>5, <1>6

\* Initially there is no state, no lock and no session.
LEMMA InitEstablishes == Init => IInv
<1> SUFFICES ASSUME Init PROVE IInv OBVIOUS
<1> USE DEF Init
<1>0. Nothing.lineage \in Lineages /\ Nothing.content \in Contents /\ Nothing.serial = -1
  BY DEF Nothing
<1>1. TypeOK
  <2>1. project \in Project /\ (project.lock = NoLock <=> project.holder = Nobody)
    BY <1>0 DEF NewProject, Project, NoLock, Serial
  <2>2. IdleRunner \in Runner
    <3>1. Nothing \in Document BY <1>0 DEF Nothing, Document, Serial
    <3> QED BY <3>1 DEF IdleRunner, Runner, NoLock, Serial
  <2> QED BY <2>1, <2>2 DEF TypeOK, NewProject, Session
<1>2. PointsAtNewest /\ Numbered /\ ReleasedLast /\ LockedFirst
  BY DEF PointsAtNewest, Numbered, ReleasedLast, LockedFirst, IdleRunner, NoLock
<1>3. LockIsExclusive /\ AuthorsAreCurrent /\ AcknowledgedIsStored
  BY DEF LockIsExclusive, AuthorsAreCurrent, AcknowledgedIsStored, IdleRunner
<1> QED BY <1>1, <1>2, <1>3 DEF IInv

-----------------------------------------------------------------------------
(* Steps of administration and of the runners.                             *)

LEMMA AccessKeeps ==
  ASSUME IInv, NEW s \in Sessions,
         \/ \E writable \in BOOLEAN : newStateSession(s, writable)
         \/ SessionExpires(s)
         \/ \E permissions \in SUBSET {"read", "publish"} : ChangeAccess(s, permissions)
  PROVE  IInv'
<1> USE DEF IInv, server, network
<1>1. UNCHANGED <<project, versions, runner, uploads, unlocks, locks, acknowledged>>
  BY DEF newStateSession, SessionExpires, ChangeAccess
<1>2. session' \in [Sessions -> Session] /\ permitted' \in [Sessions -> SUBSET {"read", "publish"}]
  BY DEF newStateSession, SessionExpires, ChangeAccess, TypeOK, Session
<1>3. TypeOK' BY <1>1, <1>2 DEF TypeOK
<1>4. PointsAtNewest' /\ Numbered' /\ ReleasedLast' /\ LockedFirst'
  BY <1>1 DEF PointsAtNewest, Last, Numbered, ReleasedLast, LockedFirst
<1>5. LockIsExclusive' /\ AuthorsAreCurrent' /\ AcknowledgedIsStored'
  BY <1>1 DEF LockIsExclusive, AuthorsAreCurrent, Knows, Last, AcknowledgedIsStored
<1> QED BY <1>3, <1>4, <1>5

\* What the invariant says of a runner r of session s.
Plausible(s, r) ==
  /\ r.at # "idle" => r.lock >= 1
  /\ r.at = "posting" => r.copy.serial >= 0
  /\ \A m \in unlocks : m.session = s /\ m.lock = r.lock => r.at = "unlocking"
  /\ r.lock \in {runner[s].lock, 0} \/ r.lock > locks
  /\ r.at = "locking" => r.lock > locks
  /\ r.at \in {"locked", "editing", "posting"} => project.lock = r.lock /\ project.holder = s
  /\ r.at \in {"editing", "posting"} => Knows(r.base, r.lock)

TablesAndNetwork == <<project, versions, session, permitted, uploads, unlocks, acknowledged>>

\* A step of one runner that leaves the tables and the network alone keeps the
\* invariant if what it says of that runner holds afterwards.
LEMMA RunnerKeeps ==
  ASSUME IInv, NEW s \in Sessions, NEW r \in Runner, Plausible(s, r),
         UNCHANGED TablesAndNetwork,
         runner' = [runner EXCEPT ![s] = r],
         locks' \in 0..MaxLocks, locks' >= locks, r.lock <= locks'
  PROVE  IInv'
<1> USE DEF IInv, TablesAndNetwork
<1>0. r.lock \in Nat /\ r.at \in Kinds /\ r.copy.serial \in Int /\ r.base \in Int
  BY DEF Runner, LockId, NoLock, Document, Serial, Kinds
<1>1. \A t \in Sessions : runner'[t] = IF t = s THEN r ELSE runner[t]
  BY DEF TypeOK
<1>2. TypeOK' BY DEF TypeOK
<1>3. PointsAtNewest' BY DEF PointsAtNewest, Last
<1>4. Numbered' BY <1>0, <1>1, Fields DEF Numbered, Plausible
<1>5. ReleasedLast' BY <1>1, Fields DEF ReleasedLast, Plausible
<1>6. LockedFirst'
  <2> SUFFICES ASSUME NEW t \in Sessions, runner'[t].at = "locking"
               PROVE  /\ \A u \in Sessions : u # t => runner'[u].lock # runner'[t].lock
                      /\ \A m \in uploads : m.state.lock # runner'[t].lock
                      /\ \A i \in DOMAIN versions : versions[i].lock # runner'[t].lock
    BY DEF LockedFirst
  <2>1. CASE t = s
    BY <2>1, <1>0, <1>1, Fields DEF Numbered, Plausible
  <2>2. CASE t # s
    <3>1. runner[t].at = "locking" /\ runner[t].lock >= 1 /\ runner[t].lock <= locks
      BY <2>2, <1>1 DEF Numbered
    <3> QED BY <3>1, <2>2, <1>0, <1>1, Fields DEF LockedFirst, Plausible
  <2> QED BY <2>1, <2>2
<1>7. LockIsExclusive' BY <1>1 DEF LockIsExclusive, Plausible
<1>8. AuthorsAreCurrent' BY <1>1 DEF AuthorsAreCurrent, Knows, Last, Plausible
<1>9. AcknowledgedIsStored' BY DEF AcknowledgedIsStored
<1> QED BY <1>2, <1>3, <1>4, <1>5, <1>6, <1>7, <1>8, <1>9

LEMMA BeginLockKeeps ==
  ASSUME IInv, NEW s \in Sessions, BeginLock(s)
  PROVE  IInv'
<1> DEFINE r == [at |-> "locking", lock |-> locks + 1, base |-> -1, copy |-> Nothing]
<1>1. locks \in Nat /\ locks + 1 \in LockId
  BY Fields DEF IInv, BeginLock, LockId
<1>2. r \in Runner
  <2>1. Nothing \in Document BY DEF Nothing, Document, Serial
  <2>2. -1 \in Serial BY DEF Serial
  <2> QED BY <2>1, <2>2, <1>1 DEF Runner
<1>3. \A m \in unlocks : m.lock # locks + 1 BY <1>1, Fields DEF IInv, Numbered
<1>4. Plausible(s, r) BY <1>1, <1>3 DEF Plausible
<1>5. UNCHANGED TablesAndNetwork /\ runner' = [runner EXCEPT ![s] = r] /\ locks' = locks + 1
  BY DEF BeginLock, TablesAndNetwork, server, access, network
<1>6. r.lock = locks + 1 /\ r.lock <= locks' /\ locks' >= locks /\ locks' \in 0..MaxLocks
  BY <1>1, <1>5 DEF LockId
<1> HIDE DEF r
<1> QED BY <1>1, <1>2, <1>4, <1>5, <1>6, RunnerKeeps

LEMMA ReadStateKeeps ==
  ASSUME IInv, NEW s \in Sessions, ReadState(s)
  PROVE  IInv'
<1>1. PICK l \in Lineages, c \in Contents :
        runner' = [runner EXCEPT ![s] =
          [at |-> "editing", lock |-> runner[s].lock, base |-> project.serial,
           copy |-> IF project.serial = -1
                    THEN [lineage |-> l, serial |-> -1, content |-> c]
                    ELSE Hashed(project)]]
  BY DEF ReadState
<1> DEFINE copy == IF project.serial = -1
                   THEN [lineage |-> l, serial |-> -1, content |-> c]
                   ELSE Hashed(project)
           r == [at |-> "editing", lock |-> runner[s].lock, base |-> project.serial,
                 copy |-> copy]
<1>2. project \in Project /\ runner \in [Sessions -> Runner] /\ runner[s] \in Runner
  BY DEF IInv, TypeOK
<1>3. copy \in Document BY <1>2 DEF Project, Document, Hashed, Serial
<1>4. r \in Runner
  BY <1>2, <1>3 DEF Runner, Project
<1>5. runner' = [runner EXCEPT ![s] = r] BY <1>1
<1>6. runner[s].at \in {"locked", "editing"} BY DEF ReadState
<1>7. \A m \in unlocks : ~(m.session = s /\ m.lock = runner[s].lock)
  BY <1>6 DEF IInv, ReleasedLast
<1>8. /\ project.lock = runner[s].lock /\ project.holder = s
      /\ runner[s].lock >= 1 /\ runner[s].lock <= locks
  BY <1>6 DEF IInv, LockIsExclusive, Numbered
<1>9. Plausible(s, r) BY <1>7, <1>8 DEF Plausible, Knows
<1>10. UNCHANGED TablesAndNetwork /\ locks' = locks
  BY DEF ReadState, TablesAndNetwork, server, access, network
<1>11. locks' \in 0..MaxLocks /\ locks' >= locks /\ r.lock <= locks'
  BY <1>8, <1>10, Fields DEF IInv, TypeOK
<1> HIDE DEF r
<1> QED BY <1>4, <1>5, <1>9, <1>10, <1>11, RunnerKeeps

\* The runner only moves on, keeping its lock, base and copy.
LEMMA MoveKeeps ==
  ASSUME IInv, NEW s \in Sessions, NEW at \in {"idle", "locked", "unlocking", "editing"},
         UNCHANGED <<TablesAndNetwork, locks>>,
         runner[s].at # "idle",
         runner' = [runner EXCEPT ![s].at = at],
         at = "idle" => runner[s].at = "locking",
         at = "editing" => runner[s].at = "posting",
         at = "locked" => /\ runner[s].at = "locking"
                          /\ project.lock = runner[s].lock /\ project.holder = s
  PROVE  IInv'
<1> DEFINE r == [at |-> at, lock |-> runner[s].lock, base |-> runner[s].base,
                 copy |-> runner[s].copy]
<1>1. runner \in [Sessions -> Runner] /\ runner[s] \in Runner BY DEF IInv, TypeOK
<1>2. r \in Runner BY <1>1 DEF Runner
<1>3. runner' = [runner EXCEPT ![s] = r]
  <2>1. runner[s] = [at |-> runner[s].at, lock |-> runner[s].lock,
                     base |-> runner[s].base, copy |-> runner[s].copy]
    BY <1>1 DEF Runner
  <2>2. runner' = [runner EXCEPT ![s] = [runner[s] EXCEPT !.at = at]]
    OBVIOUS
  <2> QED BY <2>1, <2>2
<1>4. runner[s].lock <= locks /\ runner[s].lock >= 1 BY DEF IInv, Numbered
<1>5. \A m \in unlocks : m.session = s /\ m.lock = runner[s].lock => runner[s].at = "unlocking"
  BY DEF IInv, ReleasedLast
<1>6. at = "editing" => /\ project.lock = runner[s].lock /\ project.holder = s
                        /\ Knows(runner[s].base, runner[s].lock)
  BY DEF IInv, LockIsExclusive, AuthorsAreCurrent
<1>7. Plausible(s, r) BY <1>4, <1>5, <1>6 DEF Plausible
<1>8. locks' \in 0..MaxLocks /\ locks' >= locks /\ r.lock <= locks'
  BY <1>4, Fields DEF IInv, TypeOK
<1> HIDE DEF r
<1> QED BY <1>2, <1>3, <1>7, <1>8, RunnerKeeps

LEMMA WriteStateKeeps ==
  ASSUME IInv, NEW s \in Sessions, WriteState(s)
  PROVE  IInv'
<1>1. PICK c \in Contents :
        runner' = [runner EXCEPT ![s] =
          [at |-> "posting", lock |-> runner[s].lock, base |-> runner[s].base,
           copy |-> [lineage |-> runner[s].copy.lineage,
                     serial |-> runner[s].copy.serial + 1, content |-> c]]]
  BY DEF WriteState
<1> DEFINE copy == [lineage |-> runner[s].copy.lineage, serial |-> runner[s].copy.serial + 1,
                    content |-> c]
           r == [at |-> "posting", lock |-> runner[s].lock, base |-> runner[s].base,
                 copy |-> copy]
<1>2. runner \in [Sessions -> Runner] /\ runner[s] \in Runner /\ runner[s].copy \in Document
  BY DEF IInv, TypeOK, Runner
<1>3. copy \in Document /\ copy.serial >= 0
  BY <1>2 DEF Document, Serial, WriteState
<1>4. r \in Runner BY <1>2, <1>3 DEF Runner
<1>5. runner' = [runner EXCEPT ![s] = r] BY <1>1
<1>6. \A m \in unlocks : ~(m.session = s /\ m.lock = runner[s].lock)
  BY DEF WriteState, IInv, ReleasedLast
<1>7. /\ project.lock = runner[s].lock /\ project.holder = s
      /\ runner[s].lock >= 1 /\ runner[s].lock <= locks
      /\ Knows(runner[s].base, runner[s].lock)
  BY DEF WriteState, IInv, LockIsExclusive, Numbered, AuthorsAreCurrent
<1>8. Plausible(s, r) BY <1>3, <1>6, <1>7 DEF Plausible
<1>9. UNCHANGED TablesAndNetwork /\ locks' = locks
  BY DEF WriteState, TablesAndNetwork, server, access, network
<1>10. locks' \in 0..MaxLocks /\ locks' >= locks /\ r.lock <= locks'
  BY <1>7, <1>9, Fields DEF IInv, TypeOK
<1> HIDE DEF r
<1> QED BY <1>4, <1>5, <1>8, <1>9, <1>10, RunnerKeeps

LEMMA RunnerDiesKeeps ==
  ASSUME IInv, NEW s \in Sessions, UNCHANGED <<TablesAndNetwork, locks>>,
         runner' = [runner EXCEPT ![s] = IdleRunner]
  PROVE  IInv'
<1>1. IdleRunner \in Runner
  <2>1. Nothing \in Document BY DEF Nothing, Document, Serial
  <2>2. -1 \in Serial BY DEF Serial
  <2> QED BY <2>1, <2>2 DEF Runner, IdleRunner
<1>2. Plausible(s, IdleRunner)
  BY Fields DEF Plausible, IdleRunner, NoLock, IInv, TypeOK, Unlock, LockId
<1>3. locks' \in 0..MaxLocks /\ locks' >= locks /\ IdleRunner.lock <= locks'
  BY Fields DEF IInv, TypeOK, IdleRunner, NoLock
<1> QED BY <1>1, <1>2, <1>3, RunnerKeeps

\* The steps of a runner that are neither a request nor BeginLock, ReadState or WriteState.
LEMMA RunnerMovesKeep ==
  ASSUME IInv, NEW s \in Sessions, GiveUpUpload(s) \/ FinishWork(s) \/ RunnerDies(s)
  PROVE  IInv'
<1> USE DEF server, access, network, TablesAndNetwork
<1>1. CASE GiveUpUpload(s) BY <1>1, MoveKeeps DEF GiveUpUpload
<1>2. CASE FinishWork(s) BY <1>2, MoveKeeps DEF FinishWork
<1>3. CASE RunnerDies(s) BY <1>3, RunnerDiesKeeps DEF RunnerDies
<1> QED BY <1>1, <1>2, <1>3

-----------------------------------------------------------------------------
(* Requests on their way.                                                  *)

\* An answer takes the runner that waits for it back to editing.
Answers(t, m) ==
  /\ t = m.session /\ runner[t].at = "posting" /\ runner'[t].at = "editing"
  /\ runner'[t].lock = runner[t].lock /\ runner[t].lock = m.state.lock
  /\ runner'[t].copy = runner[t].copy

LEMMA AnswerMoves ==
  ASSUME IInv, NEW m \in uploads, UploadSucceeds(m) \/ UploadFails(m)
  PROVE  /\ runner' \in [Sessions -> Runner]
         /\ \A t \in Sessions : runner'[t] = runner[t] \/ Answers(t, m)
         /\ UploadFails(m) => \A t \in Sessions : runner'[t].base = runner[t].base
         /\ \A t \in Sessions : runner'[t].base \in {runner[t].base, m.state.serial}
         /\ acknowledged' \subseteq acknowledged \cup {Hashed(m.state)}
<1> USE DEF IInv, TypeOK
<1>1. m.session \in Sessions /\ m.state.serial \in Serial /\ m.state = m.state
  <2>1. m \in Upload OBVIOUS
  <2> QED BY <2>1 DEF Upload, State
<1>2. CASE UNCHANGED runner
  BY <1>2 DEF UploadSucceeds, UploadFails
<1>3. CASE Waiting(m) /\ runner' = [runner EXCEPT ![m.session].at = "editing",
                                                 ![m.session].base = m.state.serial]
                      /\ UploadSucceeds(m)
  <2>1. runner[m.session] \in Runner BY <1>1
  <2>2. runner'[m.session] \in Runner BY <1>1, <1>3, <2>1 DEF Runner
  <2>3. runner' \in [Sessions -> Runner] BY <1>3, <2>2
  <2>4. m.state.lock = runner[m.session].lock /\ runner[m.session].at = "posting"
    BY <1>3 DEF Waiting, Computed
  <2>5. runner'[m.session].base = m.state.serial /\ Answers(m.session, m)
    BY <1>1, <1>3, <2>1, <2>4 DEF Answers, Runner
  <2>6. \A t \in Sessions : t # m.session => runner'[t] = runner[t] BY <1>3
  <2>7. UploadFails(m) => runner'[m.session].base = runner[m.session].base
    BY <1>1, <2>1 DEF UploadFails, Runner
  <2> QED BY <1>1, <1>3, <2>3, <2>5, <2>6, <2>7 DEF UploadSucceeds
<1>4. CASE Waiting(m) /\ runner' = [runner EXCEPT ![m.session].at = "editing"]
                      /\ UploadFails(m)
  <2>1. runner[m.session] \in Runner BY <1>1
  <2>2. runner'[m.session] \in Runner BY <1>1, <1>4, <2>1 DEF Runner
  <2>3. runner' \in [Sessions -> Runner] BY <1>4, <2>2
  <2>4. m.state.lock = runner[m.session].lock /\ runner[m.session].at = "posting"
    BY <1>4 DEF Waiting, Computed
  <2>5. runner'[m.session].base = runner[m.session].base /\ Answers(m.session, m)
    BY <1>1, <1>4, <2>1, <2>4 DEF Answers, Runner
  <2>6. \A t \in Sessions : t # m.session => runner'[t] = runner[t] BY <1>4
  <2> QED BY <1>1, <1>4, <2>3, <2>5, <2>6 DEF UploadFails
<1> QED BY <1>2, <1>3, <1>4 DEF UploadSucceeds, UploadFails

\* What an answered upload leaves of the runners' part of the invariant.
LEMMA AnswerKeepsRunners ==
  ASSUME IInv, NEW m \in uploads, UploadSucceeds(m) \/ UploadFails(m),
         uploads' \subseteq uploads, UNCHANGED <<unlocks, locks>>,
         project'.lock = project.lock, project'.holder = project.holder,
         \A i \in DOMAIN versions' :
           \/ i \in DOMAIN versions /\ versions'[i] = versions[i]
           \/ versions'[i] = m.state
  PROVE  Numbered' /\ ReleasedLast' /\ LockedFirst' /\ LockIsExclusive'
<1> USE AnswerMoves DEF IInv
<1>0. m.session \in Sessions /\ runner' \in [Sessions -> Runner] BY Fields
<1>1. Numbered' BY Fields DEF Numbered, Answers
<1>2. ReleasedLast' BY Fields DEF ReleasedLast, Answers
<1>3. LockedFirst'
  <2> SUFFICES ASSUME NEW t \in Sessions, runner'[t].at = "locking"
               PROVE  /\ \A u \in Sessions : u # t => runner'[u].lock # runner'[t].lock
                      /\ \A n \in uploads' : n.state.lock # runner'[t].lock
                      /\ \A i \in DOMAIN versions' : versions'[i].lock # runner'[t].lock
    BY DEF LockedFirst
  <2>1. runner'[t] = runner[t] BY DEF Answers
  <2>2. \A u \in Sessions : runner'[u].lock = runner[u].lock BY DEF Answers
  <2> QED BY <2>1, <2>2 DEF LockedFirst
<1>4. LockIsExclusive' BY DEF LockIsExclusive, Answers
<1> QED BY <1>1, <1>2, <1>3, <1>4

LEMMA RepeatOrRefuseKeeps ==
  ASSUME IInv, NEW m \in uploads, RepeatState(m) \/ RefuseState(m)
  PROVE  IInv'
<1> USE DEF IInv
<1>1. /\ UNCHANGED <<project, versions, session, permitted, unlocks, locks>>
      /\ uploads' \subseteq uploads
  BY DEF RepeatState, RefuseState, server, access, Delivered
<1>2. UploadSucceeds(m) \/ UploadFails(m) BY DEF RepeatState, RefuseState
<1>3. Numbered' /\ ReleasedLast' /\ LockedFirst' /\ LockIsExclusive'
  BY <1>1, <1>2, AnswerKeepsRunners
<1>4. Hashed(m.state) \in Document
  <2>1. m \in Upload BY DEF TypeOK
  <2> QED BY <2>1 DEF Upload, State, Document, Hashed
<1>5. TypeOK'
  <2>1. runner' \in [Sessions -> Runner] /\ acknowledged' \subseteq Document
    BY <1>2, <1>4, AnswerMoves DEF TypeOK
  <2> QED BY <1>1, <2>1 DEF TypeOK
<1>6. PointsAtNewest' BY <1>1 DEF PointsAtNewest, Last
<1>7. \A t \in Sessions : runner'[t].base \in {runner[t].base, project.serial}
  BY <1>2, AnswerMoves, Fields DEF RepeatState, RefuseState
<1>8. AuthorsAreCurrent'
  BY <1>1, <1>2, <1>7, AnswerMoves, Fields DEF AuthorsAreCurrent, Knows, Last, Answers
<1>9. AcknowledgedIsStored'
  <2>1. CASE RepeatState(m)
    <3>1. project.serial >= 0 /\ Hashed(m.state) = Hashed(project)
      BY <2>1, Fields DEF RepeatState, Contradicts, Numbered
    <3>2. versions # <<>> /\ Len(versions) \in DOMAIN versions
      BY <3>1, Fields DEF TypeOK
    <3> QED BY <1>1, <1>2, <3>1, <3>2, AnswerMoves DEF AcknowledgedIsStored, PointsAtNewest, Last
  <2>2. CASE RefuseState(m)
    BY <1>1, <2>2 DEF RefuseState, UploadFails, AcknowledgedIsStored
  <2> QED BY <2>1, <2>2
<1> QED BY <1>3, <1>5, <1>6, <1>8, <1>9

LEMMA StoreStateKeeps ==
  ASSUME IInv, NEW m \in uploads, StoreState(m)
  PROVE  IInv'
<1> USE DEF IInv
<1>1. /\ UNCHANGED <<session, permitted, unlocks, locks>>
      /\ uploads' \subseteq uploads
      /\ versions' = Append(versions, m.state)
      /\ project' = [project EXCEPT !.lineage = m.state.lineage, !.serial = m.state.serial,
                                    !.content = m.state.content]
      /\ UploadSucceeds(m) /\ project.lock = m.state.lock /\ project.holder = m.session
  BY DEF StoreState, access, Delivered, UnderLock, HoldsLock
<1>2. m.state \in State /\ m.state.serial >= 0
  BY Fields DEF Numbered
<1>3. /\ project' \in Project
      /\ project'.lock = project.lock /\ project'.holder = project.holder
      /\ Hashed(project') = Hashed(m.state) /\ project'.serial = m.state.serial
  BY <1>1, <1>2 DEF TypeOK, Project, State, Hashed
<1>4. /\ versions' \in Seq(State) /\ versions' # <<>> /\ Len(versions') = Len(versions) + 1
      /\ versions'[Len(versions')] = m.state
      /\ DOMAIN versions \subseteq DOMAIN versions'
      /\ \A i \in DOMAIN versions : versions'[i] = versions[i]
      /\ \A i \in DOMAIN versions' : i \in DOMAIN versions \/ i = Len(versions')
  BY <1>1, <1>2 DEF TypeOK
<1>5. Numbered' /\ ReleasedLast' /\ LockedFirst' /\ LockIsExclusive'
  BY <1>1, <1>3, <1>4, AnswerKeepsRunners
<1>6. Hashed(m.state) \in Document
  BY <1>2 DEF State, Document, Hashed
<1>7. TypeOK'
  <2>1. runner' \in [Sessions -> Runner] /\ acknowledged' \subseteq Document
    BY <1>1, <1>6, AnswerMoves DEF TypeOK
  <2>2. uploads' \subseteq Upload BY <1>1 DEF TypeOK
  <2> QED BY <1>1, <1>3, <1>4, <2>1, <2>2 DEF TypeOK
<1>8. PointsAtNewest'
  BY <1>2, <1>3, <1>4 DEF PointsAtNewest, Last
<1>9. AuthorsAreCurrent'
  <2>1. Last'.lock = project'.lock BY <1>1, <1>3, <1>4 DEF Last
  <2>2. \A t \in Sessions : runner'[t].at \in {"editing", "posting"} =>
          runner'[t].lock = project'.lock
    BY <1>5 DEF LockIsExclusive
  <2> QED BY <1>1, <1>4, <2>1, <2>2 DEF AuthorsAreCurrent, Knows
<1>10. AcknowledgedIsStored'
  <2>1. \A d \in acknowledged' : d \in acknowledged \/ d = Hashed(m.state)
    BY <1>1, AnswerMoves
  <2>2. Len(versions') \in DOMAIN versions' BY <1>4
  <2> QED BY <1>4, <2>1, <2>2 DEF AcknowledgedIsStored
<1> QED BY <1>5, <1>7, <1>8, <1>9, <1>10

LEMMA SendUploadKeeps ==
  ASSUME IInv, NEW s \in Sessions, SendUpload(s)
  PROVE  IInv'
<1> USE DEF IInv
<1> DEFINE m == Computed(s)
<1>1. /\ uploads' = uploads \cup {m} /\ runner[s].at = "posting"
      /\ UNCHANGED <<project, versions, session, permitted, runner, unlocks, locks, acknowledged>>
  BY DEF SendUpload, server, access
<1>2. /\ m.state.serial = runner[s].copy.serial /\ m.state.lock = runner[s].lock
      /\ m.state.base = runner[s].base
  BY DEF Computed
<1>3. m \in Upload
  <2>1. /\ runner[s] \in Runner /\ runner[s].copy \in Document
        /\ runner[s].lock \in 1..locks /\ locks <= MaxLocks
    BY <1>1, Fields DEF TypeOK, Runner, Numbered
  <2>2. runner[s].lock \in LockId BY <2>1, Fields DEF LockId
  <2> QED BY <2>1, <2>2 DEF Computed, Upload, State, Runner, Document
<1>4. TypeOK' BY <1>1, <1>3 DEF TypeOK
<1>5. runner[s].lock <= locks /\ runner[s].copy.serial >= 0 BY <1>1 DEF Numbered
<1> HIDE DEF m
<1>6. PointsAtNewest' /\ ReleasedLast' /\ LockIsExclusive' /\ AcknowledgedIsStored'
  BY <1>1 DEF PointsAtNewest, Last, ReleasedLast, LockIsExclusive, AcknowledgedIsStored
<1>7. Numbered' BY <1>1, <1>2, <1>5 DEF Numbered
<1>8. LockedFirst' BY <1>1, <1>2 DEF LockedFirst
<1>9. AuthorsAreCurrent' BY <1>1, <1>2 DEF AuthorsAreCurrent, Knows, Last
<1> QED BY <1>4, <1>6, <1>7, <1>8, <1>9

LEMMA SendUnlockKeeps ==
  ASSUME IInv, NEW s \in Sessions, SendUnlock(s)
  PROVE  IInv'
<1> USE DEF IInv
<1> DEFINE m == [session |-> s, lock |-> runner[s].lock]
<1>1. /\ unlocks' = unlocks \cup {m} /\ runner[s].at = "unlocking"
      /\ UNCHANGED <<project, versions, session, permitted, runner, uploads, locks, acknowledged>>
  BY DEF SendUnlock, server, access
<1>2. runner[s].lock \in 1..locks /\ locks <= MaxLocks
  BY <1>1, Fields DEF TypeOK, Numbered
<1>3. m \in Unlock
  <2>1. runner[s].lock \in LockId BY <1>2, Fields DEF LockId
  <2> QED BY <2>1 DEF Unlock
<1>4. TypeOK' BY <1>1, <1>3 DEF TypeOK
<1>5. PointsAtNewest' /\ LockedFirst' /\ LockIsExclusive' /\ AcknowledgedIsStored'
  BY <1>1 DEF PointsAtNewest, Last, LockedFirst, LockIsExclusive, AcknowledgedIsStored
<1>6. Numbered' BY <1>1, <1>2, Fields DEF Numbered
<1>7. ReleasedLast' BY <1>1 DEF ReleasedLast
<1>8. AuthorsAreCurrent' BY <1>1 DEF AuthorsAreCurrent, Knows, Last
<1> QED BY <1>4, <1>5, <1>6, <1>7, <1>8

\* A release leaves no runner at work, so nothing is asked of their authors;
\* uploads under the old lock no longer count.
LEMMA UnlockStateKeeps ==
  ASSUME IInv, NEW m \in unlocks, UnlockState(m)
  PROVE  IInv'
<1> USE DEF IInv
<1>1. /\ UNCHANGED <<versions, session, permitted, uploads, locks, acknowledged>>
      /\ unlocks' \subseteq unlocks /\ UnlockAnswered(m)
  BY DEF UnlockState, access, Delivered
<1>2. m \in Unlock /\ m.session \in Sessions /\ m.lock \in Nat BY Fields DEF TypeOK
<1>3. /\ IdleRunner \in Runner /\ IdleRunner.at = "idle" /\ IdleRunner.lock = 0
  <2>1. Nothing \in Document BY DEF Nothing, Document, Serial
  <2>2. -1 \in Serial BY DEF Serial
  <2> QED BY <2>1, <2>2 DEF Runner, IdleRunner, NoLock
<1>4. /\ runner' \in [Sessions -> Runner]
      /\ \A t \in Sessions : \/ runner'[t] = runner[t]
                            \/ /\ runner'[t] = IdleRunner
                               /\ runner[t].at = "unlocking"
  <2>1. CASE UNCHANGED runner BY <2>1 DEF TypeOK
  <2>2. CASE /\ runner[m.session].at = "unlocking"
             /\ runner' = [runner EXCEPT ![m.session] = IdleRunner]
    BY <1>2, <1>3, <2>2 DEF TypeOK
  <2> QED BY <1>1, <2>1, <2>2 DEF UnlockAnswered
<1>5. \/ UNCHANGED project
      \/ /\ project' = Unlocked /\ project.lock = m.lock /\ project.holder = m.session
  BY DEF UnlockState, HoldsLock
<1>6. /\ project' \in Project /\ (project'.lock = NoLock <=> project'.holder = Nobody)
      /\ Hashed(project') = Hashed(project) /\ project'.serial = project.serial
      /\ project'.lock \in {project.lock, 0}
  BY <1>5 DEF TypeOK, Project, Unlocked, Hashed, NoLock
<1>7. TypeOK' BY <1>1, <1>4, <1>6 DEF TypeOK
<1>8. PointsAtNewest' /\ AcknowledgedIsStored'
  BY <1>1, <1>6 DEF PointsAtNewest, Last, AcknowledgedIsStored
<1>9. Numbered' BY <1>1, <1>3, <1>4, Fields DEF Numbered
<1>10. ReleasedLast'
  <2>1. \A n \in unlocks : n.lock >= 1 BY DEF TypeOK, Unlock, LockId
  <2> QED BY <1>1, <1>3, <1>4, <2>1, Fields DEF ReleasedLast
<1>11. LockedFirst'
  <2> SUFFICES ASSUME NEW t \in Sessions, runner'[t].at = "locking"
               PROVE  /\ \A u \in Sessions : u # t => runner'[u].lock # runner'[t].lock
                      /\ \A n \in uploads' : n.state.lock # runner'[t].lock
                      /\ \A i \in DOMAIN versions' : versions'[i].lock # runner'[t].lock
    BY DEF LockedFirst
  <2>1. runner'[t] = runner[t] /\ runner[t].lock >= 1 BY <1>3, <1>4 DEF Numbered
  <2> QED BY <1>1, <1>3, <1>4, <2>1, Fields DEF LockedFirst
<1>12. LockIsExclusive'
  <2> SUFFICES ASSUME NEW t \in Sessions, Works(t)'
               PROVE  project'.lock = runner'[t].lock /\ project'.holder = t
    BY DEF LockIsExclusive, Works
  <2>1. runner'[t] = runner[t] /\ Works(t) BY <1>3, <1>4 DEF Works
  <2>2. project.lock = runner[t].lock /\ project.holder = t
    BY <2>1 DEF LockIsExclusive, Works
  <2>3. UNCHANGED project
    BY <1>5, <2>1, <2>2 DEF ReleasedLast, Works
  <2> QED BY <2>1, <2>2, <2>3
<1>13. AuthorsAreCurrent'
  <2>1. \A b, l : Knows(b, l) => Knows(b, l)' BY <1>1, <1>6 DEF Knows, Last
  <2>2. \A n \in uploads : n.state.lock >= 1 BY DEF TypeOK, Upload, State, LockId
  <2>3. \A t \in Sessions : runner'[t].at \in {"editing", "posting"} => runner'[t] = runner[t]
    BY <1>3, <1>4
  <2>4. \A n \in uploads : n.state.lock = project'.lock => n.state.lock = project.lock
    BY <1>6, <2>2, Fields
  <2> QED BY <1>1, <2>1, <2>3, <2>4 DEF AuthorsAreCurrent
<1> QED BY <1>7, <1>8, <1>9, <1>10, <1>11, <1>12, <1>13

\* A lock that is granted is fresh: nobody has computed anything under it.
LEMMA LockStateKeeps ==
  ASSUME IInv, NEW s \in Sessions, LockState(s)
  PROVE  IInv'
<1> USE DEF IInv
<1>1. /\ UNCHANGED <<versions, session, permitted, uploads, unlocks, locks, acknowledged>>
      /\ runner[s].at = "locking" /\ runner[s] \in Runner
  BY DEF LockState, access, network, TypeOK
<1>2. CASE /\ project.lock = NoLock
           /\ project' = [project EXCEPT !.lock = runner[s].lock, !.holder = s]
           /\ Answered(s, "locked")
  <2>1. /\ runner' \in [Sessions -> Runner]
        /\ \A t \in Sessions : t # s => runner'[t] = runner[t]
        /\ runner'[s].at \in {"locking", "locked"} /\ runner'[s].lock = runner[s].lock
        /\ runner'[s].at = "locking" => runner'[s] = runner[s]
    <3>1. CASE UNCHANGED runner BY <1>1, <3>1 DEF TypeOK
    <3>2. CASE runner' = [runner EXCEPT ![s].at = "locked"]
      BY <1>1, <3>2 DEF TypeOK, Runner
    <3> QED BY <1>2, <3>1, <3>2 DEF Answered
  <2>2. runner[s].lock \in LockId
    BY <1>1, Fields DEF Numbered, Runner, LockId, NoLock
  <2>3. /\ project' \in Project /\ project'.lock = runner[s].lock /\ project'.holder = s
        /\ Hashed(project') = Hashed(project) /\ project'.serial = project.serial
    BY <1>2, <2>2 DEF TypeOK, Project, Hashed
  <2>4. project'.lock # NoLock /\ project'.holder # Nobody BY <2>2, <2>3 DEF LockId, NoLock
  <2>5. TypeOK' BY <1>1, <2>1, <2>3, <2>4 DEF TypeOK
  <2>6. PointsAtNewest' /\ AcknowledgedIsStored'
    BY <1>1, <2>3 DEF PointsAtNewest, Last, AcknowledgedIsStored
  <2>7. Numbered' BY <1>1, <2>1 DEF Numbered
  <2>8. ReleasedLast' BY <1>1, <2>1, Fields DEF ReleasedLast
  <2>9. LockedFirst'
    <3>1. \A t \in Sessions : runner'[t].lock = runner[t].lock BY <2>1
    <3>2. \A t \in Sessions : runner'[t].at = "locking" => runner[t].at = "locking" BY <1>1, <2>1
    <3> QED BY <1>1, <3>1, <3>2 DEF LockedFirst
  <2>10. \A t \in Sessions : ~Works(t)
    <3>1. \A t \in Sessions : runner[t].at # "idle" => runner[t].lock # NoLock
      BY Fields DEF Numbered, NoLock
    <3> QED BY <1>2, <3>1 DEF LockIsExclusive, Works
  <2>11. LockIsExclusive' BY <2>1, <2>3, <2>10 DEF LockIsExclusive, Works
  <2>12. AuthorsAreCurrent'
    <3>1. \A t \in Sessions : runner'[t].at \notin {"editing", "posting"}
      BY <2>1, <2>10 DEF Works
    <3>2. \A n \in uploads : n.state.lock # project'.lock
      BY <1>1, <2>3 DEF LockedFirst
    <3> QED BY <1>1, <3>1, <3>2 DEF AuthorsAreCurrent
  <2> QED BY <2>5, <2>6, <2>7, <2>8, <2>9, <2>11, <2>12
<1>3. CASE UNCHANGED project
  <2>0. UNCHANGED <<TablesAndNetwork, locks>> BY <1>1, <1>3 DEF TablesAndNetwork
  <2>1. CASE UNCHANGED runner
    <3>1. UNCHANGED <<TypeOK, PointsAtNewest, Numbered, ReleasedLast>>
      BY <2>0, <2>1 DEF TablesAndNetwork, TypeOK, PointsAtNewest, Last, Numbered, ReleasedLast
    <3>2. UNCHANGED <<LockedFirst, LockIsExclusive, AuthorsAreCurrent, AcknowledgedIsStored>>
      BY <2>0, <2>1 DEF TablesAndNetwork, LockedFirst, LockIsExclusive, AuthorsAreCurrent,
         Knows, Last, AcknowledgedIsStored
    <3> QED BY <3>1, <3>2
  <2>2. CASE runner' = [runner EXCEPT ![s].at = "idle"]
    BY <1>1, <2>0, <2>2, MoveKeeps
  <2>3. CASE HoldsLock(s, runner[s].lock) /\ runner' = [runner EXCEPT ![s].at = "locked"]
    BY <1>1, <2>0, <2>3, MoveKeeps DEF HoldsLock
  <2>4. \/ UNCHANGED runner
        \/ runner' = [runner EXCEPT ![s].at = "idle"]
        \/ HoldsLock(s, runner[s].lock) /\ runner' = [runner EXCEPT ![s].at = "locked"]
    <3>1. ~(project' = [project EXCEPT !.lock = runner[s].lock, !.holder = s]
            /\ project.lock = NoLock)
      <4>1. runner[s].lock # NoLock BY <1>1, Fields DEF Numbered, NoLock
      <4> QED BY <1>3, <4>1 DEF TypeOK, Project
    <3> QED BY <3>1 DEF LockState, Answered
  <2> QED BY <2>1, <2>2, <2>3, <2>4
<1> QED BY <1>2, <1>3 DEF LockState

-----------------------------------------------------------------------------
(* The theorems.                                                           *)

LEMMA StepKeeps == IInv /\ [Next]_vars => IInv'
<1> SUFFICES ASSUME IInv, [Next]_vars PROVE IInv' OBVIOUS
<1>1. CASE AccessStep
  BY <1>1, AccessKeeps, ManagedStateAssumption DEF AccessStep
<1>2. CASE RunnerStep
  BY <1>2, BeginLockKeeps, LockStateKeeps, ReadStateKeeps, WriteStateKeeps, SendUploadKeeps,
     SendUnlockKeeps, RunnerMovesKeep DEF RunnerStep
<1>3. CASE RequestStep
  <2>1. ASSUME NEW m \in uploads, StoreState(m) PROVE IInv' BY <2>1, StoreStateKeeps
  <2>2. ASSUME NEW m \in uploads, RepeatState(m) \/ RefuseState(m) PROVE IInv'
    BY <2>2, RepeatOrRefuseKeeps
  <2>3. ASSUME NEW m \in unlocks, UnlockState(m) PROVE IInv' BY <2>3, UnlockStateKeeps
  <2> QED BY <1>3, <2>1, <2>2, <2>3 DEF RequestStep
<1>4. CASE UNCHANGED vars
  <2>1. UNCHANGED <<TypeOK, PointsAtNewest, Numbered, ReleasedLast>>
    BY <1>4 DEF vars, TypeOK, PointsAtNewest, Last, Numbered, ReleasedLast
  <2>2. UNCHANGED <<LockedFirst, LockIsExclusive, AuthorsAreCurrent, AcknowledgedIsStored>>
    BY <1>4 DEF vars, LockedFirst, LockIsExclusive, AuthorsAreCurrent, Knows, Last,
       AcknowledgedIsStored
  <2> QED BY <2>1, <2>2 DEF IInv
<1> QED BY <1>1, <1>2, <1>3, <1>4 DEF Next

LEMMA Invariant == Spec => []IInv
<1> QED BY InitEstablishes, StepKeeps, PTL DEF Spec

\* Rows, requests and runners stay well typed, and the project points at its
\* newest version.
THEOREM TypeCorrect == Spec => []TypeOK
<1>1. IInv => TypeOK BY DEF IInv
<1> QED BY <1>1, Invariant, PTL

\* A runner that was told it has the lock has it until it asks for its release.
THEOREM LockExcludes == Spec => []LockIsExclusive
<1>1. IInv => LockIsExclusive BY DEF IInv
<1> QED BY <1>1, Invariant, PTL

\* What was answered with success is in the history, byte for byte.
THEOREM NothingAcknowledgedIsLost == Spec => []AcknowledgedIsStored
<1>1. IInv => AcknowledgedIsStored BY DEF IInv
<1> QED BY <1>1, Invariant, PTL

\* An accepted upload follows the newest version: its author knows it.
LEMMA StoreFollows ==
  ASSUME IInv, NEW m \in uploads, StoreState(m)
  PROVE  Register!Next
<1>1. /\ versions' = Append(versions, m.state) /\ project'.lock = project.lock
      /\ project.lock = m.state.lock /\ ~Contradicts(m.state)
      /\ m.state.serial # project.serial
  BY DEF StoreState, UnderLock, HoldsLock, IInv, TypeOK, Project
<1>2. m.state.lock # 0 /\ m.state \in State /\ versions \in Seq(State)
  <2>1. m \in Upload BY DEF IInv, TypeOK
  <2> QED BY <2>1 DEF Upload, State, LockId, IInv, TypeOK
<1>3. Len(versions') = Len(versions) + 1 /\ versions'[Len(versions')] = m.state
  BY <1>1, <1>2
<1>4. Register!Follows(m.state)
  <2> SUFFICES ASSUME versions # <<>>
               PROVE  /\ m.state.lineage = Last.lineage
                      /\ m.state.serial > Last.serial
                      /\ m.state.base = Last.serial \/ m.state.lock = Last.lock
    BY DEF Register!Follows, Register!Newest, Last
  <2>1. Last.serial = project.serial /\ Last.lineage = project.lineage
    BY DEF IInv, PointsAtNewest, Hashed
  <2>2. Last.serial >= 0
    BY Fields DEF IInv, PointsAtNewest, Last
  <2>3. Knows(m.state.base, m.state.lock) BY <1>1 DEF IInv, AuthorsAreCurrent
  <2> QED BY <1>1, <2>1, <2>2, <2>3, Fields DEF IInv, Contradicts, Knows
<1>5. Register!Write(m.state)
  BY <1>1, <1>2, <1>4 DEF Register!Write
<1> QED BY <1>3, <1>5 DEF Register!Next

\* A lock is granted when none is held, under an ID no version carries.
LEMMA LockAcquires ==
  ASSUME IInv, NEW s \in Sessions, LockState(s)
  PROVE  Register!Next \/ UNCHANGED Register!vars
<1>1. CASE UNCHANGED project BY <1>1 DEF LockState, Register!vars
<1>2. CASE /\ project.lock = NoLock /\ UNCHANGED versions
           /\ project' = [project EXCEPT !.lock = runner[s].lock, !.holder = s]
  <2>1. project'.lock = runner[s].lock BY <1>2 DEF IInv, TypeOK, Project
  <2>2. runner[s].at = "locking" /\ runner[s].lock # 0
    BY Fields DEF LockState, IInv, Numbered
  <2>3. Register!Acquire(project'.lock)
    BY <1>2, <2>1, <2>2 DEF Register!Acquire, IInv, LockedFirst, NoLock
  <2> QED BY <2>3 DEF Register!Next
<1> QED BY <1>1, <1>2 DEF LockState

\* The backend implements the register with a history: one lineage, growing
\* serials, and no version replaced by one computed without it.
THEOREM Implements == Spec => ImplementsRegister
<1>1. Init => Register!Init
  BY DEF Init, NewProject, NoLock, Register!Init
<1>2. IInv /\ [Next]_vars => [Register!Next]_(Register!vars)
  <2> SUFFICES ASSUME IInv, [Next]_vars
               PROVE  Register!Next \/ UNCHANGED Register!vars
    OBVIOUS
  <2>1. CASE AccessStep
    BY <2>1 DEF AccessStep, newStateSession, SessionExpires, ChangeAccess, server, Register!vars
  <2>2. CASE RunnerStep
    BY <2>2, LockAcquires DEF RunnerStep, BeginLock, ReadState, WriteState, SendUpload,
       GiveUpUpload, FinishWork, SendUnlock, RunnerDies, server, Register!vars
  <2>3. CASE RequestStep
    <3>1. ASSUME NEW m \in uploads, StoreState(m) PROVE Register!Next
      BY <3>1, StoreFollows
    <3>2. ASSUME NEW m \in uploads, RepeatState(m) \/ RefuseState(m)
          PROVE  UNCHANGED Register!vars
      BY <3>2 DEF RepeatState, RefuseState, server, Register!vars
    <3>3. ASSUME NEW m \in unlocks, UnlockState(m)
          PROVE  Register!Next \/ UNCHANGED Register!vars
      <4>1. CASE project' = Unlocked
        <5>1. project'.lock = 0 BY <4>1 DEF Unlocked, NoLock, IInv, TypeOK, Project
        <5>2. UNCHANGED versions BY <3>3 DEF UnlockState
        <5>3. Register!Release BY <5>1, <5>2 DEF Register!Release
        <5> QED BY <5>3 DEF Register!Next
      <4>2. CASE UNCHANGED project BY <3>3, <4>2 DEF UnlockState, Register!vars
      <4> QED BY <3>3, <4>1, <4>2 DEF UnlockState
    <3> QED BY <2>3, <3>1, <3>2, <3>3 DEF RequestStep
  <2>4. CASE UNCHANGED vars BY <2>4 DEF vars, Register!vars
  <2> QED BY <2>1, <2>2, <2>3, <2>4 DEF Next
<1> QED BY <1>1, <1>2, Invariant, PTL DEF Spec, ImplementsRegister, Register!Spec
=============================================================================
