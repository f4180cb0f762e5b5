---------------------------- MODULE ManagedState -----------------------------
(***************************************************************************)
(* Managed Terraform/OpenTofu state of one project: the HTTP backend of    *)
(* internal/core/managed_state.go (GET, LOCK, POST, UNLOCK), the sessions  *)
(* that may call it, and runners that lock, read, upload and unlock while  *)
(* answers are lost and uploads arrive late or twice.                      *)
(*                                                                         *)
(* The server handles a request in one transaction, which locks the        *)
(* organization and the project row, so a request is one action.  Uploads  *)
(* and unlocks wait in the network, from which a copy may be delivered at  *)
(* any later time.  A LOCK is not delayed past the answer its runner gives *)
(* up on: the server drops a request when its connection is closed.        *)
(* A state document is its lineage, its serial and what else its hash      *)
(* covers; it carries two facts the server does not see or does not        *)
(* compare, the serial its author had last seen stored and, of its lock,   *)
(* which stored version came from it.                                      *)
(***************************************************************************)
EXTENDS Integers, Sequences, FiniteSets

CONSTANTS
  Sessions,     \* capabilities issued for the project
  Lineages, Contents,
  MaxSerial,    \* bound on the serial of a state
  MaxLocks,     \* bound on the lock IDs runners draw
  MaxInFlight,  \* bound on the undelivered uploads and unlocks
  AccessChanges,  \* what an administrator may leave a requester with in this instance
  Nobody

ASSUME ManagedStateAssumption ==
  /\ MaxSerial \in Nat /\ MaxLocks \in Nat /\ MaxInFlight \in Nat
  /\ Nobody \notin Sessions
  /\ Lineages # {} /\ Contents # {}
  /\ AccessChanges \subseteq SUBSET {"read", "publish"}

VARIABLES
  project,       \* the row of automation_projects
  versions,      \* the rows of automation_states, in the order of insertion
  session,       \* per session: the row of automation_state_sessions
  permitted,     \* per session: what its requester may do in the organization
  runner,        \* per session: the Terraform process that uses it
  uploads,       \* POST requests on their way
  unlocks,       \* UNLOCK requests on their way
  locks,         \* lock IDs drawn so far
  acknowledged   \* documents whose upload was answered with success

server == <<project, versions>>
access == <<session, permitted>>
network == <<uploads, unlocks>>
vars == <<project, versions, session, permitted, runner, uploads, unlocks, locks,
          acknowledged>>

-----------------------------------------------------------------------------
LockId == 1..MaxLocks
NoLock == 0
Serial == -1..MaxSerial

Document == [lineage : Lineages, serial : Serial, content : Contents]
State == [lineage : Lineages, serial : Serial, content : Contents,
          base : Serial, lock : LockId]

Project == [lock : LockId \cup {NoLock}, holder : Sessions \cup {Nobody},
            lineage : Lineages, serial : Serial, content : Contents]
Session == [status : {"new", "open", "ended"}, writable : BOOLEAN]
Runner == [at : {"idle", "locking", "locked", "editing", "posting", "unlocking"},
           lock : LockId \cup {NoLock}, base : Serial, copy : Document]
Unlock == [session : Sessions, lock : LockId]
Upload == [session : Sessions, state : State]

Hashed(s) == [lineage |-> s.lineage, serial |-> s.serial, content |-> s.content]
Nothing == [lineage |-> CHOOSE l \in Lineages : TRUE, serial |-> -1,
            content |-> CHOOSE c \in Contents : TRUE]
NewProject == [lock |-> NoLock, holder |-> Nobody, lineage |-> Nothing.lineage,
               serial |-> -1, content |-> Nothing.content]
IdleRunner == [at |-> "idle", lock |-> NoLock, base |-> -1, copy |-> Nothing]

Init ==
  /\ project = NewProject
  /\ versions = <<>>
  /\ session = [s \in Sessions |-> [status |-> "new", writable |-> FALSE]]
  /\ permitted = [s \in Sessions |-> {"read", "publish"}]
  /\ runner = [s \in Sessions |-> IdleRunner]
  /\ uploads = {} /\ unlocks = {}
  /\ locks = 0
  /\ acknowledged = {}

-----------------------------------------------------------------------------
(* Sessions and permissions.                                               *)

newStateSession(s, writable) ==
  /\ session[s].status = "new"
  /\ (IF writable THEN "publish" ELSE "read") \in permitted[s]
  /\ session' = [session EXCEPT ![s] = [status |-> "open", writable |-> writable]]
  /\ UNCHANGED <<server, permitted, runner, network, locks, acknowledged>>

\* Fifteen minutes have passed.
SessionExpires(s) ==
  /\ session[s].status = "open"
  /\ session' = [session EXCEPT ![s].status = "ended"]
  /\ UNCHANGED <<server, permitted, runner, network, locks, acknowledged>>

ChangeAccess(s, permissions) ==
  /\ permitted' = [permitted EXCEPT ![s] = permissions]
  /\ UNCHANGED <<server, session, runner, network, locks, acknowledged>>

MayRead(s) == session[s].status = "open" /\ "read" \in permitted[s]
MayWrite(s) == session[s].status = "open" /\ session[s].writable
                 /\ "publish" \in permitted[s]

-----------------------------------------------------------------------------
(* LOCK and GET, which their runner waits for.                             *)

BeginLock(s) ==
  /\ runner[s].at = "idle" /\ session[s].status # "new"
  /\ locks < MaxLocks
  /\ locks' = locks + 1
  /\ runner' = [runner EXCEPT ![s] = [at |-> "locking", lock |-> locks + 1,
                                     base |-> -1, copy |-> Nothing]]
  /\ UNCHANGED <<server, access, network, acknowledged>>

\* An answer that is lost leaves the runner where it was, to try again.
Answered(s, at) == runner' \in {runner, [runner EXCEPT ![s].at = at]}

\* Fault: the lock ID is not compared.
HoldsAnyLock(s, lock) == project.lock # NoLock /\ project.holder = s

HoldsLock(s, lock) == project.lock = lock /\ project.holder = s

LockState(s) ==
  /\ runner[s].at = "locking"
  /\ \/ /\ MayWrite(s) /\ project.lock = NoLock
        /\ project' = [project EXCEPT !.lock = runner[s].lock, !.holder = s]
        /\ Answered(s, "locked")
     \/ /\ MayWrite(s) /\ HoldsLock(s, runner[s].lock)
        /\ Answered(s, "locked")
        /\ UNCHANGED project
     \/ /\ ~MayWrite(s) \/ (project.lock # NoLock /\ ~HoldsLock(s, runner[s].lock))
        /\ Answered(s, "idle")
        /\ UNCHANGED project
  /\ UNCHANGED <<versions, access, network, locks, acknowledged>>

\* A project without state answers 404: the runner starts a lineage.
ReadState(s) ==
  /\ runner[s].at \in {"locked", "editing"}
  /\ MayRead(s)
  /\ \E l \in Lineages, c \in Contents :
       LET copy == IF project.serial = -1
                   THEN [lineage |-> l, serial |-> -1, content |-> c]
                   ELSE Hashed(project)
       IN runner' = [runner EXCEPT ![s] = [at |-> "editing", lock |-> runner[s].lock,
                                           base |-> project.serial, copy |-> copy]]
  /\ UNCHANGED <<server, access, network, locks, acknowledged>>

-----------------------------------------------------------------------------
(* POST.                                                                   *)

Undelivered == Cardinality(uploads) + Cardinality(unlocks)

\* What the runner has computed, under its lock.
Computed(s) ==
  [session |-> s,
   state |-> [lineage |-> runner[s].copy.lineage, serial |-> runner[s].copy.serial,
              content |-> runner[s].copy.content,
              base |-> runner[s].base, lock |-> runner[s].lock]]

\* The serial grows with every attempt, whether or not the last one succeeded.
WriteState(s) ==
  /\ runner[s].at = "editing"
  /\ runner[s].copy.serial < MaxSerial
  /\ \E c \in Contents :
       LET copy == [lineage |-> runner[s].copy.lineage,
                    serial |-> runner[s].copy.serial + 1, content |-> c]
       IN runner' = [runner EXCEPT ![s] = [at |-> "posting", lock |-> runner[s].lock,
                                           base |-> runner[s].base, copy |-> copy]]
  /\ UNCHANGED <<server, access, network, locks, acknowledged>>

SendUpload(s) ==
  /\ runner[s].at = "posting"
  /\ Undelivered < MaxInFlight
  /\ uploads' = uploads \cup {Computed(s)}
  /\ UNCHANGED <<server, access, runner, unlocks, locks, acknowledged>>

GiveUpUpload(s) ==
  /\ runner[s].at = "posting"
  /\ runner' = [runner EXCEPT ![s].at = "editing"]
  /\ UNCHANGED <<server, access, network, locks, acknowledged>>

\* A request is consumed, or a copy of it (a retry) is still on its way.
Delivered(requests, m) == {requests, requests \ {m}}

Waiting(m) == runner[m.session].at = "posting" /\ Computed(m.session) = m

\* The answer is lost, or it finds the runner waiting for it.
UploadSucceeds(m) ==
  \/ UNCHANGED <<runner, acknowledged>>
  \/ /\ Waiting(m)
     /\ runner' = [runner EXCEPT ![m.session].at = "editing",
                                 ![m.session].base = m.state.serial]
     /\ acknowledged' = acknowledged \cup {Hashed(m.state)}

UploadFails(m) ==
  /\ \/ UNCHANGED runner
     \/ Waiting(m) /\ runner' = [runner EXCEPT ![m.session].at = "editing"]
  /\ UNCHANGED acknowledged

UnderLock(m) == HoldsLock(m.session, m.state.lock)

\* Fault: the hash is not compared.
ContradictsSerial(state) ==
  /\ project.serial >= 0
  /\ state.lineage # project.lineage \/ state.serial < project.serial

\* Fault: the lineage is not compared.
ContradictsHistory(state) ==
  \/ state.serial < project.serial
  \/ state.serial = project.serial /\ Hashed(state) # Hashed(project)

\* Wrong lineage, a serial that goes back, other bytes under the same serial.
Contradicts(state) ==
  /\ project.serial >= 0
  /\ \/ state.lineage # project.lineage
     \/ state.serial < project.serial
     \/ state.serial = project.serial /\ Hashed(state) # Hashed(project)

StoreState(m) ==
  /\ m \in uploads /\ MayWrite(m.session)
  /\ UnderLock(m) /\ ~Contradicts(m.state) /\ m.state.serial # project.serial
  /\ versions' = Append(versions, m.state)
  /\ project' = [project EXCEPT !.lineage = m.state.lineage, !.serial = m.state.serial,
                                !.content = m.state.content]
  /\ uploads' \in Delivered(uploads, m)
  /\ UploadSucceeds(m)
  /\ UNCHANGED <<access, unlocks, locks>>

\* A retry of what is stored already succeeds without storing it again.
RepeatState(m) ==
  /\ m \in uploads /\ MayWrite(m.session)
  /\ UnderLock(m) /\ ~Contradicts(m.state) /\ m.state.serial = project.serial
  /\ uploads' \in Delivered(uploads, m)
  /\ UploadSucceeds(m)
  /\ UNCHANGED <<server, access, unlocks, locks>>

\* Refused, or the transaction failed (encryption, storage, database).
RefuseState(m) ==
  /\ m \in uploads
  /\ uploads' \in Delivered(uploads, m)
  /\ UploadFails(m)
  /\ UNCHANGED <<server, access, unlocks, locks>>

-----------------------------------------------------------------------------
(* UNLOCK, and the end of a runner.                                        *)

FinishWork(s) ==
  /\ runner[s].at \in {"locked", "editing"}
  /\ runner' = [runner EXCEPT ![s].at = "unlocking"]
  /\ UNCHANGED <<server, access, network, locks, acknowledged>>

SendUnlock(s) ==
  /\ runner[s].at = "unlocking"
  /\ Undelivered < MaxInFlight
  /\ unlocks' = unlocks \cup {[session |-> s, lock |-> runner[s].lock]}
  /\ UNCHANGED <<server, access, runner, uploads, locks, acknowledged>>

UnlockAnswered(m) ==
  \/ UNCHANGED runner
  \/ /\ runner[m.session].at = "unlocking" /\ runner[m.session].lock = m.lock
     /\ runner' = [runner EXCEPT ![m.session] = IdleRunner]

Unlocked == [project EXCEPT !.lock = NoLock, !.holder = Nobody]

UnlockState(m) ==
  /\ m \in unlocks
  /\ \/ /\ MayWrite(m.session) /\ HoldsLock(m.session, m.lock)
        /\ project' = Unlocked
     \/ /\ ~(MayWrite(m.session) /\ HoldsLock(m.session, m.lock))
        /\ UNCHANGED project
  /\ unlocks' \in Delivered(unlocks, m)
  /\ UnlockAnswered(m)
  /\ UNCHANGED <<versions, access, uploads, locks, acknowledged>>

\* The process dies, or gives up waiting; its lock stays.
RunnerDies(s) ==
  /\ runner[s].at # "idle"
  /\ runner' = [runner EXCEPT ![s] = IdleRunner]
  /\ UNCHANGED <<server, access, network, locks, acknowledged>>

-----------------------------------------------------------------------------
AccessStep ==
  \E s \in Sessions :
    \/ \E writable \in BOOLEAN : newStateSession(s, writable)
    \/ SessionExpires(s)
    \/ \E permissions \in AccessChanges : ChangeAccess(s, permissions)

RunnerStep ==
  \E s \in Sessions :
    \/ BeginLock(s) \/ LockState(s) \/ ReadState(s)
    \/ WriteState(s) \/ SendUpload(s) \/ GiveUpUpload(s)
    \/ FinishWork(s) \/ SendUnlock(s) \/ RunnerDies(s)

RequestStep ==
  \/ \E m \in uploads : StoreState(m) \/ RepeatState(m) \/ RefuseState(m)
  \/ \E m \in unlocks : UnlockState(m)

Next == AccessStep \/ RunnerStep \/ RequestStep

Spec == Init /\ [][Next]_vars

-----------------------------------------------------------------------------
(* Properties.                                                             *)

\* Types, and the table's checks: lock and holder are set together, and the
\* project points at its newest version.
TypeOK ==
  /\ project \in Project /\ (project.lock = NoLock <=> project.holder = Nobody)
  /\ versions \in Seq(State)
  /\ project.serial = (IF versions = <<>> THEN -1 ELSE versions[Len(versions)].serial)
  /\ session \in [Sessions -> Session]
  /\ permitted \in [Sessions -> SUBSET {"read", "publish"}]
  /\ runner \in [Sessions -> Runner]
  /\ uploads \subseteq Upload /\ unlocks \subseteq Unlock
  /\ locks \in 0..MaxLocks
  /\ acknowledged \subseteq Document

\* A runner that was told it has the lock has it until it asks for the
\* release itself, whatever late requests of this or another session arrive.
LockIsExclusive ==
  \A s \in Sessions :
    runner[s].at \in {"locked", "editing", "posting"} =>
      project.lock = runner[s].lock /\ project.holder = s

\* An upload answered with success is in the history with exactly its bytes
\* (AUTOMATION_SOURCES.md: "changed bytes at the same serial are rejected").
AcknowledgedIsStored ==
  \A d \in acknowledged : \E i \in DOMAIN versions : Hashed(versions[i]) = d

Register == INSTANCE StateRegister WITH history <- versions, writer <- project.lock

\* The backend implements the register with a history: one lineage, growing
\* serials, and no version replaced by one that was computed without it.
ImplementsRegister == Register!Spec
=============================================================================
