------------------------------ MODULE Launcher ------------------------------
(***************************************************************************)
(* The container launcher's validation calls: internal/launcher            *)
(* (automation.go, egress.go, cleanup.go).  A call starts one container;   *)
(* one with dependency hosts has a volume and a proxy container beside it. *)
(* The docker command line and its daemon are external: a command that     *)
(* fails or is killed may have done its work, may not have, or the daemon  *)
(* may do it later.  Names are drawn at random, so a call has its own      *)
(* objects.                                                                *)
(*                                                                         *)
(* Time is counted per call, in units in which the deadline of a call, the *)
(* cleanup after it and the life of its labels are whole numbers; labels   *)
(* are taken to be written at the start of the call, the earliest moment.  *)
(***************************************************************************)
EXTENDS Naturals, FiniteSets

CONSTANTS
  Calls,
  Proxied,      \* the calls whose runtime has dependency hosts
  Slots,        \* calls at work at a time: 4 in the code
  Deadline,     \* of a call: 130 seconds
  CleanupTime,  \* of the deferred removals: 5 and 10 seconds
  Expiry        \* of the labels: 10 minutes

ASSUME LauncherAssumption ==
  /\ Deadline \in Nat /\ CleanupTime \in Nat /\ Expiry \in Nat
  /\ Deadline < Expiry

VARIABLES
  call,    \* per call: how far the handler has come, and its answer
  object,  \* per call: its containers and its volume at the daemon
  age      \* per call: time since its start

launcherVars == <<call, object, age>>

-----------------------------------------------------------------------------
Kinds == {"main", "proxy", "volume"}
Working == {"volume", "proxy", "health", "main", "running"}
Cleaning == {"removeMain", "removeProxy", "removeVolume"}
Live == Working \cup Cleaning

Call == [pc : {"new", "over"} \cup Live, answer : {"none", "succeeded", "failed"}]
Presence == {"absent", "coming", "there"}

InitLauncher ==
  /\ call = [c \in Calls |-> [pc |-> "new", answer |-> "none"]]
  /\ object = [c \in Calls |-> [k \in Kinds |-> "absent"]]
  /\ age = [c \in Calls |-> 0]

-----------------------------------------------------------------------------
(* The handler: a slot without waiting, then volume, proxy, health check    *)
(* and container, and the removals its deferred functions make.             *)

Busy == Cardinality({c \in Calls : call[c].pc \in Live}) >= Slots

Accept(c) ==
  /\ call[c].pc = "new" /\ ~Busy
  /\ call' = [call EXCEPT ![c].pc = IF c \in Proxied THEN "volume" ELSE "main"]
  /\ UNCHANGED <<object, age>>

TurnAway(c) ==
  /\ call[c].pc = "new" /\ Busy
  /\ call' = [call EXCEPT ![c] = [pc |-> "over", answer |-> "failed"]]
  /\ UNCHANGED <<object, age>>

\* The object each step of the handler asks for, and the step that follows.
Wanted(pc) == CASE pc = "volume" -> "volume"
                [] pc = "proxy"  -> "proxy"
                [] pc = "main"   -> "main"

After(pc) == CASE pc = "volume" -> "proxy"
               [] pc = "proxy"  -> "health"
               [] pc = "health" -> "main"
               [] pc = "main"   -> "running"

Create(c) ==
  LET pc == call[c].pc IN
  /\ pc \in {"volume", "proxy", "main"}
  /\ object' = [object EXCEPT ![c][Wanted(pc)] = "there"]
  /\ call' = [call EXCEPT ![c].pc = After(pc)]
  /\ UNCHANGED age

BecomesHealthy(c) ==
  /\ call[c].pc = "health" /\ object[c]["proxy"] = "there"
  /\ call' = [call EXCEPT ![c].pc = "main"]
  /\ UNCHANGED <<object, age>>

\* startProxy cleans up after itself from its second command on; a container
\* is removed whatever came of it.
Fail(c, pc) ==
  call' = [call EXCEPT ![c].answer = "failed",
             ![c].pc = CASE pc = "volume" -> "over"
                         [] pc \in {"proxy", "health"} -> "removeProxy"
                         [] pc \in {"main", "running"} -> "removeMain"]

\* A command fails, or is killed at the deadline or because the client is gone.
CommandFails(c) ==
  LET pc == call[c].pc IN
  /\ pc \in Working
  /\ Fail(c, pc)
  /\ \/ pc \in {"health", "running"} /\ UNCHANGED object
     \/ /\ pc \in {"volume", "proxy", "main"}
        /\ \E p \in Presence : object' = [object EXCEPT ![c][Wanted(pc)] = p]
  /\ UNCHANGED age

\* The container ends by itself and the daemon removes it (--rm).
Exits(c, answer) ==
  /\ call[c].pc = "running"
  /\ object' = [object EXCEPT ![c]["main"] = "absent"]
  /\ call' = [call EXCEPT ![c] = [pc |-> "removeMain", answer |-> answer]]
  /\ UNCHANGED age

Mounted(c) == \E k \in {"main", "proxy"} : object[c][k] = "there"

\* One deferred removal, which may fail; what is not there yet stays away from
\* nobody.
Removal == [removeMain |-> "main", removeProxy |-> "proxy", removeVolume |-> "volume"]

CleanUp(c) ==
  LET pc == call[c].pc IN
  /\ pc \in Cleaning
  /\ \/ UNCHANGED object
     \/ /\ object[c][Removal[pc]] = "there"
        /\ pc = "removeVolume" => ~Mounted(c)
        /\ object' = [object EXCEPT ![c][Removal[pc]] = "absent"]
  /\ call' = [call EXCEPT ![c].pc =
       CASE pc = "removeMain" -> IF c \in Proxied THEN "removeProxy" ELSE "over"
         [] pc = "removeProxy" -> "removeVolume"
         [] pc = "removeVolume" -> "over"]
  /\ UNCHANGED age

\* The launcher restarts: its calls end, what they started does not.
Restart ==
  /\ \E c \in Calls : call[c].pc \in Live
  /\ call' = [c \in Calls |->
       IF call[c].pc \in Live THEN [pc |-> "over", answer |-> "failed"] ELSE call[c]]
  /\ UNCHANGED <<object, age>>

-----------------------------------------------------------------------------
(* The daemon, and the reaper that runs every minute.                       *)

\* A command nobody waits for any more takes effect, or never will.
Arrives(c, k) ==
  /\ object[c][k] = "coming"
  /\ \E p \in {"there", "absent"} : object' = [object EXCEPT ![c][k] = p]
  /\ UNCHANGED <<call, age>>

\* A container whose handler is gone ends by itself.
EndsAlone(c) ==
  /\ call[c].pc # "running" /\ object[c]["main"] = "there"
  /\ object' = [object EXCEPT ![c]["main"] = "absent"]
  /\ UNCHANGED <<call, age>>

\* Fault: the labels carry the deadline of the call.
ExpiredAtDeadline(c) == age[c] >= Deadline

Expired(c) == age[c] >= Expiry

\* Fault: only containers are listed.
ReapContainer(c, k) ==
  /\ k # "volume"
  /\ object[c][k] = "there" /\ Expired(c)
  /\ object' = [object EXCEPT ![c][k] = "absent"]
  /\ UNCHANGED <<call, age>>

\* Containers are removed by force; the daemon refuses a mounted volume.
ReapExpired(c, k) ==
  /\ object[c][k] = "there" /\ Expired(c)
  /\ k = "volume" => ~Mounted(c)
  /\ object' = [object EXCEPT ![c][k] = "absent"]
  /\ UNCHANGED <<call, age>>

\* Something of the call is at work or at the daemon.
Remains(c) == call[c].pc \in Live \/ \E k \in Kinds : object[c][k] # "absent"

\* A handler is never beyond its deadlines: commands are killed at theirs.
TimePasses(c) ==
  /\ Remains(c) /\ age[c] < Expiry
  /\ call[c].pc \in Working => age[c] < Deadline
  /\ call[c].pc \in Cleaning => age[c] < Deadline + CleanupTime
  /\ age' = [age EXCEPT ![c] = @ + 1]
  /\ UNCHANGED <<call, object>>

-----------------------------------------------------------------------------
Handler(c) ==
  \/ Create(c)
  \/ BecomesHealthy(c)
  \/ CommandFails(c)
  \/ CleanUp(c)
  \/ \E answer \in {"succeeded", "failed"} : Exits(c, answer)

Background(c) ==
  \/ EndsAlone(c)
  \/ TimePasses(c)
  \/ \E k \in Kinds : Arrives(c, k) \/ ReapExpired(c, k)

NextLauncher ==
  \/ \E c \in Calls : Accept(c) \/ TurnAway(c) \/ Handler(c) \/ Background(c)
  \/ Restart

\* Commands have deadlines, clocks advance, the daemon gets to what it was asked
\* for, and the reaper's removals do not fail for ever.  As no step of a call
\* can be taken for ever, it is enough that one of them always is.
FairnessLauncher == \A c \in Calls : WF_launcherVars(Handler(c) \/ Background(c))

-----------------------------------------------------------------------------
(* Properties *)

LauncherTypeOK ==
  /\ call \in [Calls -> Call]
  /\ object \in [Calls -> [Kinds -> Presence]]
  /\ age \in [Calls -> 0..Expiry]

\* A call at work has what it has started: the volume under the proxy and the
\* container, the proxy beside the container, and the container whose output
\* it reads.  Neither the reaper nor a removal of its own takes them away.
WorkKeepsItsObjects ==
  \A c \in Calls :
    LET pc == call[c].pc IN
    /\ pc = "running" => object[c]["main"] = "there"
    /\ c \in Proxied =>
         /\ pc \in {"health", "main", "running"} => object[c]["proxy"] = "there"
         /\ pc \in {"proxy", "health", "main", "running"} =>
              object[c]["volume"] = "there"

\* Nothing stays behind: whatever command is killed or fails, and whenever the
\* launcher restarts, every container and volume of a call goes in the end.
NothingStays == \A c \in Calls : []<>~Remains(c)
=============================================================================
