----------------------------- MODULE Retention -----------------------------
(***************************************************************************)
(* The removal of expired histories (internal/records/retention.go), as    *)
(* maintainStorage (internal/core/storage.go) calls it every minute.  Each *)
(* call looks at no more than Limit of the expired rooms, in the order of  *)
(* their identifiers from where the last call stopped, and a room whose    *)
(* directory holds something unexpected is refused.  The files of a room   *)
(* go before its record, one by one, and the manager may crash between     *)
(* any two; the place where to go on is only in its memory.                *)
(***************************************************************************)
EXTENDS Naturals

CONSTANTS
    Rooms,         \* the last identifier; 1..Rooms are all reclaimed
    Limit,         \* rooms looked at in one call
    Parts,         \* the files of a room, its directory among them
    Directory,     \* the one that is removed last
    MaxFaults,     \* bound: failing system calls
    MaxCrashes     \* bound: crashes of the manager

ASSUME LimitAssumption ==
    /\ Rooms \in Nat /\ Limit \in Nat \ {0} /\ Directory \in Parts
    /\ MaxFaults \in Nat /\ MaxCrashes \in Nat

Ids == 1..Rooms

VARIABLES
    expired,   \* rooms whose history is old enough
    foreign,   \* rooms whose directory holds something unexpected
    files,     \* the files each room still has
    mem,       \* the rooms with a record in memory
    disk,      \* the rooms with a record in state.json
    after,     \* s.pruneAfter, 0 for none
    queue,     \* the rooms the running call has not looked at yet
    left,      \* how many it may still look at
    at,        \* the room whose files it is removing, 0 for none
    wedged,    \* m.writeError is set
    faults,
    crashes

world == <<expired, foreign>>
call  == <<queue, left, at>>
vars  == <<world, files, mem, disk, after, call, wedged, faults, crashes>>

TypeOK ==
    /\ expired \subseteq Ids /\ foreign \subseteq Ids
    /\ files \in [Ids -> SUBSET Parts]
    /\ mem \subseteq Ids /\ disk \subseteq Ids
    /\ after \in 0..Rooms
    /\ queue \subseteq Ids /\ left \in 0..Limit /\ at \in 0..Rooms
    /\ wedged \in BOOLEAN /\ faults \in 0..MaxFaults /\ crashes \in 0..MaxCrashes

Init ==
    /\ expired = {} /\ foreign \in SUBSET Ids
    /\ files = [i \in Ids |-> Parts]
    /\ mem = Ids /\ disk = Ids
    /\ after = 0 /\ queue = {} /\ left = 0 /\ at = 0
    /\ wedged = FALSE /\ faults = 0 /\ crashes = 0

----------------------------------------------------------------------------
(* PruneExpired. *)

Idle == queue = {} /\ at = 0

(* A call of maintainStorage with something to look at.                    *)
Start ==
    /\ Idle /\ ~wedged /\ expired \cap mem # {}
    /\ queue' = expired \cap mem /\ left' = Limit
    /\ UNCHANGED <<world, files, mem, disk, after, at, wedged, faults, crashes>>

(* Mutant: every call starts with the smallest identifier. *)
FirstRoom(ids) == CHOOSE i \in ids : \A j \in ids : i <= j

(* The room that comes next in the order of identifiers, going round.      *)
NextRoom(ids) ==
    LET later == {i \in ids : i > after}
        from  == IF later # {} THEN later ELSE ids
    IN  CHOOSE i \in from : \A j \in from : i <= j

LimitReached == left = 1

(* The next room is looked at, one of Limit.  removeHistoryFiles refuses   *)
(* it before it removes anything if it finds something unexpected or       *)
(* cannot look.                                                            *)
Inspect ==
    /\ queue # {} /\ at = 0
    /\ LET i == NextRoom(queue) IN
         /\ after' = i
         /\ queue' = IF LimitReached THEN {} ELSE queue \ {i}
         /\ left' = left - 1
         /\ \/ i \notin foreign /\ at' = i /\ UNCHANGED faults
            \/ i \in foreign /\ UNCHANGED <<at, faults>>
            \/ i \notin foreign /\ faults < MaxFaults /\ faults' = faults + 1 /\ UNCHANGED at
    /\ UNCHANGED <<world, files, mem, disk, wedged, crashes>>

(* Mutant: the directory is removed with whatever is in it. *)
RemovableAnyway(p) == p \in files[at] /\ (p = Directory => files[at] = {Directory})

Removable(p) ==
    p \in files[at] /\ (p = Directory => files[at] = {Directory} /\ at \notin foreign)

RemoveFile(p) ==
    /\ at # 0 /\ Removable(p)
    /\ files' = [files EXCEPT ![at] = @ \ {p}]
    /\ UNCHANGED <<world, mem, disk, after, call, wedged, faults, crashes>>

(* A file that cannot be removed, or a directory that is no longer empty:  *)
(* the room keeps its record and the call goes on with the next one.       *)
RemoveFails ==
    /\ at # 0 /\ files[at] # {}
    /\ \/ files[at] = {Directory} /\ at \in foreign /\ UNCHANGED faults
       \/ faults < MaxFaults /\ faults' = faults + 1
    /\ at' = 0
    /\ UNCHANGED <<world, files, mem, disk, after, queue, left, wedged, crashes>>

(* Mutant: the record is dropped while the directory still exists. *)
FilesGone == files[at] \ {Directory} = {}

AllGone == files[at] = {}

(* The record goes with a save.  If that fails the memory keeps it,        *)
(* whatever became of the state file, and mutations stop.                  *)
DropRecord ==
    /\ at # 0 /\ AllGone
    /\ mem' = mem \ {at} /\ disk' = mem' /\ at' = 0
    /\ UNCHANGED <<world, files, after, queue, left, wedged, faults, crashes>>

DropFails ==
    /\ at # 0 /\ AllGone
    /\ faults < MaxFaults /\ faults' = faults + 1
    /\ disk' \in {disk, mem \ {at}}
    /\ wedged' = TRUE /\ at' = 0 /\ queue' = {} /\ left' = 0
    /\ UNCHANGED <<world, files, mem, after, crashes>>

----------------------------------------------------------------------------

(* The manager crashes, or an operator restarts it, and opens the store.   *)
Restart ==
    /\ crashes < MaxCrashes /\ crashes' = crashes + 1
    /\ mem' = disk /\ after' = 0
    /\ queue' = {} /\ left' = 0 /\ at' = 0 /\ wedged' = FALSE
    /\ UNCHANGED <<world, files, disk, faults>>

Expire(i) ==
    /\ expired' = expired \cup {i}
    /\ UNCHANGED <<foreign, files, mem, disk, after, call, wedged, faults, crashes>>

(* Others put something into a room's directory, or take it out again.     *)
Meddle(i) ==
    /\ Directory \in files[i]
    /\ foreign' = IF i \in foreign THEN foreign \ {i} ELSE foreign \cup {i}
    /\ UNCHANGED <<expired, files, mem, disk, after, call, wedged, faults, crashes>>

Prune == Start \/ Inspect \/ (\E p \in Parts : RemoveFile(p)) \/ RemoveFails \/ DropRecord

Next == Prune \/ DropFails \/ Restart \/ \E i \in Ids : Expire(i) \/ Meddle(i)

(* watch calls maintainStorage every minute, and a call returns.           *)
Spec == Init /\ [][Next]_vars /\ WF_vars(Prune)

----------------------------------------------------------------------------
(* No interruption leaves files that no record leads to: what a room still *)
(* has can be found, and its removal retried, from the state file          *)
(* (PruneExpired: "interruptions keep retry ownership").                   *)
FilesHaveRecord == \A i \in Ids : files[i] # {} => i \in disk

(* What others put into a room's directory stays there, with the room's    *)
(* record, even when it arrives between the inspection and the removal.    *)
(* That is what others add: a file that they put in the place of one of    *)
(* the room's own after its digest was compared goes with the room.        *)
ForeignKept == \A i \in foreign : Directory \in files[i] /\ i \in disk

(* The memory never forgets a room, and so its idempotency key, that the   *)
(* state file may still have after an uncertain save (PruneExpired).       *)
MemoryKnows == disk \subseteq mem

(* Rooms that can never be removed do not starve the others: an expired    *)
(* room goes, unless something is put into its directory or the store      *)
(* fails (pruneAfter; TestRetentionFailedPrefixCannotStarve).              *)
NobodyStarves ==
    \A i \in Ids : (i \in expired /\ i \notin foreign) ~> (i \notin disk \/ i \in foreign \/ wedged)
=============================================================================
