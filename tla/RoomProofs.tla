----------------------------- MODULE RoomProofs -----------------------------
(***************************************************************************)
(* Theorems about the rooms the manager keeps, for every set of instances, *)
(* keys and ports and every bound: no key ever has two rooms, the life of  *)
(* every room is the one that RoomContract describes, a process is only    *)
(* ever spawned for a request, a reclaimed room leaves nothing behind, and *)
(* neither the records nor the results of operations are ever spoiled.     *)
(***************************************************************************)
EXTENDS ManagerProofs, WellFoundedInduction

(* One room for each key. *)

(* While the manager runs it knows every room of the file under its key.   *)
KeysKnown ==
    up => \A i \in Instances : Exists(disk[i]) =>
            Exists(mem[i]) /\ mem[i].key = disk[i].key

KeyInv == OneRoomPerKey /\ KeysKnown

(* A step that leaves the room of instance i, or removes it from the file  *)
(* and not from memory alone.                                              *)
KeyKept(i) ==
    /\ Exists(mem'[i]) <=> Exists(mem[i])
    /\ mem'[i].key = mem[i].key
    /\ Exists(disk'[i]) => \/ disk'[i] = disk[i]
                           \/ Exists(mem[i]) /\ disk'[i].key = mem[i].key

(* Keys stay apart where every instance keeps its own.                     *)
LEMMA KeptKeys ==
  ASSUME KeyInv, up, \A i \in Instances : KeyKept(i)
  PROVE  KeyInv'
<1>1. \A i \in Instances : Exists(disk'[i]) =>
         Exists(mem[i]) /\ disk'[i].key = mem[i].key
  BY DEF KeyInv, KeysKnown, KeyKept
<1>2. OneRoomPerKey'
  BY <1>1 DEF KeyInv, OneRoomPerKey, KeyKept
<1> QED
  BY <1>1, <1>2 DEF KeyInv, KeysKnown, KeyKept

(* A record step of a room that exists, to records under the same key.     *)
LEMMA RecordStepKeys ==
  ASSUME TypeOK, KeyInv, up, NEW i \in Instances, NEW z, NEW x, RecordStep(i, z, x),
         Exists(mem[i]), Exists(z), z.key = mem[i].key, x.key = mem[i].key
  PROVE  KeyInv'
<1>1. mem \in [Instances -> Instance] /\ disk \in [Instances -> Instance]
  BY DEF TypeOK
<1>2. ASSUME NEW j \in Instances PROVE KeyKept(j)
  <2>1. CASE j = i
    BY <1>1, <2>1 DEF RecordStep, KeyKept
  <2>2. CASE j # i
    BY <1>1, <2>2 DEF RecordStep, KeyKept
  <2> QED
    BY <2>1, <2>2
<1> QED
  BY <1>2, KeptKeys

(* A step that changes no record changes no key.                           *)
LEMMA StillKeys ==
  ASSUME KeyInv, up, mem' = mem, disk' = disk
  PROVE  KeyInv'
  BY KeptKeys DEF KeyKept

(* Workers change no key.                                                  *)
LEMMA WorkerKeys ==
  ASSUME TypeOK, up, OwnedInv, KeyInv, NEW i \in Instances, NEW o \in OpIds, WorkerStep(i, o)
  PROVE  KeyInv'
<1>1. CASE FinishWorker(i, o)
  BY <1>1, StillKeys DEF FinishWorker, store
<1>2. CASE WorkerMove(i, o)
  <2>1. StoreType /\ WorkersType
    BY TypeParts
  <2>2. Exists(mem[i])
    BY <1>2 DEF WorkerMove, OwnedInv, Owned, Manned, Busy, Holds, Exists
  <2>3. PICK z, x : RecordStep(i, z, x) /\ Lasts(mem[i], z) /\ Lasts(mem[i], x)
    BY <2>1, WorkerEffects DEF WorkerEffect, Result
  <2> QED
    BY <2>2, <2>3, RecordStepKeys DEF Lasts
<1> QED
  BY <1>1, <1>2, WorkerMoves

(* Nor does the watch goroutine.                                           *)
LEMMA WatchKeys ==
  ASSUME TypeOK, KeyInv, NEW i \in Instances, NEW v \in Verdicts, Watch(i, v)
  PROVE  KeyInv'
<1>1. StoreType
  BY TypeParts
<1>2. up /\ Exists(mem[i])
  BY DEF Watch, Free, Holds, Exists
<1>3. PICK z, x : RecordStep(i, z, x) /\ Lasts(mem[i], z) /\ Lasts(mem[i], x)
  BY <1>1, WatchEffect DEF Alike
<1> QED
  BY <1>2, <1>3, RecordStepKeys DEF Lasts

(* A create takes a key that no room the manager knows has, and so none    *)
(* that the file has.                                                      *)
LEMMA CreateKeys ==
  ASSUME TypeOK, KeyInv, NEW i \in Instances, NEW k \in Keys, NEW p \in Ports, Create(i, k, p)
  PROVE  KeyInv'
<1> DEFINE x == NewInstance(k, p)
<1>1. x.key = k
  BY DEF NewInstance, Absent
<1> HIDE DEF x
<1>2. /\ up /\ up' = up /\ mem \in [Instances -> Instance] /\ disk \in [Instances -> Instance]
      /\ \A j \in Instances : Exists(mem[j]) => mem[j].key # k
  BY DEF Create, Free, KnownKey, life, TypeOK
<1>3. \/ mem' = [mem EXCEPT ![i] = x] /\ disk' = mem'
      \/ mem' = [mem EXCEPT ![i] = mem[i]] /\ disk' = disk
      \/ mem' = [mem EXCEPT ![i] = x] /\ (disk' = disk \/ disk' = mem')
  BY DEF Create, StoreSaved, Published, Rejected, Faulted, x
<1>4. \A j \in Instances : Exists(disk[j]) => Exists(mem[j]) /\ disk[j].key = mem[j].key
  BY <1>2 DEF KeyInv, KeysKnown
<1>5. ~Exists(disk[i])
  BY DEF Create, Fresh
<1>6. CASE mem' = [mem EXCEPT ![i] = x] /\ (disk' = disk \/ disk' = mem')
  <2>1. mem'[i] = x /\ \A j \in Instances : j # i => mem'[j] = mem[j]
    BY <1>2, <1>6
  <2>2. \A j \in Instances : Exists(disk'[j]) => Exists(mem'[j]) /\ disk'[j].key = mem'[j].key
    BY <1>4, <1>5, <1>6, <2>1
  <2>3. \A j, l \in Instances : j # l /\ Exists(mem'[j]) /\ Exists(mem'[l]) =>
          mem'[j].key # mem'[l].key
    BY <1>1, <1>2, <2>1 DEF KeyInv, OneRoomPerKey
  <2> QED
    BY <2>2, <2>3 DEF KeyInv, KeysKnown, OneRoomPerKey
<1>7. CASE mem' = [mem EXCEPT ![i] = mem[i]] /\ disk' = disk
  <2>1. mem' = mem
    BY <1>2, <1>7
  <2> QED
    BY <1>2, <1>7, <2>1, StillKeys
<1> QED
  BY <1>3, <1>6, <1>7

(* Nor does a stop or a restart.                                           *)
LEMMA ChangeKeys ==
  ASSUME TypeOK, KeyInv, NEW i \in Instances, NEW kind \in {"stop", "restart"}, Change(i, kind)
  PROVE  KeyInv'
<1>1. up /\ Exists(mem[i])
  BY DEF Change, Free, MayStop, MayRestart, Holds, Exists
<1>2. PICK y, w :
         /\ y.key = mem[i].key /\ w.key = mem[i].key /\ Exists(w)
         /\ \/ mem' = [mem EXCEPT ![i] = y] /\ disk' = mem' /\ w = y
            \/ /\ mem' = [mem EXCEPT ![i] = w]
               /\ disk' = disk \/ disk' = [mem EXCEPT ![i] = y]
  BY ChangeResult
<1>3. RecordStep(i, w, y)
  BY <1>2 DEF RecordStep
<1> QED
  BY <1>1, <1>2, <1>3, RecordStepKeys

(* An expired history frees its key in memory only with the file.          *)
LEMMA PruneKeys ==
  ASSUME TypeOK, KeyInv, NEW i \in Instances, Prune(i)
  PROVE  KeyInv'
<1>1. /\ up /\ mem \in [Instances -> Instance] /\ disk \in [Instances -> Instance]
      /\ ~Exists(Absent)
  BY DEF Prune, Free, TypeOK, Absent, Exists
<1>2. \/ mem' = [mem EXCEPT ![i] = Absent] /\ disk' = mem'
      \/ /\ mem' = [mem EXCEPT ![i] = mem[i]]
         /\ disk' = disk \/ disk' = [mem EXCEPT ![i] = Absent]
  BY DEF Prune, StoreSaved, Published, Rejected, Faulted
<1>3. CASE mem' = [mem EXCEPT ![i] = Absent] /\ disk' = mem'
  <2>1. \A j \in Instances : Exists(mem'[j]) => Exists(mem[j]) /\ mem'[j] = mem[j]
    BY <1>1, <1>3
  <2> QED
    BY <1>3, <2>1 DEF KeyInv, KeysKnown, OneRoomPerKey
<1>4. CASE /\ mem' = [mem EXCEPT ![i] = mem[i]]
           /\ disk' = disk \/ disk' = [mem EXCEPT ![i] = Absent]
  <2>1. mem' = mem
    BY <1>1, <1>4
  <2>2. ASSUME NEW j \in Instances PROVE KeyKept(j)
    BY <1>1, <1>4, <2>1 DEF KeyKept
  <2> QED
    BY <1>1, <2>2, KeptKeys
<1> QED
  BY <1>2, <1>3, <1>4

(* Every step leaves the keys apart.                                       *)
LEMMA NextKeys ==
  ASSUME IInv, Valid(disk), OwnedInv, KeyInv, [Next]_vars
  PROVE  KeyInv'
<1>1. TypeOK /\ DownIsIdle
  BY DEF IInv
<1>2. ASSUME NEW i \in Instances, NEW o \in OpIds, WorkerStep(i, o) PROVE KeyInv'
  <2>1. up
    <3>1. ~up => pc[i][o] = "none"
      BY <1>1 DEF DownIsIdle
    <3>2. pc[i][o] # "none"
      BY <1>1, <1>2, WorkerAtWork
    <3> QED
      BY <3>1, <3>2
  <2> QED
    BY <1>1, <1>2, <2>1, WorkerKeys
<1>3. ASSUME NEW i \in Instances, Replay(i) PROVE KeyInv'
  BY <1>3, StillKeys DEF Replay, Free, store
<1>4. ASSUME NEW i \in Instances, Request(i) PROVE KeyInv'
  BY <1>1, <1>3, <1>4, CreateKeys, ChangeKeys DEF Request, Stop, Restart
<1>5. ASSUME NEW i \in Instances, NEW v \in Verdicts, Watch(i, v) PROVE KeyInv'
  BY <1>1, <1>5, WatchKeys
<1>6. ASSUME NEW i \in Instances, Prune(i) PROVE KeyInv'
  BY <1>1, <1>6, PruneKeys
<1>7. ASSUME UNCHANGED <<mem, disk, up>> PROVE KeyInv'
  BY <1>7 DEF KeyInv, KeysKnown, OneRoomPerKey
<1>8. ASSUME NEW i \in Instances, NEW g \in Gens, GameExits(i, g) PROVE KeyInv'
  BY <1>7, <1>8 DEF GameExits, store, life
<1>9. ASSUME Close \/ UNCHANGED vars PROVE KeyInv'
  BY <1>7, <1>9 DEF Close, vars, store, life
<1>10. ASSUME Exited \/ Crash PROVE KeyInv'
  <2>1. ~up' /\ disk' = disk /\ \A i \in Instances : mem'[i] = Absent
    BY <1>10 DEF Exited, Crash, Down
  <2>2. ~Exists(Absent)
    BY DEF Absent, Exists
  <2> QED
    BY <2>1, <2>2 DEF KeyInv, KeysKnown, OneRoomPerKey
<1>11. ASSUME Reopen PROVE KeyInv'
  <2>1. PICK v \in Findings(disk) :
          \/ mem' = Recovery(v) /\ disk' = mem'
          \/ disk' \in {disk, Recovery(v)} /\ UNCHANGED <<up, mem>>
    BY <1>11 DEF Reopen
  <2>2. ~up
    BY <1>11 DEF Reopen
  <2>3. \A i \in Instances : /\ Exists(Recovery(v)[i]) <=> Exists(disk[i])
                             /\ Recovery(v)[i].key = disk[i].key
    <3>1. TAKE i \in Instances
    <3>2. Recovery(v)[i] = Recovered(disk[i], v[i]) /\ v[i] \in Searches
      BY DEF Recovery, Findings
    <3>3. disk[i] \in Instance /\ ValidRecord(disk[i])
      BY <1>1 DEF TypeOK, Valid, ValidRecord
    <3>4. /\ Exists(Recovered(disk[i], v[i])) <=> Exists(disk[i])
          /\ Lasts(disk[i], Recovered(disk[i], v[i]))
      BY <3>2, <3>3, RecoveredLasts, RecoveredValid
    <3> QED
      BY <3>2, <3>4 DEF Lasts
  <2>4. CASE mem' = Recovery(v) /\ disk' = mem'
    BY <2>3, <2>4 DEF KeyInv, KeysKnown, OneRoomPerKey
  <2>5. CASE disk' \in {disk, Recovery(v)} /\ UNCHANGED <<up, mem>>
    BY <2>2, <2>3, <2>5 DEF KeyInv, KeysKnown, OneRoomPerKey
  <2> QED
    BY <2>1, <2>4, <2>5
<1> QED
  BY <1>2, <1>4, <1>5, <1>6, <1>8, <1>9, <1>10, <1>11 DEF Next

(* A key never names two rooms: a running manager knows every room of the  *)
(* file under its key, so that a key it does not know is in no file        *)
(* (CreateChecked, recover, PruneExpired).                                 *)
THEOREM KeysNeverShared == Spec => []OneRoomPerKey
<1>1. ASSUME Init PROVE KeyInv
  <2>1. ~Exists(Absent) /\ \A i \in Instances : mem[i] = Absent /\ disk[i] = Absent
    BY <1>1 DEF Init, Absent, Exists
  <2> QED
    BY <2>1 DEF KeyInv, KeysKnown, OneRoomPerKey
<1>2. IInv /\ Valid(disk) /\ OwnedInv /\ KeyInv /\ [Next]_vars => KeyInv'
  BY NextKeys
<1>3. KeyInv => OneRoomPerKey
  BY DEF KeyInv
<1> QED
  BY <1>1, <1>2, <1>3, Invariance, FileValid, RoomsOwned, PTL DEF Spec
----------------------------------------------------------------------------
(* The life of a room. *)

(* Where the next save of a worker is an operation of the store itself,    *)
(* which does not look at writeError.                                      *)
Writers == {"prepare", "files", "cfg", "cleanup"}

(* What a step of a worker does to the file, the processes and its place.  *)
WorkerKeeps(i, o) ==
    /\ Free \/ pc[i][o] \in LockedPcs
    /\ disk' = disk \/ (live' = live /\ (wedged => pc[i][o] \in Writers))
    /\ \/ live' = live
       \/ live' = [live EXCEPT ![i] = @ \ {mem[i].gen}]
       \/ pc[i][o] = "exec" /\ live' = [live EXCEPT ![i] = @ \cup {mem[i].gen}]
    /\ pc'[i][o] \in Writers => ~wedged' \/ (pc[i][o] \in Writers /\ wedged' = wedged)
    /\ pc'[i][o] = "prepare" => ~Quits(i, o)
    /\ pc[i][o] = "abort" => pc'[i][o] = "exit"

(* Manager.save writes nothing once writeError is set, and a worker whose  *)
(* save failed returns.                                                    *)
LEMMA SaveOrFailKeeps ==
  ASSUME WorkersType, NEW i \in Instances, NEW o \in OpIds, NEW x, NEW next,
         SaveOrFail(i, o, x, next)
  PROVE  /\ disk' = disk \/ ~wedged
         /\ pc'[i][o] = "exit" \/ (pc'[i][o] = next /\ ~wedged')
  BY DEF SaveOrFail, Saved, StoreSaved, NotSaved, Goto, WorkersType

(* finish writes nothing once writeError is set.                           *)
LEMMA FinishesKeeps ==
  ASSUME NEW i \in Instances, NEW o \in OpIds, NEW x, NEW y, Finishes(i, o, x, y)
  PROVE  disk' = disk \/ ~wedged
  BY DEF Finishes, InMemory, store, Saved, NotSaved

(* A save of the store itself does not set writeError.                     *)
LEMMA StoreOrFailKeeps ==
  ASSUME WorkersType, NEW i \in Instances, NEW o \in OpIds, NEW x, NEW y, NEW next,
         StoreOrFail(i, o, x, y, next)
  PROVE  pc'[i][o] \in {next, "abort"} /\ wedged' = wedged
  BY DEF StoreOrFail, StoreSaved, StoreNotSaved, Goto, WorkersType

(* A change in memory writes nothing.                                      *)
LEMMA MemoryKeeps ==
  ASSUME WorkersType, NEW i \in Instances, NEW o \in OpIds, NEW x, NEW next,
         UNCHANGED <<mem, store>> \/ InMemory(i, x), Goto(i, o, next)
  PROVE  disk' = disk /\ wedged' = wedged /\ pc'[i][o] = next
  BY DEF InMemory, store, Goto, WorkersType

(* Every step of a worker.                                                 *)
LEMMA WorkerKeepsAll ==
  ASSUME WorkersType, NEW i \in Instances, NEW o \in OpIds, WorkerStep(i, o)
  PROVE  WorkerKeeps(i, o)
<1> DEFINE Opens == disk' = disk \/ ~wedged
           Moved(p) == pc'[i][o] = "exit" \/ (pc'[i][o] = p /\ ~wedged')
           Stays(S) == pc'[i][o] \in S /\ wedged' = wedged
<1>1. CASE Launch(i, o)
  <2>1. Opens /\ (Moved("prepare") \/ Stays({"abort"}))
    BY <1>1, SaveOrFailKeeps, MemoryKeeps DEF Launch, Fails
  <2> QED
    BY <1>1, <2>1 DEF Launch, WorkerKeeps, Writers, world
<1>2. CASE PrepareRun(i, o)
  <2> DEFINE x == [mem[i] EXCEPT !.gen = @ + 1]
  <2>0. Fails(i, o) \/ StoreOrFail(i, o, x, x, "files")
    BY <1>2 DEF PrepareRun
  <2> HIDE DEF x
  <2>1. Stays({"files", "abort"})
    <3>1. CASE Fails(i, o)
      BY <3>1, MemoryKeeps DEF Fails
    <3>2. CASE StoreOrFail(i, o, x, x, "files")
      BY <3>2, StoreOrFailKeeps
    <3> QED
      BY <2>0, <3>1, <3>2
  <2> QED
    BY <1>2, <2>1 DEF PrepareRun, WorkerKeeps, Writers, LockedPcs, world
<1>3. CASE PrepareFiles(i, o)
  <2>1. wedged' = wedged
    BY <1>3 DEF PrepareFiles, Fails, store, StoreSaved, StoreNotSaved
  <2>2. pc'[i][o] \in {"cfg", "abort"}
    BY <1>3 DEF PrepareFiles, Fails, Goto, WorkersType
  <2> QED
    BY <1>3, <2>1, <2>2 DEF PrepareFiles, WorkerKeeps, Writers, LockedPcs
<1>4. CASE RunPrepared(i, o)
  <2>1. Stays({"spawn", "abort"})
    BY <1>4, StoreOrFailKeeps DEF RunPrepared
  <2> QED
    BY <1>4, <2>1 DEF RunPrepared, WorkerKeeps, Writers, LockedPcs, world
<1>5. CASE IntendSpawn(i, o)
  <2> DEFINE x == [mem[i] EXCEPT !.ops[o].gen = mem[i].gen]
             y == [AtPhase(x, o, "spawning") EXCEPT !.runs[mem[i].gen].spawnAttempted = TRUE]
  <2>0. (InMemory(i, x) /\ Goto(i, o, "abort")) \/ SaveOrFail(i, o, y, "fifo")
    BY <1>5 DEF IntendSpawn
  <2> HIDE DEF x, y
  <2>1. Opens /\ (Moved("fifo") \/ Stays({"abort"}))
    BY <2>0, SaveOrFailKeeps, MemoryKeeps
  <2> QED
    BY <1>5, <2>1 DEF IntendSpawn, WorkerKeeps, Writers, LockedPcs, world
<1>6. CASE MakeInput(i, o)
  <2>1. disk' = disk /\ Stays({"input", "abort"})
    BY <1>6, MemoryKeeps DEF MakeInput
  <2> QED
    BY <1>6, <2>1 DEF MakeInput, WorkerKeeps, Writers, LockedPcs
<1>7. CASE InputPrepared(i, o)
  <2>1. Opens /\ pc'[i][o] \in {"exec", "abort"}
    BY <1>7 DEF InputPrepared, Saved, NotSaved, Goto, WorkersType
  <2> QED
    BY <1>7, <2>1 DEF InputPrepared, WorkerKeeps, Writers, LockedPcs
<1>8. CASE Exec(i, o)
  <2>1. disk' = disk /\ Stays({"spawned", "abort"})
    BY <1>8, MemoryKeeps DEF Exec
  <2>2. live' = live \/ live' = [live EXCEPT ![i] = @ \cup {mem[i].gen}]
    BY <1>8 DEF Exec
  <2>3. pc[i][o] = "exec"
    BY <1>8 DEF Exec
  <2> QED
    BY <2>1, <2>2, <2>3 DEF WorkerKeeps, Writers, LockedPcs
<1>9. CASE Spawned(i, o)
  <2>1. Opens /\ Moved("observe")
    BY <1>9, SaveOrFailKeeps DEF Spawned
  <2> QED
    BY <1>9, <2>1 DEF Spawned, WorkerKeeps, Writers, LockedPcs, world
<1>10. CASE Rollback(i, o)
  <2>1. disk' = disk /\ pc'[i][o] = "abort" /\ pc[i][o] = "spawned"
    BY <1>10 DEF Rollback, InMemory, store, Goto, WorkersType
  <2>2. live' = live \/ live' = [live EXCEPT ![i] = @ \ {mem[i].gen}]
    BY <1>10 DEF Rollback
  <2> QED
    BY <2>1, <2>2 DEF WorkerKeeps, Writers, LockedPcs
<1>11. CASE BeginStop(i, o)
  <2>0. \/ SaveOrFail(i, o, AtPhase(mem[i], o, "stopping"), "stopping")
        \/ \E p \in {"abort", "stopped"} : UNCHANGED <<mem, store>> /\ Goto(i, o, p)
    BY <1>11 DEF BeginStop, Fails
  <2>1. Opens /\ (Moved("stopping") \/ Stays({"abort", "stopped"}))
    BY <2>0, SaveOrFailKeeps, MemoryKeeps
  <2> QED
    BY <1>11, <2>1 DEF BeginStop, WorkerKeeps, Writers, world
<1>12. ASSUME NEW c \in BOOLEAN, Stopped(i, o, c) PROVE WorkerKeeps(i, o)
  <2>1. Opens /\ (Moved("stopped") \/ Stays({"abort"}))
    BY <1>12, SaveOrFailKeeps, MemoryKeeps DEF Stopped
  <2> QED
    BY <1>12, <2>1 DEF Stopped, WorkerKeeps, Writers, world
<1>13. CASE BeginCleanup(i, o)
  <2>1. Opens /\ (Moved("cleanup") \/ Stays({"exit"}))
    BY <1>13, SaveOrFailKeeps, MemoryKeeps DEF BeginCleanup
  <2> QED
    BY <1>13, <2>1 DEF BeginCleanup, WorkerKeeps, Writers, LockedPcs, world
<1>14. CASE CleanInput(i, o)
  <2>1. \/ CleanupFails(i, o)
        \/ UNCHANGED <<mem, store, pc>>
        \/ \E g \in Gens : SaveOrFail(i, o, [mem[i] EXCEPT !.runs[g].inputRemoved = TRUE], "cleanup")
    BY <1>14 DEF CleanInput
  <2>2. UNCHANGED <<mem, store, pc>> => Opens /\ wedged' = wedged /\ pc' = pc
    BY DEF store
  <2>3. pc[i][o] = "cleanup" /\ live' = live
    BY <1>14 DEF CleanInput
  <2>4. Opens /\ (Moved("cleanup") \/ Stays({"abort"}) \/ (wedged' = wedged /\ pc' = pc))
    <3>1. CASE CleanupFails(i, o)
      BY <3>1, MemoryKeeps DEF CleanupFails
    <3>2. CASE UNCHANGED <<mem, store, pc>>
      BY <2>2, <3>2
    <3>3. ASSUME NEW x, SaveOrFail(i, o, x, "cleanup") PROVE Opens /\ Moved("cleanup")
      BY <3>3, SaveOrFailKeeps
    <3> QED
      BY <2>1, <3>1, <3>2, <3>3
  <2> QED
    BY <2>3, <2>4 DEF WorkerKeeps, Writers, LockedPcs
<1>15. CASE CleanupRun(i, o)
  <2>1. pc[i][o] = "cleanup" /\ live' = live
    BY <1>15 DEF CleanupRun
  <2>2. wedged' = wedged
    BY <1>15 DEF CleanupRun, CleanupFails, InMemory, store, StoreSaved, StoreNotSaved
  <2>3. pc' = pc \/ pc'[i][o] = "abort"
    BY <1>15 DEF CleanupRun, CleanupFails, Goto, WorkersType
  <2> QED
    BY <2>1, <2>2, <2>3 DEF WorkerKeeps, Writers, LockedPcs
<1>16. CASE FinishStop(i, o)
  <2>1. Opens /\ pc'[i][o] = "exit"
    BY <1>16, FinishesKeeps DEF FinishStop, Goto, WorkersType
  <2> QED
    BY <1>16, <2>1 DEF FinishStop, WorkerKeeps, Writers, LockedPcs, world
<1>17. CASE Relaunch(i, o)
  <2>1. disk' = disk /\ Stays({"start"})
    BY <1>17, MemoryKeeps DEF Relaunch
  <2> QED
    BY <1>17, <2>1 DEF Relaunch, WorkerKeeps, Writers, LockedPcs, world
<1>18. ASSUME NEW v \in Verdicts, NEW late \in BOOLEAN, Tick(i, o, v, late)
       PROVE  WorkerKeeps(i, o)
  <2> DEFINE x == Observed(mem[i], v)
  <2>1. \/ InMemory(i, x) /\ (Goto(i, o, "abort") \/ pc' = pc \/ Goto(i, o, "killing"))
        \/ Finishes(i, o, x, EndOp(x, o, "succeeded")) /\ Goto(i, o, "exit")
    BY <1>18 DEF Tick
  <2>2. pc[i][o] = "observe" /\ Free /\ live' = live
    BY <1>18 DEF Tick, world
  <2> HIDE DEF x
  <2>3. InMemory(i, x) => disk' = disk
    BY DEF InMemory, store
  <2>4. pc'[i][o] \in {"abort", "observe", "killing", "exit"}
    BY <2>1, <2>2 DEF Goto, WorkersType
  <2>5. Opens
    BY <2>1, <2>3, FinishesKeeps
  <2> QED
    BY <2>2, <2>4, <2>5 DEF WorkerKeeps, Writers
<1>19. ASSUME NEW c \in BOOLEAN, TimedOut(i, o, c) PROVE WorkerKeeps(i, o)
  <2>1. disk' = disk /\ Stays({"abort"})
    BY <1>19, MemoryKeeps DEF TimedOut
  <2> QED
    BY <1>19, <2>1 DEF TimedOut, WorkerKeeps, Writers, world
<1>20. CASE Leave(i, o)
  <2>1. disk' = disk /\ Stays({"exit"})
    BY <1>20, MemoryKeeps DEF Leave
  <2> QED
    BY <1>20, <2>1 DEF Leave, WorkerKeeps, Writers, world
<1>21. CASE Abort(i, o)
  <2>1. Opens /\ pc'[i][o] = "exit"
    BY <1>21, FinishesKeeps DEF Abort, Goto, WorkersType
  <2> QED
    BY <1>21, <2>1 DEF Abort, WorkerKeeps, Writers, LockedPcs, world
<1>22. CASE FinishWorker(i, o)
  <2>1. disk' = disk /\ Stays({"none"})
    BY <1>22, MemoryKeeps DEF FinishWorker
  <2> QED
    BY <1>22, <2>1 DEF FinishWorker, WorkerKeeps, Writers, world
<1> QED
  BY <1>1, <1>2, <1>3, <1>4, <1>5, <1>6, <1>7, <1>8, <1>9, <1>10, <1>11, <1>12, <1>13,
     <1>14, <1>15, <1>16, <1>17, <1>18, <1>19, <1>20, <1>21, <1>22
     DEF WorkerStep, LaunchStep, StopStep

(* The room that two records show: whether it is held, its port and its    *)
(* generation.                                                             *)
SameRoom(x, y) ==
    /\ Holds(x) <=> Holds(y)
    /\ Exists(x) <=> Exists(y)
    /\ y.port = x.port /\ y.gen = x.gen

(* The operation of a busy worker runs, unless it was cancelled.           *)
Unfinished(i) ==
    ~wedged => \A o \in OpIds : Busy(i, o) /\ o \notin cancelled[i] => Running(mem[i], o)

(* No operation of the store is ahead once writeError is set.              *)
Writing(i) ==
    \A o \in OpIds : pc[i][o] \in Writers =>
        ~wedged /\ (pc[i][o] = "prepare" => ~Quits(i, o))

(* A generation whose save has failed, until the failure is saved.         *)
Ahead(i) ==
    \E o \in OpIds :
        /\ pc[i][o] = "abort" /\ ~Quits(i, o)
        /\ live[i] = {} /\ Holds(mem[i]) /\ Holds(disk[i])
        /\ mem[i].port = disk[i].port /\ mem[i].gen = disk[i].gen + 1

(* Memory and file show the same rooms, until a write fails.               *)
Matched == up /\ ~wedged => \A i \in Instances : SameRoom(disk[i], mem[i]) \/ Ahead(i)

Blank == \A i \in Instances : ~Exists(disk[i]) => disk[i].gen = 0

ShownInv == (\A i \in Instances : Unfinished(i) /\ Writing(i)) /\ Matched /\ Blank

(* Showing the same room is transitive.                                    *)
LEMMA SameRoomTransitive ==
  ASSUME NEW x, NEW y, NEW z, SameRoom(x, y), SameRoom(y, z) PROVE SameRoom(x, z)
  BY DEF SameRoom

----------------------------------------------------------------------------
(* RoomContract, room by room. *)

Tenure(i) == IF Holds(disk[i]) THEN "held"
             ELSE IF Exists(disk[i]) THEN "reclaimed"
             ELSE IF i \in pruned THEN "expired" ELSE "none"

Port(i) == IF Holds(disk[i]) THEN disk[i].port ELSE NoPort

SameShown(i) ==
    Tenure(i)' = Tenure(i) /\ Port(i)' = Port(i) /\ disk'[i].gen = disk[i].gen

(* What may happen to a room.                                              *)
SameLive(i) == live'[i] = live[i]

Stays(i) == SameShown(i) /\ SameLive(i)

Reserved(i, q) ==
    /\ Tenure(i) = "none" /\ Tenure(i)' = "held"
    /\ Port(i)' = q /\ \A j \in Instances : Port(j) # q
    /\ disk'[i].gen = disk[i].gen /\ SameLive(i)

Advanced(i) ==
    /\ Tenure(i) = "held" /\ Tenure(i)' = "held" /\ Port(i)' = Port(i) /\ live[i] = {}
    /\ disk'[i].gen = disk[i].gen + 1 /\ SameLive(i)

Started(i) ==
    /\ Tenure(i) = "held" /\ live[i] = {} /\ disk[i].gen > 0
    /\ live'[i] = {disk[i].gen} /\ SameShown(i)

Ended(i) == live[i] # {} /\ live'[i] = {} /\ SameShown(i)

GivenUp(i) ==
    /\ Tenure(i) = "held" /\ Tenure(i)' = "reclaimed" /\ Port(i)' = NoPort /\ live[i] = {}
    /\ disk'[i].gen = disk[i].gen /\ SameLive(i)

Expired(i) ==
    /\ Tenure(i) = "reclaimed" /\ Tenure(i)' = "expired" /\ Port(i)' = Port(i)
    /\ disk'[i].gen = 0 /\ SameLive(i)

RoomMove(i) ==
    \/ Stays(i) \/ (\E q \in Ports : Reserved(i, q))
    \/ Advanced(i) \/ Started(i) \/ Ended(i) \/ GivenUp(i) \/ Expired(i)

Elsewhere(i) ==
    \A j \in Instances : j # i => SameShown(j) /\ live'[j] = live[j]

(* One room moves at a time.                                               *)
LEMMA RoomMoves ==
  ASSUME live \in [Instances -> SUBSET Gens], live' \in [Instances -> SUBSET Gens],
         NEW i \in Instances, Elsewhere(i), RoomMove(i)
  PROVE  [Contract!Next]_(Contract!rooms)
<1> DEFINE t == [j \in Instances |-> Tenure(j)]
           p == [j \in Instances |-> Port(j)]
           g == [j \in Instances |-> disk[j].gen]
<1>1. /\ t' = [t EXCEPT ![i] = Tenure(i)']
      /\ p' = [p EXCEPT ![i] = Port(i)']
      /\ g' = [g EXCEPT ![i] = disk'[i].gen]
      /\ live' = [live EXCEPT ![i] = live'[i]]
  BY DEF Elsewhere, SameShown
<1>2. t[i] = Tenure(i) /\ g[i] = disk[i].gen /\ \A j \in Instances : p[j] = Port(j)
  OBVIOUS
<1>3. (UNCHANGED Contract!rooms) <=> (t' = t /\ p' = p /\ g' = g /\ live' = live)
  BY DEF Contract!rooms, Tenure, Port
<1>4. \A q \in Ports :
        Contract!Reserve(i, q) <=>
          /\ t[i] = "none" /\ \A j \in Instances : p[j] # q
          /\ t' = [t EXCEPT ![i] = "held"] /\ p' = [p EXCEPT ![i] = q]
          /\ UNCHANGED <<g, live>>
  BY DEF Contract!Reserve, Tenure, Port
<1>5. Contract!NextGeneration(i) <=>
        /\ t[i] = "held" /\ live[i] = {} /\ g' = [g EXCEPT ![i] = @ + 1]
        /\ UNCHANGED <<t, p, live>>
  BY DEF Contract!NextGeneration, Tenure, Port
<1>6. Contract!Spawn(i) <=>
        /\ t[i] = "held" /\ live[i] = {} /\ g[i] > 0
        /\ live' = [live EXCEPT ![i] = {g[i]}]
        /\ UNCHANGED <<t, p, g>>
  BY DEF Contract!Spawn, Tenure, Port
<1>7. Contract!Exit(i) <=>
        live[i] # {} /\ live' = [live EXCEPT ![i] = {}] /\ UNCHANGED <<t, p, g>>
  BY DEF Contract!Exit, Tenure, Port
<1>8. Contract!Reclaim(i) <=>
        /\ t[i] = "held" /\ live[i] = {}
        /\ t' = [t EXCEPT ![i] = "reclaimed"] /\ p' = [p EXCEPT ![i] = NoPort]
        /\ UNCHANGED <<g, live>>
  BY DEF Contract!Reclaim, Tenure, Port
<1>9. Contract!Expire(i) <=>
        /\ t[i] = "reclaimed"
        /\ t' = [t EXCEPT ![i] = "expired"] /\ g' = [g EXCEPT ![i] = 0]
        /\ UNCHANGED <<p, live>>
  BY DEF Contract!Expire, Tenure, Port
<1>10. /\ t = [t EXCEPT ![i] = t[i]] /\ p = [p EXCEPT ![i] = p[i]]
       /\ g = [g EXCEPT ![i] = g[i]] /\ live = [live EXCEPT ![i] = live[i]]
  OBVIOUS
<1> HIDE DEF t, p, g
<1>11. CASE Stays(i)
  BY <1>1, <1>2, <1>3, <1>10, <1>11 DEF Stays, SameShown, SameLive
<1>12. ASSUME NEW q \in Ports, Reserved(i, q) PROVE Contract!Next
  <2>1. t[i] = "none" /\ \A j \in Instances : p[j] # q
    BY <1>2, <1>12 DEF Reserved
  <2>2. t' = [t EXCEPT ![i] = "held"] /\ p' = [p EXCEPT ![i] = q]
    BY <1>1, <1>12 DEF Reserved
  <2>3. g' = g /\ live' = live
    BY <1>1, <1>2, <1>10, <1>12 DEF Reserved, SameLive
  <2>4. Contract!Reserve(i, q)
    BY <1>4, <2>1, <2>2, <2>3
  <2> QED
    BY <2>4 DEF Contract!Next
<1>13. CASE Advanced(i)
  <2>1. Contract!NextGeneration(i)
    BY <1>1, <1>2, <1>5, <1>10, <1>13 DEF Advanced, SameLive
  <2> QED
    BY <2>1 DEF Contract!Next
<1>14. CASE Started(i)
  <2>1. Contract!Spawn(i)
    BY <1>1, <1>2, <1>6, <1>10, <1>14 DEF Started, SameShown
  <2> QED
    BY <2>1 DEF Contract!Next
<1>15. CASE Ended(i)
  <2>1. Contract!Exit(i)
    BY <1>1, <1>2, <1>7, <1>10, <1>15 DEF Ended, SameShown
  <2> QED
    BY <2>1 DEF Contract!Next
<1>16. CASE GivenUp(i)
  <2>1. Contract!Reclaim(i)
    BY <1>1, <1>2, <1>8, <1>10, <1>16 DEF GivenUp, SameLive
  <2> QED
    BY <2>1 DEF Contract!Next
<1>17. CASE Expired(i)
  <2>1. Contract!Expire(i)
    BY <1>1, <1>2, <1>9, <1>10, <1>17 DEF Expired, SameLive
  <2> QED
    BY <2>1 DEF Contract!Next
<1> QED
  BY <1>11, <1>12, <1>13, <1>14, <1>15, <1>16, <1>17 DEF RoomMove

(* The state file stays as it is.                                          *)
LEMMA FileStays ==
  ASSUME disk' = disk, pruned' = pruned
  PROVE  \A j \in Instances : SameShown(j)
  BY DEF SameShown, Tenure, Port

(* A saved record shows the room the file showed before.                   *)
LEMMA SavedStays ==
  ASSUME NEW j \in Instances, SameRoom(disk[j], disk'[j]), j \in pruned' <=> j \in pruned
  PROVE  SameShown(j)
  BY DEF SameShown, Tenure, Port, SameRoom

(* The state file is written with the memory of every instance but i,      *)
(* which was shown before.                                                 *)
OthersShown(i) ==
    \A j \in Instances : j # i =>
        disk'[j] = mem[j] /\ SameRoom(disk[j], mem[j]) /\ live'[j] = live[j]

(* The other instances stay as RoomContract sees them.                     *)
LEMMA OthersStay ==
  ASSUME NEW i \in Instances, OthersShown(i),
         \A j \in Instances : j # i => (j \in pruned' <=> j \in pruned)
  PROVE  Elsewhere(i)
<1>1. ASSUME NEW j \in Instances, j # i PROVE SameShown(j) /\ live'[j] = live[j]
  <2>1. SameRoom(disk[j], disk'[j]) /\ live'[j] = live[j]
    BY <1>1 DEF OthersShown
  <2>2. j \in pruned' <=> j \in pruned
    BY <1>1
  <2> QED
    BY <2>1, <2>2, SavedStays
<1> QED
  BY <1>1 DEF Elsewhere

(* The file and the pruned histories show a held room, or a reclaimed one. *)
LEMMA HeldShown ==
  ASSUME NEW i \in Instances
  PROVE  /\ Holds(disk[i]) <=> Tenure(i) = "held"
         /\ Holds(disk[i]) => Port(i) = disk[i].port
         /\ ~Holds(disk[i]) => Port(i) = NoPort
         /\ ~Holds(disk[i]) /\ Exists(disk[i]) => Tenure(i) = "reclaimed"
  BY DEF Tenure, Port

(* What saving x makes of a room that memory holds.                        *)
LEMMA SaveMoves ==
  ASSUME NEW i \in Instances, live' = live, pruned' = pruned,
         Holds(mem[i]), Lasts(mem[i], disk'[i])
  PROVE  /\ SameRoom(disk[i], mem[i]) /\ Holds(disk'[i]) /\ disk'[i].gen = mem[i].gen
              => Stays(i)
         /\ live[i] = {} /\ Holds(disk[i]) /\ mem[i].port = disk[i].port /\ Holds(disk'[i])
              /\ disk'[i].gen = disk[i].gen + 1 => Advanced(i)
         /\ SameRoom(disk[i], mem[i]) /\ live[i] = {} /\ ~Holds(disk'[i])
              /\ disk'[i].gen = mem[i].gen => GivenUp(i)
<1>1. Exists(mem[i]) /\ Exists(disk'[i]) /\ disk'[i].port = mem[i].port /\ live'[i] = live[i]
  BY DEF Lasts, Holds, Exists
<1>2. ASSUME SameRoom(disk[i], mem[i]), Holds(disk'[i]), disk'[i].gen = mem[i].gen
      PROVE  Stays(i)
  <2>1. SameRoom(disk[i], disk'[i])
    BY <1>1, <1>2 DEF SameRoom
  <2> QED
    BY <1>1, <2>1, SavedStays DEF Stays, SameLive
<1>3. ASSUME live[i] = {}, Holds(disk[i]), mem[i].port = disk[i].port, Holds(disk'[i]),
             disk'[i].gen = disk[i].gen + 1
      PROVE  Advanced(i)
  BY <1>1, <1>3 DEF Advanced, SameLive, Tenure, Port
<1>4. ASSUME SameRoom(disk[i], mem[i]), live[i] = {}, ~Holds(disk'[i]),
             disk'[i].gen = mem[i].gen
      PROVE  GivenUp(i)
  <2>1. Holds(disk[i]) /\ disk'[i].gen = disk[i].gen
    BY <1>4 DEF SameRoom
  <2> QED
    BY <1>1, <1>4, <2>1 DEF GivenUp, SameLive, Tenure, Port
<1> QED
  BY <1>2, <1>3, <1>4

(* Where no failure is about to be saved, the file shows what memory holds. *)
Shown(j) == SameRoom(disk[j], mem[j])

(* The worker that holds the mutex is the only one at such a place, and so *)
(* is a worker that takes it.                                              *)
LEMMA AloneLocked ==
  ASSUME IInv, NEW i \in Instances, NEW o \in OpIds, Free \/ pc[i][o] \in LockedPcs,
         NEW j \in Instances, NEW q \in OpIds, j # i \/ q # o
  PROVE  pc[j][q] \notin LockedPcs
  BY DEF IInv, Exclusive, Free

(* While the mutex is free, or one worker holds it, no other room is ahead *)
(* of its file.                                                            *)
LEMMA NoneAhead ==
  ASSUME IInv, ShownInv, up, ~wedged, NEW i \in Instances, NEW o \in OpIds,
         Free \/ pc[i][o] \in LockedPcs
  PROVE  /\ \A j \in Instances : j # i => Shown(j)
         /\ pc[i][o] # "abort" => Shown(i)
<1>1. \A j \in Instances, q \in OpIds : j # i \/ q # o => pc[j][q] # "abort"
  BY AloneLocked DEF LockedPcs
<1>2. \A j \in Instances : Shown(j) \/ Ahead(j)
  BY DEF ShownInv, Matched, Shown
<1>3. \A j \in Instances : j # i => ~Ahead(j)
  BY <1>1 DEF Ahead
<1>4. pc[i][o] # "abort" => ~Ahead(i)
  BY <1>1 DEF Ahead
<1> QED
  BY <1>2, <1>3, <1>4

(* The process of a room that may be prepared is gone.                     *)
LEMMA PreparedHasNone ==
  ASSUME IInv, up, NEW i \in Instances, NEW o \in OpIds, pc[i][o] = "prepare", MayPrepare(mem[i])
  PROVE  live[i] = {}
<1>1. \A q \in OpIds : pc[i][q] # "spawned"
  <2>1. \A q \in OpIds : q # o => pc[i][q] \notin LockedPcs
    BY AloneLocked DEF LockedPcs
  <2> QED
    BY <2>1 DEF LockedPcs
<1> QED
  BY <1>1 DEF IInv, StoppedHasNone, MayPrepare

(* A worker's save shows the same room, its next generation or its end.    *)
LEMMA WorkerSaves ==
  ASSUME IInv, ShownInv, up, ~wedged, NEW i \in Instances, NEW o \in OpIds,
         WorkerKeeps(i, o), Holds(mem[i]), Result(i, o, disk'[i]),
         live' = live, pruned' = pruned, \A j \in Instances : j # i => disk'[j] = mem[j]
  PROVE  [Contract!Next]_(Contract!rooms)
<1>1. Free \/ pc[i][o] \in LockedPcs
  BY DEF WorkerKeeps
<1>2. Elsewhere(i)
  <2>1. OthersShown(i)
    BY <1>1, NoneAhead DEF OthersShown, Shown
  <2> QED
    BY <2>1, OthersStay
<1>3. /\ Lasts(mem[i], disk'[i])
      /\ Holds(disk'[i]) \/ pc[i][o] = "cleanup"
      /\ \/ disk'[i].gen = mem[i].gen
         \/ pc[i][o] = "prepare" /\ MayPrepare(mem[i]) /\ disk'[i].gen = mem[i].gen + 1
  BY DEF Result
<1>4. RoomMove(i)
  <2>1. CASE pc[i][o] = "prepare" /\ MayPrepare(mem[i]) /\ disk'[i].gen = mem[i].gen + 1
    <3>1. live[i] = {} /\ Shown(i)
      BY <1>1, <2>1, PreparedHasNone, NoneAhead
    <3>2. Holds(disk'[i]) /\ Holds(disk[i]) /\ mem[i].port = disk[i].port /\ mem[i].gen = disk[i].gen
      BY <1>3, <2>1, <3>1 DEF Shown, SameRoom
    <3>3. Advanced(i)
      BY <1>3, <2>1, <3>1, <3>2, SaveMoves
    <3> QED
      BY <3>3 DEF RoomMove
  <2>2. CASE pc[i][o] = "abort" /\ ~Shown(i)
    <3>1. Ahead(i)
      BY <2>2 DEF ShownInv, Matched, Shown
    <3>2. /\ live[i] = {} /\ Holds(disk[i]) /\ mem[i].port = disk[i].port
          /\ mem[i].gen = disk[i].gen + 1
      BY <3>1 DEF Ahead
    <3>3. Advanced(i)
      BY <1>3, <2>2, <3>2, SaveMoves
    <3> QED
      BY <3>3 DEF RoomMove
  <2>3. CASE Shown(i) /\ disk'[i].gen = mem[i].gen /\ Holds(disk'[i])
    BY <1>3, <2>3, SaveMoves DEF Shown, RoomMove
  <2>4. CASE pc[i][o] = "cleanup" /\ disk'[i].gen = mem[i].gen /\ ~Holds(disk'[i])
    <3>1. live[i] = {} /\ Shown(i)
      BY <1>1, <2>4, NoneAhead DEF IInv, Launching, LaunchFacts
    <3>2. GivenUp(i)
      BY <1>3, <2>4, <3>1, SaveMoves DEF Shown
    <3> QED
      BY <3>2 DEF RoomMove
  <2>5. pc[i][o] # "abort" => Shown(i)
    BY <1>1, NoneAhead
  <2> QED
    BY <1>3, <2>1, <2>2, <2>3, <2>4, <2>5
<1>5. live \in [Instances -> SUBSET Gens] /\ live' \in [Instances -> SUBSET Gens]
  BY DEF IInv, TypeOK
<1> QED
  BY <1>2, <1>4, <1>5, RoomMoves

(* Where the file stays, a process ends or starts, or nothing shows.       *)
LEMMA WorkerPlays ==
  ASSUME IInv, live' \in [Instances -> SUBSET Gens], up, NEW i \in Instances, NEW o \in OpIds,
         WorkerKeeps(i, o), disk' = disk, pruned' = pruned
  PROVE  [Contract!Next]_(Contract!rooms)
<1>1. \A j \in Instances : SameShown(j)
  BY FileStays
<1>2. live \in [Instances -> SUBSET Gens]
  BY DEF IInv, TypeOK
<1>3. Elsewhere(i)
  BY <1>1, <1>2 DEF WorkerKeeps, Elsewhere
<1>4. RoomMove(i)
  <2>1. CASE live' = live \/ live' = [live EXCEPT ![i] = @ \ {mem[i].gen}]
    <3>1. live[i] \subseteq {mem[i].gen}
      BY DEF IInv, Tracked, Accounts
    <3>2. live'[i] = live[i] \/ (live[i] # {} /\ live'[i] = {})
      BY <1>2, <2>1, <3>1
    <3> QED
      BY <1>1, <3>2 DEF RoomMove, Stays, SameLive, Ended
  <2>2. CASE pc[i][o] = "exec" /\ live' = [live EXCEPT ![i] = @ \cup {mem[i].gen}]
    <3>1. live[i] = {} /\ disk[i] = mem[i] /\ Holds(mem[i]) /\ mem[i].gen \in Gens
      BY <2>2 DEF IInv, Launching, LaunchFacts, LaunchPcs
    <3>2. live'[i] = {disk[i].gen} /\ disk[i].gen > 0 /\ Tenure(i) = "held"
      BY <1>2, <2>2, <3>1 DEF Gens, Tenure
    <3> QED
      BY <1>1, <3>1, <3>2 DEF RoomMove, Started
  <2> QED
    BY <2>1, <2>2 DEF WorkerKeeps
<1> QED
  BY <1>2, <1>3, <1>4, RoomMoves

(* Every step of a worker is a step of the life of a room, or none.        *)
LEMMA WorkerContract ==
  ASSUME IInv, IInv', OwnedInv, ShownInv, up, NEW i \in Instances, NEW o \in OpIds,
         WorkerStep(i, o)
  PROVE  [Contract!Next]_(Contract!rooms)
<1>1. StoreType /\ WorkersType /\ live' \in [Instances -> SUBSET Gens]
  BY TypeParts DEF IInv, TypeOK
<1>2. pruned' = pruned /\ WorkerKeeps(i, o) /\ WorkerEffect(i, o)
  BY <1>1, WorkerGoes, WorkerKeepsAll, WorkerEffects DEF history
<1>3. CASE disk' = disk
  BY <1>1, <1>2, <1>3, WorkerPlays
<1>4. CASE disk' # disk
  <2>1. Holds(mem[i])
    <3>1. ~FinishWorker(i, o)
      BY <1>4 DEF FinishWorker, store
    <3>2. Busy(i, o)
      BY <3>1, WorkerMoves DEF WorkerMove, Busy
    <3> QED
      BY <3>2 DEF OwnedInv, Owned, Manned
  <2>2. live' = live /\ ~wedged
    BY <1>2, <1>4 DEF WorkerKeeps, ShownInv, Writing
  <2>3. PICK z, x : RecordStep(i, z, x) /\ Result(i, o, x)
    BY <1>2 DEF WorkerEffect
  <2>4. disk'[i] = x /\ \A j \in Instances : j # i => disk'[j] = mem[j]
    BY <1>1, <1>4, <2>3 DEF RecordStep, StoreType
  <2> QED
    BY <1>2, <2>1, <2>2, <2>3, <2>4, WorkerSaves
<1> QED
  BY <1>3, <1>4

(* What a step of a worker keeps, part by part. *)

(* The other workers stay, and the records of the other instances.         *)
WorkerLeaves(i, o) ==
    /\ \A j \in Instances, q \in OpIds : j # i \/ q # o => pc'[j][q] = pc[j][q]
    /\ cancelled' = cancelled /\ closed' = closed /\ up' = up /\ pruned' = pruned
    /\ wedged => wedged'
    /\ \A j \in Instances : j # i => mem'[j] = mem[j]
    /\ \A j \in Instances : j # i => disk'[j] = disk[j] \/ disk'[j] = mem[j]

(* A step of a worker leaves the workers and processes of other rooms.     *)
LEMMA WorkerLeavesOthers ==
  ASSUME StoreType, WorkersType, NEW i \in Instances, NEW o \in OpIds, WorkerStep(i, o)
  PROVE  WorkerLeaves(i, o)
<1>1. /\ \E p \in Pcs : Goto(i, o, p) \/ pc' = pc
      /\ UNCHANGED <<cancelled, pred, life, history>>
  BY WorkerGoes
<1>2. \A j \in Instances, q \in OpIds : j # i \/ q # o => pc'[j][q] = pc[j][q]
  BY <1>1 DEF Goto, WorkersType
<1>3. /\ wedged => wedged'
      /\ \A j \in Instances : j # i => mem'[j] = mem[j]
      /\ \A j \in Instances : j # i => disk'[j] = disk[j] \/ disk'[j] = mem[j]
  BY WorkerEffects DEF WorkerEffect, RecordStep, StoreType
<1> QED
  BY <1>1, <1>2, <1>3 DEF WorkerLeaves, life, history

(* A worker that did not return, and was not cancelled, has its operation. *)
LEMMA WorkerUnfinished ==
  ASSUME StoreType, WorkersType, ShownInv, NEW i \in Instances, NEW o \in OpIds,
         WorkerStep(i, o), NEW j \in Instances
  PROVE  Unfinished(j)'
<1>1. WorkerLeaves(i, o)
  BY WorkerLeavesOthers
<1>2. ~wedged' => \A q \in OpIds : Busy(j, q) /\ q \notin cancelled[j] => Running(mem[j], q)
  BY <1>1 DEF ShownInv, Unfinished, WorkerLeaves
<1>3. CASE j # i
  <2>1. mem'[j] = mem[j] /\ cancelled' = cancelled /\ \A q \in OpIds : pc'[j][q] = pc[j][q]
    BY <1>1, <1>3 DEF WorkerLeaves
  <2> QED
    BY <1>2, <2>1 DEF Unfinished, Busy
<1>4. CASE j = i
  <2>1. PICK z : /\ mem'[i] = z /\ Result(i, o, z)
                 /\ pc'[i][o] # "exit" => SameOps(mem[i], z)
    BY WorkerEffects DEF WorkerEffect, RecordStep, StoreType
  <2>2. ASSUME NEW q \in OpIds, Busy(i, q)', q \notin cancelled[i], ~wedged'
        PROVE  Running(z, q)
    <3>1. CASE q # o
      <4>1. Busy(i, q)
        BY <1>1, <2>2, <3>1 DEF WorkerLeaves, Busy
      <4>2. z.ops[q].status = mem[i].ops[q].status
        BY <2>1, <3>1 DEF Result
      <4> QED
        BY <1>2, <1>4, <2>2, <4>1, <4>2 DEF Running
    <3>2. CASE q = o
      <4>1. pc'[i][o] # "none" /\ SameOps(mem[i], z)
        BY <2>1, <2>2, <3>2 DEF Busy
      <4>2. ~FinishWorker(i, o)
        BY <4>1 DEF FinishWorker, Goto, WorkersType
      <4>3. Busy(i, o)
        BY <4>2, WorkerMoves DEF WorkerMove, Busy
      <4> QED
        BY <1>2, <1>4, <2>2, <3>2, <4>1, <4>3 DEF SameOps, Running
    <3> QED
      BY <3>1, <3>2
  <2> QED
    BY <1>1, <1>4, <2>1, <2>2 DEF Unfinished, WorkerLeaves
<1> QED
  BY <1>3, <1>4

(* Operations of the store are only ahead before writeError is set.        *)
LEMMA WorkerWriting ==
  ASSUME IInv, ShownInv, NEW i \in Instances, NEW o \in OpIds,
         WorkerStep(i, o), NEW j \in Instances
  PROVE  Writing(j)'
<1>1. StoreType /\ WorkersType
  BY TypeParts DEF IInv
<1>2. WorkerLeaves(i, o) /\ WorkerKeeps(i, o)
  BY <1>1, WorkerLeavesOthers, WorkerKeepsAll
<1>3. ASSUME NEW q \in OpIds, pc'[j][q] \in Writers
      PROVE  ~wedged' /\ (pc'[j][q] = "prepare" => ~Quits(j, q)')
  <2>1. j = i /\ q = o
    <3>1. SUFFICES ASSUME j # i \/ q # o PROVE FALSE
      OBVIOUS
    <3>2. pc[j][q] \notin LockedPcs
      BY <1>2, <3>1, AloneLocked DEF WorkerKeeps
    <3>3. pc'[j][q] = pc[j][q]
      BY <1>2, <3>1 DEF WorkerLeaves
    <3> QED
      BY <1>3, <3>2, <3>3 DEF Writers, LockedPcs
  <2>2. ~wedged'
    <3>1. pc[i][o] \in Writers => ~wedged
      BY DEF ShownInv, Writing
    <3> QED
      BY <1>2, <1>3, <2>1, <3>1 DEF WorkerKeeps
  <2>3. pc'[i][o] = "prepare" => ~Quits(i, o)
    BY <1>2 DEF WorkerKeeps
  <2>4. Quits(i, o)' <=> Quits(i, o)
    BY <1>2 DEF WorkerLeaves, Quits
  <2> QED
    BY <2>1, <2>2, <2>3, <2>4
<1> QED
  BY <1>3 DEF Writing

(* A record shows the room it shows.                                       *)
LEMMA SameRoomSelf == ASSUME NEW x PROVE SameRoom(x, x)
  BY DEF SameRoom

(* Memory and file show the same rooms, or a failure is about to be saved. *)
LEMMA WorkerMatched ==
  ASSUME IInv, OwnedInv, ShownInv, up, NEW i \in Instances, NEW o \in OpIds, WorkerStep(i, o)
  PROVE  Matched'
<1>1. StoreType /\ WorkersType
  BY TypeParts DEF IInv
<1>2. WorkerLeaves(i, o) /\ WorkerKeeps(i, o)
  BY <1>1, WorkerLeavesOthers, WorkerKeepsAll
<1>3. SUFFICES ASSUME ~wedged', NEW j \in Instances
               PROVE  SameRoom(disk'[j], mem'[j]) \/ Ahead(j)'
  BY DEF Matched
<1>4. ~wedged
  BY <1>2, <1>3 DEF WorkerLeaves
<1>5. CASE disk' = mem'
  BY <1>5, SameRoomSelf
<1>6. CASE j # i
  <2>1. Shown(j) /\ mem'[j] = mem[j] /\ (disk'[j] = disk[j] \/ disk'[j] = mem[j])
    BY <1>2, <1>4, <1>6, NoneAhead DEF WorkerKeeps, WorkerLeaves
  <2> QED
    BY <2>1, SameRoomSelf DEF Shown
<1>7. CASE FinishWorker(i, o)
  <2>1. mem' = mem /\ disk' = disk /\ pc[i][o] # "abort" /\ Free
    BY <1>7 DEF FinishWorker, store
  <2>2. Shown(i)
    BY <1>4, <2>1, NoneAhead
  <2> QED
    BY <1>6, <2>1, <2>2 DEF Shown
<1>8. CASE j = i /\ disk' # mem' /\ ~FinishWorker(i, o)
  <2>1. PICK z, x : /\ RecordStep(i, z, x) /\ Result(i, o, z) /\ Result(i, o, x)
                    /\ Unsaved(i, o, z, x)
    BY <1>1, <1>3, <1>8, WorkerEffects DEF WorkerEffect
  <2>2. mem'[i] = z /\ (disk' = disk \/ disk'[i] = x)
    BY <1>1, <2>1 DEF RecordStep, StoreType
  <2>3. Busy(i, o)
    BY <1>8, WorkerMoves DEF WorkerMove, Busy
  <2>4. Holds(mem[i]) /\ Exists(mem[i])
    BY <2>3 DEF OwnedInv, Owned, Manned, Holds, Exists
  <2>5. /\ Lasts(mem[i], z) /\ Lasts(mem[i], x)
        /\ z.port = mem[i].port /\ x.port = mem[i].port /\ Exists(z) /\ Exists(x)
    BY <2>1, <2>4 DEF Result, Lasts
  <2>6. pc[i][o] # "abort" => Shown(i)
    BY <1>2, <1>4, NoneAhead DEF WorkerKeeps
  <2>7. CASE /\ \A y \in {z, x} : y.gen = mem[i].gen /\ (Holds(mem[i]) => Holds(y))
             /\ pc'[i][o] = "exit" => Quits(i, o) \/ ~Running(mem[i], o)
    <3>1. SameRoom(x, z) /\ SameRoom(mem[i], z)
      BY <2>4, <2>5, <2>7 DEF SameRoom
    <3>2. Shown(i)
      <4>1. SUFFICES ASSUME pc[i][o] = "abort", ~Shown(i) PROVE FALSE
        BY <2>6
      <4>2. PICK q \in OpIds : pc[i][q] = "abort" /\ ~Quits(i, q)
        BY <1>4, <4>1 DEF ShownInv, Matched, Shown, Ahead
      <4>3. q = o
        <5>1. pc[i][o] \in LockedPcs /\ pc[i][q] \in LockedPcs
          BY <4>1, <4>2 DEF LockedPcs
        <5> QED
          BY <5>1 DEF IInv, Exclusive
      <4>4. Running(mem[i], o)
        BY <1>4, <2>3, <4>2, <4>3 DEF ShownInv, Unfinished, Quits
      <4>5. pc'[i][o] = "exit"
        BY <1>2, <4>1 DEF WorkerKeeps
      <4> QED
        BY <2>7, <4>2, <4>3, <4>4, <4>5
    <3>3. SameRoom(disk[i], z)
      BY <3>1, <3>2, SameRoomTransitive DEF Shown
    <3> QED
      BY <1>8, <2>2, <3>1, <3>3
  <2>8. CASE pc[i][o] = "prepare" /\ pc'[i][o] = "abort" /\ MayPrepare(mem[i]) /\ z = x
    <3>1. live[i] = {} /\ Shown(i) /\ ~Quits(i, o)
      BY <2>6, <2>8, PreparedHasNone DEF ShownInv, Writing, Writers
    <3>2. live'[i] = {}
      <4>1. live \in [Instances -> SUBSET Gens]
        BY DEF IInv, TypeOK
      <4>2. live' = live \/ live' = [live EXCEPT ![i] = @ \ {mem[i].gen}]
        BY <1>2, <2>8 DEF WorkerKeeps
      <4> QED
        BY <3>1, <4>1, <4>2
    <3>3. Holds(z)
      BY <2>1, <2>4, <2>8 DEF Result
    <3>4. CASE disk'[i] = x
      BY <1>8, <2>2, <2>8, <3>4, SameRoomSelf
    <3>5. CASE disk' = disk /\ z.gen = mem[i].gen
      <4>1. SameRoom(mem[i], z)
        BY <2>4, <2>5, <3>3, <3>5 DEF SameRoom
      <4> QED
        BY <1>8, <2>2, <3>1, <3>5, <4>1, SameRoomTransitive DEF Shown
    <3>6. CASE disk' = disk /\ z.gen = mem[i].gen + 1
      <4>1. Holds(disk[i]) /\ disk[i].port = mem[i].port /\ disk[i].gen = mem[i].gen
        BY <2>4, <3>1 DEF Shown, SameRoom
      <4>2. ~Quits(i, o)'
        BY <1>2, <3>1 DEF WorkerLeaves, Quits
      <4>3. Ahead(i)'
        BY <2>2, <2>5, <2>8, <3>2, <3>3, <3>6, <4>1, <4>2 DEF Ahead
      <4> QED
        BY <1>8, <4>3
    <3> QED
      BY <2>1, <2>2, <2>8, <3>4, <3>5, <3>6 DEF Result
  <2>9. ~(pc[i][o] = "cleanup" /\ mem[i].ops[o].kind = "stop" /\ ~Running(mem[i], o))
    BY <1>4, <2>3 DEF OwnedInv, Owned, StopsLast
  <2> QED
    BY <2>1, <2>7, <2>8, <2>9 DEF Unsaved
<1> QED
  BY <1>5, <1>6, <1>7, <1>8

(* A room is only forgotten with its generations.                          *)
LEMMA BlankFrom ==
  ASSUME Blank, NEW i \in Instances, \A j \in Instances : j # i => SameRoom(disk[j], disk'[j]),
         Exists(disk'[i]) \/ disk'[i].gen = 0
  PROVE  Blank'
  BY DEF Blank, SameRoom

(* Memory and file show the same rooms after every step of a worker.       *)
LEMMA WorkerShown ==
  ASSUME IInv, OwnedInv, ShownInv, up, NEW i \in Instances, NEW o \in OpIds, WorkerStep(i, o)
  PROVE  ShownInv'
<1>1. StoreType /\ WorkersType
  BY TypeParts DEF IInv
<1>2. \A j \in Instances : Unfinished(j)' /\ Writing(j)'
  BY <1>1, WorkerUnfinished, WorkerWriting
<1>3. Matched'
  BY WorkerMatched
<1>4. Blank'
  <2>1. CASE disk' = disk
    BY <2>1 DEF ShownInv, Blank
  <2>2. CASE disk' # disk
    <3>1. WorkerKeeps(i, o) /\ WorkerEffect(i, o)
      BY <1>1, WorkerKeepsAll, WorkerEffects
    <3>2. ~wedged /\ (Free \/ pc[i][o] \in LockedPcs)
      BY <2>2, <3>1 DEF WorkerKeeps, ShownInv, Writing
    <3>3. PICK z, x : RecordStep(i, z, x) /\ Result(i, o, x)
      BY <3>1 DEF WorkerEffect
    <3>4. disk'[i] = x /\ \A j \in Instances : j # i => disk'[j] = mem[j]
      BY <1>1, <2>2, <3>3 DEF RecordStep, StoreType
    <3>5. Busy(i, o)
      <4>1. ~FinishWorker(i, o)
        BY <2>2 DEF FinishWorker, store
      <4> QED
        BY <4>1, WorkerMoves DEF WorkerMove, Busy
    <3>6. Exists(disk'[i])
      BY <3>3, <3>4, <3>5 DEF OwnedInv, Owned, Manned, Holds, Exists, Result, Lasts
    <3>7. \A j \in Instances : j # i => SameRoom(disk[j], disk'[j])
      BY <3>2, <3>4, NoneAhead DEF Shown
    <3> QED
      BY <3>6, <3>7, BlankFrom DEF ShownInv
  <2> QED
    BY <2>1, <2>2
<1> QED
  BY <1>2, <1>3, <1>4 DEF ShownInv

----------------------------------------------------------------------------
(* Steps that find the mutex free. *)

(* They do while nobody holds the mutex.                                   *)
LEMMA FreeShows ==
  ASSUME ShownInv, Free, ~wedged PROVE \A j \in Instances : Shown(j)
  BY DEF ShownInv, Matched, Shown, Ahead, Free, LockedPcs

(* What such a step of instance i leaves of the others.                    *)
Leaves(i) ==
    /\ up' = up /\ (wedged => wedged')
    /\ \A j \in Instances : j # i =>
         /\ mem'[j] = mem[j] /\ pc'[j] = pc[j] /\ cancelled'[j] = cancelled[j]
         /\ disk'[j] = disk[j] \/ (~wedged /\ disk'[j] = mem[j])

(* A step at one instance that finds the mutex free leaves the others      *)
(* shown.                                                                  *)
LEMMA LeavesShown ==
  ASSUME ShownInv, Free, NEW i \in Instances, Leaves(i), NEW j \in Instances, j # i
  PROVE  /\ SameRoom(disk[j], disk'[j])
         /\ ~wedged' => SameRoom(disk'[j], mem'[j])
<1>1. ~wedged => Shown(j)
  BY FreeShows
<1>2. mem'[j] = mem[j] /\ (wedged => wedged') /\ (disk'[j] = disk[j] \/ (~wedged /\ disk'[j] = mem[j]))
  BY DEF Leaves
<1> QED
  BY <1>1, <1>2, SameRoomSelf DEF Shown

(* ShownInv, from what the step makes of instance i.                       *)
LEMMA FreeStep ==
  ASSUME ShownInv, Free, NEW i \in Instances, Leaves(i),
         \A q \in OpIds : pc'[i][q] = pc[i][q] \/ pc'[i][q] \in {"start", "wait", "none"},
         Unfinished(i)', ~wedged' => SameRoom(disk'[i], mem'[i]),
         Exists(disk'[i]) \/ disk'[i].gen = 0
  PROVE  ShownInv'
<1>1. \A j \in Instances : Writing(j)'
  <2>1. \A j \in Instances, q \in OpIds : pc[j][q] \notin Writers
    BY DEF Free, LockedPcs, Writers
  <2>2. \A j \in Instances, q \in OpIds : pc'[j][q] \notin Writers
    BY <2>1 DEF Leaves, Writers
  <2> QED
    BY <2>2 DEF Writing
<1>2. \A j \in Instances : j # i => Unfinished(j)'
  BY DEF ShownInv, Unfinished, Leaves, Busy
<1>3. Matched'
  BY LeavesShown DEF Matched
<1>4. Blank'
  <2>1. \A j \in Instances : j # i => SameRoom(disk[j], disk'[j])
    BY LeavesShown
  <2> QED
    BY <2>1, BlankFrom DEF ShownInv
<1> QED
  BY <1>1, <1>2, <1>3, <1>4 DEF ShownInv

(* The life of the rooms, from what the step makes of that of instance i.  *)
LEMMA FreeMoves ==
  ASSUME IInv, ShownInv, Free, NEW i \in Instances, Leaves(i), live' = live,
         \A j \in Instances : j # i => (j \in pruned' <=> j \in pruned),
         RoomMove(i)
  PROVE  [Contract!Next]_(Contract!rooms)
<1>1. Elsewhere(i)
  <2>1. ASSUME NEW j \in Instances, j # i PROVE SameShown(j) /\ live'[j] = live[j]
    BY <2>1, LeavesShown, SavedStays
  <2> QED
    BY <2>1 DEF Elsewhere
<1>2. live \in [Instances -> SUBSET Gens] /\ live' \in [Instances -> SUBSET Gens]
  BY DEF IInv, TypeOK
<1> QED
  BY <1>1, <1>2, RoomMoves

(* Nothing shows of a step.                                                *)
LEMMA NothingShows ==
  ASSUME \A j \in Instances : SameShown(j), live' = live
  PROVE  UNCHANGED Contract!rooms
  BY DEF SameShown, Contract!rooms, Tenure, Port

(* What every step is to show. *)
ContractStep == ShownInv' /\ [Contract!Next]_(Contract!rooms)

(* A new room reserves its port, which no room held in the file has.       *)
LEMMA CreateShown ==
  ASSUME IInv, OwnedInv, ShownInv, NEW i \in Instances, NEW k \in Keys, NEW p \in Ports,
         Create(i, k, p)
  PROVE  ContractStep
<1> DEFINE x == NewInstance(k, p)
<1>1. Holds(x) /\ Exists(x) /\ x.port = p /\ x.gen = 0 /\ Running(x, 1)
  <2>1. x.lifecycle = "active" /\ x.port = p /\ x.gen = 0 /\ x.nops = 1
    BY DEF NewInstance, Absent
  <2>2. x.ops[1].status = "running"
    BY BoundsAssumption DEF NewInstance, Absent, NewOp, OpIds
  <2> QED
    BY <2>1, <2>2 DEF Holds, Exists, Running
<1> HIDE DEF x
<1>2. /\ Free /\ up' = up /\ ~wedged /\ pruned' = pruned /\ live' = live /\ cancelled' = cancelled
      /\ ~Exists(mem[i]) /\ ~Exists(disk[i]) /\ i \notin pruned /\ PortFree(p)
      /\ mem \in [Instances -> Instance] /\ disk \in [Instances -> Instance]
      /\ pc \in [Instances -> [OpIds -> Pcs]]
  BY DEF Create, Fresh, life, world, IInv, TypeOK
<1>3. \A q \in OpIds : pc[i][q] = "none"
  BY <1>2 DEF OwnedInv, Owned, Manned
<1>4. \/ StoreSaved(i, x) /\ Goto(i, 1, "start")
      \/ /\ Rejected(i, x, mem[i]) \/ Faulted(i, x, mem[i])
         /\ disk' = disk /\ wedged' = wedged /\ pc' = pc
      \/ Faulted(i, x, x) /\ wedged' = TRUE /\ pc' = pc
  BY DEF Create, x
<1>5. disk'[i] = x => Reserved(i, p)
  <2>1. SUFFICES ASSUME disk'[i] = x PROVE Reserved(i, p)
    OBVIOUS
  <2>2. Tenure(i) = "none" /\ Tenure(i)' = "held" /\ Port(i)' = p
    BY <1>1, <1>2, <2>1 DEF Tenure, Port, Holds, Exists
  <2>3. \A j \in Instances : Port(j) # p
    <3>1. \A j \in Instances : Holds(disk[j]) => disk[j].port # p
      BY <1>2, FreeShows DEF Shown, SameRoom, PortFree
    <3> QED
      BY <3>1, BoundsAssumption DEF Port
  <2>4. disk'[i].gen = disk[i].gen
    BY <1>1, <1>2, <2>1 DEF ShownInv, Blank
  <2> QED
    BY <1>2, <2>2, <2>3, <2>4 DEF Reserved, SameLive
<1>6. CASE StoreSaved(i, x) /\ Goto(i, 1, "start")
  <2>1. mem' = [mem EXCEPT ![i] = x] /\ disk' = mem' /\ pc' = [pc EXCEPT ![i][1] = "start"]
        /\ wedged' = wedged
    BY <1>6 DEF StoreSaved, Published, Goto
  <2>2. Leaves(i) /\ mem'[i] = x /\ disk'[i] = x
    BY <1>2, <2>1 DEF Leaves
  <2>3. \A q \in OpIds : pc'[i][q] = pc[i][q] \/ (q = 1 /\ pc'[i][q] = "start")
    BY <1>2, <2>1
  <2>4. Unfinished(i)'
    BY <1>1, <1>3, <2>2, <2>3 DEF Unfinished, Busy
  <2>5. ShownInv'
    BY <1>1, <1>2, <2>2, <2>3, <2>4, FreeStep, SameRoomSelf
  <2> QED
    BY <1>2, <1>5, <2>2, <2>5, FreeMoves DEF RoomMove, ContractStep
<1>7. CASE /\ Rejected(i, x, mem[i]) \/ Faulted(i, x, mem[i])
           /\ disk' = disk /\ wedged' = wedged /\ pc' = pc
  <2>1. mem' = [mem EXCEPT ![i] = mem[i]]
    BY <1>7 DEF Rejected, Faulted
  <2>2. mem' = mem /\ Leaves(i)
    BY <1>2, <1>7, <2>1 DEF Leaves
  <2>3. Shown(i)
    BY <1>2, FreeShows
  <2>4. ShownInv'
    BY <1>2, <1>3, <1>7, <2>2, <2>3, FreeStep DEF Shown, Unfinished, Busy, ShownInv, Blank
  <2>5. UNCHANGED Contract!rooms
    BY <1>2, <1>7, FileStays, NothingShows
  <2> QED
    BY <2>4, <2>5 DEF ContractStep
<1>8. CASE Faulted(i, x, x) /\ wedged' = TRUE /\ pc' = pc
  <2>1. mem' = [mem EXCEPT ![i] = x] /\ (disk' = disk \/ disk' = [mem EXCEPT ![i] = x])
    BY <1>8 DEF Faulted
  <2>2. Leaves(i)
    BY <1>2, <1>8, <2>1 DEF Leaves
  <2>3. disk'[i] = disk[i] \/ disk'[i] = x
    BY <1>2, <2>1
  <2>4. Exists(disk'[i]) \/ disk'[i].gen = 0
    BY <1>1, <2>3 DEF ShownInv, Blank
  <2>5. Unfinished(i)'
    BY <1>8 DEF Unfinished
  <2>6. ShownInv'
    BY <1>2, <1>8, <2>2, <2>4, <2>5, FreeStep
  <2>7. CASE disk' = disk
    BY <1>2, <2>6, <2>7, FileStays, NothingShows DEF ContractStep
  <2>8. CASE disk' # disk
    <3>1. disk'[i] = x
      BY <1>2, <2>1, <2>8
    <3> QED
      BY <1>2, <1>5, <2>2, <2>6, <3>1, FreeMoves DEF RoomMove, ContractStep
  <2> QED
    BY <2>7, <2>8
<1> QED
  BY <1>4, <1>6, <1>7, <1>8

(* A replayed intention changes nothing of its room.                       *)
LEMMA ReplayShown ==
  ASSUME IInv, ShownInv, NEW i \in Instances, Replay(i)
  PROVE  ContractStep
<1>1. /\ Free /\ up' = up /\ ~wedged /\ wedged' = wedged /\ pruned' = pruned /\ live' = live
      /\ mem' = mem /\ disk' = disk /\ cancelled' = cancelled
      /\ pc \in [Instances -> [OpIds -> Pcs]]
      /\ pc' = pc \/ (Goto(i, 1, "start") /\ Running(mem[i], 1))
      /\ Exists(mem[i])
  BY DEF Replay, Free, life, store, world, IInv, TypeOK
<1>2. /\ Leaves(i)
      /\ \A q \in OpIds : \/ pc'[i][q] = pc[i][q]
                          \/ q = 1 /\ pc'[i][q] = "start" /\ Running(mem[i], q)
  BY <1>1 DEF Goto, Leaves
<1>3. Shown(i)
  BY <1>1, FreeShows
<1>4. Unfinished(i)'
  BY <1>1, <1>2 DEF ShownInv, Unfinished, Busy
<1>5. ShownInv'
  BY <1>1, <1>2, <1>3, <1>4, FreeStep DEF Shown, SameRoom
<1> QED
  BY <1>1, <1>5, FileStays, NothingShows DEF ContractStep

(* A stop or restart takes the room over from the worker it cancels.       *)
LEMMA ChangeShown ==
  ASSUME IInv, OwnedInv, ShownInv, NEW i \in Instances, NEW kind \in {"stop", "restart"},
         Change(i, kind)
  PROVE  ContractStep
<1> DEFINE o == mem[i].nops + 1
<1>1. PICK y, w :
            /\ y.nops = o /\ y.key = mem[i].key /\ Exists(y)
            /\ w.nops = o /\ w.key = mem[i].key /\ Exists(w)
            /\ Holds(y) /\ y.port = mem[i].port /\ y.gen = mem[i].gen
            /\ reg[i] # o => Running(y, o)
            /\ \/ /\ mem' = [mem EXCEPT ![i] = y] /\ disk' = mem' /\ w = y
                  /\ Goto(i, o, "wait") /\ told' = [told EXCEPT ![i] = o]
               \/ /\ mem' = [mem EXCEPT ![i] = w]
                  /\ disk' = disk \/ disk' = [mem EXCEPT ![i] = y]
                  /\ wedged' = TRUE /\ pc' = pc /\ told' = told
  BY ChangeResult DEF IInv
<1>2. /\ Free /\ up' = up /\ ~closed /\ ~wedged /\ pruned' = pruned /\ live' = live
      /\ Exists(mem[i]) /\ Holds(mem[i])
      /\ cancelled' = [cancelled EXCEPT ![i] = IF reg[i] = 0 THEN @ ELSE @ \cup {reg[i]}]
      /\ mem \in [Instances -> Instance] /\ disk \in [Instances -> Instance]
      /\ pc \in [Instances -> [OpIds -> Pcs]] /\ cancelled \in [Instances -> SUBSET OpIds]
      /\ reg \in [Instances -> 0..MaxOps]
  BY DEF Change, MayStop, MayRestart, Holds, Exists, life, world, IInv, TypeOK
<1>3. Shown(i) /\ Exists(disk[i])
  BY <1>2, FreeShows DEF Shown, SameRoom
<1>4. SameRoom(disk[i], y)
  BY <1>1, <1>2, <1>3 DEF Shown, SameRoom
<1>5. Leaves(i) /\ \A q \in OpIds : pc'[i][q] = pc[i][q] \/ (q = o /\ pc'[i][q] = "wait")
  BY <1>1, <1>2 DEF Leaves, Goto
<1>6. disk'[i] = disk[i] \/ disk'[i] = y
  BY <1>1, <1>2
<1>7. RoomMove(i)
  <2>1. SameRoom(disk[i], disk'[i])
    BY <1>4, <1>6, SameRoomSelf
  <2> QED
    BY <1>2, <2>1, SavedStays DEF RoomMove, Stays, SameLive
<1>8. Unfinished(i)'
  <2>1. SUFFICES ASSUME ~wedged', NEW q \in OpIds, Busy(i, q)', q \notin cancelled'[i]
                 PROVE  Running(mem'[i], q)
    BY DEF Unfinished
  <2>2. mem'[i] = y
    BY <1>1, <1>2, <2>1
  <2>3. reg[i] \in Nat /\ mem[i].nops \in Nat /\ reg[i] <= mem[i].nops
    <3>1. reg[i] \in 0..MaxOps /\ mem[i] \in Instance
      BY <1>2
    <3> QED
      BY <1>2, <3>1, BoundsAssumption DEF Instance, OwnedInv, Owned, Manned
  <2>4. CASE q = o
    BY <1>1, <2>2, <2>3, <2>4
  <2>5. CASE q # o
    <3>1. Busy(i, q) /\ q \notin cancelled[i] /\ (reg[i] = 0 \/ q # reg[i])
      BY <1>2, <1>5, <2>1, <2>5 DEF Busy
    <3>2. Running(mem[i], q)
      BY <1>2, <3>1 DEF ShownInv, Unfinished
    <3>3. q \in 1..mem[i].nops /\ reg[i] # 0
      <4>1. reg[i] # 0 /\ q <= reg[i]
        BY <1>2, <3>1 DEF OwnedInv, Owned, Queued, Busy
      <4> QED
        BY <2>3, <4>1, BoundsAssumption DEF OpIds
    <3>4. q = reg[i]
      BY <3>2, <3>3, ChangeFinds DEF IInv
    <3> QED
      BY <3>1, <3>3, <3>4
  <2> QED
    BY <2>4, <2>5
<1>9. ~wedged' => SameRoom(disk'[i], mem'[i])
  BY <1>1, SameRoomSelf
<1>10. Exists(disk'[i])
  BY <1>1, <1>3, <1>6
<1>11. ShownInv'
  BY <1>2, <1>5, <1>8, <1>9, <1>10, FreeStep
<1> QED
  BY <1>2, <1>5, <1>7, <1>11, FreeMoves DEF ContractStep

(* An observation keeps the room as it is.                                 *)
LEMMA WatchShown ==
  ASSUME IInv, ShownInv, NEW i \in Instances, NEW v \in Verdicts, Watch(i, v)
  PROVE  ContractStep
<1>1. StoreType
  BY TypeParts DEF IInv
<1>2. PICK z, x : RecordStep(i, z, x) /\ Alike(mem[i], z) /\ Alike(mem[i], x)
  BY <1>1, WatchEffect
<1>3. /\ Free /\ up' = up /\ pruned' = pruned /\ live' = live /\ pc' = pc /\ cancelled' = cancelled
      /\ Holds(mem[i]) /\ Exists(mem[i])
  BY DEF Watch, Free, Holds, Exists, workers, life, world, history
<1>4. disk' = mem' \/ (wedged' /\ (wedged => disk' = disk))
  BY DEF Watch, Saved, StoreSaved, Published, NotSaved
<1>5. wedged => wedged' /\ disk' = disk
  BY <1>1, WatchEffect DEF Watch, Saved, NotSaved, Rejected, Faulted
<1>6. Leaves(i)
  BY <1>1, <1>2, <1>3, <1>5 DEF Leaves, RecordStep, StoreType
<1>7. /\ mem'[i] = z /\ (disk' = disk \/ (~wedged /\ disk'[i] = x))
  BY <1>1, <1>2, <1>5 DEF RecordStep, StoreType
<1>8. SameRoom(mem[i], z) /\ SameRoom(mem[i], x)
  BY <1>2, <1>3 DEF SameRoom, Alike, Lasts, Holds, Exists
<1>9. SameRoom(disk[i], disk'[i])
  BY <1>3, <1>7, <1>8, FreeShows, SameRoomSelf, SameRoomTransitive DEF Shown
<1>10. Unfinished(i)'
  <2>1. \A q \in OpIds : Running(mem[i], q) <=> Running(z, q)
    BY <1>2 DEF Alike, Running
  <2> QED
    BY <1>3, <1>5, <1>7, <2>1 DEF ShownInv, Unfinished, Busy
<1>11. ~wedged' => SameRoom(disk'[i], mem'[i])
  BY <1>4, SameRoomSelf
<1>12. Exists(disk'[i]) \/ disk'[i].gen = 0
  BY <1>9 DEF ShownInv, Blank, SameRoom
<1>13. ShownInv'
  BY <1>3, <1>6, <1>10, <1>11, <1>12, FreeStep
<1>14. RoomMove(i)
  BY <1>3, <1>9, SavedStays DEF RoomMove, Stays, SameLive
<1> QED
  BY <1>3, <1>6, <1>13, <1>14, FreeMoves DEF ContractStep

(* Only the history of a reclaimed room expires.                           *)
LEMMA PruneShown ==
  ASSUME IInv, OwnedInv, ShownInv, NEW i \in Instances, Prune(i)
  PROVE  ContractStep
<1>1. /\ Free /\ up' = up /\ ~wedged /\ live' = live /\ pc' = pc /\ cancelled' = cancelled
      /\ Exists(mem[i]) /\ ~Holds(mem[i])
      /\ pruned' = IF Exists(disk'[i]) THEN pruned ELSE pruned \cup {i}
      /\ \/ StoreSaved(i, Absent)
         \/ (Rejected(i, Absent, mem[i]) \/ Faulted(i, Absent, mem[i])) /\ wedged' = TRUE
      /\ mem \in [Instances -> Instance] /\ disk \in [Instances -> Instance]
  BY DEF Prune, Exists, Holds, workers, life, world, IInv, TypeOK
<1>2. ~Exists(Absent) /\ ~Holds(Absent) /\ Absent.gen = 0
  BY DEF Absent, Exists, Holds
<1>3. Exists(disk[i]) /\ ~Holds(disk[i])
  BY <1>1, FreeShows DEF Shown, SameRoom
<1>4. \/ mem' = [mem EXCEPT ![i] = Absent] /\ disk' = mem' /\ wedged' = wedged
      \/ /\ mem' = [mem EXCEPT ![i] = mem[i]] /\ wedged' = TRUE
         /\ disk' = disk \/ disk' = [mem EXCEPT ![i] = Absent]
  BY <1>1 DEF StoreSaved, Published, Rejected, Faulted
<1>5. Leaves(i) /\ (disk'[i] = disk[i] \/ disk'[i] = Absent)
  BY <1>1, <1>4 DEF Leaves
<1>6. \A q \in OpIds : ~Busy(i, q)
  BY <1>1 DEF OwnedInv, Owned, Manned
<1>7. Unfinished(i)'
  BY <1>1, <1>6 DEF Unfinished, Busy
<1>8. ~wedged' => SameRoom(disk'[i], mem'[i])
  BY <1>4, SameRoomSelf
<1>9. Exists(disk'[i]) \/ disk'[i].gen = 0
  BY <1>2, <1>3, <1>5
<1>10. ShownInv'
  BY <1>1, <1>5, <1>7, <1>8, <1>9, FreeStep
<1>11. RoomMove(i)
  <2>1. CASE disk'[i] = disk[i]
    <3>1. pruned' = pruned
      BY <1>1, <1>3, <2>1
    <3> QED
      BY <1>1, <2>1, <3>1 DEF RoomMove, Stays, SameShown, SameLive, Tenure, Port
  <2>2. CASE disk'[i] = Absent
    <3>1. i \in pruned'
      BY <1>1, <1>2, <2>2
    <3> QED
      BY <1>1, <1>2, <1>3, <2>2, <3>1 DEF RoomMove, Expired, SameLive, Tenure, Port
  <2> QED
    BY <1>5, <2>1, <2>2
<1>12. \A j \in Instances : j # i => (j \in pruned' <=> j \in pruned)
  BY <1>1
<1> QED
  BY <1>1, <1>5, <1>10, <1>11, <1>12, FreeMoves DEF ContractStep

(* A process exits: it was the only one of its room.                       *)
LEMMA ExitShown ==
  ASSUME IInv, IInv', ShownInv, NEW i \in Instances, NEW g \in Gens, GameExits(i, g)
  PROVE  ContractStep
<1>1. /\ mem' = mem /\ disk' = disk /\ pc' = pc /\ cancelled' = cancelled /\ up' = up
      /\ closed' = closed /\ wedged' = wedged /\ pruned' = pruned
      /\ g \in live[i] /\ live' = [live EXCEPT ![i] = @ \ {g}]
      /\ live \in [Instances -> SUBSET Gens] /\ live' \in [Instances -> SUBSET Gens]
  BY DEF GameExits, store, workers, life, history, IInv, TypeOK
<1>2. live[i] = {g}
  BY <1>1 DEF IInv, Tracked, Accounts
<1>3. live[i] # {} /\ live'[i] = {} /\ \A j \in Instances : j # i => live'[j] = live[j]
  BY <1>1, <1>2
<1>4. \A j \in Instances : Unfinished(j)' /\ Writing(j)'
  BY <1>1 DEF ShownInv, Unfinished, Writing, Busy, Quits
<1>5. ASSUME NEW j \in Instances, Ahead(j) PROVE Ahead(j)'
  BY <1>1, <1>3, <1>5 DEF Ahead, Quits
<1>6. Matched' /\ Blank'
  BY <1>1, <1>5 DEF ShownInv, Matched, Blank
<1>7. RoomMove(i) /\ Elsewhere(i)
  BY <1>1, <1>3, FileStays DEF RoomMove, Ended, Elsewhere
<1> QED
  BY <1>1, <1>4, <1>6, <1>7, RoomMoves DEF ContractStep, ShownInv

(* Nothing shows of Close, nor of the end of the manager process.          *)
LEMMA CloseShown ==
  ASSUME ShownInv, Close
  PROVE  ContractStep
<1>1. /\ Free /\ mem' = mem /\ disk' = disk /\ pc' = pc /\ cancelled' = cancelled /\ up' = up
      /\ wedged' = wedged /\ pruned' = pruned /\ live' = live
  BY DEF Close, store, workers, world, history
<1>2. \A j \in Instances : Unfinished(j)' /\ Writing(j)'
  <2>1. \A j \in Instances, q \in OpIds : pc[j][q] \notin Writers
    BY <1>1 DEF Free, LockedPcs, Writers
  <2> QED
    BY <1>1, <2>1 DEF ShownInv, Unfinished, Writing, Busy
<1>3. Matched' /\ Blank'
  BY <1>1, FreeShows DEF ShownInv, Matched, Blank, Shown
<1> QED
  BY <1>1, <1>2, <1>3, FileStays, NothingShows DEF ContractStep, ShownInv

(* The end of the manager process is no step of a room.                    *)
LEMMA DownShown ==
  ASSUME ShownInv, Down
  PROVE  ContractStep
<1>1. /\ ~up' /\ disk' = disk /\ pruned' = pruned /\ live' = live
      /\ \A j \in Instances, q \in OpIds : pc'[j][q] = "none"
  BY DEF Down, world, history
<1>2. \A j \in Instances : Unfinished(j)' /\ Writing(j)'
  BY <1>1 DEF Unfinished, Writing, Busy, Writers
<1>3. Matched' /\ Blank'
  BY <1>1 DEF ShownInv, Matched, Blank
<1> QED
  BY <1>1, <1>2, <1>3, FileStays, NothingShows DEF ContractStep, ShownInv

(* Recovery shows every room as the file did.                              *)
LEMMA ReopenShown ==
  ASSUME IInv, ShownInv, Valid(disk), Reopen
  PROVE  ContractStep
<1>1. PICK v \in Findings(disk) :
        LET m == Recovery(v) IN
         \/ /\ Valid(m)
            /\ up' = TRUE /\ mem' = m /\ disk' = m
            /\ pc' = [i \in Instances |-> [o \in OpIds |->
                        IF ~(Resumes(m[i]) /\ o = m[i].nops) THEN "none"
                        ELSE IF m[i].ops[o].kind = "stop" THEN "wait" ELSE "observe"]]
         \/ /\ disk' \in {disk, m}
            /\ UNCHANGED <<up, mem, pc>>
  BY DEF Reopen
<1> DEFINE m == Recovery(v)
<1>2. /\ ~up /\ pruned' = pruned /\ live' = live
      /\ disk \in [Instances -> Instance] /\ DOMAIN disk = Instances
      /\ \A j \in Instances, q \in OpIds : pc[j][q] = "none"
  BY DEF Reopen, world, history, IInv, TypeOK, DownIsIdle
<1>3. ASSUME NEW j \in Instances PROVE SameRoom(disk[j], m[j])
  <2>1. m[j] = Recovered(disk[j], v[j]) /\ v[j] \in Searches
    BY DEF Recovery, Findings
  <2>2. disk[j] \in Instance /\ ValidRecord(disk[j])
    BY <1>2 DEF Valid, ValidRecord
  <2> HIDE DEF m
  <2>3. /\ Holds(disk[j]) <=> Holds(m[j])
        /\ m[j].gen = disk[j].gen /\ m[j].port = disk[j].port
    BY <2>1, <2>2, RecoveredLasts DEF Lasts
  <2>4. Exists(m[j]) <=> Exists(disk[j])
    BY <2>1, <2>2, RecoveredValid
  <2> QED
    BY <2>3, <2>4 DEF SameRoom
<1> HIDE DEF m
<1>4. disk' = disk \/ disk' = m
  BY <1>1 DEF m
<1>5. \A j \in Instances : SameRoom(disk[j], disk'[j])
  BY <1>3, <1>4, SameRoomSelf
<1>6. UNCHANGED Contract!rooms
  BY <1>2, <1>5, SavedStays, NothingShows
<1>7. Blank'
  BY <1>5 DEF ShownInv, Blank, SameRoom
<1>8. CASE /\ up' = TRUE /\ mem' = m /\ disk' = m
           /\ pc' = [i \in Instances |-> [o \in OpIds |->
                        IF ~(Resumes(m[i]) /\ o = m[i].nops) THEN "none"
                        ELSE IF m[i].ops[o].kind = "stop" THEN "wait" ELSE "observe"]]
  <2>1. \A j \in Instances, q \in OpIds :
           pc'[j][q] = "none" \/ (pc'[j][q] \in {"wait", "observe"} /\ Running(m[j], q))
    BY <1>8 DEF Resumes
  <2>2. \A j \in Instances : Unfinished(j)' /\ Writing(j)'
    BY <1>8, <2>1 DEF Unfinished, Writing, Busy, Writers
  <2>3. Matched'
    BY <1>8, SameRoomSelf DEF Matched
  <2> QED
    BY <1>6, <1>7, <2>2, <2>3 DEF ContractStep, ShownInv
<1>9. CASE UNCHANGED <<up, mem, pc>>
  <2>1. \A j \in Instances : Unfinished(j)' /\ Writing(j)'
    BY <1>2, <1>9 DEF Unfinished, Writing, Busy, Writers
  <2> QED
    BY <1>2, <1>6, <1>7, <1>9, <2>1 DEF ContractStep, ShownInv, Matched
<1> QED
  BY <1>1, <1>8, <1>9 DEF m

(* Every step.                                                             *)
LEMMA NextShown ==
  ASSUME IInv, IInv', Valid(disk), OwnedInv, ShownInv, [Next]_vars
  PROVE  ContractStep
<1>1. ASSUME NEW i \in Instances, NEW o \in OpIds, WorkerStep(i, o) PROVE ContractStep
  <2>1. up
    <3>1. ~up => pc[i][o] = "none"
      BY DEF IInv, DownIsIdle
    <3>2. pc[i][o] # "none"
      BY <1>1, WorkerAtWork
    <3> QED
      BY <3>1, <3>2
  <2> QED
    BY <1>1, <2>1, WorkerShown, WorkerContract DEF ContractStep
<1>2. ASSUME NEW i \in Instances, Request(i) PROVE ContractStep
  BY <1>2, CreateShown, ReplayShown, ChangeShown DEF Request, Stop, Restart
<1>3. ASSUME NEW i \in Instances, NEW v \in Verdicts, Watch(i, v) PROVE ContractStep
  BY <1>3, WatchShown
<1>4. ASSUME NEW i \in Instances, Prune(i) PROVE ContractStep
  BY <1>4, PruneShown
<1>5. ASSUME NEW i \in Instances, NEW g \in Gens, GameExits(i, g) PROVE ContractStep
  BY <1>5, ExitShown
<1>6. ASSUME Close \/ Exited \/ Crash PROVE ContractStep
  BY <1>6, CloseShown, DownShown DEF Exited, Crash
<1>7. ASSUME Reopen PROVE ContractStep
  BY <1>7, ReopenShown
<1>8. ASSUME UNCHANGED vars PROVE ContractStep
  <2>1. /\ mem' = mem /\ disk' = disk /\ pc' = pc /\ cancelled' = cancelled /\ up' = up
        /\ closed' = closed /\ wedged' = wedged /\ pruned' = pruned /\ live' = live
    BY <1>8 DEF vars, store, workers, world, life, history
  <2>2. ShownInv'
    BY <2>1 DEF ShownInv, Unfinished, Writing, Matched, Blank, Ahead, Busy, Quits
  <2> QED
    BY <2>1, <2>2, FileStays, NothingShows DEF ContractStep
<1> QED
  BY <1>1, <1>2, <1>3, <1>4, <1>5, <1>6, <1>7, <1>8 DEF Next

(* So memory and file always show the same rooms, until a write fails.     *)
LEMMA RoomsShown == Spec => []ShownInv
<1>1. ASSUME Init PROVE ShownInv
  <2>1. /\ mem = [i \in Instances |-> Absent] /\ disk = [i \in Instances |-> Absent]
        /\ pc = [i \in Instances |-> [o \in OpIds |-> "none"]]
        /\ ~Exists(Absent) /\ ~Holds(Absent) /\ Absent.gen = 0
    BY <1>1 DEF Init, Absent, Exists, Holds
  <2> QED
    BY <2>1, SameRoomSelf DEF ShownInv, Unfinished, Writing, Matched, Blank, Busy, Writers
<1>2. IInv /\ IInv' /\ Valid(disk) /\ OwnedInv /\ ShownInv /\ [Next]_vars => ShownInv'
  BY NextShown DEF ContractStep
<1> QED
  BY <1>1, <1>2, Invariance, FileValid, RoomsOwned, PTL DEF Spec

(* The manager implements the life of a room that RoomContract describes:  *)
(* whatever it saves, forgets, repeats or loses in a crash, the state file *)
(* and the processes show a room that is reserved with a port nobody else  *)
(* holds, plays one generation after the other, and is given up only when  *)
(* no process of it is left (Create, launch, stopOrRestart, recover).      *)
THEOREM ImplementsTheContract == Spec => ImplementsContract
<1>1. ASSUME Init PROVE Contract!Init
  <2>1. /\ disk = [i \in Instances |-> Absent] /\ pruned = {} /\ live = [i \in Instances |-> {}]
        /\ ~Exists(Absent) /\ ~Holds(Absent) /\ Absent.gen = 0
    BY <1>1 DEF Init, Absent, Exists, Holds
  <2> QED
    BY <2>1 DEF Contract!Init
<1>2. IInv /\ IInv' /\ Valid(disk) /\ OwnedInv /\ ShownInv /\ [Next]_vars
        => [Contract!Next]_(Contract!rooms)
  BY NextShown DEF ContractStep
<1> QED
  BY <1>1, <1>2, Invariance, FileValid, RoomsOwned, RoomsShown, PTL
     DEF Spec, ImplementsContract, Contract!Spec

----------------------------------------------------------------------------
(* The launch of a process. *)

(* The places of a worker between its decision to launch and the recorded  *)
(* process.                                                                *)
Launchers == {"prepare"} \cup LaunchPcs

(* A worker that launches or cleans up was not told to quit, and never     *)
(* launches for a stop; what a room was made for is a create.              *)
Asked(i) ==
    /\ \A o \in OpIds :
         /\ pc[i][o] \in Launchers \cup {"cleanup"} => ~Quits(i, o)
         /\ pc[i][o] \in Launchers \cup {"start"} => mem[i].ops[o].kind # "stop"
         /\ pc[i][o] = "exec" => ~wedged
    /\ Exists(mem[i]) => mem[i].ops[1].kind = "create"

AskedInv == \A i \in Instances : Asked(i)

(* Where a step takes a worker, as far as launch and cleanup are concerned.*)
WorkerPath(i, o) ==
    /\ pc'[i][o] \in LaunchPcs => pc[i][o] \in Launchers
    /\ pc'[i][o] \in {"prepare", "cleanup"} => pc[i][o] = "cleanup" \/ ~Quits(i, o)
    /\ pc'[i][o] = "prepare" => pc[i][o] = "start"
    /\ pc'[i][o] = "start" => mem[i].ops[o].kind # "stop"
    /\ pc'[i][o] = "exec" => ~wedged'

(* Every step of a worker is one of these moves.                           *)
LEMMA WorkerPaths ==
  ASSUME WorkersType, NEW i \in Instances, NEW o \in OpIds, WorkerStep(i, o)
  PROVE  WorkerPath(i, o)
<1> USE DEF LaunchPcs, Launchers, Goto, WorkersType, WorkerPath
<1>1. CASE Launch(i, o)
  BY <1>1 DEF Launch, Fails, SaveOrFail
<1>2. CASE PrepareRun(i, o) \/ PrepareFiles(i, o) \/ RunPrepared(i, o)
  BY <1>2 DEF PrepareRun, PrepareFiles, RunPrepared, Fails, StoreOrFail
<1>3. CASE IntendSpawn(i, o) \/ MakeInput(i, o)
  BY <1>3 DEF IntendSpawn, MakeInput, SaveOrFail
<1>4. CASE InputPrepared(i, o)
  BY <1>4 DEF InputPrepared, Saved, StoreSaved
<1>5. CASE Exec(i, o) \/ Spawned(i, o) \/ Rollback(i, o)
  BY <1>5 DEF Exec, Spawned, Rollback, SaveOrFail
<1>6. CASE BeginStop(i, o) \/ BeginCleanup(i, o)
  BY <1>6 DEF BeginStop, BeginCleanup, Fails, SaveOrFail
<1>7. ASSUME NEW c \in BOOLEAN, Stopped(i, o, c) \/ TimedOut(i, o, c) PROVE WorkerPath(i, o)
  BY <1>7 DEF Stopped, TimedOut, SaveOrFail
<1>8. CASE CleanInput(i, o) \/ CleanupRun(i, o)
  <2>1. pc[i][o] = "cleanup" /\ (pc' = pc \/ \E p \in {"abort", "cleanup", "exit"} : Goto(i, o, p))
    BY <1>8 DEF CleanInput, CleanupRun, CleanupFails, SaveOrFail
  <2> QED
    BY <2>1
<1>9. CASE FinishStop(i, o) \/ Relaunch(i, o)
  BY <1>9 DEF FinishStop, Relaunch
<1>10. ASSUME NEW v \in Verdicts, NEW late \in BOOLEAN, Tick(i, o, v, late)
       PROVE  WorkerPath(i, o)
  <2>1. pc[i][o] = "observe" /\ (pc' = pc \/ \E p \in {"abort", "killing", "exit"} : Goto(i, o, p))
    BY <1>10 DEF Tick
  <2> QED
    BY <2>1
<1>11. CASE Leave(i, o) \/ Abort(i, o) \/ FinishWorker(i, o)
  BY <1>11 DEF Leave, Abort, FinishWorker
<1> QED
  BY <1>1, <1>2, <1>3, <1>4, <1>5, <1>6, <1>7, <1>8, <1>9, <1>10, <1>11
     DEF WorkerStep, LaunchStep, StopStep

(* The step of a worker leaves the kinds of the operations, and makes no   *)
(* room.                                                                   *)
LEMMA WorkerKinds ==
  ASSUME TypeOK, OwnedInv, NEW i \in Instances, NEW o \in OpIds, WorkerStep(i, o)
  PROVE  /\ \A q \in OpIds : mem'[i].ops[q].kind = mem[i].ops[q].kind
         /\ Exists(mem'[i]) => Exists(mem[i])
<1>1. CASE FinishWorker(i, o)
  BY <1>1 DEF FinishWorker
<1>2. CASE ~FinishWorker(i, o)
  <2>1. StoreType /\ WorkersType
    BY TypeParts
  <2>2. PICK z, x : RecordStep(i, z, x) /\ Lasts(mem[i], z)
    BY <2>1, WorkerEffects DEF WorkerEffect, Result
  <2>3. mem'[i] = z
    BY <2>1, <2>2 DEF RecordStep, StoreType
  <2>4. Holds(mem[i])
    <3>1. WorkerMove(i, o)
      BY <1>2, WorkerMoves
    <3> QED
      BY <3>1 DEF WorkerMove, OwnedInv, Owned, Manned, Busy
  <2> QED
    BY <2>2, <2>3, <2>4 DEF Lasts, Holds, Exists
<1> QED
  BY <1>1, <1>2

(* No step of a worker launches what was not asked for.                    *)
LEMMA WorkerAsked ==
  ASSUME IInv, OwnedInv, AskedInv, NEW i \in Instances, NEW o \in OpIds, WorkerStep(i, o)
  PROVE  AskedInv'
<1>1. TypeOK /\ StoreType /\ WorkersType
  BY TypeParts DEF IInv
<1>2. WorkerLeaves(i, o) /\ WorkerKeeps(i, o) /\ WorkerPath(i, o)
  BY <1>1, WorkerLeavesOthers, WorkerKeepsAll, WorkerPaths
<1>3. /\ \A q \in OpIds : mem'[i].ops[q].kind = mem[i].ops[q].kind
      /\ Exists(mem'[i]) => Exists(mem[i])
  BY <1>1, WorkerKinds
<1>4. ASSUME NEW j \in Instances
      PROVE  /\ \A q \in OpIds : mem'[j].ops[q].kind = mem[j].ops[q].kind
             /\ Exists(mem'[j]) => Exists(mem[j])
             /\ cancelled' = cancelled /\ closed' = closed
  BY <1>2, <1>3 DEF WorkerLeaves
<1>5. ASSUME NEW j \in Instances, NEW q \in OpIds, j # i \/ q # o
      PROVE  /\ pc'[j][q] \notin Launchers \cup {"cleanup"} /\ pc'[j][q] = pc[j][q]
  <2>1. pc[j][q] \notin LockedPcs
    BY <1>2, <1>5, AloneLocked DEF WorkerKeeps
  <2>2. pc'[j][q] = pc[j][q]
    BY <1>2, <1>5 DEF WorkerLeaves
  <2> QED
    BY <2>1, <2>2 DEF Launchers, LaunchPcs, LockedPcs
<1>6. /\ pc'[i][o] \in Launchers \cup {"cleanup"} => ~Quits(i, o)
      /\ pc'[i][o] \in Launchers \cup {"start"} => mem[i].ops[o].kind # "stop"
      /\ pc'[i][o] = "exec" => ~wedged'
  BY <1>2 DEF AskedInv, Asked, WorkerPath, Launchers
<1>7. ASSUME NEW j \in Instances PROVE Asked(j)'
  <2>1. Exists(mem'[j]) => mem'[j].ops[1].kind = "create"
    BY <1>4, BoundsAssumption DEF AskedInv, Asked, OpIds
  <2>2. ASSUME NEW q \in OpIds
        PROVE  /\ pc'[j][q] \in Launchers \cup {"cleanup"} => ~Quits(j, q)
               /\ pc'[j][q] \in Launchers \cup {"start"} => mem'[j].ops[q].kind # "stop"
               /\ pc'[j][q] = "exec" => ~wedged'
    <3>1. CASE j = i /\ q = o
      BY <1>4, <1>6, <3>1
    <3>2. CASE j # i \/ q # o
      BY <1>4, <1>5, <3>2 DEF AskedInv, Asked, Launchers, LaunchPcs
    <3> QED
      BY <3>1, <3>2
  <2> QED
    BY <1>4, <2>1, <2>2 DEF Asked, Quits
<1> QED
  BY <1>7 DEF AskedInv

(* Of a step that finds the mutex free only the kinds matter.              *)
LEMMA FreeAsked ==
  ASSUME AskedInv, Free, NEW i \in Instances,
         \A j \in Instances : j # i => mem'[j] = mem[j] /\ pc'[j] = pc[j],
         \A q \in OpIds : pc'[i][q] = pc[i][q] \/ pc'[i][q] \in {"start", "wait", "none"},
         \A q \in OpIds : pc'[i][q] = "start" => mem'[i].ops[q].kind # "stop",
         Exists(mem'[i]) => mem'[i].ops[1].kind = "create"
  PROVE  AskedInv'
<1>1. \A j \in Instances, q \in OpIds : pc'[j][q] \notin Launchers \cup {"cleanup"}
  BY DEF Free, Launchers, LaunchPcs, LockedPcs
<1>2. "exec" \in Launchers
  BY DEF Launchers, LaunchPcs
<1> QED
  BY <1>1, <1>2 DEF AskedInv, Asked
----------------------------------------------------------------------------
(* What stays of a record when only its operation o, its outcome and its   *)
(* lifecycle change.                                                       *)
OnlyOp(x, y, o) ==
    /\ y \in Instance /\ SameProcess(x, y)
    /\ y.cleanup = x.cleanup /\ y.nops = x.nops /\ y.port = x.port
    /\ y.ops[o].kind = x.ops[o].kind /\ y.ops[o].gen = x.ops[o].gen
    /\ \A q \in OpIds : q # o => y.ops[q] = x.ops[q]

(* Two changes of one operation are a change of that operation.            *)
LEMMA OnlyOpTransitive ==
  ASSUME NEW x, NEW y, NEW z, NEW o, OnlyOp(x, y, o), OnlyOp(y, z, o)
  PROVE  OnlyOp(x, z, o)
  BY DEF OnlyOp, SameProcess

(* The end of an operation, a failed save and a change of phase change that*)
(* operation only.                                                         *)
LEMMA EndingsOnlyOp ==
  ASSUME NEW x \in Instance, NEW o \in OpIds
  PROVE  /\ \A st \in {"succeeded", "failed", "cancelled"} :
              /\ OnlyOp(x, EndOp(x, o, st), o) /\ EndOp(x, o, st).lifecycle = x.lifecycle
              /\ EndOp(x, o, st).ops[o].status = st /\ EndOp(x, o, st).ops[o].phase = "done"
         /\ \A y \in {FinishFailed(x, o), FailedSave(x, o)} :
              /\ OnlyOp(x, y, o) /\ y.lifecycle = "failed"
              /\ y.ops[o].status = "failed" /\ y.ops[o].phase = "done"
         /\ \A p \in {"preparing", "spawning", "observing", "stopping", "cleanup"} :
              /\ OnlyOp(x, AtPhase(x, o, p), o) /\ AtPhase(x, o, p).lifecycle = x.lifecycle
              /\ AtPhase(x, o, p).ops[o].status = x.ops[o].status
              /\ AtPhase(x, o, p).ops[o].phase = p
<1>1. /\ x.ops \in [OpIds -> Operation]
      /\ DOMAIN x = {"lifecycle", "process", "room", "cleanup", "err", "key", "port", "gen",
                     "runs", "nops", "ops"}
  BY DEF Instance
<1>2. \A q \in OpIds : DOMAIN x.ops[q] = {"kind", "status", "phase", "gen"}
  BY <1>1 DEF Operation
<1>3. ASSUME NEW st \in {"succeeded", "failed", "cancelled"}
      PROVE  /\ OnlyOp(x, EndOp(x, o, st), o) /\ EndOp(x, o, st).lifecycle = x.lifecycle
             /\ EndOp(x, o, st).ops[o].status = st /\ EndOp(x, o, st).ops[o].phase = "done"
  <2> DEFINE y == EndOp(x, o, st)
  <2>1. y \in Instance /\ SameProcess(x, y) /\ y.lifecycle = x.lifecycle
    BY EndOpType
  <2>2. /\ y.ops = [x.ops EXCEPT ![o] = [x.ops[o] EXCEPT !.status = st, !.phase = "done"]]
        /\ y.cleanup = x.cleanup /\ y.nops = x.nops /\ y.port = x.port
    BY <1>1 DEF EndOp
  <2> HIDE DEF y
  <2>3. /\ y.ops[o] = [x.ops[o] EXCEPT !.status = st, !.phase = "done"]
        /\ \A q \in OpIds : q # o => y.ops[q] = x.ops[q]
    BY <1>1, <2>2
  <2>4. y.ops[o].kind = x.ops[o].kind /\ y.ops[o].gen = x.ops[o].gen
        /\ y.ops[o].status = st /\ y.ops[o].phase = "done"
    BY <1>2, <2>3
  <2> QED
    BY <2>1, <2>2, <2>3, <2>4 DEF OnlyOp, y
<1>4. ASSUME NEW y \in {FinishFailed(x, o), FailedSave(x, o)}
      PROVE  /\ OnlyOp(x, y, o) /\ y.lifecycle = "failed"
             /\ y.ops[o].status = "failed" /\ y.ops[o].phase = "done"
  <2> DEFINE e == EndOp(x, o, "failed")
  <2>1. OnlyOp(x, e, o) /\ e.ops[o].status = "failed" /\ e.ops[o].phase = "done"
    BY <1>3
  <2>2. y \in Instance /\ SameProcess(x, y) /\ y.lifecycle = "failed"
    BY FinishFailedType, FailedSaveType
  <2>3. e \in Instance
    BY <2>1 DEF OnlyOp
  <2>4. y.ops = e.ops /\ y.cleanup = e.cleanup /\ y.nops = e.nops /\ y.port = e.port
    <3>1. y = [e EXCEPT !.err = TRUE, !.lifecycle = "failed"] \/
          y = [e EXCEPT !.err = TRUE, !.lifecycle = "failed",
                        !.room = IF x.process = "unknown" THEN "unknown" ELSE "failed"]
      BY DEF FinishFailed, FailedSave
    <3> HIDE DEF e
    <3> QED
      BY <2>3, <3>1 DEF Instance
  <2> HIDE DEF e
  <2> QED
    BY <2>1, <2>2, <2>4 DEF OnlyOp
<1>5. ASSUME NEW p \in {"preparing", "spawning", "observing", "stopping", "cleanup"}
      PROVE  /\ OnlyOp(x, AtPhase(x, o, p), o) /\ AtPhase(x, o, p).lifecycle = x.lifecycle
             /\ AtPhase(x, o, p).ops[o].status = x.ops[o].status
             /\ AtPhase(x, o, p).ops[o].phase = p
  <2> DEFINE y == AtPhase(x, o, p)
  <2>1. y \in Instance /\ SameProcess(x, y) /\ y.lifecycle = x.lifecycle
    BY AtPhaseType
  <2>2. /\ y.ops = [x.ops EXCEPT ![o].phase = p]
        /\ y.cleanup = x.cleanup /\ y.nops = x.nops /\ y.port = x.port
    BY <1>1 DEF AtPhase
  <2> HIDE DEF y
  <2>3. /\ y.ops[o] = [x.ops[o] EXCEPT !.phase = p]
        /\ \A q \in OpIds : q # o => y.ops[q] = x.ops[q]
    BY <1>1, <2>2
  <2>4. y.ops[o].kind = x.ops[o].kind /\ y.ops[o].gen = x.ops[o].gen
        /\ y.ops[o].status = x.ops[o].status /\ y.ops[o].phase = p
    BY <1>2, <2>3
  <2> QED
    BY <2>1, <2>2, <2>3, <2>4 DEF OnlyOp, y
<1> QED
  BY <1>3, <1>4, <1>5

(* A record of instance i with one operation more, in which at most        *)
(* running operations have ended.                                          *)
Changed(i, kind, y) ==
    /\ y \in Instance /\ SameProcess(mem[i], y)
    /\ y.cleanup = mem[i].cleanup /\ y.port = mem[i].port
    /\ y.nops = mem[i].nops + 1 /\ y.ops[mem[i].nops + 1].kind = kind
    /\ y.ops[mem[i].nops + 1].gen = mem[i].gen
    /\ Running(y, mem[i].nops + 1) <=> y.ops[mem[i].nops + 1].phase # "done"
    /\ \A q \in 1..mem[i].nops :
         /\ y.ops[q].kind = mem[i].ops[q].kind /\ y.ops[q].gen = mem[i].ops[q].gen
         /\ y.ops[q] = mem[i].ops[q]
              \/ (Running(mem[i], q) /\ ~Running(y, q) /\ y.ops[q].phase = "done")

(* The end of the new operation, or of one that ran, is such a change too. *)
LEMMA ChangedAgain ==
  ASSUME NEW i \in Instances, mem[i].nops \in Nat, mem[i].nops < MaxOps,
         NEW kind, NEW y, NEW z, NEW q, Changed(i, kind, y), OnlyOp(y, z, q),
         z.ops[q].status # "running", z.ops[q].phase = "done",
         q = mem[i].nops + 1 \/ (q \in 1..mem[i].nops /\ Running(mem[i], q))
  PROVE  Changed(i, kind, z)
<1>1. 1..mem[i].nops \subseteq OpIds /\ mem[i].nops + 1 \in OpIds
      /\ mem[i].nops + 1 \notin 1..mem[i].nops
  BY BoundsAssumption DEF OpIds
<1>2. /\ z \in Instance /\ SameProcess(mem[i], z)
      /\ z.cleanup = mem[i].cleanup /\ z.port = mem[i].port /\ z.nops = mem[i].nops + 1
  BY DEF Changed, OnlyOp, SameProcess
<1>3. /\ z.ops[mem[i].nops + 1].kind = kind /\ z.ops[mem[i].nops + 1].gen = mem[i].gen
      /\ Running(z, mem[i].nops + 1) <=> z.ops[mem[i].nops + 1].phase # "done"
  BY <1>1 DEF Changed, OnlyOp, Running
<1>4. ASSUME NEW p \in 1..mem[i].nops
      PROVE  /\ z.ops[p].kind = mem[i].ops[p].kind /\ z.ops[p].gen = mem[i].ops[p].gen
             /\ z.ops[p] = mem[i].ops[p]
                  \/ (Running(mem[i], p) /\ ~Running(z, p) /\ z.ops[p].phase = "done")
  BY <1>1, <1>4 DEF Changed, OnlyOp, Running
<1> QED
  BY <1>2, <1>3, <1>4 DEF Changed

(* A stop or restart adds its operation and ends the one before it.        *)
LEMMA ChangeOps ==
  ASSUME TypeOK, OwnedInv, NEW i \in Instances, NEW kind \in {"stop", "restart"},
         Change(i, kind)
  PROVE  \E y, w :
           /\ Changed(i, kind, y) /\ Changed(i, kind, w) /\ y.lifecycle = mem[i].lifecycle
           /\ mem' = [mem EXCEPT ![i] = w]
           /\ disk' = disk \/ disk' = [mem EXCEPT ![i] = y]
           /\ \/ w = y /\ Goto(i, mem[i].nops + 1, "wait")
              \/ wedged' /\ pc' = pc /\ w.lifecycle = "failed"
<1> DEFINE old  == reg[i]
           o    == mem[i].nops + 1
           x    == AddOp(mem[i], kind)
           ends == old # 0 /\ old \notin cancelled[i] /\ Running(x, old)
           y    == IF ends THEN EndOp(x, old, "cancelled") ELSE x
           z    == IF ends THEN FailedSave(y, old) ELSE y
           S(u, f) == FailedSave(u, f)
<1>1. o \in OpIds /\ (ends => old \in OpIds)
  <2>1. mem[i] \in Instance /\ mem[i].nops < MaxOps /\ reg[i] \in 0..MaxOps
    BY DEF Change, TypeOK
  <2> QED
    BY <2>1, BoundsAssumption DEF Instance, OpIds

<1>2. /\ mem[i] \in Instance /\ mem[i].nops \in Nat /\ mem[i].nops < MaxOps
      /\ ~wedged
  <2>1. mem[i] \in Instance /\ mem[i].nops < MaxOps /\ ~wedged
    BY DEF TypeOK, Change
  <2> QED
    BY <2>1, BoundsAssumption DEF Instance
<1>3. Changed(i, kind, x) /\ x.lifecycle = mem[i].lifecycle
  <2>1. x \in Instance /\ SameProcess(mem[i], x) /\ x.lifecycle = mem[i].lifecycle
    BY <1>2, <1>1, AddOpType
  <2>2. /\ x.cleanup = mem[i].cleanup /\ x.port = mem[i].port /\ x.nops = o
        /\ x.ops = [mem[i].ops EXCEPT ![o] = NewOp(kind, mem[i].gen)]
    BY <1>2 DEF AddOp, Instance
  <2>3. mem[i].ops \in [OpIds -> Operation]
    BY <1>2 DEF Instance
  <2> HIDE DEF x
  <2>4. x.ops[o] = NewOp(kind, mem[i].gen) /\ \A q \in OpIds : q # o => x.ops[q] = mem[i].ops[q]
    BY <1>1, <2>2, <2>3
  <2>5. \A q \in 1..mem[i].nops : q \in OpIds /\ q # o
    BY <1>2, BoundsAssumption DEF OpIds
  <2> QED
    BY <2>1, <2>2, <2>4, <2>5 DEF Changed, NewOp, Running
<1>4. \/ Saved(i, y) /\ Goto(i, o, "wait")
      \/ /\ NotSaved(i, y, S(z, o)) \/ (Faulted(i, y, S(y, o)) /\ wedged' = TRUE)
         /\ pc' = pc
  BY DEF Change
<1>5. ends => old \in 1..mem[i].nops /\ Running(mem[i], old)
  <2>1. Holds(mem[i]) /\ reg[i] <= mem[i].nops /\ reg[i] \in Nat
    BY BoundsAssumption DEF Change, MayStop, MayRestart, Holds, Exists, OwnedInv, Owned, Manned,
       TypeOK
  <2>2. old # 0 => old \in 1..mem[i].nops
    BY <2>1, <1>2
  <2>3. old \in 1..mem[i].nops =>
          x.ops[old] = mem[i].ops[old] \/ (Running(mem[i], old) /\ ~Running(x, old))
    BY <1>3 DEF Changed
  <2> QED
    BY <2>2, <2>3 DEF Running
<1> HIDE DEF x, o
<1>6. Changed(i, kind, y) /\ y.lifecycle = mem[i].lifecycle
  <2>1. x \in Instance
    BY <1>3 DEF Changed
  <2>2. CASE ends
    BY <1>1, <1>2, <1>3, <1>5, <2>1, <2>2, EndingsOnlyOp, ChangedAgain
  <2> QED
    BY <1>3, <2>2
<1>7. y \in Instance
  BY <1>6 DEF Changed
<1> HIDE DEF y
<1>8. Changed(i, kind, z) /\ z \in Instance
  <2>1. CASE ends
    <3> DEFINE f == FailedSave(y, old)
    <3>1. z = f
      BY <2>1
    <3>2. OnlyOp(y, f, old) /\ f.ops[old].status = "failed" /\ f.ops[old].phase = "done"
      BY <1>1, <1>7, <2>1, EndingsOnlyOp
    <3> HIDE DEF f
    <3>3. Changed(i, kind, f)
      BY <1>2, <1>5, <1>6, <2>1, <3>2, ChangedAgain
    <3> QED
      BY <3>1, <3>3 DEF Changed
  <2> QED
    BY <1>6, <2>1 DEF Changed
<1> HIDE DEF z, ends, old
<1>9. ASSUME NEW u \in {y, z}
      PROVE  Changed(i, kind, S(u, o)) /\ S(u, o).lifecycle = "failed"
  <2>1. u \in Instance /\ Changed(i, kind, u)
    BY <1>6, <1>7, <1>8
  <2> QED
    BY <1>1, <1>2, <2>1, EndingsOnlyOp, ChangedAgain DEF o
<1> HIDE DEF S
<1>10. CASE Saved(i, y) /\ Goto(i, o, "wait")
  <2>1. mem' = [mem EXCEPT ![i] = y] /\ disk' = mem'
    BY <1>10 DEF Saved, StoreSaved, Published
  <2> QED
    BY <1>6, <1>10, <2>1 DEF o
<1>11. CASE /\ NotSaved(i, y, S(z, o)) \/ (Faulted(i, y, S(y, o)) /\ wedged' = TRUE)
            /\ pc' = pc
  <2>1. PICK w \in {S(z, o), S(y, o)} :
           /\ mem' = [mem EXCEPT ![i] = w]
           /\ disk' = disk \/ disk' = [mem EXCEPT ![i] = y]
           /\ wedged' = TRUE
    <3>1. CASE NotSaved(i, y, S(z, o))
      BY <1>2, <3>1 DEF NotSaved, Rejected, Faulted
    <3>2. CASE Faulted(i, y, S(y, o)) /\ wedged' = TRUE
      BY <3>2 DEF Faulted
    <3> QED
      BY <1>11, <3>1, <3>2
  <2> QED
    BY <1>6, <1>9, <1>11, <2>1
<1> QED
  BY <1>4, <1>10, <1>11

(* The requests: a new worker starts for a create, or waits.               *)
LEMMA RequestAsked ==
  ASSUME IInv, OwnedInv, AskedInv, NEW i \in Instances, Request(i)
  PROVE  AskedInv'
<1>1. TypeOK /\ StoreType /\ WorkersType /\ 1 \in OpIds
  BY TypeParts, BoundsAssumption DEF IInv, OpIds
<1>2. ASSUME NEW k \in Keys, NEW p \in Ports, Create(i, k, p) PROVE AskedInv'
  <2> DEFINE x == NewInstance(k, p)
  <2>1. x \in Instance /\ x.ops[1].kind = "create"
    BY <1>1, NewInstanceType DEF NewInstance, Absent, NewOp, NoOp
  <2> HIDE DEF x
  <2>2. Free /\ ~Exists(mem[i])
    BY <1>2 DEF Create, Fresh
  <2>3. mem' = [mem EXCEPT ![i] = x] \/ (mem' = [mem EXCEPT ![i] = mem[i]] /\ pc' = pc)
    BY <1>2 DEF Create, StoreSaved, Published, Rejected, Faulted, x
  <2>4. pc' = pc \/ Goto(i, 1, "start")
    BY <1>2 DEF Create
  <2>5. \A q \in OpIds : pc[i][q] # "start"
    BY <2>2 DEF OwnedInv, Owned, Manned, Busy, Holds, Exists
  <2>6. \A j \in Instances : j # i => mem'[j] = mem[j] /\ pc'[j] = pc[j]
    BY <1>1, <2>3, <2>4 DEF StoreType, WorkersType, Goto
  <2>7. \A q \in OpIds : pc'[i][q] = pc[i][q] \/ (pc'[i][q] = "start" /\ q = 1 /\ mem'[i] = x)
    BY <1>1, <2>3, <2>4 DEF StoreType, WorkersType, Goto
  <2>8. Exists(mem'[i]) => mem'[i] = x
    BY <1>1, <2>2, <2>3 DEF StoreType
  <2> QED
    BY <2>1, <2>2, <2>5, <2>6, <2>7, <2>8, FreeAsked
<1>3. CASE Replay(i)
  <2>1. Free /\ Exists(mem[i]) /\ mem' = mem /\ (pc' = pc \/ Goto(i, 1, "start"))
    BY <1>3 DEF Replay
  <2>2. \A j \in Instances : j # i => mem'[j] = mem[j] /\ pc'[j] = pc[j]
    BY <1>1, <2>1 DEF WorkersType, Goto
  <2>3. \A q \in OpIds : pc'[i][q] = pc[i][q] \/ (pc'[i][q] = "start" /\ q = 1)
    BY <1>1, <2>1 DEF WorkersType, Goto
  <2>4. /\ \A q \in OpIds : pc[i][q] = "start" => mem[i].ops[q].kind # "stop"
        /\ mem[i].ops[1].kind = "create"
    BY <2>1 DEF AskedInv, Asked, Launchers
  <2> QED
    BY <2>1, <2>2, <2>3, <2>4, FreeAsked
<1>4. ASSUME NEW kind \in {"stop", "restart"}, Change(i, kind) PROVE AskedInv'
  <2>1. PICK y, w : /\ Changed(i, kind, w) /\ mem' = [mem EXCEPT ![i] = w]
                    /\ Goto(i, mem[i].nops + 1, "wait") \/ pc' = pc
    BY <1>1, <1>4, ChangeOps
  <2>2. Free /\ ~closed /\ Exists(mem[i])
    BY <1>4 DEF Change, MayStop, MayRestart, Holds, Exists
  <2>3. mem'[i] = w /\ \A j \in Instances : j # i => mem'[j] = mem[j] /\ pc'[j] = pc[j]
    BY <1>1, <2>1 DEF StoreType, WorkersType, Goto
  <2>4. \A q \in OpIds : pc'[i][q] = pc[i][q] \/ pc'[i][q] = "wait"
    BY <1>1, <2>1 DEF WorkersType, Goto
  <2>5. mem[i].nops \in Nat /\ mem[i].nops > 0 /\ reg[i] <= mem[i].nops /\ reg[i] \in Nat
    BY <1>1, <2>2, BoundsAssumption DEF OwnedInv, Owned, Manned, TypeOK, Instance
  <2>6. ASSUME NEW q \in OpIds, pc'[i][q] = "start" PROVE w.ops[q].kind # "stop"
    <3>1. pc[i][q] = "start"
      BY <2>4, <2>6
    <3>2. q <= reg[i]
      BY <2>2, <3>1 DEF OwnedInv, Owned, Queued
    <3>3. q \in 1..mem[i].nops
      BY <2>5, <3>2 DEF OpIds
    <3>4. w.ops[q].kind = mem[i].ops[q].kind
      BY <2>1, <3>3 DEF Changed
    <3> QED
      BY <3>1, <3>4 DEF AskedInv, Asked, Launchers
  <2>7. w.ops[1].kind = "create"
    <3>1. 1 \in 1..mem[i].nops
      BY <2>5
    <3> QED
      BY <2>1, <2>2, <3>1 DEF Changed, AskedInv, Asked
  <2> QED
    BY <2>2, <2>3, <2>4, <2>6, <2>7, FreeAsked
<1> QED
  BY <1>2, <1>3, <1>4 DEF Request, Stop, Restart

(* The steps of the watch goroutine start nothing.                         *)
LEMMA WatchAsked ==
  ASSUME IInv, OwnedInv, AskedInv, NEW i \in Instances,
         Prune(i) \/ \E v \in Verdicts : Watch(i, v)
  PROVE  AskedInv'
<1>1. TypeOK /\ StoreType /\ WorkersType /\ 1 \in OpIds
  BY TypeParts, BoundsAssumption DEF IInv, OpIds
<1>2. ASSUME NEW v \in Verdicts, Watch(i, v) PROVE AskedInv'
  <2>1. PICK z, x : RecordStep(i, z, x) /\ Alike(mem[i], z)
    BY <1>1, <1>2, WatchEffect
  <2>2. Free /\ Exists(mem[i]) /\ pc' = pc
    BY <1>2 DEF Watch, workers, Holds, Exists
  <2>3. mem'[i] = z /\ \A j \in Instances : j # i => mem'[j] = mem[j] /\ pc'[j] = pc[j]
    BY <1>1, <2>1, <2>2 DEF RecordStep, StoreType
  <2>4. \A q \in OpIds : mem'[i].ops[q].kind = mem[i].ops[q].kind
    BY <2>1, <2>3 DEF Alike, Lasts
  <2>5. /\ \A q \in OpIds : pc[i][q] = "start" => mem[i].ops[q].kind # "stop"
        /\ mem[i].ops[1].kind = "create"
    BY <2>2 DEF AskedInv, Asked, Launchers
  <2> QED
    BY <1>1, <2>2, <2>3, <2>4, <2>5, FreeAsked
<1>3. CASE Prune(i)
  <2>1. Free /\ pc' = pc /\ ~Holds(mem[i])
    BY <1>3 DEF Prune, workers, Holds
  <2>2. mem'[i] \in {Absent, mem[i]} /\ \A j \in Instances : j # i => mem'[j] = mem[j]
    BY <1>1, <1>3 DEF Prune, StoreSaved, Published, Rejected, Faulted, StoreType
  <2>3. \A q \in OpIds : pc[i][q] # "start"
    BY <2>1 DEF OwnedInv, Owned, Manned, Busy
  <2>4. Exists(mem'[i]) => mem'[i].ops[1].kind = "create"
    BY <2>2 DEF Exists, Absent, AskedInv, Asked
  <2> QED
    BY <2>1, <2>2, <2>3, <2>4, FreeAsked
<1> QED
  BY <1>2, <1>3

(* A manager that is started, ended or closed launches nothing by itself.  *)
LEMMA LifeAsked ==
  ASSUME IInv, Valid(disk), AskedInv, Close \/ Exited \/ Crash \/ Reopen
  PROVE  AskedInv'
<1>1. CASE Close
  BY <1>1 DEF Close, workers, store, Free, AskedInv, Asked, Launchers, LaunchPcs, LockedPcs
<1>2. CASE Exited \/ Crash
  BY <1>2 DEF Exited, Crash, Down, AskedInv, Asked, Launchers, LaunchPcs, Exists, Absent
<1>3. CASE Reopen
  <2>1. UNCHANGED <<wedged, cancelled, closed>>
    BY <1>3 DEF Reopen
  <2>2. CASE UNCHANGED <<mem, pc>>
    BY <2>1, <2>2 DEF AskedInv, Asked, Quits
  <2>3. CASE ~UNCHANGED <<mem, pc>>
    <3>1. /\ Valid(mem') /\ \A i \in Instances, o \in OpIds : pc'[i][o] \in {"none", "wait", "observe"}
      BY <1>3, <2>3 DEF Reopen
    <3>2. DOMAIN mem' = Instances
      BY <1>3, <2>3 DEF Reopen, Recovery
    <3>3. ASSUME NEW i \in Instances, Exists(mem'[i]) PROVE mem'[i].ops[1].kind = "create"
      <4>1. ValidInstance(mem'[i])
        BY <3>1, <3>2, <3>3 DEF Valid
      <4>2. mem'[i].nops \in Nat
        <5>1. TypeOK'
          BY <1>3, ReopenType DEF IInv
        <5> QED
          BY <5>1, BoundsAssumption DEF TypeOK, Instance
      <4>3. 1 \in 1..mem'[i].nops
        BY <4>1, <4>2 DEF ValidInstance
      <4> QED
        BY <4>1, <4>3 DEF ValidInstance, ValidOp
    <3> QED
      BY <3>1, <3>3 DEF AskedInv, Asked, Launchers, LaunchPcs
  <2> QED
    BY <2>2, <2>3
<1> QED
  BY <1>1, <1>2, <1>3

(* No step makes a launch that nobody asked for.                           *)
LEMMA NextAsked ==
  ASSUME IInv, Valid(disk), OwnedInv, AskedInv, [Next]_vars
  PROVE  AskedInv'
<1>1. CASE UNCHANGED <<mem, pc, cancelled, closed, wedged>>
  BY <1>1 DEF AskedInv, Asked, Quits
<1>2. ASSUME NEW i \in Instances, NEW g \in Gens, GameExits(i, g)
      PROVE  UNCHANGED <<mem, pc, cancelled, closed, wedged>>
  BY <1>2 DEF GameExits, store, workers, life
<1> QED
  BY <1>1, <1>2, RequestAsked, WorkerAsked, WatchAsked, LifeAsked
     DEF Next, vars, store, workers, life

(* Launches are always asked for.                                          *)
LEMMA AlwaysAsked == Spec => []AskedInv
<1>1. ASSUME Init PROVE AskedInv
  BY <1>1 DEF Init, AskedInv, Asked, Launchers, LaunchPcs, Exists, Absent
<1>2. IInv /\ Valid(disk) /\ OwnedInv /\ AskedInv /\ [Next]_vars => AskedInv'
  BY NextAsked
<1> QED
  BY <1>1, <1>2, Invariance, FileValid, RoomsOwned, PTL DEF Spec

(* A game process is only ever spawned for the current operation of its    *)
(* room, a create or a restart that runs: a worker that reaches cmd.Start  *)
(* was not told to quit when it took the mutex, and nobody can tell it     *)
(* before it gives the mutex up (launch, change, recover).                 *)
THEOREM SpawnsWhenAsked == Spec => SpawnOnlyWhenAsked
<1>1. ASSUME IInv, OwnedInv, ShownInv, AskedInv, Next, NEW i \in Instances,
             live'[i] \ live[i] # {}
      PROVE  /\ up /\ ~closed /\ Running(mem[i], mem[i].nops)
             /\ mem[i].ops[mem[i].nops].kind # "stop"
  <2>1. TypeOK /\ StoreType /\ WorkersType
    BY <1>1, TypeParts DEF IInv
  <2>2. PICK j \in Instances, o \in OpIds : WorkerStep(j, o)
    <3>1. \A j \in Instances, g \in Gens : GameExits(j, g) => live'[i] \subseteq live[i]
      BY <2>1 DEF GameExits, TypeOK
    <3>2. \A j \in Instances : Request(j) \/ Prune(j) \/ (\E v \in Verdicts : Watch(j, v))
            => live' = live
      <4>1. \A j \in Instances, k \in Keys, p \in Ports : Create(j, k, p) => live' = live
        BY DEF Create, world
      <4>2. \A j \in Instances : Replay(j) \/ Stop(j) \/ Restart(j) \/ Prune(j) => live' = live
        BY DEF Replay, Stop, Restart, Change, Prune, world
      <4>3. \A j \in Instances, v \in Verdicts : Watch(j, v) => live' = live
        BY DEF Watch, world
      <4> QED
        BY <4>1, <4>2, <4>3 DEF Request
    <3>3. Close \/ Exited \/ Crash \/ Reopen => live' = live
      BY DEF Close, Exited, Crash, Down, Reopen, world
    <3> QED
      BY <1>1, <3>1, <3>2, <3>3 DEF Next
  <2>3. pc[j][o] = "exec" /\ live' = [live EXCEPT ![j] = @ \cup {mem[j].gen}] /\ i = j
    <3>1. WorkerKeeps(j, o)
      BY <2>1, <2>2, WorkerKeepsAll
    <3> QED
      BY <1>1, <2>1, <3>1 DEF WorkerKeeps, TypeOK
  <2>4. up
    BY <1>1, <2>3 DEF IInv, DownIsIdle
  <2>5. ~closed /\ o \notin cancelled[i] /\ ~wedged /\ mem[i].ops[o].kind # "stop" /\ Busy(i, o)
    BY <1>1, <2>3 DEF AskedInv, Asked, Quits, Launchers, LaunchPcs, Busy
  <2>6. Running(mem[i], o)
    BY <1>1, <2>5 DEF ShownInv, Unfinished
  <2>7. o \in 1..mem[i].nops
    <3>1. Holds(mem[i]) /\ o <= reg[i] /\ reg[i] <= mem[i].nops
      BY <1>1, <2>5 DEF OwnedInv, Owned, Manned, Queued, Busy, Holds, Exists
    <3>2. o \in Nat /\ o >= 1 /\ reg[i] \in Nat /\ mem[i].nops \in Nat
      BY <2>1, BoundsAssumption DEF TypeOK, Instance, OpIds
    <3> QED
      BY <3>1, <3>2
  <2>8. o = mem[i].nops
    BY <1>1, <2>6, <2>7 DEF OwnedInv, Owned, CurrentRuns
  <2> QED
    BY <2>4, <2>5, <2>6, <2>8
<1>2. ASSUME UNCHANGED vars, NEW i \in Instances PROVE live'[i] \ live[i] = {}
  BY <1>2 DEF vars, world
<1>3. IInv /\ OwnedInv /\ ShownInv /\ AskedInv /\ [Next]_vars =>
        [\A i \in Instances : live'[i] \ live[i] # {} =>
           /\ up /\ ~closed /\ Running(mem[i], mem[i].nops)
           /\ mem[i].ops[mem[i].nops].kind # "stop"]_vars
  BY <1>1, <1>2
<1> QED
  BY <1>3, Invariance, RoomsOwned, RoomsShown, AlwaysAsked, PTL
     DEF Spec, SpawnOnlyWhenAsked

----------------------------------------------------------------------------
(* What the step of a worker leaves of its record. *)

(* y is x with other details of the current run and of operation o, and    *)
(* the room may have failed.                                               *)
Detail(x, y, o) ==
    /\ y \in Instance
    /\ y.gen = x.gen /\ y.nops = x.nops /\ y.port = x.port
    /\ y.lifecycle \in {x.lifecycle, "failed"}
    /\ \A g \in Gens :
         /\ y.runs[g].cfgRemoved = x.runs[g].cfgRemoved
         /\ y.runs[g].inputRemoved = x.runs[g].inputRemoved
         /\ x.runs[g].spawnAttempted => y.runs[g].spawnAttempted
         /\ ValidRun(x.runs[g]) => ValidRun(y.runs[g])
         /\ g > x.gen => y.runs[g] = x.runs[g]
    /\ \A q \in OpIds : q # o => y.ops[q] = x.ops[q]
    /\ y.ops[o].kind = x.ops[o].kind
    /\ x.ops[o].gen <= x.gen => y.ops[o].gen <= y.gen

(* No more than details of the current run.                                *)
RunDetail(x, y, o) == Detail(x, y, o) /\ y.ops = x.ops /\ y.lifecycle = x.lifecycle

(* An operation that has ended is in its last phase, and no other.         *)
PhaseOk(x, o) == Running(x, o) <=> x.ops[o].phase # "done"

(* Two changes of details are one.                                         *)
LEMMA DetailTransitive ==
  ASSUME NEW x, NEW y, NEW z, NEW o, Detail(x, y, o), Detail(y, z, o)
  PROVE  Detail(x, z, o)
  BY DEF Detail

(* No change is a change of details.                                       *)
LEMMA DetailSelf ==
  ASSUME NEW x \in Instance, NEW o \in OpIds
  PROVE  RunDetail(x, x, o)
  BY DEF Detail, RunDetail

(* A record with the same runs and operations has the same details.        *)
LEMMA DetailFields ==
  ASSUME NEW x \in Instance, NEW y \in Instance, NEW o \in OpIds,
         y.gen = x.gen, y.nops = x.nops, y.port = x.port, y.lifecycle = x.lifecycle,
         y.runs = x.runs, y.ops = x.ops
  PROVE  RunDetail(x, y, o)
  BY DEF Detail, RunDetail

(* The changes of an operation.                                            *)
LEMMA DetailOps ==
  ASSUME NEW x \in Instance, NEW o \in OpIds
  PROVE  /\ \A st \in {"succeeded", "failed", "cancelled"} :
              /\ Detail(x, EndOp(x, o, st), o) /\ EndOp(x, o, st).lifecycle = x.lifecycle
              /\ ~Running(EndOp(x, o, st), o) /\ PhaseOk(EndOp(x, o, st), o)
         /\ /\ Detail(x, FinishFailed(x, o), o) /\ ~Running(FinishFailed(x, o), o)
            /\ PhaseOk(FinishFailed(x, o), o)
         /\ /\ Detail(x, FailedSave(x, o), o) /\ ~Running(FailedSave(x, o), o)
            /\ PhaseOk(FailedSave(x, o), o)
         /\ \A p \in {"preparing", "spawning", "observing", "stopping", "cleanup"} :
              /\ Detail(x, AtPhase(x, o, p), o) /\ AtPhase(x, o, p).lifecycle = x.lifecycle
              /\ Running(x, o) => PhaseOk(AtPhase(x, o, p), o)
<1>1. ASSUME NEW y, OnlyOp(x, y, o), y.lifecycle \in {x.lifecycle, "failed"}
      PROVE  Detail(x, y, o)
  BY <1>1 DEF Detail, OnlyOp, SameProcess
<1>2. ASSUME NEW st \in {"succeeded", "failed", "cancelled"}
      PROVE  /\ Detail(x, EndOp(x, o, st), o) /\ EndOp(x, o, st).lifecycle = x.lifecycle
             /\ ~Running(EndOp(x, o, st), o) /\ PhaseOk(EndOp(x, o, st), o)
  <2> DEFINE y == EndOp(x, o, st)
  <2>1. /\ OnlyOp(x, y, o) /\ y.lifecycle = x.lifecycle
        /\ y.ops[o].status = st /\ y.ops[o].phase = "done"
    BY EndingsOnlyOp
  <2> HIDE DEF y
  <2>2. Detail(x, y, o) /\ y.lifecycle = x.lifecycle /\ ~Running(y, o) /\ PhaseOk(y, o)
    BY <1>1, <2>1 DEF Running, PhaseOk
  <2> QED
    BY <2>2 DEF y
<1>3. ASSUME NEW y \in {FinishFailed(x, o), FailedSave(x, o)}
      PROVE  Detail(x, y, o) /\ ~Running(y, o) /\ PhaseOk(y, o)
  <2>1. /\ OnlyOp(x, y, o) /\ y.lifecycle = "failed"
        /\ y.ops[o].status = "failed" /\ y.ops[o].phase = "done"
    BY EndingsOnlyOp
  <2> QED
    BY <1>1, <2>1 DEF Running, PhaseOk
<1>4. ASSUME NEW p \in {"preparing", "spawning", "observing", "stopping", "cleanup"}
      PROVE  /\ Detail(x, AtPhase(x, o, p), o) /\ AtPhase(x, o, p).lifecycle = x.lifecycle
             /\ Running(x, o) => PhaseOk(AtPhase(x, o, p), o)
  <2> DEFINE y == AtPhase(x, o, p)
  <2>1. /\ OnlyOp(x, y, o) /\ y.lifecycle = x.lifecycle
        /\ y.ops[o].status = x.ops[o].status /\ y.ops[o].phase = p
    BY EndingsOnlyOp
  <2> HIDE DEF y
  <2>2. Detail(x, y, o) /\ y.lifecycle = x.lifecycle /\ (Running(x, o) => PhaseOk(y, o))
    BY <1>1, <2>1 DEF Running, PhaseOk
  <2> QED
    BY <2>2 DEF y
<1>5. /\ FinishFailed(x, o) \in {FinishFailed(x, o), FailedSave(x, o)}
      /\ FailedSave(x, o) \in {FinishFailed(x, o), FailedSave(x, o)}
  OBVIOUS
<1> QED
  BY <1>2, <1>3, <1>4, <1>5

(* The current run replaced by one that is as good.                        *)
LEMMA DetailRun ==
  ASSUME NEW x \in Instance, NEW o \in OpIds, NEW r,
         x.gen \in Gens =>
           /\ r \in Run
           /\ r.cfgRemoved = x.runs[x.gen].cfgRemoved
           /\ r.inputRemoved = x.runs[x.gen].inputRemoved
           /\ x.runs[x.gen].spawnAttempted => r.spawnAttempted
           /\ ValidRun(x.runs[x.gen]) => ValidRun(r)
  PROVE  /\ RunDetail(x, [x EXCEPT !.runs[x.gen] = r], o)
         /\ [x EXCEPT !.runs[x.gen] = r].process = x.process
<1> DEFINE rs == [x.runs EXCEPT ![x.gen] = r]
           y  == [x EXCEPT !.runs = rs]
<1>1. x.runs \in [Gens -> Run] /\ x.gen \in Nat
  BY BoundsAssumption DEF Instance
<1>2. rs \in [Gens -> Run]
  BY <1>1
<1>3. \A g \in Gens :
        /\ rs[g].cfgRemoved = x.runs[g].cfgRemoved
        /\ rs[g].inputRemoved = x.runs[g].inputRemoved
        /\ x.runs[g].spawnAttempted => rs[g].spawnAttempted
        /\ ValidRun(x.runs[g]) => ValidRun(rs[g])
        /\ g # x.gen => rs[g] = x.runs[g]
  BY <1>1
<1>4. \A g \in Gens : g > x.gen => g # x.gen
  BY <1>1
<1> HIDE DEF rs
<1>5. /\ y \in Instance /\ y.gen = x.gen /\ y.nops = x.nops /\ y.port = x.port
      /\ y.lifecycle = x.lifecycle /\ y.ops = x.ops /\ y.runs = rs /\ y.process = x.process
  BY <1>2 DEF Instance
<1> HIDE DEF y
<1>6. RunDetail(x, y, o) /\ y.process = x.process
  BY <1>3, <1>4, <1>5 DEF Detail, RunDetail
<1> QED
  BY <1>6 DEF y, rs

(* The marks that launch sets in the current run, and the result of a stop.*)
LEMMA DetailMarks ==
  ASSUME NEW x \in Instance, NEW o \in OpIds, NEW g, g = x.gen
  PROVE  /\ RunDetail(x, [x EXCEPT !.runs[g].cfgCreated = TRUE], o)
         /\ x.gen \in Gens /\ x.runs[g].cfgCreated
              => RunDetail(x, [x EXCEPT !.runs[g].prepared = TRUE], o)
         /\ x.gen \in Gens /\ x.runs[g].prepared
              => RunDetail(x, [x EXCEPT !.runs[g].spawnAttempted = TRUE], o)
         /\ x.gen \in Gens /\ x.runs[g].spawnAttempted
              => RunDetail(x, [x EXCEPT !.runs[g].input = TRUE], o)
         /\ \A c \in {"none", "unconfirmed", "confirmed"} :
              RunDetail(x, [x EXCEPT !.runs[g].stop = c], o)
<1>1. g \in Gens => x.runs[g] \in Run
  BY DEF Instance
<1>2. RunDetail(x, [x EXCEPT !.runs[x.gen] = [x.runs[x.gen] EXCEPT !.cfgCreated = TRUE]], o)
  BY <1>1, DetailRun DEF Run, ValidRun
<1>3. x.gen \in Gens /\ x.runs[g].cfgCreated
        => RunDetail(x, [x EXCEPT !.runs[x.gen] = [x.runs[x.gen] EXCEPT !.prepared = TRUE]], o)
  BY <1>1, DetailRun DEF Run, ValidRun
<1>4. x.gen \in Gens /\ x.runs[g].prepared
        => RunDetail(x, [x EXCEPT !.runs[x.gen] = [x.runs[x.gen] EXCEPT !.spawnAttempted = TRUE]], o)
  BY <1>1, DetailRun DEF Run, ValidRun
<1>5. x.gen \in Gens /\ x.runs[g].spawnAttempted
        => RunDetail(x, [x EXCEPT !.runs[x.gen] = [x.runs[x.gen] EXCEPT !.input = TRUE]], o)
  BY <1>1, DetailRun DEF Run, ValidRun
<1>6. ASSUME NEW c \in {"none", "unconfirmed", "confirmed"}
      PROVE  RunDetail(x, [x EXCEPT !.runs[x.gen] = [x.runs[x.gen] EXCEPT !.stop = c]], o)
  BY <1>1, DetailRun DEF Run, ValidRun
<1> QED
  BY <1>2, <1>3, <1>4, <1>5, <1>6

(* So are two changes of a run's details.                                  *)
LEMMA RunDetailTransitive ==
  ASSUME NEW x, NEW y, NEW z, NEW o, RunDetail(x, y, o), RunDetail(y, z, o)
  PROVE  RunDetail(x, z, o)
  BY DEF Detail, RunDetail

(* An observation, the result of a stop and a launch without a process.    *)
LEMMA DetailOutcomes ==
  ASSUME NEW x \in Instance, NEW o \in OpIds
  PROVE  /\ RunDetail(x, Unspawned(x), o)
         /\ \A v \in Verdicts : RunDetail(x, Observed(x, v), o)
         /\ \A c \in BOOLEAN : RunDetail(x, StopResult(x, c), o)
<1>1. RunDetail(x, Unspawned(x), o)
  <2> DEFINE y == [x EXCEPT !.runs[x.gen].stop = "confirmed"]
  <2>1. RunDetail(x, y, o)
    BY DetailMarks
  <2>2. Unspawned(x) = [y EXCEPT !.process = "stopped", !.room = "unknown"]
    BY DEF Unspawned, Instance
  <2>3. y \in Instance
    BY <2>1 DEF RunDetail, Detail
  <2> HIDE DEF y
  <2>4. /\ Unspawned(x) \in Instance
        /\ Unspawned(x).gen = y.gen /\ Unspawned(x).nops = y.nops /\ Unspawned(x).port = y.port
        /\ Unspawned(x).lifecycle = y.lifecycle /\ Unspawned(x).runs = y.runs
        /\ Unspawned(x).ops = y.ops
    BY <2>2, <2>3 DEF Instance
  <2>5. RunDetail(y, Unspawned(x), o)
    BY <2>3, <2>4, DetailFields
  <2> QED
    BY <2>1, <2>5, RunDetailTransitive
<1>2. ASSUME NEW v \in Verdicts PROVE RunDetail(x, Observed(x, v), o)
  <2> DEFINE y == Observed(x, v)
  <2>1. \E p \in {"stopped", "running", "unknown"}, r \in {"unknown", "loading", "ready", "failed"} :
          y = [x EXCEPT !.process = p, !.room = r]
    BY <1>2 DEF Observed, Verdicts
  <2> HIDE DEF y
  <2>2. /\ y \in Instance /\ y.gen = x.gen /\ y.nops = x.nops /\ y.port = x.port
        /\ y.lifecycle = x.lifecycle /\ y.runs = x.runs /\ y.ops = x.ops
    BY <2>1 DEF Instance
  <2>3. RunDetail(x, y, o)
    BY <2>2, DetailFields
  <2> QED
    BY <2>3 DEF y
<1>3. ASSUME NEW c \in BOOLEAN PROVE RunDetail(x, StopResult(x, c), o)
  <2> DEFINE s == IF c THEN "confirmed" ELSE "unconfirmed"
             y == [x EXCEPT !.runs[x.gen].stop = s]
             w == StopResult(x, c)
  <2>1. s \in {"none", "unconfirmed", "confirmed"}
    OBVIOUS
  <2>2. w = [y EXCEPT !.process = IF c THEN "stopped" ELSE "unknown"]
    BY DEF StopResult, Instance
  <2> HIDE DEF s, w
  <2>3. RunDetail(x, y, o)
    BY <2>1, DetailMarks
  <2>4. y \in Instance
    BY <2>3 DEF RunDetail, Detail
  <2> HIDE DEF y
  <2>5. /\ w \in Instance /\ w.gen = y.gen /\ w.nops = y.nops /\ w.port = y.port
        /\ w.lifecycle = y.lifecycle /\ w.runs = y.runs /\ w.ops = y.ops
    BY <2>2, <2>4 DEF Instance
  <2>6. RunDetail(y, w, o)
    BY <2>4, <2>5, DetailFields
  <2>7. RunDetail(x, w, o)
    BY <2>3, <2>6, RunDetailTransitive
  <2> QED
    BY <2>7 DEF w
<1> QED
  BY <1>1, <1>2, <1>3

(* The identity of the current process, of which the record says that its  *)
(* spawn was attempted, with what else the code sets then.                 *)
LEMMA DetailIdentity ==
  ASSUME NEW x \in Instance, NEW o \in OpIds, NEW d \in {"partial", "full"},
         x.gen \in Gens, x.runs[x.gen].spawnAttempted,
         NEW p \in {"stopped", "running", "unknown"},
         NEW r \in {"unknown", "loading", "ready", "failed"}, NEW e \in BOOLEAN
  PROVE  RunDetail(x, [x EXCEPT !.process = p, !.room = r, !.err = e,
                                !.runs[x.gen].identity = d], o)
<1> DEFINE y == [x EXCEPT !.runs[x.gen] = [x.runs[x.gen] EXCEPT !.identity = d]]
           w == [x EXCEPT !.process = p, !.room = r, !.err = e, !.runs[x.gen].identity = d]
<1>1. RunDetail(x, y, o)
  <2>1. x.runs[x.gen] \in Run
    BY DEF Instance
  <2> QED
    BY <2>1, DetailRun DEF Run, ValidRun
<1>2. w = [y EXCEPT !.process = p, !.room = r, !.err = e]
  BY DEF Instance
<1>3. y \in Instance
  BY <1>1 DEF RunDetail, Detail
<1> HIDE DEF y, w
<1>4. /\ w \in Instance /\ w.gen = y.gen /\ w.nops = y.nops /\ w.port = y.port
      /\ w.lifecycle = y.lifecycle /\ w.runs = y.runs /\ w.ops = y.ops
  BY <1>2, <1>3 DEF Instance
<1>5. RunDetail(x, w, o)
  BY <1>1, <1>3, <1>4, DetailFields, RunDetailTransitive
<1> QED
  BY <1>5 DEF w

(* What a step of worker o may save: its operation changes only while it   *)
(* runs, and the room fails only with it.                                  *)
Outcome(i, o, y) ==
    /\ Detail(mem[i], y, o)
    /\ y.ops[o] = mem[i].ops[o] \/ (~wedged => Running(mem[i], o))
    /\ \/ y.lifecycle = mem[i].lifecycle
       \/ ~Running(y, o) /\ (~wedged => Running(mem[i], o))

(* What a step of worker o that changes no more than details leaves in     *)
(* memory, z, and may write, x.                                            *)
WorkerDetail(i, o) ==
    \E z, x :
      /\ RecordStep(i, z, x) /\ Outcome(i, o, x) /\ Detail(mem[i], z, o)
      /\ PhaseOk(mem[i], o) => PhaseOk(z, o)
      /\ wedged' \/ (z = x /\ Outcome(i, o, z))

(* A change of a run's details may be written by the worker.               *)
LEMMA RunOutcome ==
  ASSUME NEW i \in Instances, NEW o \in OpIds, NEW y, RunDetail(mem[i], y, o)
  PROVE  Outcome(i, o, y) /\ (PhaseOk(mem[i], o) => PhaseOk(y, o))
  BY DEF Outcome, RunDetail, PhaseOk, Running

(* Nothing changed, or details of the run, in memory or by an operation of *)
(* the store.                                                              *)
LEMMA RunSaves ==
  ASSUME StoreType, NEW i \in Instances, NEW o \in OpIds, NEW x, NEW next,
         UNCHANGED <<mem, store>> \/ RunDetail(mem[i], x, o),
         \/ UNCHANGED <<mem, store>> \/ InMemory(i, x)
         \/ StoreSaved(i, x) \/ StoreNotSaved(i, x, x) \/ StoreOrFail(i, o, x, x, next)
  PROVE  WorkerDetail(i, o)
<1>1. CASE UNCHANGED <<mem, store>>
  <2>1. RecordStep(i, mem[i], mem[i])
    BY <1>1 DEF RecordStep, StoreType, store
  <2>2. RunDetail(mem[i], mem[i], o)
    BY DetailSelf DEF StoreType
  <2>3. Outcome(i, o, mem[i]) /\ Detail(mem[i], mem[i], o)
    BY <2>2, RunOutcome DEF RunDetail
  <2> QED
    BY <2>1, <2>3 DEF WorkerDetail
<1>2. CASE ~UNCHANGED <<mem, store>>
  <2>1. RunDetail(mem[i], x, o)
    BY <1>2
  <2>2. RecordStep(i, x, x)
    BY <1>2, SavesRecord DEF StoreOrFail
  <2>3. Outcome(i, o, x) /\ Detail(mem[i], x, o) /\ (PhaseOk(mem[i], o) => PhaseOk(x, o))
    BY <2>1, RunOutcome DEF RunDetail
  <2> QED
    BY <2>2, <2>3 DEF WorkerDetail
<1> QED
  BY <1>1, <1>2

(* A save of launch or stop.                                               *)
LEMMA OutcomeSaveOrFail ==
  ASSUME NEW i \in Instances, NEW o \in OpIds, NEW x, NEW next,
         Outcome(i, o, x), ~wedged => (PhaseOk(mem[i], o) => PhaseOk(x, o)),
         SaveOrFail(i, o, x, next)
  PROVE  WorkerDetail(i, o)
<1>1. x \in Instance
  BY DEF Outcome, Detail
<1>2. CASE Saved(i, x)
  <2>1. RecordStep(i, x, x) /\ ~wedged
    BY <1>2 DEF Saved, StoreSaved, Published, RecordStep
  <2> QED
    BY <2>1 DEF WorkerDetail, Outcome
<1>3. CASE NotSaved(i, x, FailedSave(x, o))
  <2> DEFINE z == FailedSave(x, o)
  <2>1. RecordStep(i, z, x) /\ wedged'
    BY <1>3 DEF NotSaved, Rejected, Faulted, RecordStep
  <2>2. Detail(mem[i], z, o) /\ PhaseOk(z, o)
    BY <1>1, DetailOps, DetailTransitive DEF Outcome
  <2> HIDE DEF z
  <2> QED
    BY <2>1, <2>2 DEF WorkerDetail
<1> QED
  BY <1>2, <1>3 DEF SaveOrFail

(* finish, after a change of details of the run.                           *)
LEMMA OutcomeFinishes ==
  ASSUME NEW i \in Instances, NEW o \in OpIds, NEW x, NEW y, RunDetail(mem[i], x, o),
         y \in {EndOp(x, o, "succeeded"), FinishFailed(x, o)}, Finishes(i, o, x, y)
  PROVE  WorkerDetail(i, o)
<1>1. x \in Instance /\ Detail(mem[i], x, o)
  BY DEF RunDetail, Detail
<1>2. CASE InMemory(i, x)
  <2>1. RecordStep(i, x, x)
    BY <1>2 DEF InMemory, RecordStep, store
  <2> QED
    BY <1>1, <2>1, RunOutcome DEF WorkerDetail
<1>3. CASE Running(x, o) /\ (Saved(i, y) \/ NotSaved(i, y, FailedSave(y, o)))
  <2>1. Detail(x, y, o) /\ ~Running(y, o) /\ PhaseOk(y, o)
    BY <1>1, DetailOps
  <2>2. Detail(mem[i], y, o)
    BY <1>1, <2>1, DetailTransitive
  <2>3. y \in Instance
    BY <2>1 DEF Detail
  <2>4. Running(mem[i], o)
    BY <1>3 DEF RunDetail, Running
  <2>5. Outcome(i, o, y)
    BY <2>1, <2>2, <2>4 DEF Outcome
  <2>6. CASE Saved(i, y)
    <3>1. RecordStep(i, y, y)
      BY <2>6 DEF Saved, StoreSaved, Published, RecordStep
    <3> QED
      BY <2>1, <2>2, <2>5, <3>1 DEF WorkerDetail
  <2>7. CASE NotSaved(i, y, FailedSave(y, o))
    <3> DEFINE z == FailedSave(y, o)
    <3>1. RecordStep(i, z, y) /\ wedged'
      BY <2>7 DEF NotSaved, Rejected, Faulted, RecordStep
    <3>2. Detail(mem[i], z, o) /\ PhaseOk(z, o)
      BY <2>2, <2>3, DetailOps, DetailTransitive
    <3> HIDE DEF z
    <3> QED
      BY <2>5, <3>1, <3>2 DEF WorkerDetail
  <2> QED
    BY <1>3, <2>6, <2>7
<1> QED
  BY <1>2, <1>3 DEF Finishes

(* A phase is only saved of an operation that runs.                        *)
LEMMA OutcomePhase ==
  ASSUME NEW i \in Instances, NEW o \in OpIds, NEW x, NEW next, RunDetail(mem[i], x, o),
         NEW p \in {"preparing", "spawning", "observing", "stopping", "cleanup"},
         ~wedged => Running(mem[i], o), SaveOrFail(i, o, AtPhase(x, o, p), next)
  PROVE  WorkerDetail(i, o)
<1> DEFINE y == AtPhase(x, o, p)
<1>1. x \in Instance /\ Detail(mem[i], x, o) /\ x.ops = mem[i].ops /\ x.lifecycle = mem[i].lifecycle
  BY DEF RunDetail, Detail
<1>2. Detail(x, y, o) /\ y.lifecycle = x.lifecycle /\ (Running(x, o) => PhaseOk(y, o))
  BY <1>1, DetailOps
<1>3. SaveOrFail(i, o, y, next)
  OBVIOUS
<1> HIDE DEF y
<1>4. Outcome(i, o, y)
  BY <1>1, <1>2, DetailTransitive DEF Outcome
<1>5. ~wedged => PhaseOk(y, o)
  BY <1>1, <1>2 DEF Running
<1> QED
  BY <1>3, <1>4, <1>5, OutcomeSaveOrFail

----------------------------------------------------------------------------
(* The files of a room. *)

(* The record x accounts for the cfgs C and the FIFOs F of its room: none  *)
(* of them is recorded as removed, the FIFOs come from attempted spawns,   *)
(* and a reclaimed room has left no cfg and no FIFO that it owned.  The    *)
(* runs of generations to come are untouched.                              *)
Filed(x, C, F) ==
    /\ \A g \in C : g <= x.gen /\ ~x.runs[g].cfgRemoved
    /\ \A g \in F : g <= x.gen /\ x.runs[g].spawnAttempted /\ ~x.runs[g].inputRemoved
    /\ x.lifecycle = "reclaimed" =>
         C = {} /\ \A g \in F : ~x.runs[g].input /\ x.runs[g].identity = "none"
    /\ \A g \in Gens : g > x.gen => x.runs[g] = NewRun

(* What a worker knows of the files at the places of launch and cleanup.   *)
FileFacts(i, o) ==
    LET x == mem[i] IN
    /\ pc[i][o] \in LaunchPcs =>
         disk[i] = x /\ ~x.runs[x.gen].cfgRemoved /\ ~x.runs[x.gen].inputRemoved
    /\ pc[i][o] = "spawn" => x.runs[x.gen].prepared
    /\ pc[i][o] \in {"stopped", "cleanup"} => x.process = "stopped"

FilesKnown ==
    \A i \in Instances :
        /\ Filed(disk[i], cfg[i], fifo[i])
        /\ up => Filed(mem[i], cfg[i], fifo[i])
        /\ \A o \in OpIds : FileFacts(i, o)

(* A worker that launches, or was not told to quit, has an operation that  *)
(* runs, unless a write has failed.                                        *)
LEMMA AskedRuns ==
  ASSUME ShownInv, AskedInv, NEW i \in Instances, NEW o \in OpIds, Busy(i, o), ~wedged,
         ~Quits(i, o) \/ pc[i][o] \in Launchers \cup {"cleanup"}
  PROVE  Running(mem[i], o)
  BY DEF ShownInv, Unfinished, AskedInv, Asked, Quits

(* The steps that neither prepare a generation nor clean up.               *)
LEMMA LaunchDetails ==
  ASSUME TypeOK, Launching, ShownInv, AskedInv, FilesKnown, NEW i \in Instances, NEW o \in OpIds,
         \/ Launch(i, o) \/ PrepareFiles(i, o) \/ RunPrepared(i, o)
         \/ MakeInput(i, o) \/ InputPrepared(i, o) \/ Exec(i, o)
  PROVE  WorkerDetail(i, o)
<1>1. StoreType /\ mem[i] \in Instance /\ RunDetail(mem[i], mem[i], o)
  BY TypeParts, DetailSelf DEF StoreType
<1>2. CASE Launch(i, o)
  <2>1. CASE Fails(i, o)
    BY <1>1, <2>1, RunSaves DEF Fails
  <2>2. CASE SaveOrFail(i, o, AtPhase(mem[i], o, "preparing"), "prepare")
    <3>1. ~wedged => Running(mem[i], o)
      BY <1>2, AskedRuns DEF Launch, Busy
    <3> QED
      BY <1>1, <2>2, <3>1, OutcomePhase
  <2> QED
    BY <1>2, <2>1, <2>2 DEF Launch
<1>3. CASE PrepareFiles(i, o)
  <2> DEFINE x == [mem[i] EXCEPT !.runs[mem[i].gen].cfgCreated = TRUE]
  <2>1. RunDetail(mem[i], x, o)
    BY <1>1, DetailMarks
  <2>2. UNCHANGED <<mem, store>> \/ StoreSaved(i, x) \/ StoreNotSaved(i, x, x)
    BY <1>3 DEF PrepareFiles, Fails
  <2> HIDE DEF x
  <2> QED
    BY <1>1, <2>1, <2>2, RunSaves
<1>4. CASE RunPrepared(i, o)
  <2> DEFINE x == [mem[i] EXCEPT !.runs[mem[i].gen].cfgCreated = TRUE]
             y == [x EXCEPT !.runs[mem[i].gen].prepared = TRUE]
  <2>1. RunDetail(mem[i], x, o)
    BY <1>1, DetailMarks
  <2>2. mem[i].gen \in Gens /\ x.runs[mem[i].gen].cfgCreated
    <3>1. mem[i].gen \in Gens
      BY <1>4 DEF RunPrepared, Launching, LaunchFacts, LaunchPcs
    <3> QED
      BY <1>1, <3>1 DEF Instance, Run
  <2>3. StoreOrFail(i, o, y, y, "spawn")
    BY <1>4 DEF RunPrepared
  <2>4. x \in Instance /\ x.gen = mem[i].gen
    BY <2>1 DEF RunDetail, Detail
  <2> HIDE DEF x
  <2>5. RunDetail(x, y, o)
    BY <2>2, <2>4, DetailMarks
  <2> HIDE DEF y
  <2>6. RunDetail(mem[i], y, o)
    BY <2>1, <2>5, RunDetailTransitive
  <2> QED
    BY <1>1, <2>3, <2>6, RunSaves
<1>5. CASE MakeInput(i, o) \/ Exec(i, o)
  <2>1. UNCHANGED <<mem, store>> \/ InMemory(i, Unspawned(mem[i]))
    BY <1>5 DEF MakeInput, Exec
  <2>2. RunDetail(mem[i], Unspawned(mem[i]), o)
    BY <1>1, DetailOutcomes
  <2> QED
    BY <1>1, <2>1, <2>2, RunSaves
<1>6. CASE InputPrepared(i, o)
  <2> DEFINE x == [mem[i] EXCEPT !.runs[mem[i].gen].input = TRUE]
             z == Unspawned(x)
  <2>1. mem[i].gen \in Gens /\ mem[i].runs[mem[i].gen].spawnAttempted
    BY <1>6 DEF InputPrepared, Launching, LaunchFacts, LaunchPcs
  <2>2. RunDetail(mem[i], x, o)
    BY <1>1, <2>1, DetailMarks
  <2>3. Saved(i, x) \/ NotSaved(i, x, z)
    BY <1>6 DEF InputPrepared
  <2>4. x \in Instance
    BY <2>2 DEF RunDetail, Detail
  <2> HIDE DEF x
  <2>5. RunDetail(x, z, o)
    BY <2>4, DetailOutcomes
  <2> HIDE DEF z
  <2>6. RunDetail(mem[i], z, o)
    BY <2>2, <2>5, RunDetailTransitive
  <2>7. Outcome(i, o, x) /\ Outcome(i, o, z) /\ Detail(mem[i], z, o) /\ Detail(mem[i], x, o)
        /\ (PhaseOk(mem[i], o) => PhaseOk(x, o) /\ PhaseOk(z, o))
    BY <2>2, <2>6, RunOutcome DEF RunDetail
  <2>8. CASE Saved(i, x)
    BY <2>7, <2>8 DEF Saved, StoreSaved, Published, RecordStep, WorkerDetail
  <2>9. CASE NotSaved(i, x, z)
    BY <2>7, <2>9 DEF NotSaved, Rejected, Faulted, RecordStep, WorkerDetail
  <2> QED
    BY <2>3, <2>8, <2>9
<1> QED
  BY <1>2, <1>3, <1>4, <1>5, <1>6

(* The intent to spawn, the spawned process and its rollback are changes of*)
(* details.                                                                *)
LEMMA SpawnDetails ==
  ASSUME TypeOK, Launching, ShownInv, AskedInv, FilesKnown, NEW i \in Instances, NEW o \in OpIds,
         IntendSpawn(i, o) \/ Spawned(i, o) \/ Rollback(i, o)
  PROVE  WorkerDetail(i, o)
<1>1. StoreType /\ mem[i] \in Instance
  BY TypeParts DEF StoreType
<1>2. CASE IntendSpawn(i, o)
  <2> DEFINE g == mem[i].gen
             x == [mem[i] EXCEPT !.ops[o].gen = g]
             y == AtPhase(x, o, "spawning")
             z == [y EXCEPT !.runs[g].spawnAttempted = TRUE]
  <2>1. ~wedged => Running(mem[i], o)
    BY <1>2, AskedRuns DEF IntendSpawn, Busy, Launchers, LaunchPcs
  <2>2. g \in Gens /\ mem[i].runs[g].prepared
    BY <1>2 DEF IntendSpawn, Launching, LaunchFacts, LaunchPcs, FilesKnown, FileFacts
  <2>3. /\ Detail(mem[i], x, o) /\ x.runs = mem[i].runs /\ x.lifecycle = mem[i].lifecycle
        /\ x.ops[o].status = mem[i].ops[o].status /\ x.ops[o].phase = mem[i].ops[o].phase
    <3>1. [mem[i].ops[o] EXCEPT !.gen = g] \in Operation
      BY <1>1 DEF Instance, Operation
    <3>2. x \in Instance
      BY <1>1, <3>1 DEF Instance
    <3>3. /\ x.gen = g /\ x.nops = mem[i].nops /\ x.port = mem[i].port
          /\ x.lifecycle = mem[i].lifecycle /\ x.runs = mem[i].runs
          /\ x.ops = [mem[i].ops EXCEPT ![o] = [mem[i].ops[o] EXCEPT !.gen = g]]
      BY <1>1 DEF Instance
    <3>4. mem[i].ops \in [OpIds -> Operation] /\ g \in Nat
      BY <1>1, BoundsAssumption DEF Instance
    <3> HIDE DEF x
    <3>5. /\ x.ops[o] = [mem[i].ops[o] EXCEPT !.gen = g]
          /\ \A q \in OpIds : q # o => x.ops[q] = mem[i].ops[q]
      BY <3>3, <3>4
    <3>6. /\ x.ops[o].kind = mem[i].ops[o].kind /\ x.ops[o].gen = g
          /\ x.ops[o].status = mem[i].ops[o].status /\ x.ops[o].phase = mem[i].ops[o].phase
      BY <3>4, <3>5 DEF Operation
    <3> HIDE DEF g
    <3>7. x.ops[o].gen <= x.gen
      BY <3>3, <3>4, <3>6
    <3> QED
      BY <3>2, <3>3, <3>5, <3>6, <3>7 DEF Detail, g
  <2>4. InMemory(i, x) \/ SaveOrFail(i, o, z, "fifo")
    BY <1>2 DEF IntendSpawn
  <2>5. x \in Instance /\ x.gen = g
    BY <2>3 DEF Detail
  <2> HIDE DEF x
  <2>6. CASE InMemory(i, x)
    <3>1. RecordStep(i, x, x)
      BY <2>6 DEF InMemory, RecordStep, store
    <3>2. Outcome(i, o, x) /\ (PhaseOk(mem[i], o) => PhaseOk(x, o))
      BY <2>1, <2>3 DEF Outcome, PhaseOk, Running
    <3> QED
      BY <2>3, <3>1, <3>2 DEF WorkerDetail
  <2>7. CASE SaveOrFail(i, o, z, "fifo")
    <3>1. /\ Detail(x, y, o) /\ y.lifecycle = x.lifecycle /\ (Running(x, o) => PhaseOk(y, o))
          /\ y \in Instance /\ y.gen = g /\ y.runs = x.runs
      BY <2>5, DetailOps, AtPhaseType DEF SameProcess
    <3> HIDE DEF y
    <3>2. RunDetail(y, z, o)
      BY <2>2, <2>3, <3>1, DetailMarks
    <3> HIDE DEF z
    <3>3. Detail(mem[i], z, o) /\ z.lifecycle = mem[i].lifecycle
      BY <2>3, <3>1, <3>2, DetailTransitive DEF RunDetail
    <3>4. Outcome(i, o, z)
      BY <2>1, <3>3 DEF Outcome
    <3>5. ~wedged => PhaseOk(z, o)
      BY <2>1, <2>3, <3>1, <3>2 DEF PhaseOk, Running, RunDetail
    <3> QED
      BY <2>7, <3>4, <3>5, OutcomeSaveOrFail
  <2> QED
    BY <2>4, <2>6, <2>7
<1>3. CASE Spawned(i, o)
  <2> DEFINE x == [mem[i] EXCEPT !.process = "running", !.room = "loading", !.err = FALSE,
                                 !.runs[mem[i].gen].identity = "full"]
  <2>1. mem[i].gen \in Gens /\ mem[i].runs[mem[i].gen].spawnAttempted
    BY <1>3 DEF Spawned, Launching, LaunchFacts, LaunchPcs
  <2>2. RunDetail(mem[i], x, o)
    BY <1>1, <2>1, DetailIdentity
  <2>3. ~wedged => Running(mem[i], o)
    BY <1>3, AskedRuns DEF Spawned, Busy, Launchers, LaunchPcs
  <2>4. SaveOrFail(i, o, AtPhase(x, o, "observing"), "observe")
    BY <1>3 DEF Spawned
  <2> HIDE DEF x
  <2> QED
    BY <2>2, <2>3, <2>4, OutcomePhase
<1>4. CASE Rollback(i, o)
  <2>1. mem[i].gen \in Gens /\ mem[i].runs[mem[i].gen].spawnAttempted
    BY <1>4 DEF Rollback, Launching, LaunchFacts, LaunchPcs
  <2> DEFINE x(d) == [mem[i] EXCEPT !.process = "unknown", !.runs[mem[i].gen].identity = d]
  <2>2. PICK d \in {"partial", "full"} : InMemory(i, Unspawned(x(d))) \/ InMemory(i, x(d))
    BY <1>4 DEF Rollback
  <2>3. RunDetail(mem[i], x(d), o)
    <3> DEFINE w(r, e) == [mem[i] EXCEPT !.process = "unknown", !.room = r, !.err = e,
                                         !.runs[mem[i].gen].identity = d]
    <3>1. /\ mem[i].room \in {"unknown", "loading", "ready", "failed"}
          /\ mem[i].err \in BOOLEAN
      BY <1>1 DEF Instance
    <3>2. x(d) = w(mem[i].room, mem[i].err)
      BY <1>1 DEF Instance
    <3> HIDE DEF x
    <3>3. RunDetail(mem[i], w(mem[i].room, mem[i].err), o)
      BY <1>1, <2>1, <3>1, DetailIdentity
    <3> QED
      BY <3>2, <3>3
  <2> HIDE DEF x
  <2>4. RunDetail(mem[i], Unspawned(x(d)), o)
    <3>1. x(d) \in Instance
      BY <2>3 DEF RunDetail, Detail
    <3> QED
      BY <2>3, <3>1, DetailOutcomes, RunDetailTransitive
  <2> QED
    BY <1>1, <2>2, <2>3, <2>4, RunSaves
<1> QED
  BY <1>2, <1>3, <1>4

(* So is what a worker records of a stop, an observation or the end of its *)
(* operation.                                                              *)
LEMMA ObserveDetails ==
  ASSUME TypeOK, ShownInv, AskedInv, NEW i \in Instances, NEW o \in OpIds,
         \/ BeginStop(i, o) \/ BeginCleanup(i, o) \/ Leave(i, o) \/ Abort(i, o)
         \/ FinishWorker(i, o) \/ \E c \in BOOLEAN : Stopped(i, o, c) \/ TimedOut(i, o, c)
         \/ \E v \in Verdicts, late \in BOOLEAN : Tick(i, o, v, late)
  PROVE  WorkerDetail(i, o)
<1>1. StoreType /\ mem[i] \in Instance /\ RunDetail(mem[i], mem[i], o)
  BY TypeParts, DetailSelf DEF StoreType
<1>2. CASE BeginStop(i, o) \/ BeginCleanup(i, o)
  <2>1. CASE UNCHANGED <<mem, store>>
    BY <1>1, <2>1, RunSaves
  <2>2. CASE ~UNCHANGED <<mem, store>>
    <3>1. PICK p, next : /\ p \in {"stopping", "cleanup"}
                         /\ SaveOrFail(i, o, AtPhase(mem[i], o, p), next)
      BY <1>2, <2>2 DEF BeginStop, BeginCleanup, Fails
    <3>2. ~Quits(i, o) /\ Busy(i, o)
      BY <1>2, <2>2 DEF BeginStop, BeginCleanup, Busy
    <3>3. ~wedged => Running(mem[i], o)
      BY <3>2, AskedRuns
    <3> QED
      BY <1>1, <3>1, <3>3, OutcomePhase
  <2> QED
    BY <2>1, <2>2
<1>3. CASE Leave(i, o) \/ FinishWorker(i, o)
  BY <1>1, <1>3, RunSaves DEF Leave, FinishWorker
<1>4. CASE Abort(i, o)
  BY <1>1, <1>4, OutcomeFinishes DEF Abort
<1>5. ASSUME NEW c \in BOOLEAN, Stopped(i, o, c) \/ TimedOut(i, o, c)
      PROVE  WorkerDetail(i, o)
  <2> DEFINE x == StopResult(mem[i], c)
             y == [x EXCEPT !.room = "unknown"]
  <2>1. RunDetail(mem[i], x, o)
    BY <1>1, DetailOutcomes
  <2>2. InMemory(i, x) \/ SaveOrFail(i, o, y, "stopped")
    BY <1>5 DEF Stopped, TimedOut
  <2> HIDE DEF x
  <2>3. x \in Instance
    BY <2>1 DEF RunDetail, Detail
  <2>4. /\ y \in Instance /\ y.gen = x.gen /\ y.nops = x.nops /\ y.port = x.port
        /\ y.lifecycle = x.lifecycle /\ y.runs = x.runs /\ y.ops = x.ops
    BY <2>3 DEF Instance
  <2> HIDE DEF y
  <2>5. RunDetail(mem[i], y, o)
    BY <2>1, <2>3, <2>4, DetailFields, RunDetailTransitive
  <2>6. Outcome(i, o, y) /\ (PhaseOk(mem[i], o) => PhaseOk(y, o))
    BY <2>5, RunOutcome
  <2> QED
    BY <1>1, <2>1, <2>2, <2>6, RunSaves, OutcomeSaveOrFail
<1>6. ASSUME NEW v \in Verdicts, NEW late \in BOOLEAN, Tick(i, o, v, late)
      PROVE  WorkerDetail(i, o)
  <2> DEFINE x == Observed(mem[i], v)
  <2>1. RunDetail(mem[i], x, o)
    BY <1>1, DetailOutcomes
  <2>2. InMemory(i, x) \/ Finishes(i, o, x, EndOp(x, o, "succeeded"))
    BY <1>6 DEF Tick
  <2> HIDE DEF x
  <2> QED
    BY <1>1, <2>1, <2>2, RunSaves, OutcomeFinishes
<1> QED
  BY <1>2, <1>3, <1>4, <1>5, <1>6

(* The records of one room with other details, or with the same runs,      *)
(* account for the same files, and for fewer.                              *)
LEMMA DetailFiled ==
  ASSUME NEW x, NEW y, NEW o, NEW C \in SUBSET Gens, NEW F \in SUBSET Gens, Filed(x, C, F),
         \/ Detail(x, y, o) /\ Holds(x)
         \/ y.runs = x.runs /\ y.gen = x.gen /\ (y.lifecycle = "reclaimed" => x.lifecycle = "reclaimed"),
         NEW D \in SUBSET C, NEW G \in SUBSET F
  PROVE  Filed(y, D, G)
<1>1. CASE Detail(x, y, o) /\ Holds(x)
  BY <1>1 DEF Filed, Detail, Holds
<1>2. CASE /\ y.runs = x.runs /\ y.gen = x.gen
           /\ y.lifecycle = "reclaimed" => x.lifecycle = "reclaimed"
  BY <1>2 DEF Filed
<1> QED
  BY <1>1, <1>2

(* A step of worker (i, o), from what it makes of the files of instance i. *)
LEMMA FilesFrom ==
  ASSUME IInv, up, FilesKnown, NEW i \in Instances, NEW o \in OpIds, WorkerStep(i, o),
         Filed(mem[i], cfg[i], fifo[i])' /\ Filed(disk[i], cfg[i], fifo[i])',
         FileFacts(i, o)',
         \A j \in Instances : j # i => cfg'[j] = cfg[j] /\ fifo'[j] = fifo[j]
  PROVE  FilesKnown'
<1>1. StoreType /\ WorkersType
  BY TypeParts DEF IInv
<1>2. WorkerLeaves(i, o) /\ (Free \/ pc[i][o] \in LockedPcs)
  BY <1>1, WorkerLeavesOthers, WorkerKeepsAll DEF WorkerKeeps
<1>3. ASSUME NEW j \in Instances, NEW q \in OpIds PROVE FileFacts(j, q)'
  <2>1. CASE j = i /\ q = o
    BY <2>1
  <2>2. CASE j # i \/ q # o
    <3>1. pc'[j][q] \notin LockedPcs
      BY <1>2, <2>2, AloneLocked DEF WorkerLeaves
    <3> QED
      BY <3>1 DEF FileFacts, LaunchPcs, LockedPcs
  <2> QED
    BY <2>1, <2>2
<1>4. ASSUME NEW j \in Instances, j # i
      PROVE  Filed(mem[j], cfg[j], fifo[j])' /\ Filed(disk[j], cfg[j], fifo[j])'
  BY <1>2, <1>4 DEF WorkerLeaves, FilesKnown
<1> QED
  BY <1>3, <1>4 DEF FilesKnown

(* So does a step that changes no more than details, and makes no file.    *)
LEMMA DetailFiles ==
  ASSUME IInv, StoreType', OwnedInv, up, FilesKnown, NEW i \in Instances, NEW o \in OpIds,
         WorkerStep(i, o), WorkerDetail(i, o), FileFacts(i, o)', Busy(i, o),
         cfg'[i] \subseteq cfg[i], fifo'[i] \subseteq fifo[i],
         \A j \in Instances : j # i => cfg'[j] = cfg[j] /\ fifo'[j] = fifo[j]
  PROVE  FilesKnown'
<1>1. StoreType /\ cfg[i] \in SUBSET Gens /\ fifo[i] \in SUBSET Gens
  BY TypeParts DEF IInv, WorldType
<1>2. PICK z, x : RecordStep(i, z, x) /\ Detail(mem[i], z, o) /\ Detail(mem[i], x, o)
  BY DEF WorkerDetail, Outcome
<1>3. mem'[i] = z /\ (disk'[i] = disk[i] \/ disk'[i] = x)
  BY <1>1, <1>2 DEF RecordStep, StoreType
<1>4. Holds(mem[i])
  BY DEF OwnedInv, Owned, Manned
<1>5. Filed(z, cfg'[i], fifo'[i]) /\ Filed(x, cfg'[i], fifo'[i])
  BY <1>1, <1>2, <1>4, DetailFiled DEF FilesKnown
<1>6. Filed(disk[i], cfg'[i], fifo'[i])
  BY <1>1, DetailFiled DEF FilesKnown
<1>7. Filed(mem[i], cfg[i], fifo[i])' /\ Filed(disk[i], cfg[i], fifo[i])'
  BY <1>3, <1>5, <1>6
<1> QED
  BY <1>7, FilesFrom

(* The launch, once its generation exists.                                 *)
LEMMA LaunchFiles ==
  ASSUME IInv, IInv', OwnedInv, ShownInv, AskedInv, FilesKnown,
         NEW i \in Instances, NEW o \in OpIds, up,
         \/ PrepareFiles(i, o) \/ RunPrepared(i, o) \/ IntendSpawn(i, o) \/ MakeInput(i, o)
         \/ InputPrepared(i, o) \/ Exec(i, o) \/ Spawned(i, o) \/ Rollback(i, o)
  PROVE  FilesKnown'
<1>1. /\ TypeOK /\ Launching /\ StoreType /\ WorkersType /\ StoreType'
      /\ WorkerStep(i, o) /\ WorldType
  <2>1. TypeOK /\ Launching /\ TypeOK'
    BY DEF IInv
  <2>2. StoreType /\ WorkersType /\ WorldType
    BY <2>1, TypeParts
  <2>3. StoreType'
    BY <2>1 DEF TypeOK, StoreType
  <2>4. WorkerStep(i, o)
    BY DEF WorkerStep, LaunchStep
  <2> QED
    BY <2>1, <2>2, <2>3, <2>4
<1>2. WorkerDetail(i, o)
  BY <1>1, LaunchDetails, SpawnDetails
<1>3. pc[i][o] \in LaunchPcs /\ Busy(i, o)
  BY DEF PrepareFiles, RunPrepared, IntendSpawn, MakeInput, InputPrepared, Exec, Spawned,
         Rollback, LaunchPcs, Busy
<1>4. /\ disk[i] = mem[i] /\ mem[i].gen \in Gens
      /\ ~mem[i].runs[mem[i].gen].cfgRemoved /\ ~mem[i].runs[mem[i].gen].inputRemoved
  BY <1>1, <1>3 DEF FilesKnown, FileFacts, Launching, LaunchFacts
<1>5. pc'[i][o] \in LaunchPcs => disk'[i] = mem'[i]
  <2>1. CASE PrepareFiles(i, o) \/ MakeInput(i, o) \/ Exec(i, o)
    <3>1. UNCHANGED <<mem, store>> \/ Goto(i, o, "abort")
      BY <2>1 DEF PrepareFiles, MakeInput, Exec, Fails
    <3> QED
      BY <1>1, <1>4, <3>1 DEF Goto, WorkersType, LaunchPcs, store
  <2>2. CASE RunPrepared(i, o) \/ IntendSpawn(i, o) \/ InputPrepared(i, o)
    <3>1. disk' = mem' \/ \E p \in {"abort", "exit"} : Goto(i, o, p)
      BY <2>2 DEF RunPrepared, IntendSpawn, InputPrepared, SaveOrFail, StoreOrFail,
                  Saved, StoreSaved, Published
    <3> QED
      BY <1>1, <3>1 DEF Goto, WorkersType, LaunchPcs
  <2>3. CASE Spawned(i, o) \/ Rollback(i, o)
    BY <1>1, <2>3 DEF Spawned, Rollback, SaveOrFail, Goto, WorkersType, LaunchPcs
  <2> QED
    BY <2>1, <2>2, <2>3
<1>6. /\ mem'[i].gen = mem[i].gen
      /\ ~mem'[i].runs[mem'[i].gen].cfgRemoved /\ ~mem'[i].runs[mem'[i].gen].inputRemoved
  <2>1. PICK z, x : RecordStep(i, z, x) /\ Detail(mem[i], z, o)
    BY <1>2 DEF WorkerDetail
  <2>2. mem'[i] = z
    BY <1>1, <2>1 DEF RecordStep, StoreType
  <2> QED
    BY <1>4, <2>1, <2>2 DEF Detail
<1>7. pc'[i][o] = "spawn" => mem'[i].runs[mem'[i].gen].prepared
  <2>1. CASE RunPrepared(i, o)
    <3> DEFINE g == mem[i].gen
               x == [mem[i] EXCEPT !.runs[g].cfgCreated = TRUE, !.runs[g].prepared = TRUE]
    <3>1. pc'[i][o] = "spawn" => mem'[i] = x
      BY <1>1, <2>1 DEF RunPrepared, StoreOrFail, StoreSaved, Published, StoreType, Goto, WorkersType
    <3>2. x.runs[g].prepared
      <4>1. mem[i] \in Instance
        BY <1>1 DEF StoreType
      <4> QED
        BY <1>4, <4>1 DEF Instance, Run
    <3> HIDE DEF x
    <3> QED
      BY <1>6, <3>1, <3>2
  <2>2. CASE ~RunPrepared(i, o)
    <3>1. \E p \in Pcs : p # "spawn" /\ Goto(i, o, p)
      BY <2>2 DEF PrepareFiles, IntendSpawn, MakeInput, InputPrepared, Exec, Spawned, Rollback,
                  Fails, SaveOrFail, Pcs
    <3> QED
      BY <1>1, <3>1 DEF Goto, WorkersType
  <2> QED
    BY <2>1, <2>2
<1>8. pc'[i][o] \notin {"stopped", "cleanup"}
  <2>1. \E p \in Pcs : p \notin {"stopped", "cleanup"} /\ Goto(i, o, p)
    <3>1. PrepareFiles(i, o) \/ RunPrepared(i, o) \/ IntendSpawn(i, o) \/ MakeInput(i, o)
            => \E p \in Pcs : p \notin {"stopped", "cleanup"} /\ Goto(i, o, p)
      BY DEF PrepareFiles, RunPrepared, IntendSpawn, MakeInput, Fails, SaveOrFail, StoreOrFail, Pcs
    <3>2. InputPrepared(i, o) \/ Exec(i, o) \/ Spawned(i, o) \/ Rollback(i, o)
            => \E p \in Pcs : p \notin {"stopped", "cleanup"} /\ Goto(i, o, p)
      BY DEF InputPrepared, Exec, Spawned, Rollback, SaveOrFail, Pcs
    <3> QED
      BY <3>1, <3>2
  <2> QED
    BY <1>1, <2>1 DEF Goto, WorkersType
<1>9. FileFacts(i, o)'
  BY <1>5, <1>6, <1>7, <1>8 DEF FileFacts
<1>10. CASE PrepareFiles(i, o) /\ Goto(i, o, "cfg") /\ UNCHANGED <<mem, store>>
  <2>1. /\ cfg' = [cfg EXCEPT ![i] = @ \cup {mem[i].gen}] /\ fifo' = fifo
        /\ mem' = mem /\ disk' = disk
    <3>1. pc'[i][o] = "cfg"
      BY <1>1, <1>10 DEF Goto, WorkersType
    <3> QED
      BY <1>1, <1>10, <3>1 DEF PrepareFiles, Fails, Goto, WorkersType, store
  <2>2. Filed(mem[i], cfg'[i], fifo[i])
    <3>1. Filed(mem[i], cfg[i], fifo[i]) /\ Holds(mem[i])
      BY <1>1, <1>3 DEF FilesKnown, Launching, LaunchFacts
    <3>2. cfg'[i] = cfg[i] \cup {mem[i].gen} /\ mem[i].gen <= mem[i].gen
      BY <1>1, <1>4, <2>1 DEF WorldType, Gens
    <3> QED
      BY <1>4, <3>1, <3>2 DEF Filed, Holds
  <2>3. /\ Filed(mem[i], cfg[i], fifo[i])' /\ Filed(disk[i], cfg[i], fifo[i])'
        /\ \A j \in Instances : j # i => cfg'[j] = cfg[j] /\ fifo'[j] = fifo[j]
    BY <1>1, <1>4, <2>1, <2>2 DEF WorldType
  <2> QED
    BY <1>1, <1>9, <2>3, FilesFrom
<1>11. CASE MakeInput(i, o) /\ Goto(i, o, "input")
  <2>1. /\ fifo' = [fifo EXCEPT ![i] = @ \cup {mem[i].gen}] /\ cfg' = cfg
        /\ mem' = mem /\ disk' = disk
    <3>1. pc'[i][o] = "input"
      BY <1>1, <1>11 DEF Goto, WorkersType
    <3> QED
      BY <1>1, <1>11, <3>1 DEF MakeInput, Goto, WorkersType, store
  <2>2. Filed(mem[i], cfg[i], fifo'[i])
    <3>1. /\ Filed(mem[i], cfg[i], fifo[i]) /\ Holds(mem[i])
          /\ mem[i].runs[mem[i].gen].spawnAttempted
      BY <1>1, <1>3, <1>11 DEF FilesKnown, Launching, LaunchFacts, MakeInput
    <3>2. fifo'[i] = fifo[i] \cup {mem[i].gen} /\ mem[i].gen <= mem[i].gen
      BY <1>1, <1>4, <2>1 DEF WorldType, Gens
    <3> QED
      BY <1>4, <3>1, <3>2 DEF Filed, Holds
  <2>3. /\ Filed(mem[i], cfg[i], fifo[i])' /\ Filed(disk[i], cfg[i], fifo[i])'
        /\ \A j \in Instances : j # i => cfg'[j] = cfg[j] /\ fifo'[j] = fifo[j]
    BY <1>1, <1>4, <2>1, <2>2 DEF WorldType
  <2> QED
    BY <1>1, <1>9, <2>3, FilesFrom
<1>12. CASE /\ ~(PrepareFiles(i, o) /\ Goto(i, o, "cfg") /\ UNCHANGED <<mem, store>>)
            /\ ~(MakeInput(i, o) /\ Goto(i, o, "input"))
            /\ ~(PrepareFiles(i, o) /\ cfg' # cfg)
  <2>1. \/ cfg' = cfg /\ fifo' = fifo
        \/ cfg' = cfg /\ fifo' = [fifo EXCEPT ![i] = @ \ {mem[i].gen}]
    <3>1. CASE PrepareFiles(i, o)
      BY <1>12, <3>1 DEF PrepareFiles
    <3>2. CASE MakeInput(i, o)
      BY <1>12, <3>2 DEF MakeInput
    <3>3. CASE RunPrepared(i, o) \/ IntendSpawn(i, o) \/ Spawned(i, o)
      BY <3>3 DEF RunPrepared, IntendSpawn, Spawned, world
    <3>4. CASE InputPrepared(i, o) \/ Exec(i, o) \/ Rollback(i, o)
      BY <3>4 DEF InputPrepared, Exec, Rollback
    <3> QED
      BY <3>1, <3>2, <3>3, <3>4
  <2>2. /\ cfg'[i] \subseteq cfg[i] /\ fifo'[i] \subseteq fifo[i]
        /\ \A j \in Instances : j # i => cfg'[j] = cfg[j] /\ fifo'[j] = fifo[j]
    BY <1>1, <2>1 DEF WorldType
  <2> QED
    BY <1>1, <1>2, <1>3, <1>9, <2>2, DetailFiles
<1>13. CASE PrepareFiles(i, o) /\ cfg' # cfg /\ Goto(i, o, "abort")
  <2> DEFINE x == [mem[i] EXCEPT !.runs[mem[i].gen].cfgCreated = TRUE]
  <2>1. /\ cfg' = [cfg EXCEPT ![i] = @ \cup {mem[i].gen}] /\ fifo' = fifo
        /\ StoreSaved(i, x) \/ StoreNotSaved(i, x, x)
    <3>1. pc'[i][o] = "abort"
      BY <1>1, <1>13 DEF Goto, WorkersType
    <3> QED
      BY <1>1, <1>13, <3>1 DEF PrepareFiles, Fails, Goto, WorkersType
  <2>2. mem[i] \in Instance
    BY <1>1 DEF StoreType
  <2>3. Detail(mem[i], x, o)
    BY <2>2, DetailMarks DEF RunDetail
  <2> HIDE DEF x
  <2>4. mem'[i] = x /\ disk'[i] \in {disk[i], x}
    <3>1. RecordStep(i, x, x)
      BY <2>1, SavesRecord
    <3> QED
      BY <1>1, <3>1 DEF RecordStep, StoreType
  <2>5. Filed(mem[i], cfg'[i], fifo[i])
    <3>1. Filed(mem[i], cfg[i], fifo[i]) /\ Holds(mem[i])
      BY <1>1, <1>3 DEF FilesKnown, Launching, LaunchFacts
    <3>2. cfg'[i] = cfg[i] \cup {mem[i].gen} /\ mem[i].gen <= mem[i].gen
      BY <1>1, <1>4, <2>1 DEF WorldType, Gens
    <3> QED
      BY <1>4, <3>1, <3>2 DEF Filed, Holds
  <2>6. Holds(mem[i]) /\ cfg'[i] \in SUBSET Gens /\ fifo[i] \in SUBSET Gens /\ fifo'[i] = fifo[i]
    BY <1>1, <1>3, <1>4, <2>1 DEF WorldType, Launching, LaunchFacts
  <2>7. Filed(x, cfg'[i], fifo[i])
    BY <2>3, <2>5, <2>6, DetailFiled
  <2>8. /\ Filed(mem[i], cfg[i], fifo[i])' /\ Filed(disk[i], cfg[i], fifo[i])'
        /\ \A j \in Instances : j # i => cfg'[j] = cfg[j] /\ fifo'[j] = fifo[j]
    BY <1>1, <1>4, <2>1, <2>4, <2>5, <2>6, <2>7 DEF WorldType
  <2> QED
    BY <1>1, <1>9, <2>8, FilesFrom
<1> QED
  <2>1. PrepareFiles(i, o) /\ cfg' # cfg =>
          Goto(i, o, "abort") \/ (Goto(i, o, "cfg") /\ UNCHANGED <<mem, store>>)
    BY DEF PrepareFiles
  <2> QED
    BY <1>10, <1>11, <1>12, <1>13, <2>1

(* The first steps of launch and stop, the observations and the returns.   *)
LEMMA StopFiles ==
  ASSUME IInv, IInv', OwnedInv, ShownInv, AskedInv, FilesKnown,
         NEW i \in Instances, NEW o \in OpIds, up,
         \/ Launch(i, o) \/ BeginStop(i, o) \/ BeginCleanup(i, o) \/ Leave(i, o) \/ Abort(i, o)
         \/ \E c \in BOOLEAN : Stopped(i, o, c) \/ TimedOut(i, o, c)
         \/ \E v \in Verdicts, late \in BOOLEAN : Tick(i, o, v, late)
  PROVE  FilesKnown'
<1>1. TypeOK /\ Launching /\ StoreType /\ WorkersType /\ StoreType' /\ mem[i] \in Instance
  <2>1. TypeOK /\ Launching /\ TypeOK'
    BY DEF IInv
  <2>2. StoreType /\ WorkersType
    BY <2>1, TypeParts
  <2> QED
    BY <2>1, <2>2 DEF TypeOK, StoreType
<1>2. WorkerStep(i, o)
  BY DEF WorkerStep, LaunchStep, StopStep
<1>3. WorkerDetail(i, o)
  <2>1. CASE Launch(i, o)
    BY <1>1, <2>1, LaunchDetails
  <2> QED
    BY <1>1, <2>1, ObserveDetails
<1>4. Busy(i, o)
  BY DEF Launch, BeginStop, BeginCleanup, Leave, Abort, Stopped, TimedOut, Tick, Busy
<1>5. cfg' = cfg /\ fifo' = fifo
  BY DEF Launch, BeginStop, BeginCleanup, Leave, Abort, Stopped, TimedOut, Tick, world
<1>6. CASE BeginStop(i, o) /\ pc'[i][o] = "stopped"
  <2>1. mem' = mem /\ mem[i].process = "stopped"
    BY <1>1, <1>6 DEF BeginStop, SaveOrFail, Fails, Goto, WorkersType
  <2>2. FileFacts(i, o)'
    BY <1>6, <2>1 DEF FileFacts, LaunchPcs
  <2> QED
    BY <1>1, <1>2, <1>3, <1>4, <1>5, <2>2, DetailFiles
<1>7. CASE BeginCleanup(i, o) /\ pc'[i][o] = "cleanup"
  <2>1. mem' = [mem EXCEPT ![i] = AtPhase(mem[i], o, "cleanup")] /\ pc[i][o] = "stopped"
    BY <1>1, <1>7 DEF BeginCleanup, SaveOrFail, Saved, StoreSaved, Published, Goto, WorkersType
  <2>2. mem'[i].process = mem[i].process
    BY <1>1, <2>1, AtPhaseType DEF SameProcess, StoreType
  <2>3. FileFacts(i, o)'
    BY <1>7, <2>1, <2>2 DEF FileFacts, LaunchPcs, FilesKnown
  <2> QED
    BY <1>1, <1>2, <1>3, <1>4, <1>5, <2>3, DetailFiles
<1>8. ASSUME NEW c \in BOOLEAN, Stopped(i, o, c), pc'[i][o] = "stopped"
      PROVE  FilesKnown'
  <2> DEFINE x == StopResult(mem[i], c)
             y == [x EXCEPT !.room = "unknown"]
  <2>1. mem' = [mem EXCEPT ![i] = y] /\ c
    BY <1>1, <1>8 DEF Stopped, SaveOrFail, Saved, StoreSaved, Published, Goto, WorkersType
  <2>2. x \in Instance /\ x.process = "stopped"
    BY <1>1, <2>1, StopResultKeeps
  <2> HIDE DEF x
  <2>3. y.process = "stopped"
    BY <2>2 DEF Instance
  <2>4. mem'[i] = y
    BY <1>1, <2>1 DEF StoreType
  <2>5. FileFacts(i, o)'
    BY <1>8, <2>3, <2>4 DEF FileFacts, LaunchPcs
  <2> QED
    BY <1>1, <1>2, <1>3, <1>4, <1>5, <2>5, DetailFiles
<1>9. CASE pc'[i][o] \notin LaunchPcs \cup {"stopped", "cleanup"}
  <2>1. FileFacts(i, o)'
    BY <1>9 DEF FileFacts, LaunchPcs
  <2> QED
    BY <1>1, <1>2, <1>3, <1>4, <1>5, <2>1, DetailFiles
<1>10. pc'[i][o] \in LaunchPcs \cup {"stopped", "cleanup"} =>
         \/ BeginStop(i, o) /\ pc'[i][o] = "stopped"
         \/ BeginCleanup(i, o) /\ pc'[i][o] = "cleanup"
         \/ \E c \in BOOLEAN : Stopped(i, o, c) /\ pc'[i][o] = "stopped"
  <2>1. CASE Launch(i, o) \/ Leave(i, o) \/ Abort(i, o)
    BY <1>1, <2>1 DEF Launch, Leave, Abort, SaveOrFail, Fails, Goto, WorkersType, LaunchPcs
  <2>2. CASE BeginStop(i, o) \/ BeginCleanup(i, o)
    BY <1>1, <2>2 DEF BeginStop, BeginCleanup, SaveOrFail, Fails, Goto, WorkersType, LaunchPcs
  <2>3. ASSUME NEW c \in BOOLEAN, Stopped(i, o, c) \/ TimedOut(i, o, c),
               pc'[i][o] \in LaunchPcs \cup {"stopped", "cleanup"}
        PROVE  Stopped(i, o, c) /\ pc'[i][o] = "stopped"
    BY <1>1, <2>3 DEF Stopped, TimedOut, SaveOrFail, Goto, WorkersType, LaunchPcs
  <2>4. ASSUME NEW v \in Verdicts, NEW late \in BOOLEAN, Tick(i, o, v, late)
        PROVE  pc'[i][o] \notin LaunchPcs \cup {"stopped", "cleanup"}
    BY <1>1, <2>4 DEF Tick, Goto, WorkersType, LaunchPcs
  <2> QED
    BY <2>1, <2>2, <2>3, <2>4
<1> QED
  BY <1>6, <1>7, <1>8, <1>9, <1>10

(* The next generation has no files yet.                                   *)
LEMMA PrepareRunFiles ==
  ASSUME IInv, IInv', OwnedInv, FilesKnown, NEW i \in Instances, NEW o \in OpIds, up,
         PrepareRun(i, o)
  PROVE  FilesKnown'
<1>1. StoreType /\ WorkersType /\ StoreType' /\ mem[i] \in Instance
  BY TypeParts DEF IInv, TypeOK, StoreType
<1>2. WorkerStep(i, o) /\ cfg' = cfg /\ fifo' = fifo
  BY DEF WorkerStep, LaunchStep, PrepareRun, world
<1>3. CASE Fails(i, o)
  <2>1. mem' = mem /\ disk' = disk /\ pc'[i][o] = "abort"
    BY <1>1, <1>3 DEF Fails, store, Goto, WorkersType
  <2>2. FileFacts(i, o)'
    BY <2>1 DEF FileFacts, LaunchPcs
  <2>3. Filed(mem[i], cfg[i], fifo[i])' /\ Filed(disk[i], cfg[i], fifo[i])'
    BY <1>2, <2>1 DEF FilesKnown
  <2> QED
    BY <1>2, <2>2, <2>3, FilesFrom
<1>4. CASE ~Fails(i, o)
  <2> DEFINE x == [mem[i] EXCEPT !.gen = @ + 1]
             g == mem[i].gen + 1
  <2>1. MayPrepare(mem[i]) /\ mem[i].gen < MaxGen /\ StoreOrFail(i, o, x, x, "files")
    BY <1>4 DEF PrepareRun
  <2>2. g \in Gens /\ mem[i].gen \in Nat
    BY <1>1, <2>1, BoundsAssumption DEF Instance, Gens
  <2>3. /\ x \in Instance /\ x.gen = g /\ x.runs = mem[i].runs /\ x.lifecycle = "active"
    BY <1>1, <2>1, <2>2 DEF Instance, Gens, MayPrepare
  <2>4. \/ mem' = [mem EXCEPT ![i] = x] /\ disk' = mem'
        \/ /\ mem' = [mem EXCEPT ![i] = x] /\ (disk' = disk \/ disk' = [mem EXCEPT ![i] = x])
           /\ Goto(i, o, "abort")
    BY <2>1 DEF StoreOrFail, StoreSaved, StoreNotSaved, Published, Rejected, Faulted
  <2> HIDE DEF x
  <2>5. Filed(mem[i], cfg[i], fifo[i]) /\ Filed(disk[i], cfg[i], fifo[i])
    BY DEF FilesKnown
  <2>6. Filed(x, cfg[i], fifo[i])
    <3>1. \A h \in Gens : /\ h <= mem[i].gen => h <= x.gen
                          /\ h > x.gen => h > mem[i].gen
      BY <2>2, <2>3 DEF Gens
    <3>2. cfg[i] \subseteq Gens /\ fifo[i] \subseteq Gens
      BY DEF IInv, TypeOK
    <3> QED
      BY <2>3, <2>5, <3>1, <3>2 DEF Filed
  <2>7. mem'[i] = x /\ disk'[i] \in {x, disk[i]} /\ (disk'[i] = x \/ Goto(i, o, "abort"))
    BY <1>1, <2>4 DEF StoreType
  <2>8. Filed(mem[i], cfg[i], fifo[i])' /\ Filed(disk[i], cfg[i], fifo[i])'
    BY <1>2, <2>5, <2>6, <2>7
  <2>9. x.runs[x.gen] = NewRun
    <3>1. g > mem[i].gen
      BY <2>2
    <3> QED
      BY <2>2, <2>3, <2>5, <3>1 DEF Filed
  <2>10. pc'[i][o] \in {"files", "abort"} /\ (pc'[i][o] = "files" => disk'[i] = x)
    BY <1>1, <2>1, <2>7 DEF StoreOrFail, Goto, WorkersType
  <2>11. FileFacts(i, o)'
    BY <2>7, <2>9, <2>10 DEF FileFacts, LaunchPcs, NewRun
  <2> QED
    BY <1>2, <2>8, <2>11, FilesFrom
<1> QED
  BY <1>3, <1>4

----------------------------------------------------------------------------
(* The cleanup. *)

(* y is x with files recorded as removed that are not there.               *)
Cleaned(x, y, C, F) ==
    /\ y \in Instance
    /\ y.gen = x.gen /\ y.nops = x.nops /\ y.port = x.port /\ y.ops = x.ops
    /\ y.lifecycle = x.lifecycle /\ y.process = x.process
    /\ \A g \in Gens :
         /\ y.runs[g].spawnAttempted = x.runs[g].spawnAttempted
         /\ ValidRun(x.runs[g]) => ValidRun(y.runs[g])
         /\ g \in C => y.runs[g].cfgRemoved = x.runs[g].cfgRemoved
         /\ g \in F => y.runs[g].inputRemoved = x.runs[g].inputRemoved
         /\ g > x.gen => y.runs[g] = x.runs[g]

(* A run is marked clean once its file is gone.                            *)
LEMMA CleanedMarks ==
  ASSUME NEW x \in Instance, NEW g, g <= x.gen, NEW C, NEW F
  PROVE  /\ Cleaned(x, x, C, F)
         /\ g \notin F => Cleaned(x, [x EXCEPT !.runs[g].inputRemoved = TRUE], C, F)
         /\ g \notin C => Cleaned(x, [x EXCEPT !.runs[g].cfgRemoved = TRUE], C, F)
<1>1. x.runs \in [Gens -> Run] /\ x.gen \in Nat
  BY BoundsAssumption DEF Instance
<1>2. \A h \in Gens : h > x.gen => h # g
  BY <1>1 DEF Gens
<1>3. Cleaned(x, x, C, F)
  BY DEF Cleaned
<1>4. ASSUME g \notin F PROVE Cleaned(x, [x EXCEPT !.runs[g].inputRemoved = TRUE], C, F)
  <2>1. [x EXCEPT !.runs[g].inputRemoved = TRUE] \in Instance
    BY RunMarks DEF Kept
  <2>2. [x EXCEPT !.runs[g].inputRemoved = TRUE].runs =
          [x.runs EXCEPT ![g] = [@ EXCEPT !.inputRemoved = TRUE]]
    BY DEF Instance
  <2>3. \A h \in Gens : h # g =>
          [x.runs EXCEPT ![g] = [@ EXCEPT !.inputRemoved = TRUE]][h] = x.runs[h]
    BY <1>1
  <2>4. g \in Gens => [x.runs EXCEPT ![g] = [@ EXCEPT !.inputRemoved = TRUE]][g]
                       = [x.runs[g] EXCEPT !.inputRemoved = TRUE]
    BY <1>1
  <2>5. g \in Gens =>
          LET r == [x.runs[g] EXCEPT !.inputRemoved = TRUE]
          IN  /\ r.spawnAttempted = x.runs[g].spawnAttempted
              /\ ValidRun(x.runs[g]) => ValidRun(r)
              /\ r.cfgRemoved = x.runs[g].cfgRemoved
    <3>1. SUFFICES ASSUME g \in Gens
                   PROVE  LET r == [x.runs[g] EXCEPT !.inputRemoved = TRUE]
                          IN  /\ r.spawnAttempted = x.runs[g].spawnAttempted
                              /\ ValidRun(x.runs[g]) => ValidRun(r)
                              /\ r.cfgRemoved = x.runs[g].cfgRemoved
      OBVIOUS
    <3>2. x.runs[g] \in Run
      BY <1>1, <3>1
    <3> QED
      BY <3>2 DEF Run, ValidRun
  <2> QED
    BY <1>2, <1>4, <2>1, <2>2, <2>3, <2>4, <2>5 DEF Cleaned, Instance
<1>5. ASSUME g \notin C PROVE Cleaned(x, [x EXCEPT !.runs[g].cfgRemoved = TRUE], C, F)
  <2>1. [x EXCEPT !.runs[g].cfgRemoved = TRUE] \in Instance
    BY RunMarks DEF Kept
  <2>2. [x EXCEPT !.runs[g].cfgRemoved = TRUE].runs =
          [x.runs EXCEPT ![g] = [@ EXCEPT !.cfgRemoved = TRUE]]
    BY DEF Instance
  <2>3. \A h \in Gens : h # g =>
          [x.runs EXCEPT ![g] = [@ EXCEPT !.cfgRemoved = TRUE]][h] = x.runs[h]
    BY <1>1
  <2>4. g \in Gens => [x.runs EXCEPT ![g] = [@ EXCEPT !.cfgRemoved = TRUE]][g]
                       = [x.runs[g] EXCEPT !.cfgRemoved = TRUE]
    BY <1>1
  <2>5. g \in Gens =>
          LET r == [x.runs[g] EXCEPT !.cfgRemoved = TRUE]
          IN  /\ r.spawnAttempted = x.runs[g].spawnAttempted
              /\ ValidRun(x.runs[g]) => ValidRun(r)
              /\ r.inputRemoved = x.runs[g].inputRemoved
    <3>1. SUFFICES ASSUME g \in Gens
                   PROVE  LET r == [x.runs[g] EXCEPT !.cfgRemoved = TRUE]
                          IN  /\ r.spawnAttempted = x.runs[g].spawnAttempted
                              /\ ValidRun(x.runs[g]) => ValidRun(r)
                              /\ r.inputRemoved = x.runs[g].inputRemoved
      OBVIOUS
    <3>2. x.runs[g] \in Run
      BY <1>1, <3>1
    <3> QED
      BY <3>2 DEF Run, ValidRun
  <2> QED
    BY <1>2, <1>5, <2>1, <2>2, <2>3, <2>4, <2>5 DEF Cleaned, Instance
<1> QED
  BY <1>3, <1>4, <1>5

(* The record accounts for the same files.                                 *)
LEMMA CleanedFiled ==
  ASSUME NEW x, NEW y, NEW C \in SUBSET Gens, NEW F \in SUBSET Gens,
         Cleaned(x, y, C, F), Filed(x, C, F), Holds(x)
  PROVE  Filed(y, C, F)
<1>1. x.lifecycle # "reclaimed"
  BY DEF Holds
<1> QED
  BY <1>1 DEF Cleaned, Filed

(* What a cleanup leaves in memory, z, and may write, x.                   *)
CleanupStep(i, o) ==
    \E z, x :
      /\ RecordStep(i, z, x) /\ Cleaned(mem[i], x, cfg[i], fifo[i])
      /\ RunDetail(x, z, o) \/ (wedged' /\ Detail(x, z, o) /\ PhaseOk(z, o))
      /\ pc'[i][o] = "cleanup" => z = x

(* What a step of the cleanup leaves, and the files it leaves.             *)
LEMMA CleanupSteps ==
  ASSUME StoreType, WorkersType, NEW i \in Instances, NEW o \in OpIds,
         CleanInput(i, o) \/ CleanupRun(i, o)
  PROVE  CleanupStep(i, o)
<1> DEFINE m == mem[i]
           C == cfg[i]
           F == fifo[i]
<1>1. m \in Instance
  BY DEF StoreType
<1>2. CASE UNCHANGED <<mem, store>>
  <2>1. RecordStep(i, m, m)
    BY <1>2 DEF RecordStep, StoreType, store
  <2>2. Cleaned(m, m, C, F) /\ RunDetail(m, m, o)
    <3>1. m.gen <= m.gen
      BY <1>1 DEF Instance
    <3> QED
      BY <1>1, <3>1, CleanedMarks, DetailSelf
  <2> QED
    BY <2>1, <2>2 DEF CleanupStep
<1>3. CASE CleanupFails(i, o)
  <2> DEFINE z == [m EXCEPT !.cleanup = "failed"]
  <2>1. RecordStep(i, z, m) /\ pc'[i][o] = "abort"
    BY <1>3 DEF CleanupFails, InMemory, RecordStep, store, Goto, WorkersType
  <2>2. Cleaned(m, m, C, F)
    <3>1. m.gen <= m.gen
      BY <1>1 DEF Instance
    <3> QED
      BY <1>1, <3>1, CleanedMarks
  <2>3. z \in Instance /\ z.gen = m.gen /\ z.nops = m.nops /\ z.port = m.port
        /\ z.lifecycle = m.lifecycle /\ z.runs = m.runs /\ z.ops = m.ops
    BY <1>1 DEF Instance
  <2> HIDE DEF z, m
  <2>4. RunDetail(m, z, o)
    BY <1>1, <2>3, DetailFields
  <2> QED
    BY <2>1, <2>2, <2>4 DEF CleanupStep, m
<1>4. ASSUME NEW g \in Gens, g <= m.gen, g \notin F,
             SaveOrFail(i, o, [m EXCEPT !.runs[g].inputRemoved = TRUE], "cleanup")
      PROVE  CleanupStep(i, o)
  <2> DEFINE x == [m EXCEPT !.runs[g].inputRemoved = TRUE]
  <2>1. Cleaned(m, x, C, F)
    BY <1>1, <1>4, CleanedMarks
  <2> HIDE DEF x
  <2>2. SaveOrFail(i, o, x, "cleanup")
    BY <1>4 DEF x
  <2>3. x \in Instance
    BY <2>1 DEF Cleaned
  <2>4. \/ RecordStep(i, x, x)
        \/ RecordStep(i, FailedSave(x, o), x) /\ wedged' /\ pc'[i][o] = "exit"
    BY <2>2 DEF SaveOrFail, Saved, NotSaved, StoreSaved, Published, Rejected, Faulted,
                RecordStep, Goto, WorkersType
  <2>5. RunDetail(x, x, o) /\ Detail(x, FailedSave(x, o), o) /\ PhaseOk(FailedSave(x, o), o)
    BY <2>3, DetailSelf, DetailOps
  <2> QED
    BY <2>1, <2>4, <2>5 DEF CleanupStep
<1>5. ASSUME NEW g \in Gens, g <= m.gen, g \notin C,
             LET x == [m EXCEPT !.runs[g].cfgRemoved = TRUE]
             IN  \/ StoreSaved(i, x)
                 \/ StoreNotSaved(i, x, [x EXCEPT !.cleanup = "failed"]) /\ Goto(i, o, "abort")
      PROVE  CleanupStep(i, o)
  <2> DEFINE x == [m EXCEPT !.runs[g].cfgRemoved = TRUE]
             z == [x EXCEPT !.cleanup = "failed"]
  <2>1. Cleaned(m, x, C, F)
    BY <1>1, <1>5, CleanedMarks
  <2> HIDE DEF x
  <2>2. \/ StoreSaved(i, x)
        \/ StoreNotSaved(i, x, z) /\ Goto(i, o, "abort")
    BY <1>5 DEF x
  <2>3. x \in Instance
    BY <2>1 DEF Cleaned
  <2>4. z \in Instance /\ z.gen = x.gen /\ z.nops = x.nops /\ z.port = x.port
        /\ z.lifecycle = x.lifecycle /\ z.runs = x.runs /\ z.ops = x.ops
    BY <2>3 DEF Instance
  <2> HIDE DEF z
  <2>5. RunDetail(x, x, o) /\ RunDetail(x, z, o)
    BY <2>3, <2>4, DetailSelf, DetailFields
  <2>6. \/ RecordStep(i, x, x)
        \/ RecordStep(i, z, x) /\ pc'[i][o] = "abort"
    BY <2>2 DEF StoreSaved, StoreNotSaved, Published, Rejected, Faulted, RecordStep,
                Goto, WorkersType
  <2> QED
    BY <2>1, <2>5, <2>6 DEF CleanupStep
<1>6. CASE CleanInput(i, o)
  <2>1. PICK g \in Gens :
          /\ Cleaning(i, g)
          /\ \/ CleanupFails(i, o)
             \/ UNCHANGED <<mem, store, pc>>
             \/ /\ g \notin fifo[i]
                /\ SaveOrFail(i, o, [mem[i] EXCEPT !.runs[g].inputRemoved = TRUE], "cleanup")
    BY <1>6 DEF CleanInput
  <2>2. g <= m.gen
    BY <1>1, <2>1 DEF Cleaning, Instance
  <2> QED
    BY <1>2, <1>3, <1>4, <2>1, <2>2
<1>7. CASE CleanupRun(i, o)
  <2>1. PICK g \in Gens :
          /\ Cleaning(i, g)
          /\ \/ CleanupFails(i, o)
             \/ UNCHANGED <<mem, store, pc>>
             \/ /\ g \notin cfg[i]
                /\ LET x == [mem[i] EXCEPT !.runs[g].cfgRemoved = TRUE]
                   IN  \/ StoreSaved(i, x)
                       \/ StoreNotSaved(i, x, [x EXCEPT !.cleanup = "failed"])
                          /\ Goto(i, o, "abort")
    BY <1>7 DEF CleanupRun
  <2>2. g <= m.gen
    BY <1>1, <2>1 DEF Cleaning, Instance
  <2> QED
    BY <1>2, <1>3, <1>5, <2>1, <2>2
<1> QED
  BY <1>6, <1>7

(* A removed file is accounted for, and so is one that could not be.       *)
LEMMA CleanupFiles ==
  ASSUME IInv, IInv', OwnedInv, FilesKnown, NEW i \in Instances, NEW o \in OpIds, up,
         CleanInput(i, o) \/ CleanupRun(i, o)
  PROVE  FilesKnown'
<1>1. TypeOK /\ StoreType /\ WorkersType /\ WorldType
  BY TypeParts DEF IInv
<1>2. WorkerStep(i, o)
  BY DEF WorkerStep, StopStep
<1>3. PICK z, x :
         /\ RecordStep(i, z, x) /\ Cleaned(mem[i], x, cfg[i], fifo[i])
         /\ RunDetail(x, z, o) \/ (wedged' /\ Detail(x, z, o) /\ PhaseOk(z, o))
         /\ pc'[i][o] = "cleanup" => z = x
  BY <1>1, CleanupSteps DEF CleanupStep
<1>4. mem'[i] = z /\ (disk'[i] = disk[i] \/ disk'[i] = x)
  BY <1>1, <1>3 DEF RecordStep, StoreType
<1>5. pc[i][o] = "cleanup" /\ Holds(mem[i])
  BY DEF CleanInput, CleanupRun, OwnedInv, Owned, Manned, Busy
<1>6. /\ cfg'[i] \subseteq cfg[i] /\ fifo'[i] \subseteq fifo[i]
      /\ \A j \in Instances : j # i => cfg'[j] = cfg[j] /\ fifo'[j] = fifo[j]
  <2>1. /\ cfg' = cfg \/ \E g \in Gens : cfg' = [cfg EXCEPT ![i] = @ \ {g}]
        /\ fifo' = fifo \/ \E g \in Gens : fifo' = [fifo EXCEPT ![i] = @ \ {g}]
    BY DEF CleanInput, CleanupRun
  <2> QED
    BY <1>1, <2>1 DEF WorldType
<1>7. cfg[i] \in SUBSET Gens /\ fifo[i] \in SUBSET Gens
  BY <1>1 DEF WorldType
<1>8. Filed(x, cfg[i], fifo[i]) /\ Holds(x)
  BY <1>3, <1>5, <1>7, CleanedFiled DEF FilesKnown, Cleaned, Holds
<1>9. Detail(x, z, o) /\ Detail(x, x, o)
  BY <1>3, DetailSelf DEF RunDetail, Cleaned
<1>10. Filed(z, cfg'[i], fifo'[i]) /\ Filed(x, cfg'[i], fifo'[i])
  BY <1>6, <1>7, <1>8, <1>9, DetailFiled
<1>11. Filed(disk[i], cfg'[i], fifo'[i])
  BY <1>6, <1>7, DetailFiled DEF FilesKnown
<1>12. Filed(mem[i], cfg[i], fifo[i])' /\ Filed(disk[i], cfg[i], fifo[i])'
  BY <1>4, <1>10, <1>11
<1>13. pc'[i][o] \in {"cleanup", "abort", "exit"}
  <2>1. pc' = pc \/ \E p \in {"cleanup", "abort", "exit"} : Goto(i, o, p)
    <3>1. CASE CleanInput(i, o)
      BY <3>1 DEF CleanInput, CleanupFails, SaveOrFail
    <3>2. CASE CleanupRun(i, o)
      BY <3>2 DEF CleanupRun, CleanupFails
    <3> QED
      BY <3>1, <3>2
  <2> QED
    BY <1>1, <1>5, <2>1 DEF Goto, WorkersType
<1>14. mem[i].process = "stopped"
  BY <1>5 DEF FilesKnown, FileFacts
<1>15. FileFacts(i, o)'
  BY <1>3, <1>4, <1>13, <1>14 DEF FileFacts, LaunchPcs, Cleaned
<1> QED
  BY <1>2, <1>6, <1>12, <1>15, FilesFrom

(* When the cleanup loop finds no run, every run is clean.                 *)
LEMMA AllCleanRuns ==
  ASSUME NEW i \in Instances, mem[i] \in Instance, AllClean(i), NEW g \in 1..mem[i].gen
  PROVE  ~NeedsInput(mem[i].runs[g]) /\ mem[i].runs[g].cfgRemoved
<1> DEFINE R == OpToRel(<, Nat)
           Dirty == {h \in 1..mem[i].gen :
                       NeedsInput(mem[i].runs[h]) \/ ~mem[i].runs[h].cfgRemoved}
<1>1. SUFFICES ASSUME Dirty # {} PROVE FALSE
  <2>1. g \notin Dirty
    BY <1>1
  <2> QED
    BY <2>1
<1>2. mem[i].gen \in 0..MaxGen
  BY DEF Instance
<1>3. IsWellFoundedOn(R, Nat)
  BY NatLessThanWellFounded
<1>4. \A x, y \in Nat : <<y, x>> \in R <=> y < x
  BY DEF OpToRel
<1>5. Dirty \subseteq Nat
  OBVIOUS
<1> HIDE DEF R, Dirty
<1>6. PICK h \in Dirty : \A y \in Dirty : ~(<<y, h>> \in R)
  BY <1>1, <1>3, <1>5, WFMin
<1>7. \A y \in 1..(h - 1) : y \in 1..mem[i].gen /\ y < h
  BY <1>2, <1>5, <1>6, BoundsAssumption DEF Dirty
<1>8. \A y \in 1..(h - 1) : y \notin Dirty
  BY <1>4, <1>5, <1>6, <1>7
<1>9. Cleaning(i, h) /\ h \in Gens
  <2>1. h \in 1..mem[i].gen /\ h \in Gens
    BY <1>2, <1>6, BoundsAssumption DEF Dirty, Gens
  <2> QED
    BY <1>6, <1>7, <1>8, <2>1 DEF Dirty, Cleaning
<1> QED
  BY <1>9 DEF AllClean

(* The room is given up: no file of it is left but the inputs of launches  *)
(* that were cut off.                                                      *)
LEMMA ReclaimedFiled ==
  ASSUME NEW i \in Instances, mem[i] \in Instance, AllClean(i),
         NEW C \in SUBSET Gens, NEW F \in SUBSET Gens, Filed(mem[i], C, F)
  PROVE  Filed(Reclaimed(mem[i]), C, F)
<1> DEFINE x == mem[i]
<1>1. /\ Reclaimed(x).gen = x.gen /\ Reclaimed(x).runs = x.runs
  BY DEF Reclaimed, Instance
<1>2. \A g \in Gens : g <= x.gen => g \in 1..x.gen
  BY BoundsAssumption DEF Gens, Instance
<1>3. \A g \in Gens : g <= x.gen => ~NeedsInput(x.runs[g]) /\ x.runs[g].cfgRemoved
  BY <1>2, AllCleanRuns
<1>4. C = {}
  BY <1>3 DEF Filed
<1>5. \A g \in F : ~x.runs[g].input /\ x.runs[g].identity = "none"
  BY <1>3 DEF Filed, NeedsInput
<1> QED
  BY <1>1, <1>4, <1>5 DEF Filed

(* The end of a stop, the way back to launch and the worker's return.      *)
LEMMA FinishFiles ==
  ASSUME IInv, IInv', OwnedInv, FilesKnown, NEW i \in Instances, NEW o \in OpIds, up,
         FinishStop(i, o) \/ Relaunch(i, o) \/ FinishWorker(i, o)
  PROVE  FilesKnown'
<1>1. TypeOK /\ StoreType /\ WorkersType /\ WorldType /\ mem[i] \in Instance
  BY TypeParts DEF IInv, TypeOK
<1>2. WorkerStep(i, o) /\ cfg' = cfg /\ fifo' = fifo
  BY DEF WorkerStep, StopStep, FinishStop, Relaunch, FinishWorker, world
<1>3. pc'[i][o] \in {"exit", "start", "none"}
  BY <1>1 DEF FinishStop, Relaunch, FinishWorker, Goto, WorkersType
<1>4. FileFacts(i, o)'
  BY <1>3 DEF FileFacts, LaunchPcs
<1>5. cfg[i] \in SUBSET Gens /\ fifo[i] \in SUBSET Gens
  BY <1>1 DEF WorldType
<1>6. Filed(mem[i], cfg[i], fifo[i]) /\ Filed(disk[i], cfg[i], fifo[i])
  BY DEF FilesKnown
<1>7. CASE FinishWorker(i, o)
  BY <1>2, <1>4, <1>6, <1>7, FilesFrom DEF FinishWorker, store
<1>8. CASE Relaunch(i, o)
  <2> DEFINE z == [mem[i] EXCEPT !.lifecycle = "active", !.cleanup = "pending", !.err = FALSE]
  <2>1. z.runs = mem[i].runs /\ z.gen = mem[i].gen /\ z.lifecycle = "active"
    BY <1>1 DEF Instance
  <2>2. mem'[i] = z /\ disk' = disk
    BY <1>1, <1>8 DEF Relaunch, InMemory, store, StoreType
  <2> HIDE DEF z
  <2>3. Filed(z, cfg[i], fifo[i])
    BY <1>5, <1>6, <2>1, DetailFiled
  <2> QED
    BY <1>2, <1>4, <1>6, <2>2, <2>3, FilesFrom
<1>9. CASE FinishStop(i, o)
  <2> DEFINE R == Reclaimed(mem[i])
             x == EndOp(R, o, "succeeded")
  <2>1. Filed(R, cfg[i], fifo[i])
    BY <1>1, <1>5, <1>6, <1>9, ReclaimedFiled DEF FinishStop
  <2>2. R \in Instance /\ R.lifecycle = "reclaimed"
    BY <1>1 DEF Reclaimed, Instance
  <2>3. Finishes(i, o, R, x)
    BY <1>9 DEF FinishStop
  <2> HIDE DEF R
  <2>4. x \in Instance /\ SameProcess(R, x)
    BY <2>2, EndOpType
  <2> HIDE DEF x
  <2>5. FailedSave(x, o) \in Instance /\ SameProcess(x, FailedSave(x, o))
    BY <2>4, FailedSaveType
  <2>6. PICK z \in {R, x, FailedSave(x, o)} : RecordStep(i, z, x)
    BY <1>1, <2>2, <2>3, <2>4, FinishesStep
  <2>7. /\ x.runs = R.runs /\ x.gen = R.gen /\ z.runs = R.runs /\ z.gen = R.gen
    BY <2>4, <2>5 DEF SameProcess
  <2>8. Filed(x, cfg[i], fifo[i]) /\ Filed(z, cfg[i], fifo[i])
    BY <1>5, <2>1, <2>2, <2>7, DetailFiled
  <2>9. mem'[i] = z /\ (disk'[i] = disk[i] \/ disk'[i] = x)
    BY <1>1, <2>6 DEF RecordStep, StoreType
  <2> QED
    BY <1>2, <1>4, <1>6, <2>8, <2>9, FilesFrom
<1> QED
  BY <1>7, <1>8, <1>9

(* Every step of a worker.                                                 *)
LEMMA WorkerFiles ==
  ASSUME IInv, IInv', OwnedInv, ShownInv, AskedInv, FilesKnown, up,
         NEW i \in Instances, NEW o \in OpIds, WorkerStep(i, o)
  PROVE  FilesKnown'
BY PrepareRunFiles, LaunchFiles, StopFiles, CleanupFiles, FinishFiles
   DEF WorkerStep, LaunchStep, StopStep

(* What watch leaves of a record: all but its room, its process and, when  *)
(* it failed, its lifecycle.                                               *)
Watched(x, y) ==
    /\ y \in Instance
    /\ y.gen = x.gen /\ y.nops = x.nops /\ y.port = x.port /\ y.runs = x.runs /\ y.ops = x.ops
    /\ y.lifecycle \in {x.lifecycle, "failed"}

(* What an observation of the watch goroutine leaves in memory, and may    *)
(* write.                                                                  *)
LEMMA WatchDetails ==
  ASSUME StoreType, NEW i \in Instances, NEW v \in Verdicts, Watch(i, v)
  PROVE  \E z, x : /\ RecordStep(i, z, x) /\ Watched(mem[i], z) /\ Watched(mem[i], x)
                   /\ wedged' \/ z = x
<1> DEFINE m == mem[i]
           x == Observed(m, v)
           b == x.err \/ ~wedged
           f == [x EXCEPT !.lifecycle = "failed", !.err = b]
           y == IF Failing(v) THEN f ELSE x
           z == [y EXCEPT !.err = TRUE]
<1>1. m \in Instance /\ Watched(m, x)
  <2>1. m \in Instance
    BY DEF StoreType
  <2>2. x \in Instance /\ x.gen = m.gen /\ x.runs = m.runs /\ x.lifecycle = m.lifecycle
    BY <2>1, ObservedType
  <2>3. x.nops = m.nops /\ x.port = m.port /\ x.ops = m.ops
    BY <2>1 DEF Observed, Verdicts, Instance
  <2> QED
    BY <2>1, <2>2, <2>3 DEF Watched
<1>2. Saved(i, y) \/ NotSaved(i, y, z)
  BY DEF Watch
<1>3. b \in BOOLEAN /\ x \in Instance
  BY <1>1 DEF Instance, StoreType, Watched
<1> HIDE DEF x, b, m
<1>4. Watched(m, f)
  BY <1>1, <1>3 DEF Watched, Instance
<1>5. Watched(m, y)
  BY <1>1, <1>4
<1> HIDE DEF f, y
<1>6. Watched(m, z)
  BY <1>5 DEF Watched, Instance
<1> HIDE DEF z
<1>7. RecordStep(i, y, y) \/ (RecordStep(i, z, y) /\ wedged')
  BY <1>2 DEF Saved, NotSaved, StoreSaved, Published, Rejected, Faulted, RecordStep
<1> QED
  BY <1>5, <1>6, <1>7 DEF m

(* A step that finds the mutex free, from what it makes of instance i.     *)
LEMMA FreeFiles ==
  ASSUME IInv, FilesKnown, Free, NEW i \in Instances, cfg' = cfg, fifo' = fifo,
         \A j \in Instances : j # i =>
            mem'[j] = mem[j] /\ pc'[j] = pc[j] /\ (disk'[j] = disk[j] \/ disk'[j] = mem[j]),
         \A q \in OpIds : pc'[i][q] = pc[i][q] \/ pc'[i][q] \in {"start", "wait", "none"},
         Filed(mem'[i], cfg[i], fifo[i]), Filed(disk'[i], cfg[i], fifo[i])
  PROVE  FilesKnown'
<1>1. \A j \in Instances, o \in OpIds : pc'[j][o] \notin LaunchPcs \cup {"stopped", "cleanup"}
  <2>1. \A j \in Instances, o \in OpIds : pc[j][o] \notin LaunchPcs \cup {"stopped", "cleanup"}
    BY DEF Free, LockedPcs, LaunchPcs
  <2>2. \A p \in {"start", "wait", "none"} : p \notin LaunchPcs \cup {"stopped", "cleanup"}
    BY DEF LaunchPcs
  <2> QED
    BY <2>1, <2>2
<1>2. \A j \in Instances, o \in OpIds : FileFacts(j, o)'
  BY <1>1 DEF FileFacts, LaunchPcs
<1>3. up
  BY DEF Free
<1>4. \A j \in Instances : /\ Filed(mem[j], cfg[j], fifo[j])'
                           /\ Filed(disk[j], cfg[j], fifo[j])'
  BY <1>3 DEF FilesKnown
<1> QED
  BY <1>2, <1>4 DEF FilesKnown

(* A record without files, and with untouched runs, accounts for them.     *)
LEMMA EmptyFiled ==
  ASSUME NEW x, x.lifecycle # "reclaimed", \A g \in Gens : x.runs[g] = NewRun
  PROVE  Filed(x, {}, {})
BY DEF Filed

(* The requests.                                                           *)
LEMMA RequestFiles ==
  ASSUME IInv, OwnedInv, ShownInv, FilesKnown, NEW i \in Instances, Request(i)
  PROVE  FilesKnown'
<1>1. TypeOK /\ StoreType /\ WorkersType /\ WorldType
  BY TypeParts DEF IInv
<1>2. cfg[i] \in SUBSET Gens /\ fifo[i] \in SUBSET Gens
  BY <1>1 DEF WorldType
<1>3. ASSUME NEW k \in Keys, NEW p \in Ports, Create(i, k, p) PROVE FilesKnown'
  <2> DEFINE x == NewInstance(k, p)
  <2>1. Free /\ ~Exists(mem[i]) /\ ~Exists(disk[i]) /\ cfg' = cfg /\ fifo' = fifo
    BY <1>3 DEF Create, Fresh, world
  <2>2. /\ mem' = [mem EXCEPT ![i] = x] \/ mem' = [mem EXCEPT ![i] = mem[i]]
        /\ disk' = disk \/ disk' = [mem EXCEPT ![i] = x]
        /\ pc' = pc \/ Goto(i, 1, "start")
    BY <1>3 DEF Create, StoreSaved, Published, Rejected, Faulted
  <2>3. cfg[i] = {} /\ fifo[i] = {}
    <3>1. disk[i].gen = 0
      BY <2>1 DEF ShownInv, Blank
    <3>2. \A g \in Gens : ~(g <= disk[i].gen)
      BY <3>1 DEF Gens
    <3> QED
      BY <1>2, <3>2 DEF FilesKnown, Filed
  <2>4. x.lifecycle = "active" /\ \A g \in Gens : x.runs[g] = NewRun
    BY DEF NewInstance, Absent
  <2> HIDE DEF x
  <2>5. Filed(x, cfg[i], fifo[i])
    BY <2>3, <2>4, EmptyFiled
  <2>6. /\ Filed(mem[i], cfg[i], fifo[i]) /\ Filed(disk[i], cfg[i], fifo[i])
    BY <2>1 DEF FilesKnown, Free
  <2>7. \A j \in Instances : j # i =>
            mem'[j] = mem[j] /\ pc'[j] = pc[j] /\ (disk'[j] = disk[j] \/ disk'[j] = mem[j])
    BY <1>1, <2>2 DEF StoreType, WorkersType, Goto
  <2>8. \A q \in OpIds : pc'[i][q] = pc[i][q] \/ pc'[i][q] \in {"start", "wait", "none"}
    BY <1>1, <2>2 DEF WorkersType, Goto
  <2>9. mem'[i] \in {x, mem[i]} /\ disk'[i] \in {x, disk[i]}
    BY <1>1, <2>2 DEF StoreType
  <2>10. Filed(mem'[i], cfg[i], fifo[i]) /\ Filed(disk'[i], cfg[i], fifo[i])
    BY <2>5, <2>6, <2>9
  <2> QED
    BY <2>1, <2>7, <2>8, <2>10, FreeFiles
<1>4. CASE Replay(i)
  <2>1. Free /\ mem' = mem /\ disk' = disk /\ (pc' = pc \/ Goto(i, 1, "start"))
        /\ cfg' = cfg /\ fifo' = fifo
    BY <1>4 DEF Replay, store, world
  <2>2. \A j \in Instances : j # i => pc'[j] = pc[j]
    BY <1>1, <2>1 DEF WorkersType, Goto
  <2>3. \A q \in OpIds : pc'[i][q] = pc[i][q] \/ pc'[i][q] \in {"start", "wait", "none"}
    BY <1>1, <2>1 DEF WorkersType, Goto
  <2>4. Filed(mem'[i], cfg[i], fifo[i]) /\ Filed(disk'[i], cfg[i], fifo[i])
    BY <2>1 DEF FilesKnown, Free
  <2> QED
    BY <2>1, <2>2, <2>3, <2>4, FreeFiles
<1>5. ASSUME NEW kind \in {"stop", "restart"}, Change(i, kind) PROVE FilesKnown'
  <2>1. PICK y, w : /\ Changed(i, kind, y) /\ Changed(i, kind, w)
                    /\ y.lifecycle = mem[i].lifecycle
                    /\ mem' = [mem EXCEPT ![i] = w]
                    /\ disk' = disk \/ disk' = [mem EXCEPT ![i] = y]
                    /\ \/ w = y /\ Goto(i, mem[i].nops + 1, "wait")
                       \/ pc' = pc /\ w.lifecycle = "failed"
    BY <1>1, <1>5, ChangeOps
  <2>2. Free /\ Holds(mem[i]) /\ cfg' = cfg /\ fifo' = fifo
    BY <1>5 DEF Change, MayStop, MayRestart, Holds, world
  <2>3. \A j \in Instances : j # i =>
            mem'[j] = mem[j] /\ pc'[j] = pc[j] /\ (disk'[j] = disk[j] \/ disk'[j] = mem[j])
    BY <1>1, <2>1 DEF StoreType, WorkersType, Goto
  <2>4. \A q \in OpIds : pc'[i][q] = pc[i][q] \/ pc'[i][q] \in {"start", "wait", "none"}
    BY <1>1, <2>1 DEF WorkersType, Goto
  <2>5. /\ Filed(mem[i], cfg[i], fifo[i]) /\ Filed(disk[i], cfg[i], fifo[i])
    BY <2>2 DEF FilesKnown, Free
  <2>6. /\ y.runs = mem[i].runs /\ y.gen = mem[i].gen /\ w.runs = mem[i].runs
        /\ w.gen = mem[i].gen /\ y.lifecycle # "reclaimed" /\ w.lifecycle # "reclaimed"
    BY <2>1, <2>2 DEF Changed, SameProcess, Holds
  <2>7. Filed(y, cfg[i], fifo[i]) /\ Filed(w, cfg[i], fifo[i])
    BY <1>2, <2>5, <2>6, DetailFiled
  <2>8. mem'[i] = w /\ (disk'[i] = disk[i] \/ disk'[i] = y)
    BY <1>1, <2>1 DEF StoreType
  <2>9. Filed(mem'[i], cfg[i], fifo[i]) /\ Filed(disk'[i], cfg[i], fifo[i])
    BY <2>5, <2>7, <2>8
  <2> QED
    BY <2>2, <2>3, <2>4, <2>9, FreeFiles
<1> QED
  BY <1>3, <1>4, <1>5 DEF Request, Stop, Restart

(* The steps of the watch goroutine.                                       *)
LEMMA WatchFiles ==
  ASSUME IInv, FilesKnown, NEW i \in Instances, Prune(i) \/ \E v \in Verdicts : Watch(i, v)
  PROVE  FilesKnown'
<1>1. TypeOK /\ StoreType /\ WorkersType /\ WorldType
  BY TypeParts DEF IInv
<1>2. cfg[i] \in SUBSET Gens /\ fifo[i] \in SUBSET Gens
  BY <1>1 DEF WorldType
<1>3. Free /\ pc' = pc /\ cfg' = cfg /\ fifo' = fifo
  BY DEF Prune, Watch, workers, world
<1>4. /\ Filed(mem[i], cfg[i], fifo[i]) /\ Filed(disk[i], cfg[i], fifo[i])
  BY <1>3 DEF FilesKnown, Free
<1>5. ASSUME NEW v \in Verdicts, Watch(i, v) PROVE FilesKnown'
  <2>1. PICK z, x : RecordStep(i, z, x) /\ Watched(mem[i], z) /\ Watched(mem[i], x)
    BY <1>1, <1>5, WatchDetails
  <2>2. Filed(z, cfg[i], fifo[i]) /\ Filed(x, cfg[i], fifo[i])
    <3>1. \A y \in {z, x} : /\ y.runs = mem[i].runs /\ y.gen = mem[i].gen
                            /\ y.lifecycle = "reclaimed" => mem[i].lifecycle = "reclaimed"
      BY <2>1 DEF Watched
    <3> QED
      BY <1>2, <1>4, <3>1, DetailFiled
  <2>3. mem'[i] = z /\ (disk'[i] = disk[i] \/ disk'[i] = x)
    BY <1>1, <2>1 DEF RecordStep, StoreType
  <2>4. \A j \in Instances : j # i => mem'[j] = mem[j] /\ (disk'[j] = disk[j] \/ disk'[j] = mem[j])
    BY <1>1, <2>1 DEF RecordStep, StoreType
  <2>5. Filed(mem'[i], cfg[i], fifo[i]) /\ Filed(disk'[i], cfg[i], fifo[i])
    BY <1>4, <2>2, <2>3
  <2> QED
    BY <1>3, <2>4, <2>5, FreeFiles
<1>6. CASE Prune(i)
  <2>1. /\ mem' = [mem EXCEPT ![i] = Absent] \/ mem' = [mem EXCEPT ![i] = mem[i]]
        /\ disk' = disk \/ disk' = [mem EXCEPT ![i] = Absent]
    BY <1>6 DEF Prune, StoreSaved, Published, Rejected, Faulted
  <2>2. cfg[i] = {} /\ fifo[i] = {}
    BY <1>4, <1>6 DEF Prune, Filed
  <2>3. Filed(Absent, cfg[i], fifo[i])
    <3>1. Absent.lifecycle # "reclaimed" /\ \A g \in Gens : Absent.runs[g] = NewRun
      BY DEF Absent
    <3> QED
      BY <2>2, <3>1, EmptyFiled
  <2>4. mem'[i] \in {Absent, mem[i]} /\ disk'[i] \in {Absent, disk[i]}
    BY <1>1, <2>1 DEF StoreType
  <2>5. \A j \in Instances : j # i => mem'[j] = mem[j] /\ (disk'[j] = disk[j] \/ disk'[j] = mem[j])
    BY <1>1, <2>1 DEF StoreType
  <2>6. Filed(mem'[i], cfg[i], fifo[i]) /\ Filed(disk'[i], cfg[i], fifo[i])
    BY <1>4, <2>3, <2>4
  <2> QED
    BY <1>3, <2>5, <2>6, FreeFiles
<1> QED
  BY <1>5, <1>6

(* Recovery says nothing new of the files.                                 *)
LEMMA RecoveredFiled ==
  ASSUME NEW x \in Instance, NEW v \in Searches,
         NEW C \in SUBSET Gens, NEW F \in SUBSET Gens, Filed(x, C, F)
  PROVE  Filed(Recovered(x, v), C, F)
<1> DEFINE y == Located(x, v)
           r == Recovered(x, v)
<1>1. \/ ~Holds(x) /\ r = x
      \/ Holds(x) /\ Holds(r) /\ SameProcess(y, r)
  BY RecoveredCases
<1>2. ASSUME Holds(x), Holds(r), SameProcess(y, r) PROVE Filed(r, C, F)
  <2>1. y.gen = x.gen
    BY LocatedType
  <2>2. \A g \in Gens : /\ y.runs[g].cfgRemoved = x.runs[g].cfgRemoved
                        /\ y.runs[g].inputRemoved = x.runs[g].inputRemoved
                        /\ y.runs[g].spawnAttempted = x.runs[g].spawnAttempted
                        /\ g > x.gen => y.runs[g] = x.runs[g]
    <3>1. x.runs \in [Gens -> Run] /\ x.gen \in Nat
      BY BoundsAssumption DEF Instance
    <3>2. y.runs \in {x.runs, [x.runs EXCEPT ![x.gen] = [@ EXCEPT !.identity = "full"]],
                      [x.runs EXCEPT ![x.gen] = [@ EXCEPT !.stop = "confirmed"]]}
      BY LocatedKeeps
    <3>3. \A g \in Gens : g > x.gen => g # x.gen
      BY <3>1 DEF Gens
    <3>4. CASE y.runs = x.runs
      BY <3>4
    <3>5. CASE y.runs = [x.runs EXCEPT ![x.gen] = [@ EXCEPT !.identity = "full"]]
      BY <3>1, <3>3, <3>5 DEF Run
    <3>6. CASE y.runs = [x.runs EXCEPT ![x.gen] = [@ EXCEPT !.stop = "confirmed"]]
      BY <3>1, <3>3, <3>6 DEF Run
    <3> QED
      BY <3>2, <3>4, <3>5, <3>6
  <2> HIDE DEF y, r
  <2>3. r.lifecycle # "reclaimed" /\ r.gen = x.gen /\ r.runs = y.runs
    BY <1>2, <2>1 DEF Holds, SameProcess
  <2> QED
    BY <2>2, <2>3 DEF Filed
<1> QED
  BY <1>1, <1>2

(* The manager and the world.                                              *)
LEMMA LifeFiles ==
  ASSUME IInv, FilesKnown, Close \/ Exited \/ Crash \/ Reopen
  PROVE  FilesKnown'
<1>1. CASE Close
  BY <1>1 DEF Close, store, workers, world, FilesKnown, FileFacts
<1>2. CASE Exited \/ Crash
  <2>1. ~up' /\ disk' = disk /\ cfg' = cfg /\ fifo' = fifo
        /\ \A i \in Instances, o \in OpIds : pc'[i][o] = "none"
    BY <1>2 DEF Exited, Crash, Down, world
  <2>2. \A i \in Instances, o \in OpIds : FileFacts(i, o)'
    BY <2>1 DEF FileFacts, LaunchPcs
  <2> QED
    BY <2>1, <2>2 DEF FilesKnown
<1>3. CASE Reopen
  <2>1. PICK v \in Findings(disk) :
          LET m == Recovery(v) IN
           \/ /\ up' = TRUE /\ mem' = m /\ disk' = m
              /\ \A i \in Instances, o \in OpIds : pc'[i][o] \in {"none", "wait", "observe"}
           \/ disk' \in {disk, m} /\ UNCHANGED <<up, mem, pc>>
    BY <1>3 DEF Reopen
  <2> DEFINE m == Recovery(v)
  <2>2. ~up /\ cfg' = cfg /\ fifo' = fifo
    BY <1>3 DEF Reopen, world
  <2>3. \A i \in Instances : Filed(m[i], cfg[i], fifo[i])
    <3>1. TAKE i \in Instances
    <3>2. /\ disk[i] \in Instance /\ v[i] \in Searches
          /\ cfg[i] \in SUBSET Gens /\ fifo[i] \in SUBSET Gens
      BY DEF IInv, TypeOK, Findings
    <3>3. Filed(Recovered(disk[i], v[i]), cfg[i], fifo[i])
      BY <3>2, RecoveredFiled DEF FilesKnown
    <3> QED
      BY <3>3 DEF Recovery
  <2> HIDE DEF m
  <2>4. CASE /\ up' = TRUE /\ mem' = m /\ disk' = m
             /\ \A i \in Instances, o \in OpIds : pc'[i][o] \in {"none", "wait", "observe"}
    <3>1. \A i \in Instances, o \in OpIds : FileFacts(i, o)'
      BY <2>4 DEF FileFacts, LaunchPcs
    <3>2. \A i \in Instances : /\ Filed(mem[i], cfg[i], fifo[i])'
                               /\ Filed(disk[i], cfg[i], fifo[i])'
      BY <2>2, <2>3, <2>4
    <3> QED
      BY <3>1, <3>2 DEF FilesKnown
  <2>5. CASE disk' \in {disk, m} /\ UNCHANGED <<up, mem, pc>>
    <3>1. \A i \in Instances, o \in OpIds : pc'[i][o] = "none"
      BY <2>2, <2>5 DEF IInv, DownIsIdle
    <3>2. \A i \in Instances, o \in OpIds : FileFacts(i, o)'
      BY <3>1 DEF FileFacts, LaunchPcs
    <3>3. \A i \in Instances : Filed(disk[i], cfg[i], fifo[i])'
      BY <2>2, <2>3, <2>5 DEF FilesKnown
    <3> QED
      BY <2>2, <2>5, <3>2, <3>3 DEF FilesKnown
  <2> QED
    BY <2>1, <2>4, <2>5 DEF m
<1> QED
  BY <1>1, <1>2, <1>3

(* Only a running manager has workers.                                     *)
LEMMA WorkerNeedsUp ==
  ASSUME NEW i \in Instances, NEW o \in OpIds, WorkerStep(i, o)
  PROVE  up
BY DEF WorkerStep, LaunchStep, StopStep, Launch, PrepareRun, PrepareFiles, RunPrepared,
   IntendSpawn, MakeInput, InputPrepared, Exec, Spawned, Rollback, BeginStop, Stopped,
   BeginCleanup, CleanInput, CleanupRun, FinishStop, Relaunch, Tick, TimedOut, Leave, Abort,
   FinishWorker, Free

(* Every step.                                                             *)
LEMMA NextFiles ==
  ASSUME IInv, IInv', OwnedInv, ShownInv, AskedInv, FilesKnown, [Next]_vars
  PROVE  FilesKnown'
<1>1. ASSUME UNCHANGED <<mem, disk, pc, up, cfg, fifo>> PROVE FilesKnown'
  BY <1>1 DEF FilesKnown, FileFacts
<1>2. ASSUME NEW i \in Instances, NEW g \in Gens, GameExits(i, g)
      PROVE  UNCHANGED <<mem, disk, pc, up, cfg, fifo>>
  BY <1>2 DEF GameExits, store, workers, life
<1>3. ASSUME NEW i \in Instances, NEW o \in OpIds, WorkerStep(i, o) PROVE up
  BY <1>3, WorkerNeedsUp
<1> QED
  BY <1>1, <1>2, <1>3, RequestFiles, WorkerFiles, WatchFiles, LifeFiles
     DEF Next, vars, store, workers, world, life

(* The files of a room are always accounted for.                           *)
LEMMA FilesAlwaysKnown == Spec => []FilesKnown
<1>1. ASSUME Init PROVE FilesKnown
  <2>1. \A i \in Instances : /\ Filed(mem[i], cfg[i], fifo[i])
                             /\ Filed(disk[i], cfg[i], fifo[i])
    <3>1. Absent.lifecycle # "reclaimed" /\ \A g \in Gens : Absent.runs[g] = NewRun
      BY DEF Absent
    <3>2. \A i \in Instances : mem[i] = Absent /\ disk[i] = Absent /\ cfg[i] = {} /\ fifo[i] = {}
      BY <1>1 DEF Init
    <3> QED
      BY <3>1, <3>2, EmptyFiled
  <2>2. \A i \in Instances, o \in OpIds : FileFacts(i, o)
    BY <1>1 DEF Init, FileFacts, LaunchPcs
  <2> QED
    BY <2>1, <2>2 DEF FilesKnown
<1>2. IInv /\ IInv' /\ OwnedInv /\ ShownInv /\ AskedInv /\ FilesKnown /\ [Next]_vars => FilesKnown'
  BY NextFiles
<1> QED
  BY <1>1, <1>2, Invariance, RoomsOwned, RoomsShown, AlwaysAsked, PTL DEF Spec

(* A room shown or saved as reclaimed has no process, and none of its cfgs *)
(* is left in the game directory: the cleanup loop ends only when every    *)
(* run is recorded as removed, a removal is recorded only after the file   *)
(* is gone, and no run is prepared before (stopOrRestart, CleanupRun).     *)
THEOREM NothingLeftBehind == Spec => []ReclaimedIsGone
<1>1. IInv /\ FilesKnown => ReclaimedIsGone
  <2>1. SUFFICES ASSUME IInv, FilesKnown, NEW i \in Instances,
                        mem[i].lifecycle = "reclaimed" \/ disk[i].lifecycle = "reclaimed"
                 PROVE  live[i] = {} /\ cfg[i] = {}
    BY DEF ReclaimedIsGone
  <2>2. CASE disk[i].lifecycle = "reclaimed"
    BY <2>1, <2>2 DEF IInv, Tracked, Accounts, Holds, FilesKnown, Filed
  <2>3. CASE mem[i].lifecycle = "reclaimed"
    <3>1. up
      BY <2>1, <2>3 DEF IInv, DownIsIdle, Absent
    <3> QED
      BY <2>1, <2>3, <3>1 DEF IInv, Tracked, Accounts, Holds, FilesKnown, Filed
  <2> QED
    BY <2>1, <2>2, <2>3
<1> QED
  BY <1>1, Invariance, FilesAlwaysKnown, PTL

(* A FIFO in a run's directory comes from an attempted spawn and was never *)
(* recorded as removed, and a reclaimed room leaves none that its records  *)
(* owned (InputPrepared, CleanupInput, rollbackStart).                     *)
THEOREM InputsAccounted == Spec => []InputAccounted
<1>1. FilesKnown => InputAccounted
  BY DEF FilesKnown, Filed, InputAccounted
<1> QED
  BY <1>1, FilesAlwaysKnown, PTL

----------------------------------------------------------------------------
(* The bookkeeping. *)

(* What validateState asks of a record that exists, apart from readiness.  *)
Sound(x) == Exists(x) => ValidInstance(x)

(* The records, from the one that a step leaves of instance i.             *)
LEMMA BookkeepingFrom ==
  ASSUME StoreType, BookkeepingValid, NEW i \in Instances, NEW z,
         mem' = [mem EXCEPT ![i] = z], Sound(z),
         Holds(z) => Holds(mem[i]) /\ z.port = mem[i].port
  PROVE  BookkeepingValid'
<1>1. \A j \in Instances : mem'[j] = (IF j = i THEN z ELSE mem[j])
  BY DEF StoreType
<1>2. DOMAIN mem = Instances /\ DOMAIN mem' = Instances
  BY DEF StoreType
<1>3. \A j \in Instances : Exists(mem'[j]) => ValidInstance(mem'[j])
  BY <1>1 DEF BookkeepingValid, Sound
<1>4. \A j \in Instances : Holds(mem'[j]) => Holds(mem[j]) /\ mem'[j].port = mem[j].port
  BY <1>1
<1>5. DistinctPorts(mem')
  BY <1>2, <1>4 DEF BookkeepingValid, DistinctPorts
<1> QED
  BY <1>3, <1>5 DEF BookkeepingValid

(* Other details keep a record as sound as it was.                         *)
LEMMA DetailSound ==
  ASSUME NEW x \in Instance, NEW y, NEW o \in OpIds, Detail(x, y, o), ValidInstance(x),
         PhaseOk(x, o) => PhaseOk(y, o),
         y.lifecycle = "reclaimed" => y.process = "stopped" /\ y.cleanup = "complete"
  PROVE  ValidInstance(y)
<1>1. y.gen = x.gen /\ y.nops = x.nops
  BY DEF Detail
<1>2. \A g \in 1..x.gen : g \in Gens
  BY BoundsAssumption DEF Gens, Instance
<1>3. \A q \in 1..x.nops : q \in OpIds
  BY BoundsAssumption DEF OpIds, Instance
<1>4. \A g \in 1..y.gen : ValidRun(y.runs[g])
  BY <1>1, <1>2 DEF Detail, ValidInstance
<1>5. ASSUME NEW q \in 1..y.nops PROVE ValidOp(y, q)
  <2>1. ValidOp(x, q) /\ q \in OpIds
    BY <1>1, <1>3, <1>5 DEF ValidInstance
  <2>2. CASE q # o
    BY <1>1, <2>1, <2>2 DEF Detail, ValidOp
  <2>3. CASE q = o
    <3>1. y.ops[o].gen <= y.gen
      BY <2>1, <2>3 DEF Detail, ValidOp
    <3>2. y.ops[o].kind = x.ops[o].kind
      BY DEF Detail
    <3>3. PhaseOk(y, o)
      BY <2>1, <2>3 DEF ValidOp, PhaseOk, Running
    <3> QED
      BY <2>1, <2>3, <3>1, <3>2, <3>3 DEF ValidOp, PhaseOk, Running
  <2> QED
    BY <2>2, <2>3
<1> QED
  BY <1>1, <1>4, <1>5 DEF ValidInstance

(* So do records of removed files.                                         *)
LEMMA CleanedSound ==
  ASSUME NEW x \in Instance, NEW y, NEW C, NEW F, Cleaned(x, y, C, F),
         ValidInstance(x), x.lifecycle # "reclaimed"
  PROVE  ValidInstance(y)
<1>1. \A g \in 1..x.gen : g \in Gens
  BY BoundsAssumption DEF Gens, Instance
<1>2. \A q \in 1..x.nops : ValidOp(x, q) => ValidOp(y, q)
  BY DEF Cleaned, ValidOp
<1> QED
  BY <1>1, <1>2 DEF Cleaned, ValidInstance

(* The next generation is sound, because no run was there before.          *)
LEMMA NextRunSound ==
  ASSUME NEW x \in Instance, NEW y, ValidInstance(x), x.lifecycle = "active",
         x.gen < MaxGen, y = [x EXCEPT !.gen = @ + 1],
         \A g \in Gens : g > x.gen => x.runs[g] = NewRun
  PROVE  ValidInstance(y)
<1>1. /\ y.gen = x.gen + 1 /\ y.runs = x.runs /\ y.ops = x.ops /\ y.nops = x.nops
      /\ y.lifecycle = "active"
  BY DEF Instance
<1>2. x.gen \in Nat /\ x.gen + 1 \in Gens /\ MaxGen \in Nat
  BY BoundsAssumption DEF Gens, Instance
<1>3. \A g \in 1..(x.gen + 1) : g \in 1..x.gen \/ g = x.gen + 1
  BY <1>2
<1>4. ValidRun(x.runs[x.gen + 1])
  <2>1. x.gen + 1 > x.gen
    BY <1>2
  <2> QED
    BY <1>2, <2>1 DEF ValidRun, NewRun
<1>5. \A g \in 1..y.gen : ValidRun(y.runs[g])
  BY <1>1, <1>3, <1>4 DEF ValidInstance
<1>6. ASSUME NEW q \in 1..x.nops PROVE ValidOp(y, q)
  <2>1. q \in OpIds /\ x.ops \in [OpIds -> Operation]
    BY BoundsAssumption DEF OpIds, Instance
  <2>2. x.ops[q].gen \in Nat
    BY <2>1, BoundsAssumption DEF Operation
  <2>3. ValidOp(x, q)
    BY DEF ValidInstance
  <2> QED
    BY <1>1, <1>2, <2>2, <2>3 DEF ValidOp
<1> QED
  BY <1>1, <1>5, <1>6 DEF ValidInstance

(* What a step of a worker leaves in memory is sound.                      *)
LEMMA WorkerSound ==
  ASSUME IInv, OwnedInv, ShownInv, AskedInv, FilesKnown, up, BookkeepingValid,
         NEW i \in Instances, NEW o \in OpIds, WorkerStep(i, o), Busy(i, o)
  PROVE  \E z : mem' = [mem EXCEPT ![i] = z] /\ ValidInstance(z)
<1> DEFINE m == mem[i]
<1>1. TypeOK /\ Launching /\ StoreType /\ WorkersType /\ WorldType /\ m \in Instance
  BY TypeParts DEF IInv, TypeOK
<1>2. Holds(m) /\ ValidInstance(m)
  BY DEF OwnedInv, Owned, Manned, BookkeepingValid, Holds, Exists
<1>3. Filed(m, cfg[i], fifo[i])
  BY DEF FilesKnown
<1>4. CASE mem' = mem
  <2>1. mem' = [mem EXCEPT ![i] = m]
    BY <1>1, <1>4 DEF StoreType
  <2> QED
    BY <1>2, <2>1
<1>5. CASE WorkerDetail(i, o)
  <2>1. PICK z : /\ mem' = [mem EXCEPT ![i] = z] /\ Detail(m, z, o)
                 /\ PhaseOk(m, o) => PhaseOk(z, o)
    BY <1>5 DEF WorkerDetail, RecordStep
  <2>2. z.lifecycle # "reclaimed"
    <3>1. m.lifecycle # "reclaimed" /\ z.lifecycle \in {m.lifecycle, "failed"}
      BY <1>2, <2>1 DEF Detail, Holds
    <3> QED
      BY <3>1
  <2>3. ValidInstance(z)
    BY <1>1, <1>2, <2>1, <2>2, DetailSound
  <2> QED
    BY <2>1, <2>3
<1>6. CASE CleanInput(i, o) \/ CleanupRun(i, o)
  <2>1. PICK z, x :
           /\ mem' = [mem EXCEPT ![i] = z] /\ Cleaned(m, x, cfg[i], fifo[i])
           /\ RunDetail(x, z, o) \/ (Detail(x, z, o) /\ PhaseOk(z, o))
    BY <1>1, <1>6, CleanupSteps DEF CleanupStep, RecordStep
  <2>2. x \in Instance /\ ValidInstance(x) /\ x.lifecycle # "reclaimed"
    <3>1. m.lifecycle # "reclaimed" /\ x \in Instance /\ x.lifecycle = m.lifecycle
      BY <1>2, <2>1 DEF Cleaned, Holds
    <3> QED
      BY <1>1, <1>2, <2>1, <3>1, CleanedSound
  <2>3. Detail(x, z, o) /\ (PhaseOk(x, o) => PhaseOk(z, o))
    BY <2>1 DEF RunDetail, PhaseOk, Running
  <2>5. z.lifecycle # "reclaimed"
    <3>1. z.lifecycle \in {x.lifecycle, "failed"}
      BY <2>3 DEF Detail
    <3> QED
      BY <2>2, <3>1
  <2>4. ValidInstance(z)
    BY <2>2, <2>3, <2>5, DetailSound
  <2> QED
    BY <2>1, <2>4
<1>7. CASE PrepareRun(i, o)
  <2> DEFINE y == [m EXCEPT !.gen = @ + 1]
  <2>1. mem' = mem \/ (MayPrepare(m) /\ m.gen < MaxGen /\ mem' = [mem EXCEPT ![i] = y])
    BY <1>7 DEF PrepareRun, Fails, StoreOrFail, StoreSaved, StoreNotSaved, Published, Rejected,
                Faulted
  <2>2. MayPrepare(m) /\ m.gen < MaxGen => ValidInstance(y)
    BY <1>1, <1>2, <1>3, NextRunSound DEF MayPrepare, Filed
  <2> QED
    BY <1>4, <2>1, <2>2
<1>8. CASE Relaunch(i, o)
  <2> DEFINE z == [m EXCEPT !.lifecycle = "active", !.cleanup = "pending", !.err = FALSE]
  <2>1. mem' = [mem EXCEPT ![i] = z]
    BY <1>8 DEF Relaunch, InMemory
  <2>2. /\ z.gen = m.gen /\ z.nops = m.nops /\ z.runs = m.runs /\ z.ops = m.ops
        /\ z.lifecycle = "active"
    BY <1>1 DEF Instance
  <2>3. ValidInstance(z)
    BY <1>2, <2>2 DEF ValidInstance, ValidOp
  <2> QED
    BY <2>1, <2>3
<1>9. CASE FinishStop(i, o)
  <2> DEFINE R == Reclaimed(m)
             x == EndOp(R, o, "succeeded")
  <2>1. m.process = "stopped"
    BY <1>9 DEF FinishStop, FilesKnown, FileFacts
  <2>2. /\ R \in Instance /\ R.process = "stopped" /\ R.cleanup = "complete"
        /\ R.gen = m.gen /\ R.nops = m.nops /\ R.runs = m.runs /\ R.ops = m.ops
    BY <1>1, <2>1 DEF Reclaimed, Instance
  <2>3. Finishes(i, o, R, x)
    BY <1>9 DEF FinishStop
  <2> HIDE DEF R
  <2>4. ValidInstance(R)
    BY <1>2, <2>2 DEF ValidInstance, ValidOp
  <2>5. /\ x \in Instance /\ Detail(R, x, o) /\ PhaseOk(x, o)
        /\ x.process = "stopped" /\ x.cleanup = "complete"
    <3>1. OnlyOp(R, x, o) /\ Detail(R, x, o) /\ PhaseOk(x, o)
      BY <2>2, EndingsOnlyOp, DetailOps
    <3> QED
      BY <2>2, <3>1 DEF OnlyOp, SameProcess
  <2>6. ValidInstance(x)
    BY <2>2, <2>4, <2>5, DetailSound
  <2> HIDE DEF x
  <2>7. ValidInstance(FailedSave(x, o))
    <3>1. Detail(x, FailedSave(x, o), o) /\ PhaseOk(FailedSave(x, o), o)
          /\ FailedSave(x, o).lifecycle = "failed"
      BY <2>5, DetailOps, FailedSaveType
    <3> QED
      BY <2>5, <2>6, <3>1, DetailSound
  <2>8. PICK z \in {R, x, FailedSave(x, o)} : RecordStep(i, z, x)
    BY <1>1, <2>2, <2>3, <2>5, FinishesStep
  <2> QED
    BY <2>4, <2>6, <2>7, <2>8 DEF RecordStep
<1>10. CASE FinishWorker(i, o)
  BY <1>4, <1>10 DEF FinishWorker
<1> QED
  BY <1>1, <1>5, <1>6, <1>7, <1>8, <1>9, <1>10, LaunchDetails, SpawnDetails, ObserveDetails
     DEF WorkerStep, LaunchStep, StopStep

(* A step of a worker leaves a sound record.                               *)
LEMMA WorkerBookkeeping ==
  ASSUME IInv, OwnedInv, ShownInv, AskedInv, FilesKnown, up, BookkeepingValid,
         NEW i \in Instances, NEW o \in OpIds, WorkerStep(i, o)
  PROVE  BookkeepingValid'
<1>1. TypeOK /\ StoreType /\ WorkersType
  BY TypeParts DEF IInv
<1>2. CASE FinishWorker(i, o)
  BY <1>2 DEF FinishWorker, BookkeepingValid
<1>3. CASE ~FinishWorker(i, o)
  <2>1. Busy(i, o)
    BY <1>3, WorkerMoves DEF WorkerMove, Busy
  <2>2. PICK z : mem' = [mem EXCEPT ![i] = z] /\ ValidInstance(z)
    BY <2>1, WorkerSound
  <2>3. Lasts(mem[i], z)
    <3>1. PICK y : mem' = [mem EXCEPT ![i] = y] /\ Lasts(mem[i], y)
      BY <1>1, WorkerEffects DEF WorkerEffect, RecordStep, Result
    <3>2. y = z
      BY <1>1, <2>2, <3>1 DEF StoreType
    <3> QED
      BY <3>1, <3>2
  <2>4. Holds(mem[i])
    BY <2>1 DEF OwnedInv, Owned, Manned
  <2> QED
    BY <1>1, <2>2, <2>3, <2>4, BookkeepingFrom DEF Sound, Lasts
<1> QED
  BY <1>2, <1>3

(* A request or a prune leaves a sound record, or the one it found.        *)
LEMMA RequestBookkeeping ==
  ASSUME IInv, OwnedInv, BookkeepingValid, NEW i \in Instances, Request(i)
  PROVE  BookkeepingValid'
<1>1. TypeOK /\ StoreType /\ WorkersType /\ DOMAIN mem = Instances
  BY TypeParts DEF IInv, StoreType
<1>2. ASSUME mem' = mem \/ Valid(mem'), DOMAIN mem' = Instances PROVE BookkeepingValid'
  BY <1>1, <1>2 DEF BookkeepingValid, Valid
<1>3. ASSUME NEW k \in Keys, NEW p \in Ports, Create(i, k, p) PROVE BookkeepingValid'
  <2> DEFINE x == NewInstance(k, p)
  <2>1. \/ mem' = [mem EXCEPT ![i] = x] /\ Valid([mem EXCEPT ![i] = x])
        \/ mem' = [mem EXCEPT ![i] = mem[i]]
    BY <1>3 DEF Create, StoreSaved, Published, Rejected, Faulted
  <2> HIDE DEF x
  <2>2. (mem' = mem \/ Valid(mem')) /\ DOMAIN mem' = Instances
    BY <1>1, <2>1 DEF StoreType
  <2> QED
    BY <1>2, <2>2
<1>4. CASE Replay(i)
  BY <1>1, <1>2, <1>4 DEF Replay
<1>5. ASSUME NEW kind \in {"stop", "restart"}, Change(i, kind) PROVE BookkeepingValid'
  <2> DEFINE m == mem[i]
             n == m.nops + 1
  <2>1. PICK w : /\ Changed(i, kind, w) /\ mem' = [mem EXCEPT ![i] = w]
                 /\ w.lifecycle \in {m.lifecycle, "failed"}
    BY <1>1, <1>5, ChangeOps
  <2>2. Holds(m) /\ ValidInstance(m) /\ m \in Instance
    BY <1>1, <1>5 DEF Change, MayStop, MayRestart, Holds, Exists, BookkeepingValid, StoreType
  <2>3. /\ w.process = m.process /\ w.gen = m.gen /\ w.runs = m.runs
        /\ w.cleanup = m.cleanup /\ w.port = m.port /\ w.nops = n
    BY <2>1 DEF Changed, SameProcess
  <2>4. m.nops \in Nat /\ m.gen \in Nat /\ m.nops > 0
    BY <2>2, BoundsAssumption DEF Instance, ValidInstance
  <2>5. ASSUME NEW q \in 1..w.nops PROVE ValidOp(w, q)
    <3>1. CASE q = n
      <4>1. w.ops[n].kind = kind /\ w.ops[n].gen = m.gen /\ (Running(w, n) <=> w.ops[n].phase # "done")
        BY <2>1 DEF Changed
      <4>2. n # 1 /\ m.gen <= m.gen
        BY <2>4
      <4> QED
        BY <2>3, <3>1, <4>1, <4>2 DEF ValidOp, Running
    <3>2. CASE q \in 1..m.nops
      <4>1. /\ w.ops[q].kind = m.ops[q].kind /\ w.ops[q].gen = m.ops[q].gen
            /\ w.ops[q] = m.ops[q] \/ (~Running(w, q) /\ w.ops[q].phase = "done")
        BY <2>1, <3>2 DEF Changed
      <4>2. ValidOp(m, q)
        BY <2>2, <3>2 DEF ValidInstance
      <4> QED
        BY <2>3, <4>1, <4>2 DEF ValidOp, Running
    <3>3. q = n \/ q \in 1..m.nops
      BY <2>3, <2>4
    <3> QED
      BY <3>1, <3>2, <3>3
  <2>6. w.lifecycle # "reclaimed"
    BY <2>1, <2>2 DEF Holds
  <2>7. ValidInstance(w)
    <3>1. w.nops > 0
      BY <2>3, <2>4
    <3>2. \A g \in 1..w.gen : ValidRun(w.runs[g])
      BY <2>2, <2>3 DEF ValidInstance
    <3> QED
      BY <2>5, <2>6, <3>1, <3>2 DEF ValidInstance
  <2> QED
    BY <1>1, <2>1, <2>2, <2>3, <2>7, BookkeepingFrom DEF Sound
<1> QED
  BY <1>3, <1>4, <1>5 DEF Request, Stop, Restart

(* So do the watch goroutine and the removal of an expired history.        *)
LEMMA WatchBookkeeping ==
  ASSUME IInv, BookkeepingValid, NEW i \in Instances,
         Prune(i) \/ \E v \in Verdicts : Watch(i, v)
  PROVE  BookkeepingValid'
<1>1. TypeOK /\ StoreType
  BY TypeParts DEF IInv
<1>2. ASSUME NEW v \in Verdicts, Watch(i, v) PROVE BookkeepingValid'
  <2> DEFINE m == mem[i]
  <2>1. PICK z : mem' = [mem EXCEPT ![i] = z] /\ Watched(m, z)
    BY <1>1, <1>2, WatchDetails DEF RecordStep
  <2>2. Holds(m) /\ ValidInstance(m) /\ m.lifecycle # "reclaimed"
    BY <1>1, <1>2 DEF Watch, Holds, Exists, BookkeepingValid
  <2> HIDE DEF m
  <2>3. ValidInstance(z)
    BY <2>1, <2>2 DEF Watched, ValidInstance, ValidOp
  <2>4. z.port = m.port
    BY <2>1 DEF Watched
  <2> QED
    BY <1>1, <2>1, <2>2, <2>3, <2>4, BookkeepingFrom DEF Sound, m
<1>3. CASE Prune(i)
  <2>1. mem' = [mem EXCEPT ![i] = Absent] \/ mem' = [mem EXCEPT ![i] = mem[i]]
    BY <1>3 DEF Prune, StoreSaved, Published, Rejected, Faulted
  <2>2. Sound(Absent) /\ ~Holds(Absent)
    BY DEF Sound, Exists, Holds, Absent
  <2>3. mem' = [mem EXCEPT ![i] = mem[i]] => mem' = mem
    BY <1>1 DEF StoreType
  <2> QED
    BY <1>1, <2>1, <2>2, <2>3, BookkeepingFrom DEF BookkeepingValid
<1> QED
  BY <1>2, <1>3

(* Open starts from what validateState accepted.                           *)
LEMMA LifeBookkeeping ==
  ASSUME IInv, BookkeepingValid, Close \/ Exited \/ Crash \/ Reopen
  PROVE  BookkeepingValid'
<1>1. CASE mem' = mem
  BY <1>1 DEF BookkeepingValid
<1>2. CASE Exited \/ Crash
  <2>1. mem' = [i \in Instances |-> Absent]
    BY <1>2 DEF Exited, Crash, Down
  <2> QED
    BY <2>1 DEF BookkeepingValid, DistinctPorts, Exists, Holds, Absent
<1>3. CASE Reopen
  <2>1. mem' = mem \/ (Valid(mem') /\ DOMAIN mem' = Instances)
    BY <1>3 DEF Reopen, Recovery
  <2> QED
    BY <1>1, <2>1 DEF BookkeepingValid, Valid
<1> QED
  BY <1>1, <1>2, <1>3 DEF Close

(* Every step leaves sound records.                                        *)
LEMMA NextBookkeeping ==
  ASSUME IInv, OwnedInv, ShownInv, AskedInv, FilesKnown, BookkeepingValid, [Next]_vars
  PROVE  BookkeepingValid'
<1>1. ASSUME mem' = mem PROVE BookkeepingValid'
  BY <1>1 DEF BookkeepingValid
<1>2. ASSUME NEW i \in Instances, NEW o \in OpIds, WorkerStep(i, o) PROVE up
  BY <1>2, WorkerNeedsUp
<1> QED
  BY <1>1, <1>2, RequestBookkeeping, WorkerBookkeeping, WatchBookkeeping, LifeBookkeeping
     DEF Next, vars, GameExits

(* Apart from readiness, what memory holds would always pass validateState:*)
(* no sequence of launches, stops, cleanups, failed saves and recoveries   *)
(* leaves a record that the next save has to refuse.                       *)
THEOREM RecordsStayValid == Spec => []BookkeepingValid
<1>1. Init => BookkeepingValid
  BY DEF Init, BookkeepingValid, DistinctPorts, Exists, Holds, Absent
<1>2. IInv /\ OwnedInv /\ ShownInv /\ AskedInv /\ FilesKnown /\ BookkeepingValid /\ [Next]_vars
        => BookkeepingValid'
  BY NextBookkeeping
<1> QED
  BY <1>1, <1>2, Invariance, RoomsOwned, RoomsShown, AlwaysAsked, FilesAlwaysKnown, PTL DEF Spec

----------------------------------------------------------------------------
(* The results. *)

(* The record y repeats every result of the record x.                      *)
Final(x, y) ==
    /\ y.nops >= x.nops
    /\ \A o \in 1..x.nops : ~Running(x, o) => y.ops[o] = x.ops[o]
    /\ x.lifecycle = "failed" => y.lifecycle \in {"failed", "reclaimed"}
    /\ x.lifecycle = "reclaimed" => y.lifecycle = "reclaimed"

(* A failed room is only left by a stop.                                   *)
StopsOnly(x) ==
    x.lifecycle = "failed" => \A q \in 1..x.nops : Running(x, q) => x.ops[q].kind = "stop"

(* Until a write fails, memory repeats what the file shows.                *)
ResultsKnown ==
    \A i \in Instances :
        /\ StopsOnly(disk[i])
        /\ up /\ ~wedged =>
             StopsOnly(mem[i]) /\ (Exists(disk[i]) => Final(disk[i], mem[i]))

ResultStep ==
    /\ ResultsKnown'
    /\ \A i \in Instances : Exists(disk[i]) /\ Exists(disk'[i]) => Final(disk[i], disk'[i])

(* Results repeated twice are repeated.                                    *)
LEMMA FinalTransitive ==
  ASSUME NEW x \in Instance, NEW y \in Instance, NEW z \in Instance, Final(x, y), Final(y, z)
  PROVE  Final(x, z)
<1>1. x.nops \in Nat /\ y.nops \in Nat /\ z.nops \in Nat
  BY BoundsAssumption DEF Instance
<1>2. y.nops >= x.nops /\ z.nops >= y.nops
  BY DEF Final
<1>3. z.nops >= x.nops /\ \A o \in 1..x.nops : o \in 1..y.nops
  BY <1>1, <1>2
<1>4. \A o \in 1..x.nops : ~Running(x, o) => z.ops[o] = x.ops[o]
  BY <1>3 DEF Final, Running
<1> QED
  BY <1>3, <1>4 DEF Final

(* A record repeats its own results.                                       *)
LEMMA FinalSelf ==
  ASSUME NEW x \in Instance PROVE Final(x, x)
<1>1. x.nops \in Nat
  BY BoundsAssumption DEF Instance
<1>2. x.nops >= x.nops
  BY <1>1
<1> QED
  BY <1>2 DEF Final

(* A step of instance i, from what it leaves in memory, z, and may write,  *)
(* x.                                                                      *)
LEMMA ResultsFrom ==
  ASSUME StoreType, StoreType', ResultsKnown, up, wedged => wedged' /\ disk' = disk,
         NEW i \in Instances, NEW z, NEW x, RecordStep(i, z, x),
         ~wedged => /\ \/ disk' = disk
                       \/ /\ Exists(disk[i]) /\ Exists(x) => Final(mem[i], x)
                          /\ StopsOnly(x)
                    /\ ~wedged' => /\ StopsOnly(z)
                                   /\ \/ disk' = disk /\ (Exists(disk[i]) => Final(mem[i], z))
                                      \/ disk' # disk /\ Final(x, z)
  PROVE  ResultStep
<1>1. CASE disk' = disk
  <2>1. \A j \in Instances : Exists(disk[j]) => Final(disk[j], disk'[j])
    BY <1>1, FinalSelf DEF StoreType
  <2>2. ASSUME ~wedged', NEW j \in Instances
        PROVE  StopsOnly(mem'[j]) /\ (Exists(disk[j]) => Final(disk[j], mem'[j]))
    <3>1. ~wedged /\ StopsOnly(mem[j]) /\ (Exists(disk[j]) => Final(disk[j], mem[j]))
      BY <2>2 DEF ResultsKnown
    <3>2. mem'[j] = (IF j = i THEN z ELSE mem[j])
      BY DEF RecordStep, StoreType
    <3>3. (Exists(disk[j]) => Final(mem[j], mem'[j])) /\ StopsOnly(mem'[j])
      BY <1>1, <2>2, <3>1, <3>2, FinalSelf DEF StoreType
    <3>4. disk[j] \in Instance /\ mem[j] \in Instance /\ mem'[j] \in Instance
      BY DEF StoreType
    <3> QED
      BY <3>1, <3>3, <3>4, FinalTransitive
  <2> QED
    BY <1>1, <2>1, <2>2 DEF ResultStep, ResultsKnown
<1>2. CASE disk' # disk
  <2>1. ~wedged /\ disk' = [mem EXCEPT ![i] = x] /\ mem' = [mem EXCEPT ![i] = z]
    BY <1>2 DEF RecordStep
  <2>2. ASSUME NEW j \in Instances
        PROVE  /\ Exists(disk[j]) /\ Exists(disk'[j]) => Final(mem[j], disk'[j])
               /\ StopsOnly(disk'[j])
               /\ ~wedged' => StopsOnly(mem'[j]) /\ Final(disk'[j], mem'[j])
    <3>1. CASE j = i
      <4>1. disk'[j] = x /\ mem'[j] = z
        BY <2>1, <3>1 DEF StoreType
      <4> QED
        BY <1>2, <2>1, <3>1, <4>1
    <3>2. CASE j # i
      <4>1. disk'[j] = mem[j] /\ mem'[j] = mem[j] /\ mem[j] \in Instance
        BY <2>1, <3>2 DEF StoreType
      <4>2. StopsOnly(mem[j])
        BY <2>1 DEF ResultsKnown
      <4> QED
        BY <4>1, <4>2, FinalSelf
    <3> QED
      BY <3>1, <3>2
  <2>3. ASSUME NEW j \in Instances, Exists(disk[j]), Exists(disk'[j]) PROVE Final(disk[j], disk'[j])
    <3>1. Final(disk[j], mem[j])
      BY <2>1, <2>3 DEF ResultsKnown
    <3>2. disk[j] \in Instance /\ mem[j] \in Instance /\ disk'[j] \in Instance
      BY DEF StoreType
    <3> QED
      BY <2>2, <2>3, <3>1, <3>2, FinalTransitive
  <2> QED
    BY <2>2, <2>3 DEF ResultStep, ResultsKnown
<1> QED
  BY <1>1, <1>2

(* A step that changes no record.                                          *)
LEMMA StillResults ==
  ASSUME StoreType, ResultsKnown, mem' = mem, disk' = disk, up' => up, wedged => wedged'
  PROVE  ResultStep
<1>1. \A j \in Instances : Final(disk[j], disk'[j])
  BY FinalSelf DEF StoreType
<1> QED
  BY <1>1 DEF ResultStep, ResultsKnown

(* A busy worker works on an operation that its room has.                  *)
Numbered == \A i \in Instances, o \in OpIds : Busy(i, o) => o \in 1..mem[i].nops

(* While the manager is open the queue of the workers says so; after Close *)
(* no worker is added.                                                     *)
LEMMA NextNumbered ==
  ASSUME IInv, Valid(disk), OwnedInv, Numbered, [Next]_vars
  PROVE  Numbered'
<1>1. TypeOK /\ StoreType /\ WorkersType /\ TypeOK'
  BY TypeParts, NextInv DEF IInv
<1>2. CASE ~closed'
  <2>1. OwnedInv'
    BY NextOwned
  <2>2. SUFFICES ASSUME NEW i \in Instances, NEW o \in OpIds, Busy(i, o)'
                 PROVE  o \in 1..mem'[i].nops
    BY DEF Numbered
  <2>3. o <= reg'[i] /\ reg'[i] <= mem'[i].nops
    BY <1>2, <2>1, <2>2 DEF OwnedInv, Owned, Queued, Manned, Busy, Holds, Exists
  <2>4. o \in Nat /\ o >= 1 /\ reg'[i] \in Nat /\ mem'[i].nops \in Nat
    BY <1>1, BoundsAssumption DEF TypeOK, Instance, OpIds
  <2> QED
    BY <2>3, <2>4
<1>3. CASE UNCHANGED <<mem, pc>>
  BY <1>3 DEF Numbered, Busy
<1>4. ASSUME NEW i \in Instances, NEW o \in OpIds, WorkerStep(i, o) PROVE Numbered'
  <2>1. PICK z : mem' = [mem EXCEPT ![i] = z] /\ z.nops = mem[i].nops
    BY <1>1, <1>4, WorkerEffects DEF WorkerEffect, RecordStep, Result, Lasts
  <2>2. \A j \in Instances : mem'[j].nops = mem[j].nops
    BY <1>1, <2>1 DEF StoreType
  <2>3. \A j \in Instances, q \in OpIds : Busy(j, q)' => Busy(j, q)
    <3>1. \A q \in OpIds : Busy(i, q)' => Busy(i, q)
      <4>1. CASE FinishWorker(i, o)
        BY <1>1, <4>1 DEF FinishWorker, Goto, WorkersType, Busy
      <4>2. CASE WorkerMove(i, o)
        BY <1>1, <4>2 DEF WorkerMove, Goto, WorkersType, Busy
      <4> QED
        BY <1>4, <4>1, <4>2, WorkerMoves
    <3>2. \A j \in Instances, q \in OpIds : j # i => pc'[j][q] = pc[j][q]
      BY <1>1, <1>4, WorkerLeavesOthers DEF WorkerLeaves
    <3> QED
      BY <3>1, <3>2 DEF Busy
  <2> QED
    BY <2>2, <2>3 DEF Numbered
<1>5. ASSUME NEW i \in Instances, Request(i) \/ Prune(i) \/ (\E v \in Verdicts : Watch(i, v))
      PROVE  ~closed'
  BY <1>5 DEF Request, Create, Replay, Stop, Restart, Change, Prune, Watch, life
<1>6. Exited \/ Crash => ~closed'
  BY DEF Exited, Crash, Down
<1>7. ASSUME Reopen, ~UNCHANGED <<mem, pc>> PROVE Numbered'
  <2>1. /\ Valid(mem') /\ DOMAIN mem' = Instances
        /\ \A i \in Instances, o \in OpIds :
             Busy(i, o)' => Resumes(mem'[i]) /\ o = mem'[i].nops
    BY <1>7 DEF Reopen, Recovery, Busy
  <2>2. SUFFICES ASSUME NEW i \in Instances, NEW o \in OpIds, Busy(i, o)'
                 PROVE  o \in 1..mem'[i].nops
    BY DEF Numbered
  <2>3. o = mem'[i].nops /\ mem'[i].nops \in Nat /\ o >= 1
    BY <1>1, <2>1, <2>2, BoundsAssumption DEF TypeOK, Instance, OpIds
  <2> QED
    BY <2>3
<1> QED
  BY <1>2, <1>3, <1>4, <1>5, <1>6, <1>7 DEF Next, vars, workers, Close, GameExits

(* What a worker may write of its record, while no write has failed.       *)
LEMMA OutcomeFinal ==
  ASSUME TypeOK, OwnedInv, Numbered, ~wedged, NEW i \in Instances, NEW o \in OpIds,
         Busy(i, o), NEW y,
         Outcome(i, o, y), StopsOnly(mem[i])
  PROVE  Final(mem[i], y) /\ StopsOnly(y)
<1> DEFINE x == mem[i]
<1>1. x \in Instance /\ Holds(x) /\ x.nops \in Nat
  BY BoundsAssumption DEF TypeOK, OwnedInv, Owned, Manned, Instance
<1>2. /\ y.nops = x.nops /\ y.lifecycle \in {x.lifecycle, "failed"}
      /\ \A q \in OpIds : q # o => y.ops[q] = x.ops[q]
      /\ y.ops[o].kind = x.ops[o].kind
      /\ y.ops[o] = x.ops[o] \/ Running(x, o)
      /\ y.lifecycle = x.lifecycle \/ (~Running(y, o) /\ Running(x, o))
  BY DEF Outcome, Detail
<1>3. \A q \in 1..x.nops : q \in OpIds
  BY <1>1, BoundsAssumption DEF OpIds, Instance
<1>4. /\ \A q \in 1..x.nops : Running(x, q) => q = x.nops
      /\ StopsOnly(x)
  BY DEF OwnedInv, Owned, CurrentRuns
<1>5. x.lifecycle # "reclaimed" /\ y.nops >= x.nops
  BY <1>1, <1>2 DEF Holds
<1>6. \A q \in 1..x.nops : ~Running(x, q) => y.ops[q] = x.ops[q]
  BY <1>2, <1>3
<1>7. Final(x, y)
  BY <1>2, <1>5, <1>6 DEF Final
<1>8. ASSUME y.lifecycle = "failed", NEW q \in 1..y.nops, Running(y, q)
      PROVE  y.ops[q].kind = "stop"
  <2>1. q \in 1..x.nops /\ q \in OpIds /\ Running(x, q) /\ y.ops[q].kind = x.ops[q].kind
    BY <1>2, <1>3, <1>8 DEF Running
  <2>2. CASE y.lifecycle = x.lifecycle
    BY <1>4, <1>8, <2>1, <2>2 DEF StopsOnly
  <2>3. CASE ~Running(y, o) /\ Running(x, o)
    <3>1. q = x.nops /\ q # o
      BY <1>4, <1>8, <2>1, <2>3
    <3>2. o \in 1..x.nops
      BY DEF Numbered
    <3> QED
      BY <1>4, <2>3, <3>1, <3>2
  <2> QED
    BY <1>2, <2>2, <2>3
<1> QED
  BY <1>7, <1>8 DEF StopsOnly

(* Every step of a worker.                                                 *)
LEMMA WorkerResults ==
  ASSUME IInv, IInv', OwnedInv, ShownInv, AskedInv, FilesKnown, Numbered, ResultsKnown, up,
         NEW i \in Instances, NEW o \in OpIds, WorkerStep(i, o)
  PROVE  ResultStep
<1> DEFINE m == mem[i]
<1>1. TypeOK /\ Launching /\ StoreType /\ WorkersType /\ StoreType' /\ m \in Instance
  <2>1. TypeOK /\ Launching /\ TypeOK'
    BY DEF IInv
  <2>2. StoreType /\ WorkersType
    BY <2>1, TypeParts
  <2> QED
    BY <2>1, <2>2 DEF TypeOK, StoreType
<1>2. wedged => wedged' /\ disk' = disk
  <2>1. wedged => wedged'
    BY <1>1, WorkerEffects DEF WorkerEffect
  <2>2. WorkerKeeps(i, o)
    BY <1>1, WorkerKeepsAll
  <2> QED
    BY <2>1, <2>2 DEF WorkerKeeps, ShownInv, Writing
<1>3. CASE FinishWorker(i, o)
  <2>1. mem' = mem /\ disk' = disk /\ up' = up
    BY <1>3 DEF FinishWorker, store, life
  <2> QED
    BY <1>1, <1>2, <2>1, StillResults
<1>4. ASSUME ~FinishWorker(i, o) PROVE Busy(i, o) /\ Holds(m)
  <2>1. Busy(i, o)
    BY <1>4, WorkerMoves DEF WorkerMove, Busy
  <2> QED
    BY <2>1 DEF OwnedInv, Owned, Manned
<1>5. CASE ~FinishWorker(i, o) /\ WorkerDetail(i, o)
  <2>1. PICK z, x : /\ RecordStep(i, z, x) /\ Outcome(i, o, x)
                    /\ wedged' \/ (z = x /\ Outcome(i, o, z))
    BY <1>5 DEF WorkerDetail
  <2>2. ~wedged => Final(m, x) /\ StopsOnly(x)
    BY <1>1, <1>4, <1>5, <2>1, OutcomeFinal DEF ResultsKnown
  <2>3. x \in Instance
    BY <2>1 DEF Outcome, Detail
  <2>4. Final(x, x)
    BY <2>3, FinalSelf
  <2> QED
    BY <1>1, <1>2, <2>1, <2>2, <2>4, ResultsFrom
<1>6. CASE CleanInput(i, o) \/ CleanupRun(i, o)
  <2>1. PICK z, x :
           /\ RecordStep(i, z, x) /\ Cleaned(m, x, cfg[i], fifo[i])
           /\ RunDetail(x, z, o) \/ wedged'
    BY <1>1, <1>6, CleanupSteps DEF CleanupStep
  <2>2. x.nops = m.nops /\ x.ops = m.ops /\ x.lifecycle = m.lifecycle /\ m.nops \in Nat
    BY <1>1, <2>1, BoundsAssumption DEF Cleaned, Instance
  <2>3. ~wedged' => /\ z.nops = m.nops /\ z.ops = m.ops /\ z.lifecycle = m.lifecycle
    BY <2>1, <2>2 DEF RunDetail, Detail
  <2>4. m.nops >= m.nops
    BY <2>2
  <2>5. /\ Final(m, x) /\ (StopsOnly(m) => StopsOnly(x))
        /\ ~wedged' => Final(m, z) /\ Final(x, z) /\ (StopsOnly(m) => StopsOnly(z))
    BY <2>2, <2>3, <2>4 DEF Final, StopsOnly, Running
  <2> QED
    BY <1>1, <1>2, <2>1, <2>5, ResultsFrom DEF ResultsKnown
<1>7. CASE PrepareRun(i, o)
  <2> DEFINE x == [m EXCEPT !.gen = @ + 1]
  <2>1. \/ mem' = mem /\ disk' = disk
        \/ RecordStep(i, x, x)
    BY <1>7 DEF PrepareRun, Fails, store, StoreOrFail, StoreSaved, StoreNotSaved, Published,
                Rejected, Faulted, RecordStep
  <2>2. x.nops = m.nops /\ x.ops = m.ops /\ x.lifecycle = m.lifecycle /\ m.nops \in Nat
    BY <1>1, BoundsAssumption DEF Instance
  <2> HIDE DEF x
  <2>3. m.nops >= m.nops
    BY <2>2
  <2>4. Final(m, x) /\ (StopsOnly(m) => StopsOnly(x)) /\ Final(x, x)
    BY <2>2, <2>3 DEF Final, StopsOnly, Running
  <2>5. up' = up
    BY <1>7 DEF PrepareRun, life
  <2>6. CASE mem' = mem /\ disk' = disk
    BY <1>1, <1>2, <2>5, <2>6, StillResults
  <2>7. CASE RecordStep(i, x, x)
    BY <1>1, <1>2, <2>4, <2>7, ResultsFrom DEF ResultsKnown
  <2> QED
    BY <2>1, <2>6, <2>7
<1>8. ASSUME ~wedged, pc[i][o] = "cleanup"
      PROVE  Running(m, o) /\ o \in 1..m.nops /\ Holds(m)
  <2>1. Busy(i, o)
    BY <1>8 DEF Busy
  <2> QED
    BY <1>8, <2>1, AskedRuns DEF Launchers, LaunchPcs, Numbered, OwnedInv, Owned, Manned
<1>9. CASE Relaunch(i, o)
  <2> DEFINE z == [m EXCEPT !.lifecycle = "active", !.cleanup = "pending", !.err = FALSE]
  <2>1. RecordStep(i, z, z) /\ disk' = disk
    BY <1>9 DEF Relaunch, InMemory, store, RecordStep
  <2>2. z.nops = m.nops /\ z.ops = m.ops /\ z.lifecycle = "active" /\ m.nops \in Nat
    BY <1>1, BoundsAssumption DEF Instance
  <2> HIDE DEF z
  <2>3. ~wedged => m.lifecycle = "active"
    <3>1. SUFFICES ASSUME ~wedged PROVE m.lifecycle = "active"
      OBVIOUS
    <3>2. Running(m, o) /\ o \in 1..m.nops /\ Holds(m) /\ m.ops[o].kind = "restart"
      BY <1>8, <1>9, <3>1 DEF Relaunch
    <3>3. StopsOnly(m)
      BY <3>1 DEF ResultsKnown
    <3> QED
      BY <3>2, <3>3 DEF StopsOnly, Holds
  <2>4. m.nops >= m.nops
    BY <2>2
  <2>5. ~wedged => Final(m, z) /\ StopsOnly(z)
    BY <2>2, <2>3, <2>4 DEF Final, StopsOnly
  <2> QED
    BY <1>1, <1>2, <2>1, <2>5, ResultsFrom
<1>10. CASE FinishStop(i, o)
  <2> DEFINE R == Reclaimed(m)
             x == EndOp(R, o, "succeeded")
  <2>1. /\ R \in Instance /\ R.lifecycle = "reclaimed" /\ R.nops = m.nops /\ R.ops = m.ops
        /\ m.nops \in Nat
    <3> HIDE DEF m
    <3>1. R \in Instance /\ R.lifecycle = "reclaimed" /\ R.nops = m.nops /\ R.ops = m.ops
      BY <1>1 DEF Reclaimed, Instance
    <3>2. m.nops \in Nat
      BY <1>1, BoundsAssumption DEF Instance
    <3> QED
      BY <3>1, <3>2
  <2>2. Finishes(i, o, R, x) /\ pc[i][o] = "cleanup"
    BY <1>10 DEF FinishStop
  <2> HIDE DEF R
  <2>3. OnlyOp(R, x, o) /\ x.lifecycle = "reclaimed"
    BY <2>1, EndingsOnlyOp
  <2>4. PICK z \in {R, x, FailedSave(x, o)} : /\ RecordStep(i, z, x)
                                              /\ ~Running(R, o) \/ z = x \/ wedged'
    <3> HIDE DEF x
    <3>1. \/ ~Running(R, o) /\ RecordStep(i, R, x)
          \/ RecordStep(i, x, x)
          \/ RecordStep(i, FailedSave(x, o), x) /\ wedged'
      BY <2>2 DEF Finishes, InMemory, Saved, NotSaved, StoreSaved, Published, Rejected, Faulted,
                  store, RecordStep
    <3> QED
      BY <3>1
  <2> HIDE DEF x
  <2>5. CASE wedged
    BY <1>1, <1>2, <2>4, <2>5, ResultsFrom
  <2>6. CASE ~wedged
    <3>1. Running(R, o) /\ Holds(m)
      BY <1>8, <2>1, <2>2, <2>6 DEF Running
    <3>2. /\ x.nops = m.nops /\ x.nops >= m.nops /\ x.nops >= x.nops
          /\ \A q \in OpIds : q # o => x.ops[q] = m.ops[q]
      BY <2>1, <2>3 DEF OnlyOp
    <3>3. \A q \in 1..m.nops : q \in OpIds
      BY <1>1, BoundsAssumption DEF OpIds, Instance
    <3>4. \A q \in 1..m.nops : ~Running(m, q) => x.ops[q] = m.ops[q]
      <4>1. Running(m, o)
        BY <2>1, <3>1 DEF Running
      <4> QED
        BY <3>2, <3>3, <4>1
    <3>5. Final(m, x) /\ StopsOnly(x) /\ Final(x, x)
      BY <2>3, <3>2, <3>4 DEF Final, StopsOnly
    <3>6. z = x \/ wedged'
      BY <2>4, <3>1
    <3> QED
      BY <1>1, <1>2, <2>4, <3>5, <3>6, ResultsFrom
  <2> QED
    BY <2>5, <2>6
<1> QED
  BY <1>1, <1>3, <1>5, <1>6, <1>7, <1>9, <1>10, LaunchDetails, SpawnDetails, ObserveDetails
     DEF WorkerStep, LaunchStep, StopStep

(* Requests: a new operation is added behind results that stay, and a      *)
(* failed room takes only a stop.                                          *)
LEMMA RequestResults ==
  ASSUME IInv, IInv', OwnedInv, ResultsKnown, NEW i \in Instances, Request(i)
  PROVE  ResultStep
<1> DEFINE m == mem[i]
<1>1. TypeOK /\ StoreType /\ StoreType' /\ m \in Instance
  <2>1. TypeOK /\ TypeOK'
    BY DEF IInv
  <2> QED
    BY <2>1, TypeParts DEF TypeOK, StoreType
<1>2. up /\ ~wedged
  BY DEF Request, Create, Replay, Stop, Restart, Change, Free
<1>3. ASSUME NEW k \in Keys, NEW p \in Ports, Create(i, k, p) PROVE ResultStep
  <2> DEFINE x == NewInstance(k, p)
  <2>1. /\ ~Exists(disk[i])
        /\ \/ RecordStep(i, x, x)
           \/ mem' = [mem EXCEPT ![i] = mem[i]] /\ disk' = disk /\ wedged' = wedged /\ up' = up
    BY <1>3 DEF Create, Fresh, StoreSaved, Published, Rejected, Faulted, RecordStep, life
  <2>2. x \in Instance /\ x.lifecycle = "active"
    <3>1. x.lifecycle = "active"
      BY DEF NewInstance, Absent
    <3> QED
      BY <3>1, NewInstanceType
  <2> HIDE DEF x
  <2>3. StopsOnly(x) /\ Final(x, x)
    BY <2>2, FinalSelf DEF StopsOnly
  <2>4. CASE RecordStep(i, x, x)
    BY <1>1, <1>2, <2>1, <2>3, <2>4, ResultsFrom
  <2>5. CASE mem' = [mem EXCEPT ![i] = mem[i]] /\ disk' = disk /\ wedged' = wedged /\ up' = up
    <3>1. mem' = mem
      BY <1>1, <2>5 DEF StoreType
    <3> QED
      BY <1>1, <1>2, <2>5, <3>1, StillResults
  <2> QED
    BY <2>1, <2>4, <2>5
<1>4. CASE Replay(i)
  <2>1. mem' = mem /\ disk' = disk /\ up' = up
    BY <1>4 DEF Replay, store, life
  <2> QED
    BY <1>1, <1>2, <2>1, StillResults
<1>5. ASSUME NEW kind \in {"stop", "restart"}, Change(i, kind) PROVE ResultStep
  <2>1. PICK y, w :
           /\ Changed(i, kind, y) /\ y.lifecycle = m.lifecycle
           /\ mem' = [mem EXCEPT ![i] = w]
           /\ disk' = disk \/ disk' = [mem EXCEPT ![i] = y]
           /\ w = y \/ wedged'
    BY <1>1, <1>5, ChangeOps
  <2>2. m.lifecycle = "failed" => kind = "stop"
    BY <1>5 DEF Change, MayRestart
  <2>3. StopsOnly(m) /\ m.nops \in Nat
    BY <1>1, <1>2, BoundsAssumption DEF ResultsKnown, Instance
  <2> HIDE DEF m
  <2>4. /\ y \in Instance /\ y.nops = m.nops + 1 /\ y.ops[m.nops + 1].kind = kind
        /\ \A q \in 1..m.nops : /\ y.ops[q].kind = m.ops[q].kind
                                /\ ~Running(m, q) => y.ops[q] = m.ops[q]
                                /\ Running(y, q) => Running(m, q)
    BY <2>1 DEF Changed, Running, m
  <2>5. y.nops >= m.nops /\ \A q \in 1..y.nops : q \in 1..m.nops \/ q = m.nops + 1
    BY <2>3, <2>4
  <2>6. Final(m, y)
    BY <2>1, <2>4, <2>5 DEF Final
  <2>7. StopsOnly(y)
    BY <2>1, <2>2, <2>3, <2>4, <2>5 DEF StopsOnly
  <2>8. Final(y, y)
    BY <2>4, FinalSelf
  <2>9. RecordStep(i, w, y)
    BY <2>1 DEF RecordStep
  <2> QED
    BY <1>1, <1>2, <2>1, <2>6, <2>7, <2>8, <2>9, ResultsFrom DEF m
<1> QED
  BY <1>3, <1>4, <1>5 DEF Request, Stop, Restart

(* The watch goroutine works on rooms no operation of which is running.    *)
LEMMA WatchResults ==
  ASSUME IInv, IInv', OwnedInv, ShownInv, ResultsKnown, NEW i \in Instances,
         Prune(i) \/ \E v \in Verdicts : Watch(i, v)
  PROVE  ResultStep
<1> DEFINE m == mem[i]
<1>1. TypeOK /\ StoreType /\ StoreType' /\ m \in Instance
  <2>1. TypeOK /\ TypeOK'
    BY DEF IInv
  <2> QED
    BY <2>1, TypeParts DEF TypeOK, StoreType
<1>2. up /\ ~closed
  BY DEF Prune, Watch, Free
<1>3. ASSUME NEW v \in Verdicts, Watch(i, v) PROVE ResultStep
  <2>1. PICK z, x : /\ RecordStep(i, z, x) /\ Watched(m, z) /\ Watched(m, x)
                    /\ wedged' \/ z = x
    BY <1>1, <1>3, WatchDetails
  <2>2. Holds(m) /\ reg[i] = 0
    BY <1>3 DEF Watch
  <2>3. ~wedged => \A q \in 1..m.nops : ~Running(m, q)
    <3>1. SUFFICES ASSUME ~wedged, NEW q \in 1..m.nops, Running(m, q) PROVE FALSE
      OBVIOUS
    <3>2. Busy(i, q)
      BY <1>2, <3>1 DEF OwnedInv, Owned, CurrentRuns
    <3>3. q \in OpIds
      BY <1>1, BoundsAssumption DEF OpIds, Instance
    <3> QED
      BY <1>2, <2>2, <3>2, <3>3 DEF OwnedInv, Owned, Queued, Busy
  <2>4. wedged => wedged' /\ disk' = disk
    BY <1>3 DEF Watch, Saved, NotSaved
  <2>5. x.nops = m.nops /\ x.ops = m.ops /\ x.nops >= m.nops /\ x \in Instance
    <3>1. m.nops \in Nat /\ x.nops = m.nops /\ x.ops = m.ops /\ x \in Instance
      BY <1>1, <2>1, BoundsAssumption DEF Watched, Instance
    <3> QED
      BY <3>1
  <2>6. Final(m, x)
    BY <2>1, <2>2, <2>5 DEF Watched, Final, Holds
  <2>7. ~wedged => StopsOnly(x)
    BY <2>3, <2>5 DEF StopsOnly, Running
  <2>8. Final(x, x)
    BY <2>5, FinalSelf
  <2> QED
    BY <1>1, <1>2, <2>1, <2>4, <2>6, <2>7, <2>8, ResultsFrom
<1>4. CASE Prune(i)
  <2>1. ~wedged /\ m.lifecycle = "reclaimed"
    BY <1>4 DEF Prune
  <2>2. \/ RecordStep(i, Absent, Absent) /\ disk' = mem'
        \/ RecordStep(i, m, Absent) /\ wedged'
    BY <1>4 DEF Prune, StoreSaved, Published, Rejected, Faulted, RecordStep
  <2>3. StopsOnly(Absent) /\ ~Exists(Absent) /\ Final(Absent, Absent)
    BY AbsentType, FinalSelf DEF StopsOnly, Exists, Absent
  <2>4. CASE RecordStep(i, Absent, Absent) /\ disk' = mem'
    <3>1. mem'[i] = Absent
      BY <1>1, <2>4 DEF RecordStep, StoreType
    <3>2. disk' = disk => ~Exists(disk[i])
      BY <2>3, <2>4, <3>1
    <3> QED
      BY <1>1, <1>2, <2>1, <2>3, <2>4, <3>2, ResultsFrom
  <2>5. CASE RecordStep(i, m, Absent) /\ wedged'
    BY <1>1, <1>2, <2>1, <2>3, <2>5, ResultsFrom
  <2> QED
    BY <2>2, <2>4, <2>5
<1> QED
  BY <1>3, <1>4

(* Recovery ends no more than the operation it gives up, and only a start  *)
(* that was never reported as failed is resumed.                           *)
LEMMA RecoveredFinal ==
  ASSUME NEW x \in Instance, ValidRecord(x), OnlyCurrent(x), StopsOnly(x),
         NEW v \in Searches
  PROVE  Final(x, Recovered(x, v)) /\ StopsOnly(Recovered(x, v))
<1> DEFINE y == Located(x, v)
           r == Recovered(x, v)
           n == x.nops
<1>1. CASE ~Holds(x)
  <2>1. r = x
    BY <1>1 DEF Recovered
  <2> QED
    BY <2>1, FinalSelf
<1>2. CASE Holds(x)
  <2>1. ValidInstance(x)
    BY <1>2 DEF ValidRecord, Exists, Holds
  <2>2. n \in Nat /\ n > 0
    BY <2>1, BoundsAssumption DEF ValidInstance, Instance
  <2>3. n \in 1..n /\ n >= n /\ n \in OpIds
    <3>1. n \in 0..MaxOps /\ MaxOps \in Nat
      BY BoundsAssumption DEF Instance
    <3> QED
      BY <2>2, <3>1 DEF OpIds
  <2>4. y \in Instance /\ y.lifecycle = x.lifecycle /\ y.nops = n /\ y.ops = x.ops
    BY <1>2, <2>1, LocatedType, LocatedValid
  <2>5. x.lifecycle \in {"active", "failed"}
    BY <1>2 DEF Holds
  <2>6. CASE GivesUp(y)
    <3>1. r = RecoveryFailed(y)
      BY <1>2, <2>6 DEF Recovered
    <3>2. /\ r.nops = n /\ r.lifecycle = "failed"
          /\ \/ ~Running(x, n) /\ r.ops = x.ops
             \/ Running(x, n) /\ r.ops = EndOp(y, n, "failed").ops
      <4> HIDE DEF y, r
      <4>1. y.nops = n /\ (Running(y, n) <=> Running(x, n))
        BY <2>4 DEF Running
      <4>2. CASE Running(y, n)
        <5> DEFINE e == EndOp(y, n, "failed")
        <5>1. e \in Instance /\ e.nops = n
          BY <2>4, EndOpType DEF EndOp, Instance
        <5>2. r = [e EXCEPT !.lifecycle = "failed", !.err = TRUE,
                            !.room = IF y.process = "stopped" THEN "failed" ELSE @]
          BY <3>1, <4>1, <4>2 DEF RecoveryFailed
        <5> HIDE DEF e
        <5>3. r.nops = n /\ r.lifecycle = "failed" /\ r.ops = e.ops
          BY <5>1, <5>2 DEF Instance
        <5> QED
          BY <4>1, <4>2, <5>3 DEF e
      <4>3. CASE ~Running(y, n)
        <5>1. r = [y EXCEPT !.lifecycle = "failed", !.err = TRUE,
                            !.room = IF y.process = "stopped" THEN "failed" ELSE @]
          BY <3>1, <4>1, <4>3 DEF RecoveryFailed
        <5>2. r.nops = n /\ r.lifecycle = "failed" /\ r.ops = x.ops
          BY <2>4, <5>1 DEF Instance
        <5> QED
          BY <4>1, <4>3, <5>2
      <4> QED
        BY <4>2, <4>3
    <3>3. /\ \A q \in OpIds : q # n => r.ops[q] = x.ops[q]
          /\ ~Running(r, n)
      <4>1. CASE r.ops = x.ops /\ ~Running(x, n)
        BY <4>1 DEF Running
      <4>2. CASE r.ops = EndOp(y, n, "failed").ops
        <5>1. OnlyOp(y, EndOp(y, n, "failed"), n) /\ ~Running(EndOp(y, n, "failed"), n)
          BY <2>3, <2>4, EndingsOnlyOp DEF Running
        <5> QED
          BY <2>4, <4>2, <5>1 DEF OnlyOp, Running
      <4> QED
        BY <3>2, <4>1, <4>2
    <3>4. \A q \in 1..n : q \in OpIds
      BY BoundsAssumption DEF OpIds, Instance
    <3> HIDE DEF r
    <3>5. \A q \in 1..n : ~Running(x, q) => r.ops[q] = x.ops[q]
      <4>1. CASE r.ops = x.ops
        BY <4>1
      <4>2. CASE Running(x, n)
        BY <3>3, <3>4, <4>2
      <4> QED
        BY <3>2, <4>1, <4>2
    <3>6. \A q \in 1..n : ~Running(r, q)
      BY <3>3, <3>4 DEF OnlyCurrent, Running
    <3>7. x.lifecycle # "reclaimed" /\ r.nops >= n
      BY <2>3, <2>5, <3>2
    <3> QED
      BY <3>2, <3>5, <3>6, <3>7 DEF Final, StopsOnly, r
  <2>7. CASE ~GivesUp(y) /\ ResumesStart(y)
    <3>1. r = [AtPhase(y, n, "observing") EXCEPT !.lifecycle = "active"]
      BY <1>2, <2>4, <2>7 DEF Recovered
    <3>2. Running(x, n) /\ x.ops[n].kind # "stop"
      BY <2>4, <2>7 DEF ResumesStart, Running
    <3>3. x.lifecycle = "active"
      BY <2>3, <2>5, <3>2 DEF StopsOnly
    <3>4. /\ r.nops = n /\ r.lifecycle = "active"
          /\ r.ops = [x.ops EXCEPT ![n].phase = "observing"]
      <4> HIDE DEF y
      <4>1. AtPhase(y, n, "observing") = [y EXCEPT !.ops = [y.ops EXCEPT ![n].phase = "observing"]]
        BY DEF AtPhase
      <4> QED
        BY <2>4, <3>1, <4>1 DEF Instance
    <3>5. x.ops \in [OpIds -> Operation]
      BY DEF Instance
    <3> HIDE DEF r
    <3>6. \A q \in OpIds : q # n => r.ops[q] = x.ops[q]
      BY <3>4, <3>5
    <3>7. \A q \in 1..n : q \in OpIds
      BY BoundsAssumption DEF OpIds, Instance
    <3>8. \A q \in 1..n : ~Running(x, q) => r.ops[q] = x.ops[q]
      BY <3>2, <3>6, <3>7
    <3>9. r.nops >= n
      BY <2>3, <3>4
    <3> QED
      BY <3>3, <3>4, <3>8, <3>9 DEF Final, StopsOnly, r
  <2>8. CASE ~GivesUp(y) /\ ~ResumesStart(y)
    <3>1. r = y
      BY <1>2, <2>8 DEF Recovered
    <3> HIDE DEF y, r
    <3> QED
      BY <2>3, <2>4, <3>1 DEF Final, StopsOnly, Running, r
  <2> QED
    BY <2>6, <2>7, <2>8
<1> QED
  BY <1>1, <1>2

(* The manager and the world: Open writes what recovery made of the file.  *)
LEMMA LifeResults ==
  ASSUME IInv, IInv', OwnedInv, Valid(disk), ResultsKnown, Close \/ Exited \/ Crash \/ Reopen
  PROVE  ResultStep
<1>1. TypeOK /\ StoreType /\ StoreType'
  <2>1. TypeOK /\ TypeOK'
    BY DEF IInv
  <2> QED
    BY <2>1, TypeParts DEF TypeOK, StoreType
<1>2. CASE Close
  <2>1. mem' = mem /\ disk' = disk /\ up' = up /\ wedged' = wedged
    BY <1>2 DEF Close, store
  <2> QED
    BY <1>1, <2>1, StillResults
<1>3. ASSUME disk' = disk, ~up' PROVE ResultStep
  <2>1. \A i \in Instances : Final(disk[i], disk'[i])
    BY <1>1, <1>3, FinalSelf DEF StoreType
  <2> QED
    BY <1>3, <2>1 DEF ResultStep, ResultsKnown
<1>4. CASE Exited \/ Crash
  BY <1>3, <1>4 DEF Exited, Crash, Down
<1>5. CASE Reopen
  <2>1. PICK v \in Findings(disk) :
           \/ mem' = Recovery(v) /\ disk' = Recovery(v)
           \/ ~up' /\ disk' \in {disk, Recovery(v)}
    BY <1>5 DEF Reopen
  <2>2. \A i \in Instances : Final(disk[i], Recovery(v)[i]) /\ StopsOnly(Recovery(v)[i])
    <3>1. SUFFICES ASSUME NEW i \in Instances
                   PROVE  /\ Final(disk[i], Recovered(disk[i], v[i]))
                          /\ StopsOnly(Recovered(disk[i], v[i]))
      BY DEF Recovery
    <3>2. disk[i] \in Instance /\ v[i] \in Searches /\ DOMAIN disk = Instances
      BY <1>1 DEF StoreType, Findings
    <3>3. ValidRecord(disk[i]) /\ OnlyCurrent(disk[i]) /\ StopsOnly(disk[i])
      BY <3>2 DEF Valid, ValidRecord, OwnedInv, Owned, ResultsKnown
    <3> QED
      BY <3>2, <3>3, RecoveredFinal
  <2>3. CASE mem' = Recovery(v) /\ disk' = Recovery(v)
    <3>1. \A i \in Instances : Final(disk'[i], mem'[i])
      BY <1>1, <2>3, FinalSelf DEF StoreType
    <3> QED
      BY <2>2, <2>3, <3>1 DEF ResultStep, ResultsKnown
  <2>4. CASE ~up' /\ disk' = Recovery(v)
    BY <2>2, <2>4 DEF ResultStep, ResultsKnown
  <2>5. CASE ~up' /\ disk' = disk
    BY <1>3, <2>5
  <2> QED
    BY <2>1, <2>3, <2>4, <2>5
<1> QED
  BY <1>2, <1>4, <1>5

(* Every step.                                                             *)
LEMMA NextResults ==
  ASSUME IInv, IInv', OwnedInv, ShownInv, AskedInv, FilesKnown, Numbered, Valid(disk),
         ResultsKnown, [Next]_vars
  PROVE  ResultStep
<1>1. StoreType
  BY TypeParts DEF IInv
<1>2. ASSUME mem' = mem, disk' = disk, up' = up, wedged' = wedged PROVE ResultStep
  BY <1>1, <1>2, StillResults
<1>3. ASSUME NEW i \in Instances, NEW o \in OpIds, WorkerStep(i, o) PROVE ResultStep
  BY <1>3, WorkerNeedsUp, WorkerResults
<1> QED
  BY <1>2, <1>3, RequestResults, WatchResults, LifeResults
     DEF Next, vars, GameExits, store, life

(* Workers always work on operations of their rooms.                       *)
LEMMA NumberedAlways == Spec => []Numbered
<1>1. Init => Numbered
  BY DEF Init, Numbered, Busy
<1>2. IInv /\ Valid(disk) /\ OwnedInv /\ Numbered /\ [Next]_vars => Numbered'
  BY NextNumbered
<1> QED
  BY <1>1, <1>2, Invariance, FileValid, RoomsOwned, PTL DEF Spec

(* What memory and the file repeat of each other's results.                *)
LEMMA ResultsAlwaysKnown == Spec => []ResultsKnown
<1>1. ASSUME Init PROVE ResultsKnown
  <2>1. \A i \in Instances : disk[i] = Absent /\ mem[i] = Absent
    BY <1>1 DEF Init
  <2>2. StopsOnly(Absent) /\ ~Exists(Absent)
    BY DEF StopsOnly, Exists, Absent
  <2> QED
    BY <2>1, <2>2 DEF ResultsKnown
<1>2. /\ IInv /\ IInv' /\ OwnedInv /\ ShownInv /\ AskedInv /\ FilesKnown /\ Numbered
      /\ Valid(disk) /\ ResultsKnown /\ [Next]_vars
      => ResultsKnown'
  BY NextResults DEF ResultStep
<1> QED
  BY <1>1, <1>2, Invariance, FileValid, RoomsOwned, RoomsShown, AlwaysAsked, FilesAlwaysKnown,
     NumberedAlways, PTL DEF Spec

(* A reported result is final: no launch, stop, failed save, crash or      *)
(* recovery changes the result of an ended operation in the state file,    *)
(* brings a failed room back to life or takes back a reclaim (finish,      *)
(* change, recover, PruneExpired).                                         *)
THEOREM ResultsStayFinal == Spec => ResultsAreFinal
<1>1. ASSUME IInv, IInv', OwnedInv, ShownInv, AskedInv, FilesKnown, Numbered, Valid(disk),
             ResultsKnown, [Next]_vars, NEW i \in Instances, Exists(disk[i]), Exists(disk'[i])
      PROVE  /\ \A o \in 1..disk[i].nops :
                   ~Running(disk[i], o) => disk'[i].ops[o] = disk[i].ops[o]
             /\ disk[i].lifecycle = "failed" => disk'[i].lifecycle # "active"
             /\ disk[i].lifecycle = "reclaimed" => disk'[i].lifecycle = "reclaimed"
  <2>1. Final(disk[i], disk'[i])
    BY <1>1, NextResults DEF ResultStep
  <2>2. disk[i].lifecycle = "failed" => disk'[i].lifecycle # "active"
    BY <2>1 DEF Final
  <2> QED
    BY <2>1, <2>2 DEF Final
<1>2. /\ IInv /\ IInv' /\ OwnedInv /\ ShownInv /\ AskedInv /\ FilesKnown /\ Numbered
      /\ Valid(disk) /\ ResultsKnown /\ [Next]_vars
      => [\A i \in Instances : Exists(disk[i]) /\ Exists(disk'[i]) =>
            /\ \A o \in 1..disk[i].nops :
                 ~Running(disk[i], o) => disk'[i].ops[o] = disk[i].ops[o]
            /\ disk[i].lifecycle = "failed" => disk'[i].lifecycle # "active"
            /\ disk[i].lifecycle = "reclaimed" => disk'[i].lifecycle = "reclaimed"]_vars
  BY <1>1
<1> QED
  BY <1>2, Invariance, FileValid, RoomsOwned, RoomsShown, AlwaysAsked, FilesAlwaysKnown,
     NumberedAlways, ResultsAlwaysKnown, PTL DEF Spec, ResultsAreFinal
=============================================================================
