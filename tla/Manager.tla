------------------------------ MODULE Manager ------------------------------
(***************************************************************************)
(* The d2core manager (internal/core) over its durable store and the game  *)
(* processes it starts.  Request handlers, one worker goroutine for each   *)
(* accepted operation and the watch goroutine share one mutex.  A worker   *)
(* holds it through the whole preparation and spawn of a game process and  *)
(* through the whole cleanup, and gives it up while the engine stops a     *)
(* process and between two observations.  Those long critical sections are *)
(* split at every point where the outside world or the store changes, so   *)
(* that the manager may crash, and a game may exit, between any two.       *)
(***************************************************************************)
EXTENDS Records

CONSTANTS
    Instances,    \* instance identifiers
    MaxFaults,    \* bound: failing writes of the state file
    MaxCrashes    \* bound: ends of the manager process

ASSUME FaultAssumption == MaxFaults \in Nat /\ MaxCrashes \in Nat

VARIABLES
    mem,        \* store.State, the records in the manager's memory
    disk,       \* the state.json that the next Open would read
    up,         \* the manager process runs
    closed,     \* isClosed: Close was called
    wedged,     \* writeError is set: no mutation until the store is reopened
    pc,         \* where each operation's worker is
    cancelled,  \* the operations whose worker's cancel channel is closed
    pred,       \* the worker a worker waits for (old), 0 for none
    reg,        \* the operation of the registered worker, 0 for none
    live,       \* generations whose game process exists
    fifo,       \* generations whose stdin.fifo exists
    cfg,        \* generations whose generated cfg exists in the game directory
    told,       \* the newest operation a client was told the id of
    pruned,     \* instances whose history expired
    faults,
    crashes

store   == <<disk, wedged, faults>>
workers == <<pc, cancelled, pred, reg>>
world   == <<live, fifo, cfg>>
life    == <<up, closed, crashes>>
history == <<told, pruned>>
vars    == <<mem, store, workers, world, life, history>>

Pcs == {"none", "wait", "start", "prepare", "files", "cfg", "spawn", "fifo",
        "input", "exec", "spawned", "observe", "killing", "stopping",
        "stopped", "cleanup", "abort", "exit"}

(* The places of a worker that holds the mutex between two steps.          *)
LockedPcs == {"prepare", "files", "cfg", "spawn", "fifo", "input", "exec",
              "spawned", "stopped", "cleanup", "abort"}

TypeOK ==
    /\ mem \in [Instances -> Instance]
    /\ disk \in [Instances -> Instance]
    /\ up \in BOOLEAN /\ closed \in BOOLEAN /\ wedged \in BOOLEAN
    /\ pc \in [Instances -> [OpIds -> Pcs]]
    /\ cancelled \in [Instances -> SUBSET OpIds]
    /\ pred \in [Instances -> [OpIds -> 0..MaxOps]]
    /\ reg \in [Instances -> 0..MaxOps]
    /\ live \in [Instances -> SUBSET Gens]
    /\ fifo \in [Instances -> SUBSET Gens]
    /\ cfg \in [Instances -> SUBSET Gens]
    /\ told \in [Instances -> 0..MaxOps]
    /\ pruned \in SUBSET Instances
    /\ faults \in Nat /\ crashes \in Nat

Init ==
    /\ mem = [i \in Instances |-> Absent]
    /\ disk = [i \in Instances |-> Absent]
    /\ up = TRUE /\ closed = FALSE /\ wedged = FALSE
    /\ pc = [i \in Instances |-> [o \in OpIds |-> "none"]]
    /\ cancelled = [i \in Instances |-> {}]
    /\ pred = [i \in Instances |-> [o \in OpIds |-> 0]]
    /\ reg = [i \in Instances |-> 0]
    /\ live = [i \in Instances |-> {}]
    /\ fifo = [i \in Instances |-> {}]
    /\ cfg = [i \in Instances |-> {}]
    /\ told = [i \in Instances |-> 0]
    /\ pruned = {}
    /\ faults = 0 /\ crashes = 0

----------------------------------------------------------------------------
(* The mutex, the workers and the store. *)

(* Mutant: requests and workers do not wait for the mutex. *)
Unlocked == up

Free == up /\ \A i \in Instances, o \in OpIds : pc[i][o] \notin LockedPcs

Goto(i, o, p) == pc' = [pc EXCEPT ![i][o] = p]

Quits(i, o) == closed \/ o \in cancelled[i]

InMemory(i, x) == mem' = [mem EXCEPT ![i] = x] /\ UNCHANGED store

(* Mutant: the new state file may not have reached the disk. *)
PublishedUnsynced(i, x) ==
    /\ Valid([mem EXCEPT ![i] = x])
    /\ mem' = [mem EXCEPT ![i] = x]
    /\ disk' \in {disk, mem'}
    /\ UNCHANGED faults

(* Store.Save of the records with x for instance i: it writes the whole    *)
(* state, unsaved changes to other instances included.                     *)
Published(i, x) ==
    /\ Valid([mem EXCEPT ![i] = x])
    /\ mem' = [mem EXCEPT ![i] = x]
    /\ disk' = mem'
    /\ UNCHANGED faults

(* A save that fails, leaving y in memory.  validateState may reject the   *)
(* state; a fault leaves the old file, or the new one with an uncertain    *)
(* durability (DurabilityError).                                           *)
Rejected(i, x, y) ==
    /\ ~Valid([mem EXCEPT ![i] = x])
    /\ mem' = [mem EXCEPT ![i] = y]
    /\ UNCHANGED <<disk, faults>>

Faulted(i, x, y) ==
    /\ Valid([mem EXCEPT ![i] = x])
    /\ faults < MaxFaults
    /\ faults' = faults + 1
    /\ mem' = [mem EXCEPT ![i] = y]
    /\ disk' \in {disk, [mem EXCEPT ![i] = x]}

StoreSaved(i, x)       == Published(i, x) /\ UNCHANGED wedged
StoreNotSaved(i, x, y) == (Rejected(i, x, y) \/ Faulted(i, x, y)) /\ UNCHANGED wedged

(* Manager.save: the first failure sets writeError, and every later save   *)
(* fails with it.                                                          *)
Saved(i, x) == ~wedged /\ StoreSaved(i, x)

NotSaved(i, x, y) ==
    /\ wedged' = TRUE
    /\ \/ wedged /\ mem' = [mem EXCEPT ![i] = y] /\ UNCHANGED <<disk, faults>>
       \/ ~wedged /\ (Rejected(i, x, y) \/ Faulted(i, x, y))

(* Mutant: an operation that has ended is finished again. *)
FinishesTwice(i, o, x, y) == Saved(i, y) \/ NotSaved(i, y, FailedSave(y, o))

(* finish, with the instance already changed to x: an operation that has   *)
(* ended is not written again.                                             *)
Finishes(i, o, x, y) ==
    \/ ~Running(x, o) /\ InMemory(i, x)
    \/ Running(x, o) /\ (Saved(i, y) \/ NotSaved(i, y, FailedSave(y, o)))

----------------------------------------------------------------------------
(* Requests. *)

(* newID: an identifier is used once. *)
Fresh(i) == ~Exists(mem[i]) /\ ~Exists(disk[i]) /\ told[i] = 0 /\ i \notin pruned

(* Mutant: the key of a reclaimed room is forgotten. *)
KnownHeldKey(k) == \E j \in Instances : Holds(mem[j]) /\ mem[j].key = k

KnownKey(k) == \E j \in Instances : Exists(mem[j]) /\ mem[j].key = k

(* allocatePort, for a requested port or the one it finds in its range.    *)
PortFree(p) == \A j \in Instances : Holds(mem[j]) => mem[j].port # p

(* create of a new intention: validated, saved, and a worker started.  A   *)
(* definite failure of the save forgets the records; an uncertain one      *)
(* keeps them and stops mutations.                                         *)
Create(i, k, p) ==
    LET x == NewInstance(k, p) IN
    /\ Free /\ ~closed /\ ~wedged /\ Fresh(i)
    /\ ~KnownKey(k)
    /\ PortFree(p)
    /\ \/ /\ StoreSaved(i, x)
          /\ Goto(i, 1, "start")
          /\ reg' = [reg EXCEPT ![i] = 1]
          /\ told' = [told EXCEPT ![i] = 1]
       \/ /\ Rejected(i, x, mem[i]) \/ Faulted(i, x, mem[i])
          /\ disk' = disk /\ wedged' = wedged
          /\ UNCHANGED <<pc, reg, told>>
       \/ /\ Faulted(i, x, x)
          /\ wedged' = TRUE
          /\ UNCHANGED <<pc, reg, told>>
    /\ UNCHANGED <<cancelled, pred, world, life, pruned>>

(* create with a known key: the original identifiers, whatever became of   *)
(* them, and a worker only for an intention nobody works on.               *)
Replay(i) ==
    LET x == mem[i] IN
    /\ Free /\ ~closed /\ ~wedged /\ Exists(x)
    /\ told' = [told EXCEPT ![i] = IF @ = 0 THEN 1 ELSE @]
    /\ IF x.gen = 0 /\ Running(x, 1) /\ reg[i] = 0 /\ x.lifecycle = "active"
       THEN Goto(i, 1, "start") /\ reg' = [reg EXCEPT ![i] = 1]
       ELSE UNCHANGED <<pc, reg>>
    /\ UNCHANGED <<mem, store, cancelled, pred, world, life, pruned>>

MayRestart(i) ==
    /\ mem[i].lifecycle = "active" /\ mem[i].process = "running"
    /\ reg[i] # 0 => ~Running(mem[i], reg[i])

(* A stop of a reclaimed room, or while a stop's worker is registered, is  *)
(* answered with that operation and changes nothing.                       *)
MayStop(i) ==
    /\ Holds(mem[i])
    /\ reg[i] # 0 => mem[i].ops[reg[i]].kind # "stop"

(* change: a new operation becomes current and cancels the worker before   *)
(* it; both changes are in the first save, and the second repeats it.  The *)
(* conjuncts with MaxOps and MaxGen are bounds of the model.               *)
Change(i, kind) ==
    LET old  == reg[i]
        o    == mem[i].nops + 1
        x    == AddOp(mem[i], kind)
        ends == old # 0 /\ old \notin cancelled[i] /\ Running(x, old)
        y    == IF ends THEN EndOp(x, old, "cancelled") ELSE x
        z    == IF ends THEN FailedSave(y, old) ELSE y
    IN
    /\ Free /\ ~closed /\ ~wedged
    /\ mem[i].nops < MaxOps
    /\ kind = "restart" => mem[i].gen < MaxGen
    /\ IF kind = "stop" THEN MayStop(i) ELSE MayRestart(i)
    /\ cancelled' = [cancelled EXCEPT ![i] = IF old = 0 THEN @ ELSE @ \cup {old}]
    /\ \/ /\ Saved(i, y)
          /\ Goto(i, o, "wait")
          /\ pred' = [pred EXCEPT ![i][o] = old]
          /\ reg' = [reg EXCEPT ![i] = o]
          /\ told' = [told EXCEPT ![i] = o]
       \/ /\ \/ NotSaved(i, y, FailedSave(z, o))
             \/ /\ ends /\ Faulted(i, y, FailedSave(y, o))
                /\ disk' = [mem EXCEPT ![i] = y] /\ wedged' = TRUE
          /\ UNCHANGED <<pc, pred, reg, told>>
    /\ UNCHANGED <<world, life, pruned>>

Stop(i)    == Change(i, "stop")
Restart(i) == Change(i, "restart")

----------------------------------------------------------------------------
(* launch: prepare a generation and spawn its process, under the mutex. *)

(* Mutant: the end of the predecessor's operation is taken for its worker's. *)
PredecessorEnded(i, o) == pred[i][o] # 0 => ~Running(mem[i], pred[i][o])

PredecessorDone(i, o) == pred[i][o] # 0 => pc[i][pred[i][o]] = "none"

(* A worker that finds itself cancelled, or the manager closed, returns.   *)
Leave(i, o) ==
    /\ Quits(i, o)
    /\ \/ pc[i][o] \in {"start", "observe"} /\ Free
       \/ pc[i][o] = "wait" /\ Free /\ (closed \/ PredecessorDone(i, o))
    /\ Goto(i, o, "exit")
    /\ UNCHANGED <<mem, store, cancelled, pred, reg, world, life, history>>

(* Mutant: a failure returns without finishing the operation. *)
AbortSilently(i, o) ==
    /\ up /\ pc[i][o] = "abort"
    /\ Goto(i, o, "exit")
    /\ UNCHANGED <<mem, store, cancelled, pred, reg, world, life, history>>

(* finish(..., failed) and the release of the mutex.                       *)
Abort(i, o) ==
    /\ up /\ pc[i][o] = "abort"
    /\ Finishes(i, o, mem[i], FinishFailed(mem[i], o))
    /\ Goto(i, o, "exit")
    /\ UNCHANGED <<cancelled, pred, reg, world, life, history>>

(* A failed step of launch: nothing but the memory of the store changes.   *)
Fails(i, o) == UNCHANGED <<mem, store>> /\ Goto(i, o, "abort")

SaveOrFail(i, o, x, next) ==
    \/ Saved(i, x) /\ Goto(i, o, next)
    \/ NotSaved(i, x, FailedSave(x, o)) /\ Goto(i, o, "exit")

(* An operation of the store itself: its failure is finished as usual.     *)
StoreOrFail(i, o, x, y, next) ==
    \/ StoreSaved(i, x) /\ Goto(i, o, next)
    \/ StoreNotSaved(i, x, y) /\ Goto(i, o, "abort")

Launch(i, o) ==
    /\ Free /\ pc[i][o] = "start" /\ ~Quits(i, o)
    /\ \/ Fails(i, o)                                   \* checkSpace
       \/ SaveOrFail(i, o, AtPhase(mem[i], o, "preparing"), "prepare")
    /\ UNCHANGED <<cancelled, pred, reg, world, life, history>>

MayPrepare(x) ==
    /\ x.process = "stopped" /\ x.lifecycle = "active"
    /\ \A g \in 1..x.gen : x.runs[g].cfgRemoved

(* PrepareRun, to its first save: the next generation exists, unless the   *)
(* arguments or the cfg cannot be expanded.                                *)
PrepareRun(i, o) ==
    LET x == [mem[i] EXCEPT !.gen = @ + 1] IN
    /\ up /\ pc[i][o] = "prepare"
    /\ \/ Fails(i, o)
       \/ /\ MayPrepare(mem[i]) /\ mem[i].gen < MaxGen
          /\ StoreOrFail(i, o, x, x, "files")
    /\ UNCHANGED <<cancelled, pred, reg, world, life, history>>

(* PrepareRun, its files: the archived cfg, the log, then the owned cfg in *)
(* the game directory.  A failed creation may leave the file behind.       *)
PrepareFiles(i, o) ==
    LET g       == mem[i].gen
        created == [mem[i] EXCEPT !.runs[g].cfgCreated = TRUE]
    IN
    /\ up /\ pc[i][o] = "files"
    /\ \/ Fails(i, o) /\ UNCHANGED cfg
       \/ /\ cfg' = [cfg EXCEPT ![i] = @ \cup {g}]
          /\ UNCHANGED <<mem, store>> /\ Goto(i, o, "cfg")
       \/ /\ cfg' = [cfg EXCEPT ![i] = @ \cup {g}]
          /\ StoreSaved(i, created) \/ StoreNotSaved(i, created, created)
          /\ Goto(i, o, "abort")
    /\ UNCHANGED <<cancelled, pred, reg, live, fifo, life, history>>

(* PrepareRun, its last save: the run is prepared and owns its cfg.        *)
RunPrepared(i, o) ==
    LET g == mem[i].gen
        x == [mem[i] EXCEPT !.runs[g].cfgCreated = TRUE, !.runs[g].prepared = TRUE]
    IN
    /\ up /\ pc[i][o] = "cfg"
    /\ StoreOrFail(i, o, x, x, "spawn")
    /\ UNCHANGED <<cancelled, pred, reg, world, life, history>>

(* The port is probed and the intent to spawn is saved.                    *)
IntendSpawn(i, o) ==
    LET g == mem[i].gen
        x == [mem[i] EXCEPT !.ops[o].gen = g]
        y == [AtPhase(x, o, "spawning") EXCEPT !.runs[g].spawnAttempted = TRUE]
    IN
    /\ up /\ pc[i][o] = "spawn"
    /\ \/ InMemory(i, x) /\ Goto(i, o, "abort")          \* CheckPort
       \/ SaveOrFail(i, o, y, "fifo")
    /\ UNCHANGED <<cancelled, pred, reg, world, life, history>>

(* What a launch that left no process behind records before it finishes.   *)
Unspawned(x) ==
    [x EXCEPT !.process = "stopped", !.room = "unknown",
              !.runs[x.gen].stop = "confirmed"]

MakeInput(i, o) ==
    /\ up /\ pc[i][o] = "fifo"
    /\ \/ /\ fifo' = [fifo EXCEPT ![i] = @ \cup {mem[i].gen}]
          /\ UNCHANGED <<mem, store>> /\ Goto(i, o, "input")
       \/ InMemory(i, Unspawned(mem[i])) /\ Goto(i, o, "abort") /\ UNCHANGED fifo
    /\ UNCHANGED <<cancelled, pred, reg, live, cfg, life, history>>

(* Mutant: the ownership of the FIFO is not saved before the spawn. *)
InputUnsaved(i, o) ==
    /\ up /\ pc[i][o] = "input"
    /\ InMemory(i, [mem[i] EXCEPT !.runs[mem[i].gen].input = TRUE])
    /\ Goto(i, o, "exec")
    /\ UNCHANGED <<cancelled, pred, reg, world, life, history>>

(* InputPrepared: the ownership of the FIFO is durable before a child can  *)
(* inherit it; without that the FIFO is removed and nothing is spawned.    *)
InputPrepared(i, o) ==
    LET x == [mem[i] EXCEPT !.runs[mem[i].gen].input = TRUE] IN
    /\ up /\ pc[i][o] = "input"
    /\ \/ Saved(i, x) /\ Goto(i, o, "exec") /\ UNCHANGED fifo
       \/ /\ NotSaved(i, x, Unspawned(x)) /\ Goto(i, o, "abort")
          /\ \/ fifo' = [fifo EXCEPT ![i] = @ \ {mem[i].gen}]
             \/ UNCHANGED fifo
    /\ UNCHANGED <<cancelled, pred, reg, live, cfg, life, history>>

Exec(i, o) ==
    LET g == mem[i].gen IN
    /\ up /\ pc[i][o] = "exec"
    /\ \/ /\ live' = [live EXCEPT ![i] = @ \cup {g}]
          /\ UNCHANGED <<mem, store, fifo>> /\ Goto(i, o, "spawned")
       \/ /\ InMemory(i, Unspawned(mem[i])) /\ Goto(i, o, "abort")
          /\ \/ fifo' = [fifo EXCEPT ![i] = @ \ {g}]
             \/ UNCHANGED fifo
          /\ UNCHANGED live
    /\ UNCHANGED <<cancelled, pred, reg, cfg, life, history>>

(* The child is verified and the room is loading.                          *)
Spawned(i, o) ==
    LET x == [mem[i] EXCEPT !.process = "running", !.room = "loading", !.err = FALSE,
                            !.runs[mem[i].gen].identity = "full"]
    IN
    /\ up /\ pc[i][o] = "spawned"
    /\ SaveOrFail(i, o, AtPhase(x, o, "observing"), "observe")
    /\ UNCHANGED <<cancelled, pred, reg, world, life, history>>

(* Mutant: a rollback counts as an exit without waiting for it. *)
RollbackUnconfirmed(i, o) ==
    /\ up /\ pc[i][o] = "spawned"
    /\ InMemory(i, Unspawned([mem[i] EXCEPT !.runs[mem[i].gen].identity = "partial"]))
    /\ Goto(i, o, "abort")
    /\ UNCHANGED <<cancelled, pred, reg, world, life, history>>

(* The child could not be verified: it is killed through its own handle.   *)
(* Only a confirmed exit releases it; otherwise its process is unknown.    *)
Rollback(i, o) ==
    LET g == mem[i].gen IN
    /\ up /\ pc[i][o] = "spawned"
    /\ \E id \in {"partial", "full"} :
         LET x == [mem[i] EXCEPT !.process = "unknown", !.runs[g].identity = id] IN
         \/ /\ live' = [live EXCEPT ![i] = @ \ {g}]
            /\ InMemory(i, Unspawned(x))
            /\ \/ fifo' = [fifo EXCEPT ![i] = @ \ {g}]
               \/ UNCHANGED fifo
         \/ /\ id = "partial"
            /\ InMemory(i, x) /\ UNCHANGED <<live, fifo>>
    /\ Goto(i, o, "abort")
    /\ UNCHANGED <<cancelled, pred, reg, cfg, life, history>>

----------------------------------------------------------------------------
(* awaitReadiness: observe until ready, failed, or past the deadline. *)

(* One tick.  late says that the startup deadline had passed when it ended *)
(* without a failure; a tick in time that saw no readiness is not saved.   *)
Tick(i, o, v, late) ==
    LET x == Observed(mem[i], v) IN
    /\ Free /\ pc[i][o] = "observe" /\ ~Quits(i, o)
    /\ CanObserve(mem[i], v, mem[i].gen \in live[i])
    /\ \/ Failing(v) /\ InMemory(i, x) /\ Goto(i, o, "abort")
       \/ /\ v = "ready" /\ ~late
          /\ Finishes(i, o, x, EndOp(x, o, "succeeded"))
          /\ Goto(i, o, "exit")
       \/ v = "loading" /\ ~late /\ InMemory(i, x) /\ UNCHANGED pc
       \/ ~Failing(v) /\ late /\ InMemory(i, x) /\ Goto(i, o, "killing")
    /\ UNCHANGED <<cancelled, pred, reg, world, life, history>>

(* Mutant: every stop counts as a confirmed exit. *)
AlwaysConfirms(i, confirmed) == confirmed

(* engine.Stop confirms an exit only for a verified identity whose process *)
(* is gone (ConfirmedIsGone of EngineStop); it may fail to confirm one at  *)
(* any time.                                                               *)
MayConfirm(i, confirmed) ==
    confirmed => /\ mem[i].runs[mem[i].gen].identity = "full"
                 /\ mem[i].gen \notin live[i]

StopResult(x, confirmed) ==
    [x EXCEPT !.runs[x.gen].stop = IF confirmed THEN "confirmed" ELSE "unconfirmed",
              !.process = IF confirmed THEN "stopped" ELSE "unknown"]

(* engine.Stop returns to awaitReadiness, which reports START_TIMEOUT.     *)
TimedOut(i, o, confirmed) ==
    /\ Free /\ pc[i][o] = "killing"
    /\ MayConfirm(i, confirmed)
    /\ InMemory(i, StopResult(mem[i], confirmed))
    /\ Goto(i, o, "abort")
    /\ UNCHANGED <<cancelled, pred, reg, world, life, history>>

----------------------------------------------------------------------------
(* stopOrRestart: stop the process, clean the files up, then reclaim the   *)
(* room or launch its next generation.                                     *)

BeginStop(i, o) ==
    LET x == mem[i] IN
    /\ Free /\ pc[i][o] = "wait" /\ PredecessorDone(i, o) /\ ~Quits(i, o)
    /\ \/ /\ x.process # "stopped" /\ x.gen > 0 /\ x.runs[x.gen].identity # "none"
          /\ SaveOrFail(i, o, AtPhase(x, o, "stopping"), "stopping")
       \/ /\ x.process # "stopped" /\ ~(x.gen > 0 /\ x.runs[x.gen].identity # "none")
          /\ Fails(i, o)                                \* IDENTITY_UNVERIFIED
       \/ /\ x.process = "stopped"
          /\ UNCHANGED <<mem, store>> /\ Goto(i, o, "stopped")
    /\ UNCHANGED <<cancelled, pred, reg, world, life, history>>

Stopped(i, o, confirmed) ==
    LET x == StopResult(mem[i], confirmed) IN
    /\ Free /\ pc[i][o] = "stopping"
    /\ MayConfirm(i, confirmed)
    /\ \/ ~confirmed /\ InMemory(i, x) /\ Goto(i, o, "abort")
       \/ confirmed /\ SaveOrFail(i, o, [x EXCEPT !.room = "unknown"], "stopped")
    /\ UNCHANGED <<cancelled, pred, reg, world, life, history>>

BeginCleanup(i, o) ==
    /\ up /\ pc[i][o] = "stopped"
    /\ \/ Quits(i, o) /\ UNCHANGED <<mem, store>> /\ Goto(i, o, "exit")
       \/ ~Quits(i, o) /\ SaveOrFail(i, o, AtPhase(mem[i], o, "cleanup"), "cleanup")
    /\ UNCHANGED <<cancelled, pred, reg, world, life, history>>

(* Mutant: only a verified process had an input. *)
NeedsInputOfProcess(r) == r.identity # "none" /\ ~r.inputRemoved

NeedsInput(r) == (r.input \/ r.identity # "none") /\ ~r.inputRemoved

(* The run the cleanup loop has reached: every run before it is clean.     *)
Cleaning(i, g) ==
    /\ g \in 1..mem[i].gen
    /\ NeedsInput(mem[i].runs[g]) \/ ~mem[i].runs[g].cfgRemoved
    /\ \A h \in 1..(g - 1) : ~NeedsInput(mem[i].runs[h]) /\ mem[i].runs[h].cfgRemoved

CleanupFails(i, o) ==
    InMemory(i, [mem[i] EXCEPT !.cleanup = "failed"]) /\ Goto(i, o, "abort")

(* CleanupConfirmedInput after a confirmed exit, otherwise CleanupInput,   *)
(* which opens the recorded process again (InputOutlivesGame of            *)
(* EngineStop).  Unlinking is repeatable: it is a step of its own, before  *)
(* the step that saves it.                                                 *)
MayUnlinkInput(i, g) ==
    LET r == mem[i].runs[g]
    IN  r.stop = "confirmed" \/ (r.identity = "full" /\ g \notin live[i])

CleanInput(i, o) ==
    /\ up /\ pc[i][o] = "cleanup"
    /\ \E g \in Gens :
         /\ Cleaning(i, g) /\ NeedsInput(mem[i].runs[g])
         /\ \/ CleanupFails(i, o) /\ UNCHANGED fifo
            \/ /\ MayUnlinkInput(i, g) /\ g \in fifo[i]
               /\ fifo' = [fifo EXCEPT ![i] = @ \ {g}]
               /\ UNCHANGED <<mem, store, pc>>
            \/ /\ MayUnlinkInput(i, g) /\ g \notin fifo[i]
               /\ SaveOrFail(i, o, [mem[i] EXCEPT !.runs[g].inputRemoved = TRUE], "cleanup")
               /\ UNCHANGED fifo
    /\ UNCHANGED <<cancelled, pred, reg, live, cfg, life, history>>

(* CleanupRun: a cfg this run did not record as created is never removed,  *)
(* and one that no longer matches its recorded ownership is kept.          *)
CleanupRun(i, o) ==
    /\ up /\ pc[i][o] = "cleanup"
    /\ \E g \in Gens :
         LET r == mem[i].runs[g]
             x == [mem[i] EXCEPT !.runs[g].cfgRemoved = TRUE]
         IN
         /\ Cleaning(i, g) /\ ~NeedsInput(r)
         /\ \/ /\ mem[i].process # "stopped" \/ r.cfgCreated \/ g \in cfg[i]
               /\ CleanupFails(i, o) /\ UNCHANGED cfg
            \/ /\ mem[i].process = "stopped" /\ r.cfgCreated /\ g \in cfg[i]
               /\ cfg' = [cfg EXCEPT ![i] = @ \ {g}]
               /\ UNCHANGED <<mem, store, pc>>
            \/ /\ mem[i].process = "stopped" /\ g \notin cfg[i]
               /\ \/ StoreSaved(i, x) /\ UNCHANGED pc
                  \/ /\ StoreNotSaved(i, x, [x EXCEPT !.cleanup = "failed"])
                     /\ Goto(i, o, "abort")
               /\ UNCHANGED cfg
    /\ UNCHANGED <<cancelled, pred, reg, live, fifo, life, history>>

(* Mutant: only the inputs have to be clean. *)
InputsClean(i) == \A g \in 1..mem[i].gen : ~NeedsInput(mem[i].runs[g])

AllClean(i) == \A g \in Gens : ~Cleaning(i, g)

Reclaimed(x) ==
    [x EXCEPT !.lifecycle = "reclaimed", !.cleanup = "complete",
              !.room = "unknown", !.err = FALSE]

FinishStop(i, o) ==
    LET x == Reclaimed(mem[i]) IN
    /\ up /\ pc[i][o] = "cleanup" /\ AllClean(i)
    /\ mem[i].ops[o].kind = "stop"
    /\ Finishes(i, o, x, EndOp(x, o, "succeeded"))
    /\ Goto(i, o, "exit")
    /\ UNCHANGED <<cancelled, pred, reg, world, life, history>>

(* A restart goes on to launch; what it resets here is not saved yet.      *)
Relaunch(i, o) ==
    /\ up /\ pc[i][o] = "cleanup" /\ AllClean(i)
    /\ mem[i].ops[o].kind = "restart"
    /\ InMemory(i, [mem[i] EXCEPT !.lifecycle = "active", !.cleanup = "pending",
                                  !.err = FALSE])
    /\ Goto(i, o, "start")
    /\ UNCHANGED <<cancelled, pred, reg, world, life, history>>

(* Mutant: a worker is deregistered but never signals its end. *)
FinishUnsignalled(i, o) ==
    /\ Free /\ pc[i][o] = "exit"
    /\ reg' = [reg EXCEPT ![i] = IF @ = o THEN 0 ELSE @]
    /\ UNCHANGED <<mem, store, pc, cancelled, pred, world, life, history>>

FinishWorker(i, o) ==
    /\ Free /\ pc[i][o] = "exit"
    /\ Goto(i, o, "none")
    /\ reg' = [reg EXCEPT ![i] = IF @ = o THEN 0 ELSE @]
    /\ UNCHANGED <<mem, store, cancelled, pred, world, life, history>>

----------------------------------------------------------------------------
(* The watch goroutine. *)

(* It observes running rooms that no worker is busy with.  The failure of  *)
(* a wedged manager is not replaced; an unchanged failure may be saved     *)
(* again, because its text is not part of the model.                       *)
Watch(i, v) ==
    LET x == Observed(mem[i], v)
        y == IF Failing(v)
             THEN [x EXCEPT !.lifecycle = "failed", !.err = @ \/ ~wedged]
             ELSE x
    IN
    /\ Free /\ ~closed /\ reg[i] = 0
    /\ Holds(mem[i]) /\ mem[i].process = "running"
    /\ mem[i].gen > 0 /\ mem[i].runs[mem[i].gen].identity # "none"
    /\ CanObserve(mem[i], v, mem[i].gen \in live[i])
    /\ Failing(v) \/ y # mem[i]
    /\ Saved(i, y) \/ NotSaved(i, y, [y EXCEPT !.err = TRUE])
    /\ UNCHANGED <<workers, world, life, history>>

(* maintainStorage: an expired history goes, with its operations and key,  *)
(* once its files could be removed; a file nobody expects keeps it.        *)
Prune(i) ==
    LET x == mem[i] IN
    /\ Free /\ ~closed /\ ~wedged
    /\ x.lifecycle = "reclaimed" /\ x.process = "stopped" /\ x.cleanup = "complete"
    /\ fifo[i] = {}
    /\ \/ StoreSaved(i, Absent)
       \/ /\ Rejected(i, Absent, x) \/ Faulted(i, Absent, x)
          /\ wedged' = TRUE
    /\ pruned' = IF Exists(disk'[i]) THEN pruned ELSE pruned \cup {i}
    /\ UNCHANGED <<workers, world, life, told>>

----------------------------------------------------------------------------
(* The manager process and the world. *)

(* Close waits for the workers: each returns at its next check of closed,  *)
(* leaving the operation running on disk.                                  *)
Close ==
    /\ Free /\ ~closed /\ crashes < MaxCrashes
    /\ closed' = TRUE /\ crashes' = crashes + 1
    /\ UNCHANGED <<mem, store, workers, world, up, history>>

Down ==
    /\ up' = FALSE /\ closed' = FALSE /\ wedged' = FALSE
    /\ mem' = [i \in Instances |-> Absent]
    /\ pc' = [i \in Instances |-> [o \in OpIds |-> "none"]]
    /\ cancelled' = [i \in Instances |-> {}]
    /\ pred' = [i \in Instances |-> [o \in OpIds |-> 0]]
    /\ reg' = [i \in Instances |-> 0]
    /\ UNCHANGED <<disk, faults, world, history>>

Exited ==
    /\ up /\ closed /\ \A i \in Instances, o \in OpIds : pc[i][o] = "none"
    /\ Down /\ UNCHANGED crashes

Crash ==
    /\ up /\ crashes < MaxCrashes
    /\ Down /\ crashes' = crashes + 1

(* Searching for the process of the last run: Discover and Open find a     *)
(* live process of a recorded spawn intent, or report that they cannot     *)
(* tell.  One that Discover finds may be gone, or not to be opened, when   *)
(* Open looks at it; it is one that the FIFO was prepared for.             *)
Findings(m) ==
    {v \in [Instances -> Searches] :
        \A i \in Instances :
            /\ v[i] = "alive" => m[i].gen \in live[i]
            /\ v[i] \in {"gone", "exited"} => m[i].gen \notin live[i]
            /\ v[i] \in {"found", "exited"} =>
                 /\ Discoverable(m[i])
                 /\ m[i].runs[m[i].gen].input /\ m[i].gen \in fifo[i]}

Recovery(v) == [i \in Instances |-> Recovered(disk[i], v[i])]

Resumes(x) == Holds(x) /\ Running(x, x.nops)

(* Open: the records are recovered and saved before any worker resumes; an *)
(* operation still running after recovery gets a worker again.  If the     *)
(* save fails, so does Open.                                               *)
Reopen ==
    /\ ~up
    /\ \E v \in Findings(disk) :
         LET m == Recovery(v) IN
         \/ /\ Valid(m)
            /\ up' = TRUE /\ mem' = m /\ disk' = m
            /\ pc' = [i \in Instances |-> [o \in OpIds |->
                        IF ~(Resumes(m[i]) /\ o = m[i].nops) THEN "none"
                        ELSE IF m[i].ops[o].kind = "stop" THEN "wait" ELSE "observe"]]
            /\ reg' = [i \in Instances |-> IF Resumes(m[i]) THEN m[i].nops ELSE 0]
            /\ UNCHANGED faults
         \/ /\ Valid(m) /\ faults < MaxFaults /\ faults' = faults + 1
            /\ disk' \in {disk, m}
            /\ UNCHANGED <<up, mem, pc, reg>>
    /\ UNCHANGED <<wedged, cancelled, pred, world, closed, crashes, history>>

(* A game process exits: on its own, or because engine.Stop told it to.    *)
GameExits(i, g) ==
    /\ g \in live[i]
    /\ live' = [live EXCEPT ![i] = @ \ {g}]
    /\ UNCHANGED <<mem, store, workers, fifo, cfg, life, history>>

----------------------------------------------------------------------------

LaunchStep(i, o) ==
    \/ Launch(i, o) \/ PrepareRun(i, o) \/ PrepareFiles(i, o) \/ RunPrepared(i, o)
    \/ IntendSpawn(i, o) \/ MakeInput(i, o) \/ InputPrepared(i, o) \/ Exec(i, o)
    \/ Spawned(i, o) \/ Rollback(i, o)

StopStep(i, o) ==
    \/ BeginStop(i, o) \/ (\E c \in BOOLEAN : Stopped(i, o, c)) \/ BeginCleanup(i, o)
    \/ CleanInput(i, o) \/ CleanupRun(i, o) \/ FinishStop(i, o) \/ Relaunch(i, o)

WorkerStep(i, o) ==
    \/ LaunchStep(i, o) \/ StopStep(i, o)
    \/ \E v \in Verdicts, late \in BOOLEAN : Tick(i, o, v, late)
    \/ \E c \in BOOLEAN : TimedOut(i, o, c)
    \/ Leave(i, o) \/ Abort(i, o) \/ FinishWorker(i, o)

Request(i) ==
    \/ \E k \in Keys, p \in Ports : Create(i, k, p)
    \/ Replay(i) \/ Stop(i) \/ Restart(i)

Next ==
    \/ \E i \in Instances :
         \/ Request(i)
         \/ \E o \in OpIds : WorkerStep(i, o)
         \/ \E v \in Verdicts : Watch(i, v)
         \/ Prune(i)
         \/ \E g \in Gens : GameExits(i, g)
    \/ Close \/ Exited \/ Crash \/ Reopen

Spec == Init /\ [][Next]_vars

(* A worker waiting for the mutex gets it (sync.Mutex does not starve), a  *)
(* predecessor's end and engine.Stop are bounded in time, and a startup    *)
(* deadline passes: from then on every tick that sees no failure is late.  *)
Prompt(i, o) ==
    \/ LaunchStep(i, o) \/ StopStep(i, o)
    \/ \E v \in Verdicts : Tick(i, o, v, TRUE)
    \/ \E c \in BOOLEAN : TimedOut(i, o, c)
    \/ Leave(i, o) \/ Abort(i, o) \/ FinishWorker(i, o)

Fairness == \A i \in Instances, o \in OpIds : SF_vars(Prompt(i, o))

FairSpec == Spec /\ Fairness
=============================================================================
