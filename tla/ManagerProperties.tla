------------------------- MODULE ManagerProperties -------------------------
(***************************************************************************)
(* What the manager promises of its rooms, whatever interleaving of        *)
(* requests, workers, observations, game exits, write faults, shutdowns    *)
(* and crashes it meets.                                                   *)
(***************************************************************************)
EXTENDS Manager, FiniteSets

(* At most one game process of an instance exists: the next generation is  *)
(* spawned only after the exit of the one before it was confirmed, also    *)
(* when the manager crashed in between (stopOrRestart, launch, recover).   *)
AtMostOneProcess == \A i \in Instances : Cardinality(live[i]) <= 1

(* A room shown or saved as reclaimed has no game process, and none of its *)
(* generated cfgs is left at its path in the game directory                *)
(* (stopOrRestart, CleanupRun): nothing is given up while still in use.    *)
ReclaimedIsGone ==
    \A i \in Instances :
        mem[i].lifecycle = "reclaimed" \/ disk[i].lifecycle = "reclaimed"
            => live[i] = {} /\ cfg[i] = {}

(* Every game process can be traced from the state file alone, at every    *)
(* moment a crash may strike: its run is the current one of an unreclaimed *)
(* instance, its spawn and its input were saved before it existed, and its *)
(* exit is not recorded (launch, InputPrepared, recover).                  *)
SpawnIsTraceable ==
    \A i \in Instances : \A g \in live[i] :
        /\ Holds(disk[i]) /\ disk[i].gen = g
        /\ disk[i].runs[g].spawnAttempted /\ disk[i].runs[g].input
        /\ disk[i].runs[g].stop # "confirmed"

(* Process "stopped" and a confirmed stop are statements of fact: no       *)
(* process of the instance exists, except while its launch is between      *)
(* cmd.Start and recording it under the mutex, and except for a game that  *)
(* Discover takes for absent in the middle of its exec, which Findings     *)
(* leaves out (AbsentIsGone of Discovery shows it).                        *)
StoppedIsTrue ==
    \A i \in Instances :
        /\ up /\ mem[i].process = "stopped" /\ (\A o \in OpIds : pc[i][o] # "spawned")
             => live[i] = {}
        /\ \A g \in live[i] : mem[i].runs[g].stop # "confirmed"

(* A FIFO that lies in a run's directory was never recorded as removed,    *)
(* and a reclaimed room leaves none behind that its records owned: only    *)
(* that of a launch cut off between Mkfifo and InputPrepared stays (launch,*)
(* recover, CleanupInput).                                                 *)
InputAccounted ==
    \A i \in Instances : \A g \in fifo[i] :
        LET r == disk[i].runs[g] IN
        /\ r.spawnAttempted /\ ~r.inputRemoved
        /\ disk[i].lifecycle = "reclaimed" => ~r.input /\ r.identity = "none"

(* Two game processes never were given the same port, although instances   *)
(* are reserved, reclaimed and recovered independently (allocatePort,      *)
(* portReserved).                                                          *)
PortsExclusive ==
    \A i, j \in Instances :
        i # j /\ live[i] # {} /\ live[j] # {} => disk[i].port # disk[j].port

(* An operation whose id a client was told is in the state file, and in    *)
(* the memory of a running manager, until its history expires: a crash or  *)
(* an uncertain write loses no accepted request (change, CreateChecked).   *)
AcceptedSurvives ==
    \A i \in Instances : told[i] > 0 /\ i \notin pruned =>
        /\ Exists(disk[i]) /\ disk[i].nops >= told[i]
        /\ up => Exists(mem[i]) /\ mem[i].nops >= told[i]

(* One idempotency key never names two rooms, in memory, in the state file *)
(* or between a retry before and after a crash (CreateChecked).            *)
OneRoomPerKey ==
    \A i, j \in Instances : i # j =>
        /\ Exists(disk[i]) /\ Exists(disk[j]) => disk[i].key # disk[j].key
        /\ Exists(mem[i]) /\ Exists(mem[j]) => mem[i].key # mem[j].key

(* No operation is left running with nobody working on it: while the       *)
(* manager accepts requests, a running operation is the current one and    *)
(* its worker has not returned (change, finish, finishWorker, recover).    *)
RunningHasWorker ==
    up /\ ~closed /\ ~wedged =>
        \A i \in Instances : \A o \in 1..mem[i].nops :
            Running(mem[i], o) => o = mem[i].nops /\ pc[i][o] \notin {"none", "exit"}

(* At most one worker of an instance is past waiting for its predecessor,  *)
(* also in the window where an ended operation's worker has not torn down  *)
(* yet and a restart is already accepted (old.done in stopOrRestart).      *)
OneActiveWorker ==
    \A i \in Instances : \A o, q \in OpIds :
        pc[i][o] \notin {"none", "wait", "exit"} /\ pc[i][q] \notin {"none", "wait", "exit"}
            => o = q

(* Whatever a crash leaves in the state file can be opened again: it is    *)
(* valid, and so is the state recovery makes of it, whatever recovery      *)
(* finds (Open, validateState, recover).                                   *)
Reopenable == Valid(disk) /\ \A v \in Findings(disk) : Valid(Recovery(v))

(* Apart from the room of a process that was lost (see ReadyHasProcess),   *)
(* validateState never rejects what the handlers made of the records.      *)
BookkeepingValid ==
    /\ \A i \in Instances : Exists(mem[i]) => ValidInstance(mem[i])
    /\ DistinctPorts(mem)

(* A game process is only ever spawned by a manager whose current          *)
(* operation for the room is a running create or restart: no process       *)
(* appears once a stop was accepted, and none during recovery (launch).    *)
SpawnOnlyWhenAsked ==
    [][\A i \in Instances : live'[i] \ live[i] # {} =>
         /\ up /\ ~closed /\ Running(mem[i], mem[i].nops)
         /\ mem[i].ops[mem[i].nops].kind # "stop"]_vars

(* The state file never changes the result of an operation that has ended, *)
(* nor turns a failed room back into an active one or a reclaimed one into *)
(* anything else but nothing (finish, change, recover, PruneExpired).      *)
ResultsAreFinal ==
    [][\A i \in Instances : Exists(disk[i]) /\ Exists(disk'[i]) =>
         /\ \A o \in 1..disk[i].nops :
              ~Running(disk[i], o) => disk'[i].ops[o] = disk[i].ops[o]
         /\ disk[i].lifecycle = "failed" => disk'[i].lifecycle # "active"
         /\ disk[i].lifecycle = "reclaimed" => disk'[i].lifecycle = "reclaimed"]_vars

(* Every operation the manager works on ends, unless writing the state     *)
(* failed or the manager goes down first: no worker waits for ever on a    *)
(* predecessor, a deadline, an engine stop or the mutex.                   *)
OperationsEnd ==
    \A i \in Instances, o \in OpIds :
        Running(mem[i], o) ~> (~Running(mem[i], o) \/ wedged \/ closed \/ ~up)

(* The manager implements the life of a room that RoomContract describes,  *)
(* as the state file and the processes show it.                            *)
Contract == INSTANCE RoomContract WITH
    tenure <- [i \in Instances |->
                 IF Holds(disk[i]) THEN "held"
                 ELSE IF Exists(disk[i]) THEN "reclaimed"
                 ELSE IF i \in pruned THEN "expired" ELSE "none"],
    port   <- [i \in Instances |-> IF Holds(disk[i]) THEN disk[i].port ELSE NoPort],
    gen    <- [i \in Instances |-> disk[i].gen],
    procs  <- live

ImplementsContract == Contract!Spec

----------------------------------------------------------------------------
(* A statement of the documentation that the code does not keep. *)

(* docs/local-api.md: ready must correspond to a live process, and a room  *)
(* whose exit or identity is unclear is no longer ready.                   *)
ReadyHasProcess == Free => \A i \in Instances : ReadyRuns(mem[i])
=============================================================================
