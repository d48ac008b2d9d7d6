# A TLA+ model of d2core

d2core manages dedicated game servers on one machine: it creates rooms, starts
one game process for each, stops and restarts them, and keeps in one state file
what it must know after a crash. This directory models the part of it that
decides, on Linux: the manager with its workers and its recovery; the life of
managers around it, with their lock, socket, store and clients; the engine that
finds, observes and stops a process; the records with the files they own; and the
editor of the game's gameinfo.gi. TLC checks the models on small instances; TLAPS
proves their safety, and that the manager and the store behind it implement what
users and clients were promised, for every value of the constants.

- [Parts of the system](#parts-of-the-system)
- [Modules](#modules)
- [Runs](#runs)
- [Fairness](#fairness)
- [Proofs](#proofs)
- [Where code and documentation disagree](#where-code-and-documentation-disagree)
- [Assumptions and what is left out](#assumptions-and-what-is-left-out)
- [What could come next](#what-could-come-next)

## Parts of the system

| part | source | state | operations | what makes it correct |
|---|---|---|---|---|
| manager | `internal/core/manager.go` | the records in memory, a worker for each accepted operation, `writeError`, `isClosed` | create, stop, restart; the workers' launch, awaitReadiness, stopOrRestart; watch; Close | one process a room, nothing given up while in use, no accepted request lost, results final, every operation ends |
| recovery | `internal/core/recovery.go` | none of its own | recover, once for each Open | whatever a crash left can be opened, a process is never lost nor started twice |
| storage maintenance | `internal/core/storage.go`, `internal/records/retention.go` | where the next round goes on | maintainStorage, PruneExpired | no file without a record, foreign files kept, nobody starves |
| binding conflicts | `internal/core/binding_conflicts.go` | none | classify the sockets of a game | pure |
| records | `internal/records/records.go`, `integrity.go`, `allocation.go` | `state.json` | Open, Save, CreateChecked, PrepareRun, CleanupRun, validateState | one key one room, one port one room, every saved state valid |
| durable store | `internal/records/records.go`, `durable*.go`, `marker.go` | files and directory entries, synced or not | Open, Save, ensureInitialized, replaceState | old state or new state, never neither; what was answered stays |
| owned cfg | `internal/records/cfg_owned_linux.go` | one file in the shared cfg directory of the game | createOwnedCFG, cleanupOwnedCFG | deletes what it made and nothing else |
| engine, start | `internal/engine/process_linux.go`, `start_rollback.go` | FIFO, child process | startWithIdentity, rollbackStart | a process that exists is traceable |
| engine, stop | `internal/engine/stop.go`, `process_linux.go` | pidfd, FIFO | Stop, Open, Quit, Kill, CleanupInput | a confirmed exit is one; only the game is signalled |
| engine, discovery | `internal/engine/discover_linux.go` | none | Discover | finds the process of a recorded spawn, or says it cannot tell |
| engine, observer | `internal/engine/observe.go` | offset, kept suffix, matches | Scan | readiness is earned by this generation's log |
| local IPC | `internal/localipc/` | lock, socket, endpoint record, 32 slots | Listen, Serve, Close, Call | one writer at a time, which clients can find |
| client, CLI | `client/`, `cmd/d2core/` | none between requests | Call, serve | an answer is true for good, a key makes one room |
| gameinfo editor | `internal/a2s/` | lock file, backups, temporary file | enable, Merge | one setting added or nothing, the original backed up |
| configuration, tools | `internal/config/`, `tools/`, ... | none | | not modelled |

How they interact. A client sends a request over the local socket; a handler of
the manager changes the records, saves them and starts a worker, all under one
mutex, and answers with the identifier of an operation. The worker launches or
stops a game through the engine. It holds the mutex through the preparation and
spawn of a process and through the cleanup of its files, and gives it up while
`engine.Stop` runs and between two observations of the log. Meanwhile another
request may cancel it, `watch` observes the room twice a second, the game may exit,
a write of the state file may fail (after which nothing may be saved until the
manager is restarted), and the manager may crash. The next one reads the state
file, looks for the processes it names, and resumes or gives up what was under way.

The hard parts are thus: a worker's long critical section with the outside world
changing under it; the results of `engine.Stop` written to a room that another
operation has taken over; crashes between a change of the world and the save
that records it; saves that fail with an uncertain result; a file system and a
process table shared with other programs. `PROJECT.json` lists them one by one
under `hazards`, each with its line and the properties that watch it.

## Modules

| module | what it is |
|---|---|
| `Records` | the records of a room (`Instance`, `Run`, `Operation`), their small changes, `Recovered` and `Valid` (validateState), as pure operators |
| `Manager` | the manager, one action for each piece of a handler or worker between two changes of the outside world or the state file |
| `RoomContract` | the life of a room as a user sees it: reserved, one generation at a time, reclaimed only when empty, expired |
| `ManagerProperties` | the properties of `Manager`, and the refinement mapping to `RoomContract` |
| `MCManager` | `ManagerProperties` with symmetry for TLC |
| `Promise` | what a data directory promises clients over all its managers: one room a key, and no answered creation is lost |
| `Service`, `MCService` | managers from start to end: lock, socket, endpoint record, Open and Save, slots and shutdown, with clients that time out and retry, against faults, kills and losses of power; implements `Promise` |
| `EngineStop` | Stop, Quit, Kill, alive and CleanupInput, one system call at a time, against exits, reused identifiers and replaced files |
| `Discovery` | Discover, one reading at a time, in the world of `EngineStop`, which goes on with the identity it finds |
| `Observer`, `MCObserver` | Scan against a log that grows, is emptied and is replaced |
| `OwnedCfg` | createOwnedCFG and cleanupOwnedCFG against other programs, failing calls and crashes |
| `Retention` | PruneExpired and maintainStorage, file by file |
| `GameInfo` | lex, parse and Merge over sequences of tokens, with a reader of such texts to compare by |
| `A2S`, `MCA2S` | runs of `d2core a2s enable`, against each other and other programs |
| `ManagerProofs` | the proofs about `Manager`: what each change of a record does, what each action does, the processes, the state file and the workers |
| `RoomProofs` | on top of them the proofs about a room: its key, its life, its launches, its files, its records and its results |
| `EngineProofs` | the proofs about `EngineStop`, and about `Discovery` on top of them |
| `ObserverProofs`, `OwnedCfgProofs`, `A2SProofs`, `RetentionProofs` | the proofs about the module each is named after |
| `ServiceProofs` | the proofs about `Service`: its safety, and that it implements `Promise` |

The modules meet in `Manager`: it takes the promise of `EngineStop` as
`MayConfirm` and `MayUnlinkInput`, that of `Observer` as the verdicts an
observation may have, that of `OwnedCfg` as one step that removes the cfg or
fails, that of `Retention` as `Prune`, which drops the record of one room, and
that of `Service` as a save in one step and one manager at a time. `Service` in
turn takes of a manager only that it creates rooms for keys and starts children.
`Discovery` EXTENDS `EngineStop` and relies on `NoChildUnseen` of `Service`, which
lets no search begin before the exec of a predecessor's child has begun.

### Manager and the code

| variables | in the code |
|---|---|
| `mem`, `disk` | `store.State`, and the `state.json` the next Open would read; `nops`, `ops`, `gen`, `runs` of an instance are its operations and runs in order |
| `wedged`, `closed`, `up` | `writeError`, `isClosed`, the process itself |
| `pc[i][o]` | where the worker goroutine of operation o is; the places in `LockedPcs` are inside the mutex |
| `cancelled`, `pred`, `reg` | the worker's `cancel` channel, the `old` worker it waits for, the entry of `m.workers` |
| `live`, `fifo`, `cfg` | the outside world: processes, FIFOs, generated cfgs, by generation |
| `told`, `pruned` | what clients know and which histories have expired: history variables that guard only the reuse of an instance name and of a key |

| actions | in the code |
|---|---|
| `Create`, `Replay`, `Stop`, `Restart` | dispatch with CreateChecked (new key, known key) and change |
| `Launch`, `PrepareRun`, `PrepareFiles`, `RunPrepared`, `IntendSpawn` | launch up to the saved intent, with PrepareRun's three writes apart |
| `MakeInput`, `InputPrepared`, `Exec`, `Spawned`, `Rollback` | startWithIdentity: Mkfifo, the callback that saves its ownership, cmd.Start, the saved identity, rollbackStart |
| `Tick`, `TimedOut` | awaitReadiness: an observation, and the stop after the deadline |
| `BeginStop`, `Stopped`, `BeginCleanup`, `CleanInput`, `CleanupRun`, `FinishStop`, `Relaunch` | stopOrRestart |
| `Leave`, `Abort`, `FinishWorker` | a cancelled worker's return, finish of a failure, finishWorker |
| `Watch`, `Prune`, `Close`, `Exited` | watch, maintainStorage, Close, the end of serve |
| `Crash`, `Reopen` | the process dies; OpenWithOptions and recover |
| `GameExits` | the game exits, told to or not |

A save is one atomic replacement of the whole file that succeeds, fails without
effect, or fails with an unknown one (`Published`, `Rejected`, `Faulted`). Two
kinds of save are kept apart as in the code: `Manager.save`, whose failure is
permanent, and the store's own saves inside CreateChecked, PrepareRun and
CleanupRun, whose failure is reported as any other.

### The other modules

`EngineStop` has one variable for the place in Stop or CleanupInput (`site`) and
one for the place inside `Handle.alive` (`step`), which both call again and
again; `FoundAlive`, `FoundGone` and `FoundUnknown` say where each caller goes
on. `Discovery` adds the place in Discover (`scan`) and follows the one entry of
/proc that the game has; every `continue` of the code is `Passed`, every error
`Undecided`. `Observer` splits a scan in `Stat` and `Read`, between which the log
grows. `OwnedCfg` follows cleanupOwnedCFG through its private directory: verify,
capture by rename, check again, unlink or restore. `Retention` removes a room's
files one at a time, then its record.

`Service` names a manager by its process, so each member of `Managers` lives once:

| variables | in the code |
|---|---|
| `pc` | the place in serve: Listen (`new` to `published`), OpenWithOptions (`recovering`), Serve, the interrupt (`draining`), Manager.Close and Server.Close (`closed` to `released`), or `dead` |
| `mem`, `faulted`, `busy`, `save` | the store's memory, `writeError`, the request that holds the mutex, the place inside its Save |
| `visible`, `durable` | marker and state file as processes see them, and what of them was synced |
| `endpoint`, `sockets`, `forked` | `endpoint.json`, the socket files, children that still hold the inherited lock |
| `calls` | connections: what the server does with each (`at`) and what its client heard (`heard`) |

| actions | in the code |
|---|---|
| `Lock`, `Bind`, `CheckEndpoint`, `PublishEndpoint` | Listen: acquireLock, listenPlatform, the checks of the old record, the rename of the new one |
| `Open`, then `CheckStore`, `WriteMarker`, `WriteTemp`, `Replace`, `SyncDirectory` | Open, and Save by recovery or by a creation: ensureInitialized, exclusive, the temporary file, the rename, the sync |
| `Accept`, `Handle` | Serve with its slots, the handler of a create |
| `Fork`, `Exec` | a worker starts a game; the child's exec closes the lock |
| `Drain`, `Close`, `ReadEndpoint`, `RemoveEndpoint`, `RemoveSocket`, `Exit` | the interrupt, the deferred Manager.Close and Server.Close, the end of the process |
| `Look`, `Dial`, `GiveUp` | localipc.Call: the endpoint record, the connection with the request in its backlog, the timeout |
| `Kill`, `PowerLoss` | the process is killed; all of them are, and unsynced names may or may not survive |

`A2S` splits `enable` wherever the files change or are read again; a run that
fails goes through `Unlock`, the deferred removal of its lock, and one that is
killed does not. In `GameInfo` a text is its tokens, and
`Bytes(text)`, a parameter, is its size with blanks and comments; `Fits` is what
the lexer's two limits let pass: at most 4 MiB, and beyond the limit on tokens
nothing but braces, since tokens are counted only where a word is added.
`Parse` is the recursive descent of `parse` as a function: what it returns from
each place of the text, for each depth of blocks.
The nodes of a block are a set, each with the place of its key, since `unique`
asks only how many have a key; their order in the text is that of their places.
Beside it `Says` reads a text token by token and knows nothing of the parser:
`Faithful` and `Stable` compare what it reads before and after `Merge`.

## Runs

| run | module | instance | what it shows |
|---|---|---|---|
| `one_room` | MCManager | 1 room, 2 generations, 4 operations, 1 write fault, 2 crashes or shutdowns | the safety of a room's life, eleven properties |
| `rooms_store` | MCManager | 2 rooms, 2 keys, 1 port, 1 fault, 1 crash | contention, uncertain saves, idempotency, ports exclusive, and `Manager` implements `RoomContract` |
| `ends` | MCManager | 1 room, 2 generations, 3 operations, fault, crash, fairness | every operation ends |
| `service` | MCService | 3 managers, 2 keys, 2 calls, 1 slot; 1 fault, 1 kill, 1 loss of power | one writer, endpoint and lock, a store that opens again, and `Service` implements `Promise` |
| `engine` | Discovery | 2 other processes | finding by a saved intent, stopping by a saved identity |
| `observer` | MCObserver | logs up to 5 of 2 characters, 2 files, chunk and suffix of 2 | rules cut apart, replaced and emptied logs, more than a chunk at once |
| `owned_cfg` | OwnedCfg | our file, 2 foreign ones, 1 crash | nobody's file is lost |
| `retention` | Retention | 4 rooms, 2 a call, 2 files each, 1 fault, 1 restart | order of removal, no starvation |
| `a2s` | MCA2S | 2 runs, 2 edits, 1 kill, some 100 texts of up to 15 tokens | Merge against `Says`, backups, concurrent runs and editors |
| `ready`, `absent`, `cfg_left` | MCManager, Discovery, OwnedCfg | smaller | the three disagreements below |

Why the bounds are enough. Two generations are what it takes for one process to
be confused with the next; four operations let a create be overtaken by a
restart, that by a stop, and the stop be repeated after it failed. Operations
and generations only grow, so a bound of the model (`MaxOps`, `MaxGen`, in the
guards of `Change` and `PrepareRun`) ends a behaviour and hides none of its
prefix. Two ends of the manager cover a crash during the work that recovery
resumed. One write fault is the worst case, since the first failure of
`Manager.save` is permanent; for the store's own saves a second one repeats the
first. Rooms interact only through the mutex, the ports, the keys and the one
file, and each of these relates two of them. Managers, keys, calls, runs,
instances are symmetric where symmetry is used (`rooms_store`, `service`, `a2s`),
and these runs check no liveness. Three managers are one that leaves something
behind, one that is cut off in recovery from it, and one that opens the store
after that; two calls are a request and its repetition, or two clients in one
slot. In `a2s` the second run meets what a failed or killed first one left, or
edits at the same time; `MCA2S` lists the shapes of text that `Merge` tells apart
and all words of up to two tokens in the two places where it decides, with the
limits on depth, tokens and bytes within reach: the insertion makes some texts
outgrow the limit on tokens with braces alone, others with words, others the
limit on bytes, in which `TextBytes` counts a directive as long as many tokens.
In `observer` a chunk and a suffix of 2 characters and rules of up to 3 have all the alignments that 1 MiB, 511 and 512 bytes have, and a log of 5
takes three scans. In `retention`, four rooms and two a call make the rotation
wrap. `CHECK_DEADLOCK FALSE` is set only where the bounds end behaviours: the
manager's runs, `service` and `a2s`. Every module has a type invariant; those of
`Manager`, `EngineStop`, `Discovery`, `Observer` and `OwnedCfg` are proved, those of
`Service` and `A2S` as far as the proofs need them.

What the properties say is in `ManagerProperties` and at the end of the other
modules, each with a comment. Every one of them fails when the code is changed
in a plausible way; the definitions marked `Mutant` are those changes, and
`PROJECT.json` pairs them with the properties.

## Fairness

`ends` assumes strong fairness for every worker (`Fairness` in `Manager`): a
goroutine that waits for the mutex gets it, because no one holds it for ever and
`sync.Mutex` does not starve; `engine.Stop` ends within its two timeouts
(`CallsReturn` of `EngineStop` shows that); a predecessor's `done` channel stays
closed; and the startup deadline passes, so that from some time on every tick is
late. It assumes nothing of games, clients, `watch` or crashes. `EngineStop`
assumes that the calling goroutine runs and that a loop which keeps pausing
reaches its deadline, `Observer` that scans go on (the ticker), `Retention` that
maintenance is called every minute and returns.

## Proofs

All are checked by tlapm, for any sets of rooms, keys and ports and any numbers
of generations, operations, faults and crashes. Every safety property that a
passing run checks is stated by a theorem, invariants and action properties
alike.

**Manager.** The theorems `TypeCorrect`, `OneProcess`, `AlwaysTraceable` and
`StoppedTruthful` state `TypeOK`, `AtMostOneProcess`, `SpawnIsTraceable` and
`StoppedIsTrue` for `Spec`. None of the last three is inductive: that a room has
one process depends on who may spawn, what was saved before, and what the records
of a stopped room mean. The inductive invariant is

    IInv == TypeOK /\ Exclusive /\ Launching /\ DownIsIdle /\ Tracked /\ StoppedHasNone

- `Exclusive`: at most one worker is inside the mutex.
- `Launching`: a worker inside launch works on an unreclaimed room whose current
  run is not confirmed stopped; from the FIFO on, the intent is on disk; until
  the spawn the room has no process.
- `DownIsIdle`: without a manager there are neither records in memory nor workers.
- `Tracked`: the state file, and the memory of a running manager, account for
  every process: it is of the current run, whose intent and input were saved and
  whose exit is not recorded; runs that do not exist yet are blank.
- `StoppedHasNone`: a room recorded as stopped has no process, outside the
  window between `cmd.Start` and the end of that launch.

`ManagerProofs` first shows, action by action, that a step either changes details
of one record that recovery does not depend on (`QuietStep`) or releases a room
that has no process (`EmptyStep`); it derives the invariant from these two shapes
and treats the steps of launch, the requests, the crash and the recovery on their
own. The only assumptions are those on the constants
(`BoundsAssumption`, `FaultAssumption`), which TLC evaluates on every run.

**Rooms.** On top of `IInv` come the properties that involve several rooms,
several operations of a room, or its files. The first of them are in
`ManagerProofs`:

- `FileValid` says that the state file always passes validateState: every save
  looks at the state it writes, and what nobody saves does not change. From it
  follow `AlwaysReopenable` (`Reopenable`: what a crash leaves, the next manager
  reads and accepts) and `PortsNeverShared` (`PortsExclusive`).
- `NothingAcceptedIsLost` (`AcceptedSurvives`) needs `Durable`: an operation that
  was answered is in the file for good, and memory has at least the operations of
  the file.
- `OneWorkerAtATime` (`OneActiveWorker`) and `NobodyLeftRunning`
  (`RunningHasWorker`) come from one invariant, `OwnedInv`: an operation that has
  not ended is the work of a worker of its room (`Manned`), workers wait for the one
  before them in a queue (`Queued`), so that one of them is past its wait
  (`OneAtWork`), and a stop stays the last operation until its worker ends it
  (`StopsLast`). `WorkerEffect` carries it: no worker's step ends an operation but
  its own.

The others are in `RoomProofs`, and each rests on the ones before it:

- `KeysNeverShared` (`OneRoomPerKey`) needs `KeyInv`: memory knows every key of the
  file, so that a request with a key that is taken does not reach its reservation.
- `ImplementsTheContract` (`ImplementsContract`) is the refinement of
  `RoomContract`: each step is one step of one room's life, or shows nothing
  (`RoomMove`). What has to be ruled out is that a save, which writes the memory
  of every room, shows something that another room left unsaved. `ShownInv` says
  there is no such thing: until a write fails, memory and file show the same
  rooms (`Matched`), with one exception (`Ahead`): PrepareRun keeps a generation
  whose save failed, and the worker then saves it with the failure of its
  operation, before it gives up the mutex. That it does save it needs that the
  operation of a worker which was not told to quit has not ended (`Unfinished`),
  and that the operations of the store itself, which do not look at
  `writeError`, are only reached before one is set (`Writing`).
- `SpawnsWhenAsked` (`SpawnOnlyWhenAsked`) needs `AskedInv`: a worker between its
  decision to launch and `cmd.Start`, or in the cleanup, was not told to quit, and
  nobody can tell it before it gives the mutex up; a worker that launches never
  works for a stop, since a stop goes from its cleanup to its end, and recovery
  resumes nothing but the last operation.
- `NothingLeftBehind` (`ReclaimedIsGone`) and `InputsAccounted` (`InputAccounted`)
  come from `FilesKnown`, which says of the state file, and of the memory of a
  running manager, that they account for the cfgs and FIFOs on the disk of the
  machine (`Filed`). It has to hold of both: cleanup is decided from memory, and
  what a crash leaves is decided from the file. At the places of launch the two
  agree about the room (`FileFacts`), which is why a launch cannot create a file
  that a crash makes unknown, and a worker in the cleanup knows that the process
  has stopped. The FIFO of a spawn whose intent was saved and whose ownership was
  not is the exception the property makes.
- `RecordsStayValid` (`BookkeepingValid`) shows of every change of a record that
  what validateState accepts, it still accepts (`Detail`, `Sound`). Where a result
  is written after `engine.Stop` has returned, the operation may have been
  cancelled meanwhile, so that its end is not written; the proof needs that phase
  and status of an operation still change together (`PhaseOk`). Only readiness is
  left out, which the first disagreement below breaks.
- `ResultsStayFinal` (`ResultsAreFinal`) is about two states of the file, and saves
  write the memory of every room: until a write fails, memory therefore has to
  repeat every result of the file (`Final` in `ResultsKnown`), and after one nothing
  is saved until recovery has read the file again. That no worker writes a result
  into a room that has been reused for another takes `Numbered`: a worker's
  operation is one of its room. That a failed room is not brought back takes
  `StopsOnly`: what runs in it is a stop.

**EngineStop** (`EngineProofs`). `ConfirmedTruthful`, `KillsOnlyGame`, `QuitsOnlyGame`,
`OverdueKilled` and `InputKept` hold for any set of processes that may get the
game's identifier. Their invariant adds that past Open the pidfd is the game's,
that an identifier which has changed hands means the game was reaped, that a
FIFO compared with a stranger's cannot pass the second look at the process
(`Matched`), and that removeInput is reached only after an exit (`Removing`).

**Discovery** (`EngineProofs`). `FindsTheGame` states `SettledIsFound` for any set of other
processes; its invariant (`Searched`) follows what the search has seen so far, and
keeps that of `EngineStop`, which the stop after it goes on from:
`StopsWhatItFound`.

**Service.** `WriterAlone`, `ChildrenSeen` and `ServesReachable` follow from one
invariant about the lock (`Exclusive`), which one manager has and gives up last,
the saves (`Saving`), and the endpoint record with its socket (`Listed`).
`ImplementsPromise` states `KeepsPromise` for any numbers of managers, calls, keys,
faults, kills and losses of power. Its invariant is a chain,

    Answered \subseteq DRooms \subseteq Rooms      (Kept)

what was answered is durable and what is durable is visible, together with what
the one manager that may write knows (`Knows`): its memory is what is visible,
and is durable unless its `writeError` is set, or unless it has not yet saved
what recovery read. That last clause is why recovery has to save before it
serves: with the mutant `OpenUnsaved`, which skips that save when nothing
changed, an answer can be taken back by a loss of power. Each action is shown to
keep the chain and to be a step of `Promise` or none (`StepP`); a save that others
do not notice is handled once (`Others`), by `OneWriter`.

`SavedOpensAgain` states the action property `OpensAgain`. Its invariant
(`Openable`, which TLC also found to hold on the instance of `service`) says that
whatever state file a loss of power may leave is visible now, and that beside a
visible state file there is a marker which is synced; the Save at work rewrites
the marker only as long as there is no state file. With `OneWriter` there is no
second Save that could do so.

**Observer.** `FoundWasRead` and `ReadyEarned` hold for any rules, any logs, any
number of files, any length of a read, and any suffix that is no more than one
character shorter than the longest rule, which is what the 511 bytes and the
limit of 512 of the code give (`RulesAssumption`). Their invariant says that the
suffix is the end of what was read since the last reset (`Remembered`), and that
what was read is the beginning of the file that is followed, unless that file was
emptied (`Followed`). The core is a lemma about texts: a rule occurs in what was
read with the new part if it occurred before or occurs in suffix and part
together. `ReadyEarned` is an action property of the same invariant.

**OwnedCfg.** `NoFileIsLost`, `DisplacedReported` and `RemovedAbsent` hold for any
set of foreign files and any number of crashes. Their invariant says that a file
is in one place (`Placed`), that what is held was captured (`Holding`), and that
what is about to be unlinked is the generated file, unchanged, which nothing
puts back afterwards (`Unlinking`).

**A2S.** `OriginalKept` and `ResultTrue` hold for any number of runs, edits and
kills. The invariant `EditInv` has the lock (`Locked`), whole backups for every
run that has written one (`BackedUp`), and that the text a run is about to
replace is the one it read, unless others wrote after its last look
(`Prepared`).

`ResultTrue` and `MergeFaithful` also need to know what `Merge` does to a text, and
hold for texts of any length and nesting. `tlapm` cannot instantiate an induction
theorem with a parser, so the induction is over sets: the places that can be read
from are well-founded from the end of the text (`LeastNumber`, `Downward`), and
`ListInduction` says that a set of pairs (place, depth) that has a list whenever it
has the rest of it and the block it begins with has every list that `Parse`
returns. By it are proved:

- `Shape`: a list ends where it says, at its closing brace or at the end of the
  text, and each of its nodes lies within it.
- `ReadsLists`: the reader goes through a list with the open keys it came with, and
  finds below them the values of the nodes and nothing else; hence
  (`AdvertisedWithin`, `EntryOfGMS`) the reader and `Merge` find the same settings.
- `ListsMoved`, `ListsKept`: the lists behind an insertion have the keys they had,
  the length of it further on, and those before it are what they were.
- `ListsGrown`, `ListsFilled`: the list that the insertion closes has its nodes
  besides, and the one that has this list as a block is otherwise the same; so
  the text parses again and `Merge` finds its own setting.

`ReadsInserted` says that the reader finds the inserted setting between what it
found before. From these follow `FaithfulText` and `StableText`, one fact for each
half of `MergeIsFaithful`, and `MergeUnderstood`, which `ResultTrue` rests on. They
assume only what `LimitsAssumption` says: the words that `Merge` compares with are
tokens, and blocks may be nested twice. The limits on tokens and bytes may be any
numbers and `Bytes` any function of texts: `StableText` says that the text
written is found to be configured if it still fits, and refused if it does not.

**Retention.** `HistoryOwned`, `ForeignSafe` and `KeysRemembered` are inductive only
together: a save writes what the memory holds, and a restart reads it back.

**Model-checked only.** Liveness: `OperationsEnd`, `CallsReturn`, `CatchesUp` and
`NobodyStarves`, which TLAPS does not support under fairness. Every safety property
of a passing run is proved.

## Where code and documentation disagree

- `ready`: `finish` returns before it looks at the room when its operation was
  cancelled (`manager.go:330`). If `engine.Stop` did not confirm the exit, the
  room stays `ready` with its process `unknown`, against `docs/local-api.md:66`,
  and the next save, of any room, is refused by validateState.
- `absent`: Discover passes over a process whose command line is empty
  (`discover_linux.go:102`), which is how a game looks in the middle of its exec,
  and one whose executable or, after the clock was set back, start time no longer
  agrees (`:92`, `:141`). Recovery takes the empty result for a proof and records a
  confirmed stop, against `docs/validation/m2.md:22`, by which a potential target
  that cannot be inspected stays unknown. `SettledIsFound` is about every other
  case.
- `cfg_left`: after a crash or a failed unlink, the captured cfg stays in its
  private directory; the next stop finds nothing at the path and records the cfg
  as removed (`cfg_owned_linux.go:77`), against `docs/local-api.md:72`.

`BookkeepingValid` is about everything else validateState checks: apart from the
room of the first disagreement, no handler makes a record it would refuse.

A crash between Mkfifo and the save of its ownership (`process_linux.go:127`)
leaves a FIFO that no record names, in a room that may then be reclaimed with
cleanup complete; `docs/operations.md:239` knows this only of records from before
an upgrade. `InputAccounted` is about every FIFO but that one. A first start cut
between the marker and the first `state.json` leaves a directory that no manager
opens, which `docs/validation/m2.md:40` describes as intended; `OpensAgain` is about
every later one.

## Assumptions and what is left out

- Discovery (`Findings` in `Manager`) may fail to find out, but does not report a
  wrong process or a wrong absence. `FindsTheGame` and `StopsWhatItFound` show how
  far this is so; the `absent` run shows where it is not.
- In `Discovery` only the entry of the game is followed. That another process has
  the same executable, arguments and FIFO is excluded by the random run directory
  in its arguments; the limits on entries and time are errors (`Undecided`).
- A fault of `Manager` is a failing write of the state file; every step of launch
  and cleanup may fail besides. In recovery a process that Discover has found may
  turn out gone, or not to be opened (`Searches` in `Records`).
  In `Service` any system call of Listen, Save and Close may fail. Disk contents do not decay.
- A loss of power keeps of a name that was not synced either what it was or what
  it has become; a synced name stays. Of the endpoint record, which is never
  synced, it keeps that or nothing. Temporary files and the sockets of dead
  managers that lie about have no effect and are not followed.
- `Service` follows creations, the one kind of request with a key; stop and
  restart name what a creation made. That an expired history takes its key with
  it (`Retention`) is left out: `Promise` is about keys that are still kept.
- In `GameInfo` texts of the same tokens have the same size. In `A2S` a file is
  read in one step, and the machine does not lose power: a
  backup that an earlier run could write but not sync is taken by the next one as
  it is read (`file.go:85`), and nothing here says whether it survives.
- A port that is free in the records is also free on the machine, or the probe
  fails; automatic choice is any free port.
- In `OwnedCfg` the inode of a file is not reused while a cleanup runs; the file
  system gives the code no way to tell.
- In `Observer` a log that was emptied and has grown past the old offset before
  the next scan is excluded from `ReadyIsEarned` (`torn`), for the same reason.
- In `EngineStop` removeInput may remove a file that was put at the path after
  its Lstat; the run directory belongs to d2core alone, and no property is about it.
- In `Retention` what others put into a room's directory are entries of other
  names. A file that takes the place of one of the room's own after its digest was
  compared (`retention.go:139`) is removed with the room.
- Times, texts, digests, logs and error wording are abstracted. A deadline is a
  step that may be taken at any time.
- Not modelled: the Windows variants, other implementations of the same
  promises; the configuration (`config.go`), whose functions of texts and paths
  have no state, and whose correctness is the wording of every field; the
  classification of sockets in `binding_conflicts.go`, a comparison of two
  addresses (its result is one of the reasons for the verdict `failing`); the
  flags and output of the command line; ReadTail; development tools.

## What could come next

1. An abstract specification of the records beneath `RoomContract`: the life of
   an operation, with its results, as `Promise` has it for creations.
2. The answers given to clients: a stop that arrives between the end of a failed
   stop and its deregistration is answered with the failed one (`manager.go:618`).
3. A save of `Manager` in the steps of `Service`, with more than creations in it.
4. The Windows variants: named pipes, job objects and write-through replacement.
