------------------------------ MODULE Service ------------------------------
(***************************************************************************)
(* Managers of one data directory from start to end (d2core serve): the    *)
(* lock, the socket and the endpoint record (internal/localipc), the       *)
(* durable store behind them (internal/records), and the clients that look *)
(* the endpoint up, call, give up and call again with the same key.        *)
(* Managers are killed, calls of the system fail and the power is lost.    *)
(*                                                                         *)
(* A member of Managers is one process in its whole life, and names its    *)
(* socket, whose token is random.  The state file is taken for the set of  *)
(* the creation keys it holds; what a manager makes of an accepted         *)
(* creation is the business of Manager.  A member of Calls is one          *)
(* connection, which its server may still serve after its client left.     *)
(***************************************************************************)
EXTENDS FiniteSets, Naturals

CONSTANTS
    Managers,    \* bound: the manager processes that are started
    Keys,        \* creation keys, each of one client
    Calls,       \* bound: the calls that clients make
    None,
    Slots,       \* handlers a manager runs at a time (32)
    MaxFaults,   \* bound: calls of the system that fail
    MaxKills,    \* bound: managers that are killed
    MaxLosses    \* bound: losses of power

ASSUME ServiceAssumption ==
    /\ None \notin Managers \cup Calls \cup Keys
    /\ Slots \in Nat \ {0} /\ {MaxFaults, MaxKills, MaxLosses} \subseteq Nat

VARIABLES
    pc,          \* where each manager is
    mem,         \* the keys in its memory
    faulted,     \* the managers whose writeError is set
    busy,        \* the call each one handles under its mutex, or None
    save,        \* how far the Save is that each one runs
    visible,     \* the data directory as processes see it
    durable,     \* what of it a loss of power leaves
    endpoint,    \* the manager endpoint.json names, or None
    sockets,     \* the sockets that lie in the directory
    forked,      \* managers with a child between fork and exec
    calls,
    limits       \* faults, kills and losses so far

process == <<pc, mem, faulted, busy, save>>
disk    == <<visible, durable>>
local   == <<endpoint, sockets, forked>>
vars    == <<process, disk, local, calls, limits>>

NoState == {None}      \* no state.json

Pcs   == {"new", "locked", "bound", "checked", "published", "recovering", "serving",
          "draining", "closed", "removing", "unlisted", "released", "dead"}
Saves == {"none", "check", "mark", "temp", "replace", "sync"}
Files == [marker : {"none", "partial", "ok"}, state : (SUBSET Keys) \cup {NoState}]
Call  == [key   : Keys \cup {None}, to : Managers \cup {None},
          at    : {"idle", "looked", "queued", "taken", "done"},
          heard : {"none", "waiting", "answered", "failed"}]

NoFiles == [marker |-> "none", state |-> NoState]
NoCall  == [key |-> None, to |-> None, at |-> "idle", heard |-> "none"]

TypeOK ==
    /\ pc \in [Managers -> Pcs]
    /\ mem \in [Managers -> SUBSET Keys]
    /\ faulted \subseteq Managers
    /\ busy \in [Managers -> Calls \cup {None}]
    /\ save \in [Managers -> Saves]
    /\ visible \in Files /\ durable \in Files
    /\ endpoint \in Managers \cup {None}
    /\ sockets \subseteq Managers /\ forked \subseteq Managers
    /\ calls \in [Calls -> Call]
    /\ limits \in [faults : 0..MaxFaults, kills : 0..MaxKills, losses : 0..MaxLosses]

Init ==
    /\ pc = [m \in Managers |-> "new"] /\ mem = [m \in Managers |-> {}]
    /\ faulted = {} /\ busy = [m \in Managers |-> None]
    /\ save = [m \in Managers |-> "none"]
    /\ visible = NoFiles /\ durable = NoFiles
    /\ endpoint = None /\ sockets = {} /\ forked = {}
    /\ calls = [c \in Calls |-> NoCall]
    /\ limits = [faults |-> 0, kills |-> 0, losses |-> 0]

Goto(m, from, to) == pc[m] = from /\ pc' = [pc EXCEPT ![m] = to]

Fault ==
    /\ limits.faults < MaxFaults
    /\ limits' = [limits EXCEPT !.faults = @ + 1]

----------------------------------------------------------------------------
(* What becomes of calls. *)

Hears(call, what) ==
    [call EXCEPT !.at = "done", !.heard = IF @ = "waiting" THEN what ELSE @]

(* A listener or a process that goes drops the connections it has.         *)
Dropped(m, stages) ==
    [c \in Calls |-> IF calls[c].to = m /\ calls[c].at \in stages
                     THEN Hears(calls[c], "failed") ELSE calls[c]]

Reply(c, what) == calls' = [calls EXCEPT ![c] = Hears(@, what)]

----------------------------------------------------------------------------
(* Listen.  The lock is a flock on a close-on-exec descriptor: a child     *)
(* that has not reached its exec holds it with the manager that forked it. *)

(* Mutant: the lock is released before the endpoint is removed.            *)
HoldingUntilClosed == Pcs \ {"new", "removing", "unlisted", "released", "dead"}

Holding == Pcs \ {"new", "released", "dead"}

Listening == {"bound", "checked", "published", "recovering", "serving"}

(* Mutant: a lock that dies with the process that took it.                 *)
LockDiesWithManager == \A m \in Managers : pc[m] \notin Holding

LockFree == \A m \in Managers : pc[m] \notin Holding /\ m \notin forked

Lock(m) ==
    /\ IF LockFree THEN Goto(m, "new", "locked") ELSE Goto(m, "new", "dead")
    /\ UNCHANGED <<mem, faulted, busy, save, disk, local, calls, limits>>

Bind(m) ==
    /\ \/ Goto(m, "locked", "bound") /\ sockets' = sockets \cup {m} /\ UNCHANGED limits
       \/ Goto(m, "locked", "dead") /\ Fault /\ UNCHANGED sockets
    /\ UNCHANGED <<mem, faulted, busy, save, disk, endpoint, forked, calls>>

(* A record that is there has to be one a manager wrote.                   *)
CheckEndpoint(m) ==
    /\ \/ Goto(m, "bound", "checked") /\ UNCHANGED <<calls, limits>>
       \/ Goto(m, "bound", "closed") /\ Fault /\ calls' = Dropped(m, {"queued"})
    /\ UNCHANGED <<mem, faulted, busy, save, disk, local>>

PublishEndpoint(m) ==
    /\ \/ Goto(m, "checked", "published") /\ endpoint' = m /\ UNCHANGED <<calls, limits>>
       \/ /\ Goto(m, "checked", "closed") /\ Fault
          /\ calls' = Dropped(m, {"queued"}) /\ UNCHANGED endpoint
    /\ UNCHANGED <<mem, faulted, busy, save, disk, sockets, forked>>

----------------------------------------------------------------------------
(* The store: Open, and Save by the one that holds the manager's mutex.    *)

Fresh  == visible.marker = "none" /\ visible.state = NoState
Intact == visible.marker = "ok" /\ visible.state # NoState

Loaded == IF Fresh THEN {} ELSE visible.state

(* Mutant: recovery saves only what it has changed.                        *)
OpenUnsaved(m) ==
    /\ IF Intact
       THEN /\ Goto(m, "published", "serving")
            /\ mem' = [mem EXCEPT ![m] = Loaded]
            /\ UNCHANGED <<save, calls>>
       ELSE IF Fresh
       THEN /\ Goto(m, "published", "recovering")
            /\ mem' = [mem EXCEPT ![m] = Loaded]
            /\ save' = [save EXCEPT ![m] = "check"]
            /\ UNCHANGED calls
       ELSE /\ Goto(m, "published", "closed")
            /\ calls' = Dropped(m, {"queued"})
            /\ UNCHANGED <<mem, save>>
    /\ UNCHANGED <<faulted, busy, disk, local, limits>>

(* Open reads the store, and recovery saves what it makes of it.           *)
Open(m) ==
    /\ IF Fresh \/ Intact
       THEN /\ Goto(m, "published", "recovering")
            /\ mem' = [mem EXCEPT ![m] = Loaded]
            /\ save' = [save EXCEPT ![m] = "check"]
            /\ UNCHANGED calls
       ELSE /\ Goto(m, "published", "closed")
            /\ calls' = Dropped(m, {"queued"})
            /\ UNCHANGED <<mem, save>>
    /\ UNCHANGED <<faulted, busy, disk, local, limits>>

(* What a Save of m writes: its memory, with the room it creates.          *)
Goal(m) == mem[m] \cup (IF busy[m] = None THEN {} ELSE {calls[busy[m]].key})

AtSave(m, from, to) == save[m] = from /\ save' = [save EXCEPT ![m] = to]

(* The end of a Save: of the recovery's, which has to succeed for the      *)
(* manager to serve, or of a creation's, which leaves memory as it was if  *)
(* nothing was published and otherwise keeps the room.                     *)
SaveEnds(m, from, published, synced) ==
    /\ AtSave(m, from, "none")
    /\ IF busy[m] = None
       THEN /\ IF synced THEN Goto(m, "recovering", "serving") /\ UNCHANGED calls
                        ELSE Goto(m, "recovering", "closed") /\ calls' = Dropped(m, {"queued"})
            /\ UNCHANGED <<mem, faulted, busy>>
       ELSE /\ busy' = [busy EXCEPT ![m] = None]
            /\ mem' = [mem EXCEPT ![m] = IF published THEN Goal(m) ELSE @]
            /\ faulted' = IF published /\ ~synced THEN faulted \cup {m} ELSE faulted
            /\ Reply(busy[m], IF synced THEN "answered" ELSE "failed")
            /\ UNCHANGED pc

SaveFails(m, from) ==
    /\ Fault /\ SaveEnds(m, from, FALSE, FALSE)
    /\ UNCHANGED <<disk, local>>

Step(m, from, to) ==
    /\ AtSave(m, from, to)
    /\ UNCHANGED <<pc, mem, faulted, busy, local, calls, limits>>

(* ensureInitialized, which refuses what Open would have refused: that a   *)
(* store becomes so under its only writer (OneWriter) is not modelled.     *)
CheckStore(m) ==
    \/ Intact /\ Step(m, "check", "temp") /\ UNCHANGED disk
    \/ /\ Fresh /\ Step(m, "check", "mark")
       /\ visible' = [visible EXCEPT !.marker = "partial"] /\ UNCHANGED durable

WriteMarker(m) ==
    \/ /\ Step(m, "mark", "temp")
       /\ visible' = [visible EXCEPT !.marker = "ok"]
       /\ durable' = [durable EXCEPT !.marker = "ok"]
    \/ /\ Fault /\ SaveEnds(m, "mark", FALSE, FALSE)
       /\ \E how \in {"partial", "ok"} : visible' = [visible EXCEPT !.marker = how]
       /\ UNCHANGED <<durable, local>>

(* Mutant: the state is written in place.                                  *)
WriteInPlace(m) ==
    /\ AtSave(m, "temp", "replace")
    /\ visible' = [visible EXCEPT !.state = NoState]
    /\ UNCHANGED <<pc, mem, faulted, busy, durable, local, calls, limits>>

WriteTemp(m) ==
    \/ Step(m, "temp", "replace") /\ UNCHANGED disk
    \/ SaveFails(m, "temp")

Replace(m) ==
    \/ /\ Step(m, "replace", "sync")
       /\ visible' = [visible EXCEPT !.state = Goal(m)] /\ UNCHANGED durable
    \/ SaveFails(m, "replace")

SyncDirectory(m) ==
    \/ /\ SaveEnds(m, "sync", TRUE, TRUE)
       /\ durable' = visible /\ UNCHANGED <<visible, local, limits>>
    \/ /\ Fault /\ SaveEnds(m, "sync", TRUE, FALSE)
       /\ UNCHANGED <<disk, local>>

Save(m) == CheckStore(m) \/ WriteMarker(m) \/ WriteTemp(m) \/ Replace(m) \/ SyncDirectory(m)

----------------------------------------------------------------------------
(* Serve. *)

(* A connection is handled if a slot is free, and closed otherwise.        *)
Accept(m, c) ==
    /\ pc[m] = "serving" /\ calls[c].at = "queued" /\ calls[c].to = m
    /\ IF Cardinality({d \in Calls : calls[d].at = "taken" /\ calls[d].to = m}) < Slots
       THEN calls' = [calls EXCEPT ![c].at = "taken"]
       ELSE Reply(c, "failed")
    /\ UNCHANGED <<process, disk, local, limits>>

(* The handler of a creation, once it has the mutex.                       *)
Handle(m, c) ==
    /\ calls[c].at = "taken" /\ calls[c].to = m /\ busy[m] = None
    /\ IF pc[m] \notin {"serving", "draining"} \/ m \in faulted
       THEN Reply(c, "failed") /\ UNCHANGED <<busy, save>>
       ELSE IF calls[c].key \in mem[m]
       THEN Reply(c, "answered") /\ UNCHANGED <<busy, save>>
       ELSE /\ busy' = [busy EXCEPT ![m] = c]
            /\ save' = [save EXCEPT ![m] = "check"]
            /\ UNCHANGED calls
    /\ UNCHANGED <<pc, mem, faulted, disk, local, limits>>

(* A worker of the manager starts a game, at any time before Manager.Close *)
(* has the mutex: fork, and later exec.                                    *)
Fork(m) ==
    /\ pc[m] \in {"serving", "draining"} /\ m \notin forked
    /\ forked' = forked \cup {m}
    /\ UNCHANGED <<process, disk, endpoint, sockets, calls, limits>>

Exec(m) ==
    /\ m \in forked
    /\ forked' = forked \ {m}
    /\ UNCHANGED <<process, disk, endpoint, sockets, calls, limits>>

----------------------------------------------------------------------------
(* The end of a manager. *)

(* An interrupt closes the listener; Serve returns.                        *)
Drain(m) ==
    /\ Goto(m, "serving", "draining")
    /\ calls' = Dropped(m, {"queued"})
    /\ UNCHANGED <<mem, faulted, busy, save, disk, local, limits>>

(* Mutant: the server is closed before the manager.                        *)
CloseNow(m) ==
    /\ Goto(m, "draining", "closed")
    /\ UNCHANGED <<mem, faulted, busy, save, disk, local, calls, limits>>

(* Manager.Close takes the mutex, then waits for the workers.              *)
Close(m) ==
    /\ busy[m] = None /\ m \notin forked
    /\ Goto(m, "draining", "closed")
    /\ UNCHANGED <<mem, faulted, busy, save, disk, local, calls, limits>>

(* Server.Close: the endpoint record if it is ours, the socket, the lock.  *)
ReadEndpoint(m) ==
    /\ Goto(m, "closed", IF endpoint = m THEN "removing" ELSE "unlisted")
    /\ UNCHANGED <<mem, faulted, busy, save, disk, local, calls, limits>>

RemoveEndpoint(m) ==
    /\ Goto(m, "removing", "unlisted")
    /\ \/ endpoint' = None /\ UNCHANGED limits
       \/ Fault /\ UNCHANGED endpoint
    /\ UNCHANGED <<mem, faulted, busy, save, disk, sockets, forked, calls>>

Ended(S) ==
    /\ mem' = [m \in Managers |-> IF m \in S THEN {} ELSE mem[m]]
    /\ busy' = [m \in Managers |-> IF m \in S THEN None ELSE busy[m]]
    /\ save' = [m \in Managers |-> IF m \in S THEN "none" ELSE save[m]]
    /\ faulted' = faulted \ S

RemoveSocket(m) ==
    /\ Goto(m, "unlisted", "released")
    /\ \/ sockets' = sockets \ {m} /\ UNCHANGED limits
       \/ Fault /\ UNCHANGED sockets
    /\ UNCHANGED <<mem, faulted, busy, save, disk, endpoint, forked, calls>>

(* The process exits after its last defer, whatever its handlers do.       *)
Exit(m) ==
    /\ Goto(m, "released", "dead") /\ Ended({m})
    /\ calls' = Dropped(m, {"queued", "taken"})
    /\ UNCHANGED <<disk, local, limits>>

Kill(m) ==
    /\ pc[m] \in Holding /\ limits.kills < MaxKills
    /\ pc' = [pc EXCEPT ![m] = "dead"] /\ Ended({m})
    /\ calls' = Dropped(m, {"queued", "taken"})
    /\ limits' = [limits EXCEPT !.kills = @ + 1]
    /\ UNCHANGED <<disk, local>>

(* Of what was not synced each name may or may not survive.                *)
PowerLoss ==
    /\ limits.losses < MaxLosses
    /\ limits' = [limits EXCEPT !.losses = @ + 1]
    /\ LET up == {m \in Managers : pc[m] # "new"}
       IN  pc' = [m \in Managers |-> IF m \in up THEN "dead" ELSE "new"] /\ Ended(up)
    /\ visible' \in [marker : {visible.marker, durable.marker},
                     state  : {visible.state, durable.state}]
    /\ durable' = visible'
    /\ endpoint' \in {endpoint, None} /\ forked' = {}
    /\ calls' = [c \in Calls |-> IF calls[c].at = "idle" THEN calls[c]
                                 ELSE Hears(calls[c], "failed")]
    /\ UNCHANGED sockets

----------------------------------------------------------------------------
(* Clients (Client.Call, localipc.Call): one call at a time for a key, and *)
(* the same key again as long as none was answered.                        *)

Waiting(k) == \E c \in Calls : calls[c].key = k /\ calls[c].heard = "waiting"

Look(c, k) ==
    /\ calls[c].at = "idle" /\ ~Waiting(k)
    /\ calls' = [calls EXCEPT ![c] =
         IF endpoint = None
         THEN [key |-> k, to |-> None, at |-> "done", heard |-> "failed"]
         ELSE [key |-> k, to |-> endpoint, at |-> "looked", heard |-> "waiting"]]
    /\ UNCHANGED <<process, disk, local, limits>>

(* The connection is made and the request written without an Accept.       *)
Dial(c) ==
    /\ calls[c].at = "looked"
    /\ IF pc[calls[c].to] \in Listening /\ calls[c].to \in sockets
       THEN calls' = [calls EXCEPT ![c].at = "queued"]
       ELSE Reply(c, "failed")
    /\ UNCHANGED <<process, disk, local, limits>>

(* After 5 seconds the client leaves; what it wrote can still be read.     *)
GiveUp(c) ==
    /\ calls[c].heard = "waiting"
    /\ calls' = [calls EXCEPT ![c].heard = "failed",
                              ![c].at = IF @ = "looked" THEN "done" ELSE @]
    /\ UNCHANGED <<process, disk, local, limits>>

----------------------------------------------------------------------------
Start(m) == Lock(m) \/ Bind(m) \/ CheckEndpoint(m) \/ PublishEndpoint(m) \/ Open(m)

End(m) == Drain(m) \/ Close(m) \/ ReadEndpoint(m) \/ RemoveEndpoint(m)
          \/ RemoveSocket(m) \/ Exit(m)

Client(c) == (\E k \in Keys : Look(c, k)) \/ Dial(c) \/ GiveUp(c)

Next ==
    \/ \E m \in Managers :
         \/ Start(m) \/ Save(m) \/ Fork(m) \/ Exec(m) \/ End(m) \/ Kill(m)
         \/ \E c \in Calls : Accept(m, c) \/ Handle(m, c)
    \/ \E c \in Calls : Client(c)
    \/ PowerLoss

Spec == Init /\ [][Next]_vars

----------------------------------------------------------------------------
(* Properties. *)

(* No two managers write one data directory: whoever may still save holds  *)
(* the lock, also while it drains (the order of the defers in serve).      *)
MayWrite(m) == save[m] # "none" \/ pc[m] \in {"recovering", "serving", "draining"}

OneWriter == \A m, n \in Managers : MayWrite(m) /\ MayWrite(n) => m = n

(* Recovery looks for the games its predecessors started by the command    *)
(* line, which a child has only after its exec: no predecessor has a child *)
(* before that when a manager opens the store (acquireLock).               *)
NoChildUnseen ==
    \A m, n \in Managers : pc[m] \in {"recovering", "serving"} /\ n \in forked => m = n

(* While a manager serves, endpoint.json names its socket: nothing that an *)
(* earlier manager does when it ends takes them away (Listen, Close).      *)
Reachable ==
    \A m \in Managers : pc[m] = "serving" => endpoint = m /\ m \in sockets

(* A store that was saved once opens again after every crash, fault and    *)
(* loss of power: only one whose very first Save was cut is refused (Open).*)
OpensAgain ==
    [][\A m \in Managers :
         pc[m] = "published" /\ pc'[m] = "closed" => durable.state = NoState]_vars

(* The data directory keeps the promises of Promise, over all managers.    *)
Rooms    == IF visible.state = NoState THEN {} ELSE visible.state
Answered == {k \in Keys : \E c \in Calls : calls[c].key = k /\ calls[c].heard = "answered"}

ThePromise == INSTANCE Promise WITH rooms <- Rooms, answered <- Answered

KeepsPromise == ThePromise!Spec
=============================================================================
