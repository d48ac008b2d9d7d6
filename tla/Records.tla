------------------------------ MODULE Records ------------------------------
(***************************************************************************)
(* The persisted records of d2core (internal/records) and the pure changes *)
(* the manager makes to them.  An instance record is one room: its state,  *)
(* its runs (one per generation of the game process) and its operations.   *)
(* Texts, paths, digests, identifiers and times are left out; what is kept *)
(* is every field a decision of the code reads.                            *)
(*                                                                         *)
(* Runs and operations live in functions over 1..MaxGen and 1..MaxOps of   *)
(* which the first gen, respectively nops, entries are in use; the current *)
(* operation of an instance (CurrentOperationID) is always its newest one. *)
(***************************************************************************)
EXTENDS Naturals

CONSTANTS
    Keys,       \* idempotency keys
    NoKey,      \* the key of a record that does not exist
    Ports,      \* game ports
    NoPort,     \* the port of a record that does not exist
    MaxGen,     \* bound: generations of one instance
    MaxOps      \* bound: operations of one instance

ASSUME BoundsAssumption ==
    /\ MaxGen \in Nat \ {0}
    /\ MaxOps \in Nat \ {0}
    /\ NoKey \notin Keys
    /\ NoPort \notin Ports

Gens  == 1..MaxGen
OpIds == 1..MaxOps

(***************************************************************************)
(* Run: identity is "partial" when the process is known only by its PID    *)
(* (the verification of the spawned child failed) and "full" when it is    *)
(* verified; input is InputOwnership; stop is StopResult.                  *)
(***************************************************************************)
Run == [prepared       : BOOLEAN,
        cfgCreated     : BOOLEAN,
        cfgRemoved     : BOOLEAN,
        spawnAttempted : BOOLEAN,
        identity       : {"none", "partial", "full"},
        input          : BOOLEAN,
        inputRemoved   : BOOLEAN,
        stop           : {"none", "unconfirmed", "confirmed"}]

NewRun == [prepared |-> FALSE, cfgCreated |-> FALSE, cfgRemoved |-> FALSE,
           spawnAttempted |-> FALSE, identity |-> "none", input |-> FALSE,
           inputRemoved |-> FALSE, stop |-> "none"]

Operation == [kind   : {"none", "create", "restart", "stop"},
              status : {"none", "running", "succeeded", "failed", "cancelled"},
              phase  : {"none", "accepted", "preparing", "spawning",
                        "observing", "stopping", "cleanup", "done"},
              gen    : 0..MaxGen]

NoOp == [kind |-> "none", status |-> "none", phase |-> "none", gen |-> 0]

NewOp(kind, gen) ==
    [kind |-> kind, status |-> "running", phase |-> "accepted", gen |-> gen]

(***************************************************************************)
(* Instance: err says whether in.Error is set; lifecycle "absent" stands   *)
(* for an identifier with no record.                                       *)
(***************************************************************************)
Instance == [lifecycle : {"absent", "active", "failed", "reclaimed"},
             process   : {"stopped", "running", "unknown"},
             room      : {"unknown", "loading", "ready", "failed"},
             cleanup   : {"pending", "complete", "failed"},
             err       : BOOLEAN,
             key       : Keys \cup {NoKey},
             port      : Ports \cup {NoPort},
             gen       : 0..MaxGen,
             runs      : [Gens -> Run],
             nops      : 0..MaxOps,
             ops       : [OpIds -> Operation]]

Absent == [lifecycle |-> "absent", process |-> "stopped", room |-> "unknown",
           cleanup |-> "pending", err |-> FALSE, key |-> NoKey,
           port |-> NoPort, gen |-> 0, runs |-> [g \in Gens |-> NewRun],
           nops |-> 0, ops |-> [o \in OpIds |-> NoOp]]

(* Mutant: a failed room no longer counts as holding its port. *)
HoldsActive(x) == x.lifecycle = "active"

Exists(x) == x.lifecycle # "absent"
Holds(x)  == x.lifecycle \in {"active", "failed"}    \* reserves its port
Running(x, o) == x.ops[o].status = "running"

NewInstance(k, p) ==
    [Absent EXCEPT !.lifecycle = "active", !.key = k, !.port = p,
                   !.nops = 1, !.ops[1] = NewOp("create", 0)]

AddOp(x, kind) ==
    [x EXCEPT !.nops = x.nops + 1, !.ops[x.nops + 1] = NewOp(kind, x.gen)]

AtPhase(x, o, p) == [x EXCEPT !.ops[o].phase = p]

----------------------------------------------------------------------------
(* How an operation ends. *)

(* Mutant: an ended operation keeps its phase. *)
EndOpKeepsPhase(x, o, status) == [x EXCEPT !.ops[o].status = status]

EndOp(x, o, status) ==
    [x EXCEPT !.ops[o] = [@ EXCEPT !.status = status, !.phase = "done"]]

(* finish(..., failure): the instance takes the failure over.              *)
FinishFailed(x, o) ==
    [EndOp(x, o, "failed") EXCEPT
        !.err = TRUE, !.lifecycle = "failed",
        !.room = IF x.process = "unknown" THEN "unknown" ELSE "failed"]

(* failedSave: memory reports the storage failure, whatever o's status.    *)
FailedSave(x, o) ==
    [EndOp(x, o, "failed") EXCEPT !.err = TRUE, !.lifecycle = "failed"]

----------------------------------------------------------------------------
(* What one observation of the current process does to the record.         *)

Verdicts == {"gone", "unverified", "failing", "loading", "ready"}

Observed(x, v) ==
    CASE v = "gone"       -> [x EXCEPT !.process = "stopped", !.room = "failed"]
      [] v = "unverified" -> [x EXCEPT !.process = "unknown", !.room = "unknown"]
      [] v = "failing"    -> [x EXCEPT !.process = "running", !.room = "failed"]
      [] v = "loading"    -> [x EXCEPT !.process = "running", !.room = "loading"]
      [] v = "ready"      -> [x EXCEPT !.process = "running", !.room = "ready"]

(* A process on which the verdict is possible, given whether it is alive.  *)
CanObserve(x, v, alive) ==
    /\ v = "gone" => ~alive
    /\ v \in {"failing", "loading", "ready"} => alive
    /\ v \in {"loading", "ready"} => ~(x.lifecycle = "failed" /\ x.err)

Failing(v) == v \in {"gone", "unverified", "failing"}

----------------------------------------------------------------------------
(* Recovery of one record when the data directory is opened again.         *)

RecoveryFailed(x) ==
    LET o == x.nops
        y == IF Running(x, o) THEN EndOp(x, o, "failed") ELSE x
    IN  [y EXCEPT !.lifecycle = "failed", !.err = TRUE,
                  !.room = IF x.process = "stopped" THEN "failed" ELSE @]

(* Whether recovery has to look for the process of the last run at all.    *)
Unconfirmed(x) == x.gen > 0 /\ x.runs[x.gen].stop # "confirmed"
Discoverable(x) ==
    Unconfirmed(x) /\ x.runs[x.gen].identity # "full" /\ x.runs[x.gen].spawnAttempted
Traceable(x) ==
    Unconfirmed(x) /\ (x.runs[x.gen].identity = "full" \/ x.runs[x.gen].spawnAttempted)

(* Mutant: recovery keeps the room's readiness. *)
LocatedKeepsRoom(x, v) ==
    IF ~Traceable(x) THEN [x EXCEPT !.process = "stopped"]
    ELSE CASE v \in {"unverified", "found"} -> [x EXCEPT !.process = "unknown"]
           [] v = "alive"                   -> [x EXCEPT !.process = "running",
                                                         !.runs[x.gen].identity = "full"]
           [] v \in {"gone", "exited"}      -> [x EXCEPT !.process = "stopped"]

(* What a search ends with: the process is there, it is gone, nothing can  *)
(* be said; or Discover has found it, and Open could not look at it or     *)
(* came too late.                                                          *)
Searches == {"alive", "gone", "unverified", "found", "exited"}

(* The record after the process of the last run was searched for.          *)
Located(x, v) ==
    LET y == [x EXCEPT !.room = "unknown", !.process = "stopped"]
    IN  IF ~Traceable(x) THEN y
        ELSE CASE v = "unverified" -> [y EXCEPT !.process = "unknown"]
               [] v = "found"      -> [y EXCEPT !.process = "unknown",
                                                !.runs[x.gen].identity = "full"]
               [] v = "exited"     -> [y EXCEPT !.runs[x.gen].identity = "full"]
               [] v = "alive"      -> [y EXCEPT !.process = "running", !.room = "loading",
                                                !.runs[x.gen].identity = "full"]
               [] v = "gone"       -> IF Discoverable(x)
                                      THEN [y EXCEPT !.runs[x.gen].stop = "confirmed"]
                                      ELSE y

ResumesStart(y) ==
    LET op == y.ops[y.nops]
    IN  /\ op.status = "running" /\ op.kind # "stop"
        /\ y.gen > 0 /\ y.process = "running" /\ op.gen = y.gen
        /\ op.phase \in {"spawning", "observing"}

ResumesStop(y) ==
    LET op == y.ops[y.nops]
    IN  op.status = "running" /\ op.kind = "stop" /\ y.process # "unknown"

GivesUp(y) ==
    \/ y.process = "unknown"
    \/ /\ ~ResumesStop(y) /\ ~ResumesStart(y)
       /\ Running(y, y.nops) \/ (y.process = "stopped" /\ y.lifecycle # "failed")

Recovered(x, v) ==
    LET y == Located(x, v)
    IN  IF ~Holds(x) THEN x
        ELSE IF GivesUp(y) THEN RecoveryFailed(y)
        ELSE IF ResumesStart(y)
        THEN [AtPhase(y, y.nops, "observing") EXCEPT !.lifecycle = "active"]
        ELSE y

----------------------------------------------------------------------------
(* validateState: what a state must satisfy to be written or read.         *)

ValidRun(r) ==
    /\ r.prepared => r.cfgCreated
    /\ r.spawnAttempted => r.prepared
    /\ (r.identity # "none" \/ r.input) => r.spawnAttempted

ValidOp(x, o) ==
    /\ x.ops[o].gen <= x.gen
    /\ x.ops[o].status = "running" <=> x.ops[o].phase # "done"
    /\ x.ops[o].kind = "create" <=> o = 1

ReadyRuns(x) == x.room = "ready" => x.process = "running"

ValidInstance(x) ==
    /\ x.lifecycle = "reclaimed" => x.process = "stopped" /\ x.cleanup = "complete"
    /\ x.nops > 0
    /\ \A g \in 1..x.gen : ValidRun(x.runs[g])
    /\ \A o \in 1..x.nops : ValidOp(x, o)

DistinctPorts(m) ==
    \A i, j \in DOMAIN m :
        Holds(m[i]) /\ Holds(m[j]) /\ m[i].port = m[j].port => i = j

Valid(m) ==
    /\ \A i \in DOMAIN m : Exists(m[i]) => ValidInstance(m[i]) /\ ReadyRuns(m[i])
    /\ DistinctPorts(m)
=============================================================================
