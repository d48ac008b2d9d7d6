--------------------------- MODULE ManagerProofs ---------------------------
(***************************************************************************)
(* Theorems about the manager, for every set of instances, keys and ports  *)
(* and every bound: type correctness; that no game process is ever lost    *)
(* track of; that the state file is always valid and can be opened again;  *)
(* that no accepted request is lost; that one worker at a time works on a  *)
(* room, and one on every operation that runs.                             *)
(***************************************************************************)
EXTENDS ManagerProperties, FiniteSetTheorems, TLAPS

(* Changes of a record: each of them gives an instance record again, and   *)
(* leaves alone the fields that account for its game process.              *)

(* The record accounts for the generations L whose process exists: the     *)
(* instance is not reclaimed, only its current generation is alive, and    *)
(* that run was started with the knowledge of the record.                  *)
Accounts(x, L) ==
    \A g \in L : /\ Holds(x) /\ x.gen = g
                 /\ x.runs[g].spawnAttempted /\ x.runs[g].input
                 /\ x.runs[g].stop # "confirmed"

(* The runs of generations to come are untouched.                          *)
Unused(x) == \A g \in Gens : g > x.gen => x.runs[g].stop = "none"

(* y has the process state and the runs of x.                              *)
SameProcess(x, y) ==
    y.process = x.process /\ y.gen = x.gen /\ y.runs = x.runs

(* Fields: an operation's changes leave the process and the lifecycle.     *)
LEMMA AbsentType == Absent \in Instance /\ Unused(Absent)
<1>1. NewRun \in Run /\ NoOp \in Operation
  BY BoundsAssumption DEF NewRun, Run, NoOp, Operation
<1>2. [g \in Gens |-> NewRun] \in [Gens -> Run] /\ [o \in OpIds |-> NoOp] \in [OpIds -> Operation]
  BY <1>1
<1> QED
  BY <1>1, <1>2, BoundsAssumption DEF Absent, Instance, Unused, NewRun

(* The record of a new intention.                                          *)
LEMMA NewInstanceType ==
  ASSUME NEW k \in Keys, NEW p \in Ports
  PROVE  /\ NewInstance(k, p) \in Instance /\ Unused(NewInstance(k, p))
         /\ NewInstance(k, p).process = "stopped"
<1>1. NewOp("create", 0) \in Operation
  BY BoundsAssumption DEF NewOp, Operation
<1>2. Absent \in Instance /\ Unused(Absent)
  BY AbsentType
<1>3. 1 \in 0..MaxOps
  BY BoundsAssumption
<1> QED
  BY <1>1, <1>2, <1>3 DEF NewInstance, Instance, Unused, Absent

(* A new operation of an instance with room for one.                       *)
LEMMA AddOpType ==
  ASSUME NEW x \in Instance, NEW kind \in {"create", "restart", "stop"},
         x.nops < MaxOps
  PROVE  /\ AddOp(x, kind) \in Instance
         /\ SameProcess(x, AddOp(x, kind)) /\ AddOp(x, kind).lifecycle = x.lifecycle
<1>1. NewOp(kind, x.gen) \in Operation
  BY DEF NewOp, Operation, Instance
<1>2. x.nops + 1 \in 0..MaxOps
  BY BoundsAssumption DEF Instance
<1> QED
  BY <1>1, <1>2 DEF AddOp, Instance, SameProcess

(* A change of phase.                                                      *)
LEMMA AtPhaseType ==
  ASSUME NEW x \in Instance, NEW o,
         NEW p \in {"preparing", "spawning", "observing", "stopping", "cleanup"}
  PROVE  /\ AtPhase(x, o, p) \in Instance
         /\ SameProcess(x, AtPhase(x, o, p)) /\ AtPhase(x, o, p).lifecycle = x.lifecycle
<1>1. \A q \in OpIds : [x.ops[q] EXCEPT !.phase = p] \in Operation
  BY DEF Instance, Operation
<1>2. [x.ops EXCEPT ![o].phase = p] \in [OpIds -> Operation]
  BY <1>1 DEF Instance
<1> QED
  BY <1>2 DEF AtPhase, Instance, SameProcess

(* The end of an operation.                                                *)
LEMMA EndOpType ==
  ASSUME NEW x \in Instance, NEW o, NEW status \in {"succeeded", "failed", "cancelled"}
  PROVE  /\ EndOp(x, o, status) \in Instance
         /\ SameProcess(x, EndOp(x, o, status)) /\ EndOp(x, o, status).lifecycle = x.lifecycle
<1>1. \A q \in OpIds : [x.ops[q] EXCEPT !.status = status, !.phase = "done"] \in Operation
  <2>1. TAKE q \in OpIds
  <2>2. x.ops[q] \in Operation
    BY DEF Instance
  <2> QED
    BY <2>2 DEF Operation
<1>2. [x.ops EXCEPT ![o] = [@ EXCEPT !.status = status, !.phase = "done"]] \in [OpIds -> Operation]
  BY <1>1 DEF Instance
<1> QED
  BY <1>2 DEF EndOp, Instance, SameProcess

(* A failed operation fails its instance.                                  *)
LEMMA FinishFailedType ==
  ASSUME NEW x \in Instance, NEW o
  PROVE  /\ FinishFailed(x, o) \in Instance
         /\ SameProcess(x, FinishFailed(x, o)) /\ FinishFailed(x, o).lifecycle = "failed"
<1> DEFINE y == EndOp(x, o, "failed")
           r == IF x.process = "unknown" THEN "unknown" ELSE "failed"
<1>1. y \in Instance /\ SameProcess(x, y)
  BY EndOpType
<1>2. r \in {"unknown", "loading", "ready", "failed"}
  OBVIOUS
<1> HIDE DEF y, r
<1> DEFINE z == [y EXCEPT !.err = TRUE, !.lifecycle = "failed", !.room = r]
<1>3. z \in Instance
  BY <1>1, <1>2 DEF Instance
<1>4. z.process = y.process /\ z.gen = y.gen /\ z.runs = y.runs
  BY <1>1 DEF Instance
<1>5. z.lifecycle = "failed"
  BY <1>1 DEF Instance
<1>6. FinishFailed(x, o) = z
  BY DEF FinishFailed, y, r
<1> HIDE DEF z
<1> QED
  BY <1>1, <1>3, <1>4, <1>5, <1>6 DEF SameProcess

(* So does a failed save.                                                  *)
LEMMA FailedSaveType ==
  ASSUME NEW x \in Instance, NEW o
  PROVE  /\ FailedSave(x, o) \in Instance
         /\ SameProcess(x, FailedSave(x, o)) /\ FailedSave(x, o).lifecycle = "failed"
<1>1. EndOp(x, o, "failed") \in Instance /\ SameProcess(x, EndOp(x, o, "failed"))
  BY EndOpType
<1> QED
  BY <1>1 DEF FailedSave, Instance, SameProcess

(* An observation changes the process state and the room, nothing else.    *)
LEMMA ObservedType ==
  ASSUME NEW x \in Instance, NEW v \in Verdicts
  PROVE  /\ Observed(x, v) \in Instance
         /\ Observed(x, v).gen = x.gen /\ Observed(x, v).runs = x.runs
         /\ Observed(x, v).lifecycle = x.lifecycle
         /\ Observed(x, v).process = "stopped" => v = "gone"
  BY DEF Observed, Verdicts, Instance

(* The run of the current generation that recovery confirms or adopts.     *)
LEMMA LocatedType ==
  ASSUME NEW x \in Instance, NEW v \in Searches
  PROVE  /\ Located(x, v) \in Instance
         /\ Located(x, v).gen = x.gen /\ Located(x, v).lifecycle = x.lifecycle
         /\ Unused(x) => Unused(Located(x, v))
         /\ v # "gone" => \A g \in Gens :
               /\ Located(x, v).runs[g].stop = x.runs[g].stop
               /\ Located(x, v).runs[g].input = x.runs[g].input
               /\ Located(x, v).runs[g].spawnAttempted = x.runs[g].spawnAttempted
         /\ v \notin {"gone", "exited"} /\ Traceable(x) => Located(x, v).process # "stopped"
<1> DEFINE y == [x EXCEPT !.room = "unknown", !.process = "stopped"]
           z == Located(x, v)
           Keeps(r) == \A g \in Gens : /\ r[g].stop = x.runs[g].stop
                                       /\ r[g].input = x.runs[g].input
                                       /\ r[g].spawnAttempted = x.runs[g].spawnAttempted
<1>1. y \in Instance /\ y.gen = x.gen /\ y.runs = x.runs /\ y.lifecycle = x.lifecycle
  BY DEF Instance
<1>2. x.runs \in [Gens -> Run] /\ x.gen \in 0..MaxGen
  BY DEF Instance
<1> HIDE DEF y
<1>3. CASE ~Traceable(x)
  <2>1. z = y
    BY <1>3 DEF Located, y
  <2> QED
    BY <1>1, <1>3, <2>1 DEF Unused
<1>4. CASE Traceable(x) /\ v = "unverified"
  <2>1. z = [y EXCEPT !.process = "unknown"]
    BY <1>4 DEF Located, y
  <2>2. z \in Instance /\ z.gen = y.gen /\ z.runs = y.runs /\ z.lifecycle = y.lifecycle
        /\ z.process = "unknown"
    BY <1>1, <2>1 DEF Instance
  <2> QED
    BY <1>1, <1>4, <2>2 DEF Unused
<1>5. CASE Traceable(x) /\ v \in {"alive", "found", "exited"}
  <2> DEFINE r == [x.runs EXCEPT ![x.gen].identity = "full"]
  <2>1. \/ v = "alive" /\ z = [y EXCEPT !.process = "running", !.room = "loading", !.runs = r]
        \/ v = "found" /\ z = [y EXCEPT !.process = "unknown", !.runs = r]
        \/ v = "exited" /\ z = [y EXCEPT !.runs = r]
    <3>1. CASE v = "alive"
      BY <1>1, <1>5, <3>1 DEF Located, y
    <3>2. CASE v = "found"
      BY <1>1, <1>5, <3>2 DEF Located, y
    <3>3. CASE v = "exited"
      BY <1>1, <1>5, <3>3 DEF Located, y
    <3> QED
      BY <1>5, <3>1, <3>2, <3>3
  <2>2. r \in [Gens -> Run] /\ Keeps(r)
    <3>1. \A g \in Gens : [x.runs[g] EXCEPT !.identity = "full"] \in Run
      BY <1>2 DEF Run
    <3>2. \A g \in Gens : x.runs[g] \in Run
      BY <1>2
    <3>3. r \in [Gens -> Run]
      BY <1>2, <3>1
    <3>4. \A g \in Gens : r[g] = x.runs[g] \/ r[g] = [x.runs[g] EXCEPT !.identity = "full"]
      BY <1>2
    <3> QED
      BY <3>2, <3>3, <3>4 DEF Run
  <2> HIDE DEF r
  <2>3. z \in Instance /\ z.gen = y.gen /\ z.runs = r /\ z.lifecycle = y.lifecycle
        /\ (v # "exited" => z.process # "stopped")
    <3>1. CASE v = "alive"
      <4>1. z = [y EXCEPT !.process = "running", !.room = "loading", !.runs = r]
        BY <2>1, <3>1
      <4> HIDE DEF z
      <4> QED
        BY <1>1, <2>2, <4>1 DEF Instance
    <3>2. CASE v = "found"
      <4>1. z = [y EXCEPT !.process = "unknown", !.runs = r]
        BY <2>1, <3>2
      <4> HIDE DEF z
      <4> QED
        BY <1>1, <2>2, <4>1 DEF Instance
    <3>3. CASE v = "exited"
      <4>1. z = [y EXCEPT !.runs = r]
        BY <2>1, <3>3
      <4> HIDE DEF z
      <4> QED
        BY <1>1, <2>2, <3>3, <4>1 DEF Instance
    <3> QED
      BY <1>5, <3>1, <3>2, <3>3
  <2> QED
    BY <1>1, <1>5, <2>2, <2>3 DEF Unused
<1>6. CASE Traceable(x) /\ v = "gone"
  <2>1. CASE Discoverable(x)
    <3> DEFINE r == [x.runs EXCEPT ![x.gen].stop = "confirmed"]
    <3>1. z = [y EXCEPT !.runs = r]
      BY <1>1, <1>6, <2>1 DEF Located, y
    <3>2. r \in [Gens -> Run] /\ \A g \in Gens : g # x.gen => r[g] = x.runs[g]
      BY <1>2 DEF Run
    <3> HIDE DEF r
    <3>3. z \in Instance /\ z.gen = y.gen /\ z.runs = r /\ z.lifecycle = y.lifecycle
      BY <1>1, <3>1, <3>2 DEF Instance
    <3>4. Unused(x) => Unused(z)
      BY <1>1, <1>2, <3>2, <3>3, BoundsAssumption DEF Unused, Gens
    <3> QED
      BY <1>1, <1>6, <3>3, <3>4
  <2>2. CASE ~Discoverable(x)
    <3>1. z = y
      BY <1>6, <2>2 DEF Located, y
    <3> QED
      BY <1>1, <1>6, <3>1 DEF Unused
  <2> QED
    BY <2>1, <2>2
<1> QED
  BY <1>3, <1>4, <1>5, <1>6 DEF Searches

(* The search for a process leaves who the room is, its generation and its *)
(* operations alone.                                                       *)
LEMMA LocatedKeeps ==
  ASSUME NEW x \in Instance, NEW v \in Searches
  PROVE  LET y == Located(x, v)
         IN  /\ y.nops = x.nops /\ y.key = x.key /\ y.ops = x.ops
             /\ y.port = x.port /\ y.gen = x.gen
             /\ y.runs \in {x.runs,
                             [x.runs EXCEPT ![x.gen] = [@ EXCEPT !.identity = "full"]],
                             [x.runs EXCEPT ![x.gen] = [@ EXCEPT !.stop = "confirmed"]]}
<1> DEFINE y == [x EXCEPT !.room = "unknown", !.process = "stopped"]
           Keeps(z) == /\ z.nops = x.nops /\ z.key = x.key /\ z.ops = x.ops
                       /\ z.port = x.port /\ z.gen = x.gen
                       /\ z.runs \in
                            {x.runs,
                             [x.runs EXCEPT ![x.gen] = [@ EXCEPT !.identity = "full"]],
                             [x.runs EXCEPT ![x.gen] = [@ EXCEPT !.stop = "confirmed"]]}
<1>1. Keeps(y)
  BY DEF Instance
<1>3. CASE ~Traceable(x)
  BY <1>1, <1>3 DEF Located
<1>4. CASE Traceable(x) /\ v = "unverified"
  <2>1. Located(x, v) = [y EXCEPT !.process = "unknown"]
    BY <1>4 DEF Located
  <2> QED
    BY <2>1 DEF Instance
<1>5. CASE Traceable(x) /\ v = "alive"
  <2>1. Located(x, v) = [y EXCEPT !.process = "running", !.room = "loading",
                                  !.runs[x.gen].identity = "full"]
    BY <1>5 DEF Located
  <2> QED
    BY <2>1 DEF Instance
<1>6. CASE Traceable(x) /\ v = "found"
  <2>1. Located(x, v) = [y EXCEPT !.process = "unknown", !.runs[x.gen].identity = "full"]
    BY <1>6 DEF Located
  <2> QED
    BY <2>1 DEF Instance
<1>7. CASE Traceable(x) /\ v = "exited"
  <2>1. Located(x, v) = [y EXCEPT !.runs[x.gen].identity = "full"]
    BY <1>7 DEF Located
  <2> QED
    BY <2>1 DEF Instance
<1>8. CASE Traceable(x) /\ v = "gone"
  <2>1. Located(x, v) \in {y, [y EXCEPT !.runs[x.gen].stop = "confirmed"]}
    BY <1>8 DEF Located
  <2> QED
    BY <1>1, <2>1 DEF Instance
<1> QED
  BY <1>3, <1>4, <1>5, <1>6, <1>7, <1>8 DEF Searches

(* Recovery gives up on a record without losing track of its process.      *)
LEMMA RecoveryFailedType ==
  ASSUME NEW x \in Instance
  PROVE  /\ RecoveryFailed(x) \in Instance /\ SameProcess(x, RecoveryFailed(x))
         /\ RecoveryFailed(x).lifecycle = "failed"
<1> DEFINE y == IF Running(x, x.nops) THEN EndOp(x, x.nops, "failed") ELSE x
           r == IF x.process = "stopped" THEN "failed" ELSE y.room
<1>1. y \in Instance /\ SameProcess(x, y)
  BY EndOpType DEF SameProcess
<1>2. r \in {"unknown", "loading", "ready", "failed"}
  BY <1>1 DEF Instance
<1> HIDE DEF y, r
<1> DEFINE z == [y EXCEPT !.lifecycle = "failed", !.err = TRUE, !.room = r]
<1>3. z \in Instance
  BY <1>1, <1>2 DEF Instance
<1>4. z.process = y.process /\ z.gen = y.gen /\ z.runs = y.runs
  BY <1>1 DEF Instance
<1>5. z.lifecycle = "failed"
  BY <1>1 DEF Instance
<1>6. RecoveryFailed(x) = z
  BY DEF RecoveryFailed, y, r
<1> HIDE DEF z
<1> QED
  BY <1>1, <1>3, <1>4, <1>5, <1>6 DEF SameProcess

(* What recovery may make of a record that was searched for as y.          *)
LEMMA RecoveredCases ==
  ASSUME NEW x \in Instance, NEW v \in Searches
  PROVE  \/ ~Holds(x) /\ Recovered(x, v) = x
         \/ /\ Holds(x) /\ Holds(Recovered(x, v)) /\ Recovered(x, v) \in Instance
            /\ SameProcess(Located(x, v), Recovered(x, v))
<1> DEFINE y == Located(x, v)
           r == Recovered(x, v)
           a == AtPhase(y, y.nops, "observing")
<1>1. y \in Instance /\ y.lifecycle = x.lifecycle
  BY LocatedType
<1>2. CASE ~Holds(x)
  BY <1>2 DEF Recovered
<1>3. CASE Holds(x)
  <2>1. r = RecoveryFailed(y) \/ r = y \/ r = [a EXCEPT !.lifecycle = "active"]
    BY <1>3 DEF Recovered
  <2>2. a \in Instance /\ SameProcess(y, a)
    BY <1>1, AtPhaseType
  <2>3. RecoveryFailed(y) \in Instance /\ SameProcess(y, RecoveryFailed(y))
        /\ RecoveryFailed(y).lifecycle = "failed"
    BY <1>1, RecoveryFailedType
  <2> HIDE DEF a, r, y
  <2>4. Holds(r) /\ r \in Instance /\ SameProcess(y, r)
    <3>1. CASE r = RecoveryFailed(y)
      BY <2>3, <3>1 DEF Holds
    <3>2. CASE r = y
      BY <1>1, <1>3, <3>2 DEF Holds, SameProcess
    <3>3. CASE r = [a EXCEPT !.lifecycle = "active"]
      BY <2>2, <3>3 DEF Instance, SameProcess, Holds
    <3> QED
      BY <2>1, <3>1, <3>2, <3>3
  <2> QED
    BY <1>3, <2>4 DEF r, y
<1> QED
  BY <1>2, <1>3

----------------------------------------------------------------------------
(* What validateState asks of one record, and what keeps it. *)

(* What validateState asks of one record.                                  *)
ValidRecord(x) == Exists(x) => ValidInstance(x) /\ ReadyRuns(x)

(* The end of an operation keeps a record valid.                           *)
LEMMA EndOpValid ==
  ASSUME NEW x \in Instance, NEW o \in OpIds, Running(x, o), ValidInstance(x)
  PROVE  ValidInstance(EndOp(x, o, "failed"))
<1> DEFINE y == EndOp(x, o, "failed")
<1>1. /\ y.lifecycle = x.lifecycle /\ y.process = x.process /\ y.cleanup = x.cleanup
      /\ y.gen = x.gen /\ y.runs = x.runs /\ y.nops = x.nops
  BY DEF EndOp, Instance
<1>2. y.ops = [x.ops EXCEPT ![o] = [x.ops[o] EXCEPT !.status = "failed", !.phase = "done"]]
  BY DEF EndOp, Instance
<1>3. x.ops \in [OpIds -> Operation] /\ x.nops \in 0..MaxOps
  BY DEF Instance
<1> HIDE DEF y
<1>4. ASSUME NEW q \in 1..y.nops PROVE ValidOp(y, q)
  <2>1. q \in OpIds /\ ValidOp(x, q)
    BY <1>1, <1>3, <1>4, BoundsAssumption DEF OpIds, ValidInstance
  <2>2. CASE q # o
    BY <1>1, <1>2, <1>3, <2>1, <2>2 DEF ValidOp
  <2>3. CASE q = o
    <3>1. y.ops[q] = [x.ops[q] EXCEPT !.status = "failed", !.phase = "done"]
      BY <1>2, <1>3, <2>1, <2>3
    <3>2. /\ y.ops[q].kind = x.ops[q].kind /\ y.ops[q].gen = x.ops[q].gen
          /\ y.ops[q].status = "failed" /\ y.ops[q].phase = "done"
      BY <1>3, <2>1, <3>1 DEF Operation
    <3> QED
      BY <1>1, <2>1, <3>2 DEF ValidOp
  <2> QED
    BY <2>2, <2>3
<1> QED
  BY <1>1, <1>4 DEF ValidInstance, y

(* Another phase but the last keeps a record valid.                        *)
LEMMA AtPhaseValid ==
  ASSUME NEW x \in Instance, NEW o \in OpIds, Running(x, o), ValidInstance(x)
  PROVE  ValidInstance(AtPhase(x, o, "observing"))
<1> DEFINE y == AtPhase(x, o, "observing")
<1>1. /\ y.lifecycle = x.lifecycle /\ y.process = x.process /\ y.cleanup = x.cleanup
      /\ y.gen = x.gen /\ y.runs = x.runs /\ y.nops = x.nops
  BY DEF AtPhase, Instance
<1>2. y.ops = [x.ops EXCEPT ![o] = [x.ops[o] EXCEPT !.phase = "observing"]]
  BY DEF AtPhase, Instance
<1>3. x.ops \in [OpIds -> Operation] /\ x.nops \in 0..MaxOps
  BY DEF Instance
<1> HIDE DEF y
<1>4. ASSUME NEW q \in 1..y.nops PROVE ValidOp(y, q)
  <2>1. q \in OpIds /\ ValidOp(x, q)
    BY <1>1, <1>3, <1>4, BoundsAssumption DEF OpIds, ValidInstance
  <2>2. CASE q # o
    BY <1>1, <1>2, <1>3, <2>1, <2>2 DEF ValidOp
  <2>3. CASE q = o
    <3>1. y.ops[q] = [x.ops[q] EXCEPT !.phase = "observing"]
      BY <1>2, <1>3, <2>1, <2>3
    <3>2. /\ y.ops[q].kind = x.ops[q].kind /\ y.ops[q].gen = x.ops[q].gen
          /\ y.ops[q].status = x.ops[q].status /\ y.ops[q].phase = "observing"
      BY <1>3, <2>1, <3>1 DEF Operation
    <3>3. y.ops[q].status = "running"
      BY <2>3, <3>2 DEF Running
    <3> QED
      BY <1>1, <2>1, <3>2, <3>3 DEF ValidOp
  <2> QED
    BY <2>2, <2>3
<1> QED
  BY <1>1, <1>4 DEF ValidInstance, y

(* Searching for a process keeps a held record valid, and leaves no room   *)
(* ready.                                                                  *)
LEMMA LocatedValid ==
  ASSUME NEW x \in Instance, Holds(x), ValidInstance(x),
         NEW v \in Searches
  PROVE  /\ ValidInstance(Located(x, v)) /\ Located(x, v).room # "ready"
         /\ Located(x, v).nops = x.nops /\ Located(x, v).ops = x.ops
         /\ Located(x, v).port = x.port /\ Located(x, v).key = x.key
<1> DEFINE z == Located(x, v)
           a == [x.runs EXCEPT ![x.gen].identity = "full"]
           c == [x.runs EXCEPT ![x.gen].stop = "confirmed"]
<1>1. /\ z.lifecycle = x.lifecycle /\ z.gen = x.gen /\ z.nops = x.nops /\ z.ops = x.ops
      /\ z.port = x.port /\ z.key = x.key /\ z.room \in {"unknown", "loading"}
      /\ \/ z.runs = x.runs
         \/ Traceable(x) /\ (z.runs = a \/ z.runs = c)
  <2>1. CASE ~Traceable(x)
    BY <2>1 DEF Located, Instance
  <2>2. CASE Traceable(x) /\ v = "unverified"
    BY <2>2 DEF Located, Instance
  <2>3. CASE Traceable(x) /\ v = "alive"
    BY <2>3 DEF Located, Instance
  <2>4. CASE Traceable(x) /\ v = "gone"
    BY <2>4 DEF Located, Instance
  <2>5. CASE Traceable(x) /\ v = "found"
    BY <2>5 DEF Located, Instance
  <2>6. CASE Traceable(x) /\ v = "exited"
    BY <2>6 DEF Located, Instance
  <2> QED
    BY <2>1, <2>2, <2>3, <2>4, <2>5, <2>6 DEF Searches
<1>2. x.runs \in [Gens -> Run] /\ x.gen \in 0..MaxGen
  BY DEF Instance
<1> HIDE DEF z
<1>3. ASSUME NEW g \in 1..z.gen PROVE ValidRun(z.runs[g])
  <2>1. g \in Gens /\ ValidRun(x.runs[g]) /\ x.runs[g] \in Run
    BY <1>1, <1>2, <1>3, BoundsAssumption DEF Gens, ValidInstance
  <2>2. CASE z.runs = x.runs \/ g # x.gen
    BY <1>1, <1>2, <2>1, <2>2
  <2>3. CASE Traceable(x) /\ g = x.gen /\ z.runs = a
    <3>1. z.runs[g] = [x.runs[g] EXCEPT !.identity = "full"]
      BY <1>2, <2>1, <2>3
    <3>2. x.runs[g].spawnAttempted
      BY <2>1, <2>3 DEF Traceable, ValidRun
    <3> QED
      BY <2>1, <3>1, <3>2 DEF ValidRun, Run
  <2>4. CASE g = x.gen /\ z.runs = c
    <3>1. z.runs[g] = [x.runs[g] EXCEPT !.stop = "confirmed"]
      BY <1>2, <2>1, <2>4
    <3> QED
      BY <2>1, <3>1 DEF ValidRun, Run
  <2> QED
    BY <1>1, <2>2, <2>3, <2>4
<1>4. ASSUME NEW o \in 1..z.nops PROVE ValidOp(z, o)
  BY <1>1, <1>4 DEF ValidInstance, ValidOp
<1> QED
  BY <1>1, <1>3, <1>4 DEF ValidInstance, Holds, z

(* Recovery makes a valid record of a valid one, for the same room.        *)
LEMMA RecoveredValid ==
  ASSUME NEW x \in Instance, ValidRecord(x), NEW v \in Searches
  PROVE  /\ ValidRecord(Recovered(x, v))
         /\ Holds(Recovered(x, v)) <=> Holds(x)
         /\ Exists(Recovered(x, v)) <=> Exists(x)
         /\ Recovered(x, v).port = x.port /\ Recovered(x, v).nops = x.nops
<1>1. CASE ~Holds(x)
  BY <1>1 DEF Recovered
<1>2. CASE Holds(x)
  <2> DEFINE y == Located(x, v)
             r == Recovered(x, v)
             e == IF Running(y, y.nops) THEN EndOp(y, y.nops, "failed") ELSE y
             f == [e EXCEPT !.lifecycle = "failed", !.err = TRUE,
                            !.room = IF y.process = "stopped" THEN "failed" ELSE @]
             b == AtPhase(y, y.nops, "observing")
             a == [b EXCEPT !.lifecycle = "active"]
  <2>1. y \in Instance /\ y.lifecycle = x.lifecycle
    BY LocatedType
  <2>2. ValidInstance(y) /\ y.room # "ready" /\ y.nops = x.nops /\ y.port = x.port
    BY <1>2, LocatedValid DEF ValidRecord, Exists, Holds
  <2>3. y.nops \in OpIds
    BY <2>1, <2>2, BoundsAssumption DEF ValidInstance, Instance, OpIds
  <2>4. r = f \/ r = y \/ (ResumesStart(y) /\ r = a)
    BY <1>2 DEF Recovered, RecoveryFailed
  <2> HIDE DEF y, r
  <2>5. e \in Instance /\ ValidInstance(e) /\ e.nops = y.nops /\ e.port = y.port /\ e.room = y.room
    <3>1. CASE Running(y, y.nops)
      <4>1. EndOp(y, y.nops, "failed") \in Instance
        BY <2>1, EndOpType
      <4>2. ValidInstance(EndOp(y, y.nops, "failed"))
        BY <2>1, <2>2, <2>3, <3>1, EndOpValid
      <4> QED
        BY <2>1, <3>1, <4>1, <4>2 DEF EndOp, Instance
    <3>2. CASE ~Running(y, y.nops)
      BY <2>1, <2>2, <3>2
    <3> QED
      BY <3>1, <3>2
  <2> HIDE DEF e
  <2>6. CASE r = f
    <3>1. /\ f.lifecycle = "failed" /\ f.process = e.process /\ f.cleanup = e.cleanup
          /\ f.gen = e.gen /\ f.runs = e.runs /\ f.nops = e.nops /\ f.ops = e.ops
          /\ f.port = e.port /\ f.room # "ready"
      BY <2>2, <2>5 DEF Instance
    <3>2. ValidInstance(f)
      BY <2>5, <3>1 DEF ValidInstance, ValidOp
    <3> QED
      BY <1>2, <2>2, <2>5, <2>6, <3>1, <3>2 DEF ValidRecord, ReadyRuns, Holds, Exists, r
  <2>7. CASE r = y
    BY <1>2, <2>1, <2>2, <2>7 DEF ValidRecord, ReadyRuns, Holds, Exists, r
  <2>8. CASE ResumesStart(y) /\ r = a
    <3>1. b \in Instance
      BY <2>1, AtPhaseType
    <3>2. ValidInstance(b)
      BY <2>1, <2>2, <2>3, <2>8, AtPhaseValid DEF ResumesStart, Running
    <3>3. b.nops = y.nops /\ b.port = y.port /\ b.room = y.room
      BY <2>1 DEF AtPhase, Instance
    <3> HIDE DEF b
    <3>4. /\ a.lifecycle = "active" /\ a.process = b.process /\ a.cleanup = b.cleanup
          /\ a.gen = b.gen /\ a.runs = b.runs /\ a.nops = b.nops /\ a.ops = b.ops
          /\ a.port = b.port /\ a.room = b.room
      BY <3>1 DEF Instance
    <3>5. ValidInstance(a)
      BY <3>2, <3>4 DEF ValidInstance, ValidOp
    <3> QED
      BY <1>2, <2>2, <2>8, <3>3, <3>4, <3>5 DEF ValidRecord, ReadyRuns, Holds, Exists, r
  <2> QED
    BY <2>4, <2>6, <2>7, <2>8
<1> QED
  BY <1>1, <1>2

----------------------------------------------------------------------------
(* Records of the same room, with the same operations. *)

(* y is a record of the same room as x, with the same operations: an       *)
(* accepted request is nowhere lost.                                       *)
Lasts(x, y) ==
    /\ y \in Instance
    /\ y.nops = x.nops /\ y.key = x.key /\ y.port = x.port
    /\ Exists(x) => Exists(y)
    /\ \A q \in OpIds : y.ops[q].kind = x.ops[q].kind

(* No operation ended, or only o did, and the room is still held, with the *)
(* same run.                                                               *)
Alike(x, y) ==
    /\ Lasts(x, y) /\ (Holds(x) => Holds(y)) /\ y.gen = x.gen
    /\ \A q \in OpIds : y.ops[q].status = x.ops[q].status

EndedAlone(x, y, o) ==
    ~Running(y, o) /\ \A q \in OpIds : q # o => y.ops[q].status = x.ops[q].status

Ends(x, y, o) ==
    Lasts(x, y) /\ (Holds(x) => Holds(y)) /\ y.gen = x.gen /\ EndedAlone(x, y, o)

(* Two changes after each other.                                           *)
LEMMA AlikeTransitive ==
  ASSUME NEW x, NEW y, NEW z, NEW o, Alike(x, y)
  PROVE  (Alike(y, z) => Alike(x, z)) /\ (Ends(y, z, o) => Ends(x, z, o))
  BY DEF Alike, Ends, EndedAlone, Lasts

(* What ends an operation twice ends it.                                   *)
LEMMA EndsTransitive ==
  ASSUME NEW x, NEW y, NEW z, NEW o, Ends(x, y, o), Ends(y, z, o)
  PROVE  Ends(x, z, o)
  BY DEF Ends, EndedAlone, Lasts

(* A record like another is an instance record.                            *)
LEMMA AlikeIsInstance == ASSUME NEW x, NEW y, Alike(x, y) PROVE y \in Instance
  BY DEF Alike, Lasts

(* A record is like itself.                                                *)
LEMMA AlikeSelf == ASSUME NEW x \in Instance PROVE Alike(x, x)
  BY DEF Alike, Lasts

(* A record with other details than its operations is alike.               *)
LEMMA AlikeFields ==
  ASSUME NEW x \in Instance, NEW y \in Instance,
         Holds(x) => Holds(y), Exists(x) => Exists(y),
         y.nops = x.nops, y.key = x.key, y.port = x.port, y.gen = x.gen, y.ops = x.ops
  PROVE  Alike(x, y)
  BY DEF Alike, Lasts

(* A change of phase is alike.                                             *)
LEMMA AtPhaseAlike ==
  ASSUME NEW x \in Instance, NEW o,
         NEW p \in {"preparing", "spawning", "observing", "stopping", "cleanup"}
  PROVE  Alike(x, AtPhase(x, o, p))
<1> DEFINE y == AtPhase(x, o, p)
<1>1. y \in Instance /\ y.lifecycle = x.lifecycle
  BY AtPhaseType
<1>2. /\ y.nops = x.nops /\ y.key = x.key /\ y.port = x.port /\ y.gen = x.gen
      /\ y.ops = [x.ops EXCEPT ![o] = [x.ops[o] EXCEPT !.phase = p]]
  BY DEF AtPhase, Instance
<1>3. x.ops \in [OpIds -> Operation]
  BY DEF Instance
<1> HIDE DEF y
<1>4. ASSUME NEW q \in OpIds
      PROVE  y.ops[q].kind = x.ops[q].kind /\ y.ops[q].status = x.ops[q].status
  <2>1. y.ops[q] = x.ops[q] \/ y.ops[q] = [x.ops[q] EXCEPT !.phase = p]
    BY <1>2, <1>3
  <2>2. x.ops[q] \in Operation
    BY <1>3
  <2> QED
    BY <2>1, <2>2 DEF Operation
<1> QED
  BY <1>1, <1>2, <1>4 DEF Alike, Lasts, Exists, Holds, y

(* The end of an operation ends it, and no other.                          *)
LEMMA EndOpEnds ==
  ASSUME NEW x \in Instance, NEW o \in OpIds, NEW st \in {"succeeded", "failed", "cancelled"}
  PROVE  Ends(x, EndOp(x, o, st), o)
<1> DEFINE y == EndOp(x, o, st)
<1>1. y \in Instance /\ y.lifecycle = x.lifecycle
  BY EndOpType
<1>2. /\ y.nops = x.nops /\ y.key = x.key /\ y.port = x.port /\ y.gen = x.gen
      /\ y.ops = [x.ops EXCEPT ![o] = [x.ops[o] EXCEPT !.status = st, !.phase = "done"]]
  BY DEF EndOp, Instance
<1>3. x.ops \in [OpIds -> Operation]
  BY DEF Instance
<1> HIDE DEF y
<1>4. \A q \in OpIds : q # o => y.ops[q] = x.ops[q]
  BY <1>2, <1>3
<1>5. y.ops[o].kind = x.ops[o].kind /\ y.ops[o].status = st
  <2>1. y.ops[o] = [x.ops[o] EXCEPT !.status = st, !.phase = "done"] /\ x.ops[o] \in Operation
    BY <1>2, <1>3
  <2> QED
    BY <2>1 DEF Operation
<1> QED
  BY <1>1, <1>2, <1>4, <1>5 DEF Ends, EndedAlone, Lasts, Running, Exists, Holds, y

(* So do a failed operation and a failed save.                             *)
LEMMA FailureEnds ==
  ASSUME NEW x \in Instance, NEW o \in OpIds
  PROVE  Ends(x, FinishFailed(x, o), o) /\ Ends(x, FailedSave(x, o), o)
<1> DEFINE y == EndOp(x, o, "failed")
           r == IF x.process = "unknown" THEN "unknown" ELSE "failed"
           f == [y EXCEPT !.err = TRUE, !.lifecycle = "failed", !.room = r]
           s == [y EXCEPT !.err = TRUE, !.lifecycle = "failed"]
<1>1. Ends(x, y, o)
  BY EndOpEnds
<1>2. FinishFailed(x, o) = f /\ FailedSave(x, o) = s
  BY DEF FinishFailed, FailedSave
<1>3. f \in Instance /\ s \in Instance /\ f.lifecycle = "failed" /\ s.lifecycle = "failed"
  BY <1>2, FinishFailedType, FailedSaveType
<1>4. y \in Instance
  BY <1>1 DEF Ends, Lasts
<1> HIDE DEF y, r
<1>5. /\ f.nops = y.nops /\ f.key = y.key /\ f.ops = y.ops
      /\ f.port = y.port /\ f.gen = y.gen /\ s.port = y.port /\ s.gen = y.gen
      /\ s.nops = y.nops /\ s.key = y.key /\ s.ops = y.ops
  BY <1>4 DEF Instance
<1> HIDE DEF f, s
<1>6. Ends(x, f, o) /\ Ends(x, s, o)
  BY <1>1, <1>3, <1>5 DEF Ends, EndedAlone, Lasts, Running, Exists, Holds
<1> QED
  BY <1>2, <1>6

----------------------------------------------------------------------------
(* What each action does to the records, action by action: it keeps their  *)
(* types, and either changes no more than details of one instance          *)
(* (QuietStep) or releases an instance that has no process (EmptyStep).    *)

StoreType ==
    /\ mem \in [Instances -> Instance]
    /\ disk \in [Instances -> Instance]
    /\ wedged \in BOOLEAN
    /\ faults \in Nat

WorkersType ==
    /\ pc \in [Instances -> [OpIds -> Pcs]]
    /\ cancelled \in [Instances -> SUBSET OpIds]
    /\ pred \in [Instances -> [OpIds -> 0..MaxOps]]
    /\ reg \in [Instances -> 0..MaxOps]

WorldType ==
    /\ live \in [Instances -> SUBSET Gens]
    /\ fifo \in [Instances -> SUBSET Gens]
    /\ cfg \in [Instances -> SUBSET Gens]

LifeType ==
    /\ up \in BOOLEAN /\ closed \in BOOLEAN /\ crashes \in Nat
    /\ told \in [Instances -> 0..MaxOps] /\ pruned \in SUBSET Instances

(* TypeOK is the conjunction of four parts, proved part by part.           *)
LEMMA TypeParts == TypeOK <=> StoreType /\ WorkersType /\ WorldType /\ LifeType
  BY DEF TypeOK, StoreType, WorkersType, WorldType, LifeType

(* What every step of the store does to the records: memory takes z for    *)
(* instance i, and the state file stays or is written with x.              *)
RecordStep(i, z, x) ==
    /\ mem' = [mem EXCEPT ![i] = z]
    /\ disk' = disk \/ disk' = [mem EXCEPT ![i] = x]

(* A change in memory only: a typed record, and the file unchanged.        *)
LEMMA MemoryStep ==
  ASSUME StoreType, NEW i \in Instances, NEW x \in Instance, InMemory(i, x)
  PROVE  StoreType' /\ RecordStep(i, x, x) /\ disk' = disk
  BY DEF StoreType, InMemory, store, RecordStep

(* A save that succeeds: the file is the memory.                           *)
LEMMA SavedStep ==
  ASSUME StoreType, NEW i \in Instances, NEW x \in Instance,
         Saved(i, x) \/ StoreSaved(i, x)
  PROVE  StoreType' /\ RecordStep(i, x, x) /\ disk' = mem'
  BY DEF StoreType, Saved, StoreSaved, Published, RecordStep

(* A save that fails: y stays in memory, and the file may or may not       *)
(* hold x.                                                                 *)
LEMMA NotSavedStep ==
  ASSUME StoreType, NEW i \in Instances, NEW x \in Instance, NEW y \in Instance,
         \/ NotSaved(i, x, y) \/ StoreNotSaved(i, x, y)
         \/ Rejected(i, x, y) /\ wedged' \in BOOLEAN
         \/ Faulted(i, x, y) /\ wedged' \in BOOLEAN
  PROVE  StoreType' /\ RecordStep(i, y, x)
<1>1. CASE Rejected(i, x, y) /\ wedged' \in BOOLEAN
  BY <1>1 DEF StoreType, Rejected, RecordStep
<1>2. CASE Faulted(i, x, y) /\ wedged' \in BOOLEAN
  BY <1>2, FaultAssumption DEF StoreType, Faulted, RecordStep
<1>3. CASE StoreNotSaved(i, x, y)
  BY <1>1, <1>2, <1>3 DEF StoreNotSaved, StoreType
<1>4. CASE NotSaved(i, x, y)
  <2>1. CASE wedged /\ mem' = [mem EXCEPT ![i] = y] /\ UNCHANGED <<disk, faults>>
    BY <1>4, <2>1 DEF StoreType, NotSaved, RecordStep
  <2> QED
    BY <1>1, <1>2, <1>4, <2>1 DEF NotSaved
<1> QED
  BY <1>1, <1>2, <1>3, <1>4

(* finish leaves the record it was given, the finished one, or that of a   *)
(* failed save.                                                            *)
LEMMA FinishesStep ==
  ASSUME StoreType, NEW i \in Instances, NEW x \in Instance, NEW y \in Instance,
         NEW o, Finishes(i, o, x, y)
  PROVE  StoreType' /\ \E z \in {x, y, FailedSave(y, o)} : RecordStep(i, z, y)
<1>1. FailedSave(y, o) \in Instance
  BY FailedSaveType
<1>2. CASE InMemory(i, x)
  BY <1>2, MemoryStep DEF RecordStep
<1>3. CASE Saved(i, y)
  BY <1>3, SavedStep
<1>4. CASE NotSaved(i, y, FailedSave(y, o))
  BY <1>1, <1>4, NotSavedStep
<1> QED
  BY <1>2, <1>3, <1>4 DEF Finishes

(* A save of launch or stop: the worker goes on, or it ends with a         *)
(* failed save.                                                            *)
LEMMA SaveOrFailStep ==
  ASSUME StoreType, NEW i \in Instances, NEW x \in Instance, NEW o, NEW next,
         SaveOrFail(i, o, x, next)
  PROVE  /\ StoreType'
         /\ \/ RecordStep(i, x, x) /\ disk' = mem' /\ Goto(i, o, next)
            \/ RecordStep(i, FailedSave(x, o), x) /\ Goto(i, o, "exit")
<1>1. FailedSave(x, o) \in Instance
  BY FailedSaveType
<1> QED
  BY <1>1, SavedStep, NotSavedStep DEF SaveOrFail

(* A save of the store itself: the worker goes on, or it aborts.           *)
LEMMA StoreOrFailStep ==
  ASSUME StoreType, NEW i \in Instances, NEW x \in Instance, NEW y \in Instance,
         NEW o, NEW next, StoreOrFail(i, o, x, y, next)
  PROVE  /\ StoreType'
         /\ \/ RecordStep(i, x, x) /\ disk' = mem' /\ Goto(i, o, next)
            \/ RecordStep(i, y, x) /\ Goto(i, o, "abort")
  BY SavedStep, NotSavedStep DEF StoreOrFail

(* A worker that moves to a known place keeps the type of pc.              *)
LEMMA GotoType ==
  ASSUME WorkersType, NEW i \in Instances, NEW o \in OpIds, NEW p \in Pcs, Goto(i, o, p)
  PROVE  pc' \in [Instances -> [OpIds -> Pcs]]
  BY DEF WorkersType, Goto

----------------------------------------------------------------------------
(* The changes that workers make to a record. *)

(* One run of the instance replaced.                                       *)
LEMMA RunChange ==
  ASSUME NEW x \in Instance, NEW g, NEW r \in Run
  PROVE  /\ [x.runs EXCEPT ![g] = r] \in [Gens -> Run]
         /\ [x EXCEPT !.runs = [x.runs EXCEPT ![g] = r]] \in Instance
         /\ x.runs \in [Gens -> Run]
  BY DEF Instance

(* Every change of one field of a run that the code makes is a run.        *)
LEMMA RunFields ==
  ASSUME NEW r \in Run
  PROVE  /\ \A b \in BOOLEAN :
              /\ [r EXCEPT !.cfgCreated = b] \in Run /\ [r EXCEPT !.prepared = b] \in Run
              /\ [r EXCEPT !.cfgRemoved = b] \in Run /\ [r EXCEPT !.spawnAttempted = b] \in Run
              /\ [r EXCEPT !.input = b] \in Run /\ [r EXCEPT !.inputRemoved = b] \in Run
         /\ \A d \in {"none", "partial", "full"} : [r EXCEPT !.identity = d] \in Run
         /\ \A c \in {"none", "unconfirmed", "confirmed"} : [r EXCEPT !.stop = c] \in Run
  BY DEF Run

(* y is x with other details: no process of it is recorded as gone, and no *)
(* run forgets its spawn or its input.                                     *)
KeepsRuns(x, y) ==
    /\ y.gen = x.gen
    /\ \A g \in Gens :
         /\ g > x.gen => y.runs[g].stop = x.runs[g].stop
         /\ y.runs[g].stop = "confirmed" => x.runs[g].stop = "confirmed"
         /\ x.runs[g].spawnAttempted => y.runs[g].spawnAttempted
         /\ x.runs[g].input => y.runs[g].input

Kept(x, y) ==
    /\ y \in Instance
    /\ y.process = x.process \/ y.process # "stopped"
    /\ Holds(x) => Holds(y)
    /\ KeepsRuns(x, y)

(* Two changes of details are a change of details.                         *)
LEMMA KeptTransitive ==
  ASSUME NEW x \in Instance, NEW y, NEW z, Kept(x, y), Kept(y, z)
  PROVE  Kept(x, z)
  BY DEF Kept, KeepsRuns

(* A record with other details is an instance.                             *)
LEMMA KeptType == ASSUME NEW x, NEW y, Kept(x, y) PROVE y \in Instance
  BY DEF Kept

(* A record with the same runs, a port still held and no new process       *)
(* stop is x with other details.                                           *)
LEMMA KeptFields ==
  ASSUME NEW x \in Instance, NEW y \in Instance,
         y.process = x.process \/ y.process # "stopped",
         Holds(x) => Holds(y), y.gen = x.gen, y.runs = x.runs
  PROVE  Kept(x, y)
  BY DEF Kept, KeepsRuns

(* A mark set in a run.                                                    *)
LEMMA RunsKept ==
  ASSUME NEW x \in Instance, NEW r \in [Gens -> Run],
         \A g \in Gens : /\ r[g].stop = x.runs[g].stop
                         /\ x.runs[g].spawnAttempted => r[g].spawnAttempted
                         /\ x.runs[g].input => r[g].input
  PROVE  /\ Kept(x, [x EXCEPT !.runs = r])
         /\ [x EXCEPT !.runs = r].lifecycle = x.lifecycle
         /\ [x EXCEPT !.runs = r].process = x.process
         /\ [x EXCEPT !.runs = r].runs = r
<1>1. [x EXCEPT !.runs = r] \in Instance
  BY DEF Instance
<1> QED
  BY <1>1 DEF Kept, KeepsRuns, Instance, Holds

(* One run replaced by one that forgets nothing is a change of details.    *)
LEMMA OneRunKept ==
  ASSUME NEW x \in Instance, NEW g, NEW r,
         g \in Gens => /\ r \in Run /\ r.stop = x.runs[g].stop
                       /\ x.runs[g].spawnAttempted => r.spawnAttempted
                       /\ x.runs[g].input => r.input
  PROVE  Kept(x, [x EXCEPT !.runs[g] = r])
<1> DEFINE rs == [x.runs EXCEPT ![g] = r]
<1>1. x.runs \in [Gens -> Run]
  BY DEF Instance
<1>2. rs \in [Gens -> Run]
  BY <1>1
<1>3. \A h \in Gens : /\ rs[h].stop = x.runs[h].stop
                      /\ x.runs[h].spawnAttempted => rs[h].spawnAttempted
                      /\ x.runs[h].input => rs[h].input
  BY <1>1
<1> HIDE DEF rs
<1>4. Kept(x, [x EXCEPT !.runs = rs])
  BY <1>2, <1>3, RunsKept
<1> QED
  BY <1>4 DEF rs

(* The marks that launch and cleanup set in a run are changes of           *)
(* details.                                                                *)
LEMMA RunMarks ==
  ASSUME NEW x \in Instance, NEW g
  PROVE  /\ Kept(x, [x EXCEPT !.runs[g].cfgCreated = TRUE])
         /\ Kept(x, [x EXCEPT !.runs[g].prepared = TRUE])
         /\ Kept(x, [x EXCEPT !.runs[g].spawnAttempted = TRUE])
         /\ Kept(x, [x EXCEPT !.runs[g].input = TRUE])
         /\ Kept(x, [x EXCEPT !.runs[g].inputRemoved = TRUE])
         /\ Kept(x, [x EXCEPT !.runs[g].cfgRemoved = TRUE])
<1>1. g \in Gens => x.runs[g] \in Run
  BY DEF Instance
<1>2. Kept(x, [x EXCEPT !.runs[g] = [x.runs[g] EXCEPT !.cfgCreated = TRUE]])
  BY <1>1, OneRunKept DEF Run
<1>3. Kept(x, [x EXCEPT !.runs[g] = [x.runs[g] EXCEPT !.prepared = TRUE]])
  BY <1>1, OneRunKept DEF Run
<1>4. Kept(x, [x EXCEPT !.runs[g] = [x.runs[g] EXCEPT !.spawnAttempted = TRUE]])
  BY <1>1, OneRunKept DEF Run
<1>5. Kept(x, [x EXCEPT !.runs[g] = [x.runs[g] EXCEPT !.input = TRUE]])
  BY <1>1, OneRunKept DEF Run
<1>6. Kept(x, [x EXCEPT !.runs[g] = [x.runs[g] EXCEPT !.inputRemoved = TRUE]])
  BY <1>1, OneRunKept DEF Run
<1>7. Kept(x, [x EXCEPT !.runs[g] = [x.runs[g] EXCEPT !.cfgRemoved = TRUE]])
  BY <1>1, OneRunKept DEF Run
<1> QED
  BY <1>2, <1>3, <1>4, <1>5, <1>6, <1>7

(* Ending an operation, or moving it to a phase, is a change of details.   *)
LEMMA EndingKeeps ==
  ASSUME NEW x \in Instance, NEW o
  PROVE  /\ Kept(x, FinishFailed(x, o)) /\ Kept(x, FailedSave(x, o))
         /\ \A st \in {"succeeded", "failed", "cancelled"} : Kept(x, EndOp(x, o, st))
         /\ \A p \in {"preparing", "spawning", "observing", "stopping", "cleanup"} :
              Kept(x, AtPhase(x, o, p))
  BY FinishFailedType, FailedSaveType, EndOpType, AtPhaseType, KeptFields
     DEF SameProcess, Holds

(* A step of the records that changes no more than details of instance i.  *)
QuietStep(i) ==
    \E z, x \in Instance : RecordStep(i, z, x) /\ Kept(mem[i], z) /\ Kept(mem[i], x)

(* A step of instance i that leaves no process of it.                      *)
EmptyStep(i) ==
    \E z, x \in Instance :
        RecordStep(i, z, x) /\ (Unused(mem[i]) => Unused(z) /\ Unused(x))

(* Nothing changed is a quiet step.                                        *)
LEMMA StillStep ==
  ASSUME StoreType, NEW i \in Instances, UNCHANGED <<mem, store>>
  PROVE  StoreType' /\ QuietStep(i)
<1>1. mem[i] \in Instance /\ mem' = mem /\ disk' = disk
  BY DEF StoreType, store
<1>2. Kept(mem[i], mem[i])
  BY <1>1 DEF Kept, KeepsRuns
<1>3. RecordStep(i, mem[i], mem[i])
  BY <1>1 DEF RecordStep, StoreType
<1> QED
  BY <1>1, <1>2, <1>3 DEF QuietStep, StoreType, store

(* A save of a change of details is quiet, whether it succeeds or not.     *)
LEMMA QuietSaveOrFail ==
  ASSUME StoreType, NEW i \in Instances, NEW o, NEW x, NEW next,
         Kept(mem[i], x), SaveOrFail(i, o, x, next)
  PROVE  /\ StoreType' /\ QuietStep(i)
         /\ Goto(i, o, next) \/ Goto(i, o, "exit")
<1>1. mem[i] \in Instance /\ x \in Instance
  BY DEF StoreType, Kept
<1>2. Kept(mem[i], FailedSave(x, o)) /\ FailedSave(x, o) \in Instance
  BY <1>1, EndingKeeps, KeptTransitive, FailedSaveType
<1> QED
  BY <1>1, <1>2, SaveOrFailStep DEF QuietStep

(* finish with changes of details is quiet.                                *)
LEMMA QuietFinish ==
  ASSUME StoreType, NEW i \in Instances, NEW o, NEW x, NEW y,
         Kept(mem[i], x), Kept(mem[i], y), Finishes(i, o, x, y)
  PROVE  StoreType' /\ QuietStep(i)
<1>1. mem[i] \in Instance /\ x \in Instance /\ y \in Instance
  BY DEF StoreType, Kept
<1>2. Kept(mem[i], FailedSave(y, o)) /\ FailedSave(y, o) \in Instance
  BY <1>1, EndingKeeps, KeptTransitive, FailedSaveType
<1>3. StoreType' /\ \E z \in {x, y, FailedSave(y, o)} : RecordStep(i, z, y)
  BY <1>1, FinishesStep
<1> QED
  BY <1>1, <1>2, <1>3 DEF QuietStep

(* A change of details in memory is quiet.                                 *)
LEMMA QuietMemory ==
  ASSUME StoreType, NEW i \in Instances, NEW x, Kept(mem[i], x), InMemory(i, x)
  PROVE  StoreType' /\ QuietStep(i)
  BY MemoryStep DEF QuietStep, Kept

(* A change of details saved by the store is quiet.                        *)
LEMMA QuietStore ==
  ASSUME StoreType, NEW i \in Instances, NEW x, NEW y, Kept(mem[i], x), Kept(mem[i], y),
         StoreSaved(i, x) \/ StoreNotSaved(i, x, y)
  PROVE  StoreType' /\ QuietStep(i)
<1>1. x \in Instance /\ y \in Instance
  BY DEF Kept
<1> QED
  BY <1>1, SavedStep, NotSavedStep DEF QuietStep

(* The actions of a worker that change no more than details. *)

(* The first steps of launch, stop and cleanup only mark a phase.          *)
LEMMA LaunchQuiet ==
  ASSUME StoreType, NEW i \in Instances, NEW o \in OpIds,
         \/ Launch(i, o) \/ BeginStop(i, o) \/ BeginCleanup(i, o)
  PROVE  StoreType' /\ QuietStep(i)
<1>1. mem[i] \in Instance
  BY DEF StoreType
<1>2. \A p \in {"preparing", "stopping", "cleanup"} : Kept(mem[i], AtPhase(mem[i], o, p))
  BY <1>1, EndingKeeps
<1> QED
  BY <1>2, QuietSaveOrFail, StillStep DEF Launch, BeginStop, BeginCleanup, Fails

(* Finishing a failed operation only ends it.                              *)
LEMMA AbortQuiet ==
  ASSUME StoreType, NEW i \in Instances, NEW o \in OpIds, Abort(i, o)
  PROVE  StoreType' /\ QuietStep(i)
<1>1. mem[i] \in Instance
  BY DEF StoreType
<1>2. Kept(mem[i], mem[i]) /\ Kept(mem[i], FinishFailed(mem[i], o))
  BY <1>1, EndingKeeps, KeptFields
<1> QED
  BY <1>2, QuietFinish DEF Abort

(* Preparing the files of a run only marks its cfg.                        *)
LEMMA PrepareFilesQuiet ==
  ASSUME StoreType, NEW i \in Instances, NEW o \in OpIds, PrepareFiles(i, o)
  PROVE  StoreType' /\ QuietStep(i)
<1> DEFINE x == [mem[i] EXCEPT !.runs[mem[i].gen].cfgCreated = TRUE]
<1>1. Kept(mem[i], x)
  BY RunMarks DEF StoreType
<1>2. UNCHANGED <<mem, store>> \/ StoreSaved(i, x) \/ StoreNotSaved(i, x, x)
  BY DEF PrepareFiles, Fails
<1> HIDE DEF x
<1> QED
  BY <1>1, <1>2, StillStep, QuietStore

(* A prepared run is only marked.                                          *)
LEMMA RunPreparedQuiet ==
  ASSUME StoreType, NEW i \in Instances, NEW o \in OpIds, RunPrepared(i, o)
  PROVE  StoreType' /\ QuietStep(i)
<1> DEFINE x == [mem[i] EXCEPT !.runs[mem[i].gen].cfgCreated = TRUE]
           y == [x EXCEPT !.runs[mem[i].gen].prepared = TRUE]
<1>1. Kept(mem[i], x) /\ mem[i] \in Instance
  BY RunMarks DEF StoreType
<1>2. Kept(x, y)
  <2>1. x \in Instance
    BY <1>1, KeptType
  <2> HIDE DEF x
  <2> QED
    BY <2>1, RunMarks
<1>3. StoreSaved(i, y) \/ StoreNotSaved(i, y, y)
  BY DEF RunPrepared, StoreOrFail
<1> HIDE DEF x, y
<1>4. Kept(mem[i], y)
  BY <1>1, <1>2, KeptTransitive
<1> QED
  BY <1>3, <1>4, QuietStore

(* The intent to spawn only marks the run and its operation.               *)
LEMMA IntendSpawnQuiet ==
  ASSUME StoreType, NEW i \in Instances, NEW o \in OpIds, IntendSpawn(i, o)
  PROVE  StoreType' /\ QuietStep(i)
<1> DEFINE g == mem[i].gen
           x == [mem[i] EXCEPT !.ops[o].gen = g]
           y == AtPhase(x, o, "spawning")
           z == [y EXCEPT !.runs[g].spawnAttempted = TRUE]
<1>1. mem[i] \in Instance
  BY DEF StoreType
<1>2. Kept(mem[i], x) /\ x \in Instance
  <2>1. [mem[i].ops[o] EXCEPT !.gen = g] \in Operation
    BY <1>1 DEF Instance, Operation
  <2>2. x \in Instance
    BY <1>1, <2>1 DEF Instance
  <2> QED
    BY <1>1, <2>2, KeptFields DEF Instance, Holds
<1>3. Kept(x, y) /\ y \in Instance
  <2>1. x \in Instance
    BY <1>2
  <2> HIDE DEF x
  <2> QED
    BY <2>1, EndingKeeps, KeptType
<1>4. Kept(y, z)
  <2>1. y \in Instance
    BY <1>3
  <2> HIDE DEF y
  <2> QED
    BY <2>1, RunMarks
<1>5. InMemory(i, x) \/ SaveOrFail(i, o, z, "fifo")
  BY DEF IntendSpawn
<1> HIDE DEF g, x, y, z
<1>6. Kept(mem[i], z)
  BY <1>1, <1>2, <1>3, <1>4, KeptTransitive
<1> QED
  BY <1>2, <1>5, <1>6, QuietMemory, QuietSaveOrFail

(* The identity of one run replaced.                                       *)
Identified(f, g, d) == [f EXCEPT ![g].identity = d]

(* Its runs say the same of their spawn, their input and their exit.       *)
LEMMA IdentityChange ==
  ASSUME NEW f \in [Gens -> Run], NEW g, NEW d \in {"partial", "full"}
  PROVE  /\ Identified(f, g, d) \in [Gens -> Run]
         /\ \A h \in Gens : /\ Identified(f, g, d)[h].stop = f[h].stop
                            /\ Identified(f, g, d)[h].spawnAttempted = f[h].spawnAttempted
                            /\ Identified(f, g, d)[h].input = f[h].input
<1> DEFINE r == Identified(f, g, d)
<1>1. \A h \in Gens : [f[h] EXCEPT !.identity = d] \in Run
  BY RunFields
<1>2. r \in [Gens -> Run]
  BY <1>1 DEF Identified
<1>3. \A h \in Gens : r[h] = f[h] \/ r[h] = [f[h] EXCEPT !.identity = d]
  BY DEF Identified
<1>4. \A h \in Gens : f[h] \in Run
  OBVIOUS
<1> HIDE DEF r
<1>5. \A h \in Gens : /\ r[h].stop = f[h].stop
                     /\ r[h].spawnAttempted = f[h].spawnAttempted
                     /\ r[h].input = f[h].input
  BY <1>3, <1>4 DEF Run
<1> QED
  BY <1>2, <1>5 DEF r

(* The identity of a spawned process is a detail of its run.               *)
LEMMA SpawnedQuiet ==
  ASSUME StoreType, NEW i \in Instances, NEW o \in OpIds, Spawned(i, o)
  PROVE  StoreType' /\ QuietStep(i)
<1> DEFINE g == mem[i].gen
           r == [mem[i].runs EXCEPT ![g].identity = "full"]
           x == [mem[i] EXCEPT !.process = "running", !.room = "loading", !.err = FALSE,
                               !.runs = r]
           y == AtPhase(x, o, "observing")
<1>1. mem[i] \in Instance
  BY DEF StoreType
<1>2. Kept(mem[i], x) /\ x \in Instance
  <2>1. /\ r \in [Gens -> Run]
        /\ \A h \in Gens : /\ r[h].stop = mem[i].runs[h].stop
                           /\ r[h].spawnAttempted = mem[i].runs[h].spawnAttempted
                           /\ r[h].input = mem[i].runs[h].input
    <3>1. mem[i].runs \in [Gens -> Run]
      BY <1>1 DEF Instance
    <3>2. r = Identified(mem[i].runs, g, "full")
      BY DEF Identified
    <3> HIDE DEF r
    <3> QED
      BY <3>1, <3>2, IdentityChange
  <2> HIDE DEF r
  <2>2. /\ x \in Instance /\ x.gen = mem[i].gen /\ x.runs = r /\ x.process = "running"
        /\ x.lifecycle = mem[i].lifecycle
    BY <1>1, <2>1 DEF Instance
  <2> QED
    BY <1>1, <2>1, <2>2 DEF Kept, KeepsRuns, Holds
<1>3. SaveOrFail(i, o, y, "observe")
  BY DEF Spawned
<1> HIDE DEF x
<1>4. Kept(x, y)
  BY <1>2, EndingKeeps
<1>5. Kept(mem[i], y)
  BY <1>1, <1>2, <1>4, KeptTransitive
<1> HIDE DEF y
<1> QED
  BY <1>3, <1>5, QuietSaveOrFail

(* Cleaning up, and starting the next launch, only mark runs.              *)
LEMMA CleanupQuiet ==
  ASSUME StoreType, NEW i \in Instances, NEW o \in OpIds,
         CleanInput(i, o) \/ CleanupRun(i, o) \/ Relaunch(i, o)
  PROVE  StoreType' /\ QuietStep(i)
<1> DEFINE f == [mem[i] EXCEPT !.cleanup = "failed"]
           l == [mem[i] EXCEPT !.lifecycle = "active", !.cleanup = "pending", !.err = FALSE]
           x(g) == [mem[i] EXCEPT !.runs[g].inputRemoved = TRUE]
           y(g) == [mem[i] EXCEPT !.runs[g].cfgRemoved = TRUE]
           z(g) == [y(g) EXCEPT !.cleanup = "failed"]
<1>1. mem[i] \in Instance
  BY DEF StoreType
<1>2. Kept(mem[i], f) /\ Kept(mem[i], l)
  <2>1. f \in Instance /\ l \in Instance
    BY <1>1 DEF Instance
  <2>2. /\ f.process = mem[i].process /\ f.gen = mem[i].gen /\ f.runs = mem[i].runs
        /\ f.lifecycle = mem[i].lifecycle
        /\ l.process = mem[i].process /\ l.gen = mem[i].gen /\ l.runs = mem[i].runs
        /\ l.lifecycle = "active"
    BY <1>1 DEF Instance
  <2> HIDE DEF f, l
  <2> QED
    BY <1>1, <2>1, <2>2, KeptFields DEF Holds
<1>3. \A g \in Gens : Kept(mem[i], x(g)) /\ Kept(mem[i], y(g)) /\ Kept(mem[i], z(g))
  <2>1. TAKE g \in Gens
  <2>2. Kept(mem[i], x(g)) /\ Kept(mem[i], y(g))
    BY <1>1, RunMarks
  <2>3. y(g) \in Instance
    BY <2>2 DEF Kept
  <2> HIDE DEF x, y
  <2>4. z(g) \in Instance
    BY <2>3 DEF Instance
  <2>5. Kept(y(g), z(g))
    BY <2>3, <2>4, KeptFields DEF Instance, Holds
  <2> QED
    BY <1>1, <2>2, <2>5, KeptTransitive
<1>4. \/ UNCHANGED <<mem, store>>
      \/ InMemory(i, f) \/ InMemory(i, l)
      \/ \E g \in Gens : \/ SaveOrFail(i, o, x(g), "cleanup")
                         \/ StoreSaved(i, y(g)) \/ StoreNotSaved(i, y(g), z(g))
  BY DEF CleanInput, CleanupRun, CleanupFails, Relaunch
<1> HIDE DEF f, l, x, y, z
<1> QED
  BY <1>2, <1>3, <1>4, StillStep, QuietMemory, QuietSaveOrFail, QuietStore

(* What observations and stops make of a record. *)

(* An observation keeps the details of a room unless its process is        *)
(* gone.                                                                   *)
LEMMA ObservedKeeps ==
  ASSUME NEW x \in Instance, NEW v \in Verdicts
  PROVE  /\ Observed(x, v) \in Instance
         /\ Unused(x) => Unused(Observed(x, v))
         /\ v # "gone" => Kept(x, Observed(x, v))
<1>1. Observed(x, v) \in Instance /\ Observed(x, v).gen = x.gen /\ Observed(x, v).runs = x.runs
      /\ Observed(x, v).lifecycle = x.lifecycle /\ (Observed(x, v).process = "stopped" => v = "gone")
  BY ObservedType
<1> QED
  BY <1>1, KeptFields DEF Unused, Holds

(* An unconfirmed stop keeps the details, a confirmed one stops the        *)
(* process.                                                                *)
LEMMA StopResultKeeps ==
  ASSUME NEW x \in Instance, NEW c \in BOOLEAN
  PROVE  /\ StopResult(x, c) \in Instance
         /\ Unused(x) => Unused(StopResult(x, c))
         /\ ~c => Kept(x, StopResult(x, c))
         /\ c => StopResult(x, c).process = "stopped"
<1> DEFINE s == IF c THEN "confirmed" ELSE "unconfirmed"
           p == IF c THEN "stopped" ELSE "unknown"
           r == [x.runs EXCEPT ![x.gen].stop = s]
           y == [x EXCEPT !.runs = r, !.process = p]
<1>1. s \in {"none", "unconfirmed", "confirmed"} /\ p \in {"stopped", "unknown"}
      /\ (~c => s # "confirmed" /\ p = "unknown") /\ (c => p = "stopped")
  OBVIOUS
<1> HIDE DEF s, p
<1>2. x.runs \in [Gens -> Run] /\ x.gen \in 0..MaxGen
  BY DEF Instance
<1>3. \A g \in Gens : [x.runs[g] EXCEPT !.stop = s] \in Run
  BY <1>1, <1>2, RunFields
<1>4. r \in [Gens -> Run]
  BY <1>2, <1>3
<1>5. \A g \in Gens : /\ g # x.gen => r[g] = x.runs[g]
                      /\ r[g].input = x.runs[g].input
                      /\ r[g].spawnAttempted = x.runs[g].spawnAttempted
                      /\ r[g].stop = s \/ r[g].stop = x.runs[g].stop
  BY <1>2 DEF Run
<1> HIDE DEF r
<1>6. /\ y \in Instance /\ y.gen = x.gen /\ y.runs = r /\ y.process = p
      /\ y.lifecycle = x.lifecycle
  BY <1>1, <1>4 DEF Instance
<1>7. Unused(x) => Unused(y)
  BY <1>2, <1>5, <1>6, BoundsAssumption DEF Unused, Gens
<1>8. ~c => Kept(x, y)
  BY <1>1, <1>2, <1>5, <1>6, BoundsAssumption DEF Kept, KeepsRuns, Holds, Gens
<1>9. StopResult(x, c) = y
  BY DEF StopResult, y, r, s, p
<1> HIDE DEF y
<1> QED
  BY <1>1, <1>6, <1>7, <1>8, <1>9

(* A launch that left no process behind still leaves an instance.          *)
LEMMA UnspawnedKeeps ==
  ASSUME NEW x \in Instance
  PROVE  Unspawned(x) \in Instance /\ (Unused(x) => Unused(Unspawned(x)))
<1> DEFINE r == [x.runs EXCEPT ![x.gen].stop = "confirmed"]
           y == [x EXCEPT !.process = "stopped", !.room = "unknown", !.runs = r]
<1>1. x.runs \in [Gens -> Run] /\ x.gen \in 0..MaxGen
  BY DEF Instance
<1>2. r \in [Gens -> Run]
  <2>1. \A g \in Gens : [x.runs[g] EXCEPT !.stop = "confirmed"] \in Run
    BY <1>1, RunFields
  <2> QED
    BY <1>1, <2>1
<1>3. \A g \in Gens : g # x.gen => r[g] = x.runs[g]
  BY <1>1
<1> HIDE DEF r
<1>4. y \in Instance /\ y.gen = x.gen /\ y.runs = r
  BY <1>2 DEF Instance
<1>5. Unused(x) => Unused(y)
  BY <1>1, <1>3, <1>4, BoundsAssumption DEF Unused, Gens
<1> QED
  BY <1>4, <1>5 DEF Unspawned, r

(* The actions that observe or stop a process: its record is released only *)
(* when the current generation is not alive.                               *)

Vacant(i) == mem[i].gen \notin live[i]

(* A release recorded in memory is an empty step.                          *)
LEMMA ReleaseMemory ==
  ASSUME StoreType, NEW i \in Instances, NEW x \in Instance,
         Unused(mem[i]) => Unused(x), InMemory(i, x)
  PROVE  StoreType' /\ EmptyStep(i)
  BY MemoryStep DEF EmptyStep

(* An observation by a worker is quiet, or its game has exited.            *)
LEMMA TickStep ==
  ASSUME StoreType, NEW i \in Instances, NEW o \in OpIds,
         NEW v \in Verdicts, NEW late \in BOOLEAN, Tick(i, o, v, late)
  PROVE  StoreType' /\ (QuietStep(i) \/ (EmptyStep(i) /\ Vacant(i)))
<1> DEFINE x == Observed(mem[i], v)
<1>1. /\ mem[i] \in Instance /\ x \in Instance
      /\ Unused(mem[i]) => Unused(x)
      /\ v # "gone" => Kept(mem[i], x)
  BY ObservedKeeps DEF StoreType
<1>2. InMemory(i, x) \/ (v = "ready" /\ Finishes(i, o, x, EndOp(x, o, "succeeded")))
  BY DEF Tick
<1>3. v = "gone" => Vacant(i)
  BY DEF Tick, CanObserve, Vacant
<1> HIDE DEF x
<1>4. CASE v = "gone"
  <2>1. InMemory(i, x)
    BY <1>2, <1>4
  <2> QED
    BY <1>1, <1>3, <1>4, <2>1, ReleaseMemory
<1>5. CASE v # "gone"
  <2>1. Kept(mem[i], EndOp(x, o, "succeeded"))
    BY <1>1, <1>5, EndingKeeps, KeptTransitive
  <2> QED
    BY <1>1, <1>2, <1>5, <2>1, QuietMemory, QuietFinish
<1> QED
  BY <1>4, <1>5

(* A stop after the start deadline is quiet, or its game has exited.       *)
LEMMA TimedOutStep ==
  ASSUME StoreType, NEW i \in Instances, NEW o \in OpIds, NEW c \in BOOLEAN, TimedOut(i, o, c)
  PROVE  StoreType' /\ (QuietStep(i) \/ (EmptyStep(i) /\ Vacant(i)))
<1> DEFINE x == StopResult(mem[i], c)
<1>1. mem[i] \in Instance /\ x \in Instance /\ (Unused(mem[i]) => Unused(x))
      /\ (~c => Kept(mem[i], x))
  BY StopResultKeeps DEF StoreType
<1>2. InMemory(i, x) /\ (c => Vacant(i))
  BY DEF TimedOut, MayConfirm, Vacant
<1> HIDE DEF x
<1> QED
  BY <1>1, <1>2, ReleaseMemory, QuietMemory

(* The result of a stop is quiet, or the game has exited.                  *)
LEMMA StoppedStep ==
  ASSUME StoreType, NEW i \in Instances, NEW o \in OpIds, NEW c \in BOOLEAN, Stopped(i, o, c)
  PROVE  StoreType' /\ (QuietStep(i) \/ (EmptyStep(i) /\ Vacant(i)))
<1> DEFINE x == StopResult(mem[i], c)
           y == [x EXCEPT !.room = "unknown"]
<1>1. mem[i] \in Instance /\ x \in Instance /\ (Unused(mem[i]) => Unused(x))
      /\ (~c => Kept(mem[i], x))
  BY StopResultKeeps DEF StoreType
<1>2. \/ ~c /\ InMemory(i, x)
      \/ Vacant(i) /\ SaveOrFail(i, o, y, "stopped")
  BY DEF Stopped, MayConfirm, Vacant
<1> HIDE DEF x
<1>3. y \in Instance /\ (Unused(x) => Unused(y))
  BY <1>1 DEF Instance, Unused
<1> HIDE DEF y
<1>4. CASE ~c /\ InMemory(i, x)
  BY <1>1, <1>4, QuietMemory
<1>5. CASE Vacant(i) /\ SaveOrFail(i, o, y, "stopped")
  <2>1. FailedSave(y, o) \in Instance /\ SameProcess(y, FailedSave(y, o))
    BY <1>3, FailedSaveType
  <2>2. Unused(y) => Unused(FailedSave(y, o))
    BY <2>1 DEF Unused, SameProcess
  <2> QED
    BY <1>1, <1>3, <1>5, <2>1, <2>2, SaveOrFailStep DEF EmptyStep
<1> QED
  BY <1>2, <1>4, <1>5

(* An observation by watch is quiet, or its game has exited.               *)
LEMMA WatchStep ==
  ASSUME StoreType, NEW i \in Instances, NEW v \in Verdicts, Watch(i, v)
  PROVE  StoreType' /\ (QuietStep(i) \/ (EmptyStep(i) /\ Vacant(i)))
<1> DEFINE x == Observed(mem[i], v)
           e == x.err \/ ~wedged
           f == [x EXCEPT !.lifecycle = "failed", !.err = e]
           y == IF Failing(v) THEN f ELSE x
           z == [y EXCEPT !.err = TRUE]
<1>1. /\ mem[i] \in Instance /\ x \in Instance
      /\ Unused(mem[i]) => Unused(x)
      /\ v # "gone" => Kept(mem[i], x)
  BY ObservedKeeps DEF StoreType
<1>2. Saved(i, y) \/ NotSaved(i, y, z)
  BY DEF Watch
<1>3. v = "gone" => Vacant(i)
  BY DEF Watch, CanObserve, Vacant
<1>4. e \in BOOLEAN
  BY <1>1 DEF Instance, StoreType
<1> HIDE DEF x, e
<1>5. f \in Instance /\ SameProcess(x, f) /\ f.lifecycle = "failed"
  BY <1>1, <1>4 DEF Instance, SameProcess
<1> HIDE DEF f
<1>6. y \in Instance /\ SameProcess(x, y) /\ (Holds(x) => Holds(y))
  BY <1>1, <1>5 DEF SameProcess, Holds
<1> HIDE DEF y
<1>7. z \in Instance /\ SameProcess(x, z) /\ (Holds(x) => Holds(z))
  BY <1>6 DEF Instance, SameProcess, Holds
<1> HIDE DEF z
<1>8. StoreType' /\ \E r \in {y, z} : RecordStep(i, r, y)
  BY <1>2, <1>6, <1>7, SavedStep, NotSavedStep
<1>9. Kept(x, y) /\ Kept(x, z)
  BY <1>1, <1>6, <1>7, KeptFields DEF SameProcess
<1>10. CASE v = "gone"
  <2>1. Unused(x) => Unused(y) /\ Unused(z)
    BY <1>6, <1>7 DEF Unused, SameProcess
  <2> QED
    BY <1>1, <1>3, <1>6, <1>7, <1>8, <1>10, <2>1 DEF EmptyStep
<1>11. CASE v # "gone"
  <2>1. Kept(mem[i], y) /\ Kept(mem[i], z)
    BY <1>1, <1>9, <1>11, KeptTransitive
  <2> QED
    BY <1>6, <1>7, <1>8, <2>1 DEF QuietStep
<1> QED
  BY <1>10, <1>11

(* The requests and the launch. *)

(* A stop or restart request adds an operation and ends another.           *)
LEMMA ChangeStep ==
  ASSUME StoreType, NEW i \in Instances, NEW kind \in {"stop", "restart"}, Change(i, kind)
  PROVE  StoreType' /\ QuietStep(i)
<1> DEFINE old  == reg[i]
           o    == mem[i].nops + 1
           x    == AddOp(mem[i], kind)
           ends == old # 0 /\ old \notin cancelled[i] /\ Running(x, old)
           y    == IF ends THEN EndOp(x, old, "cancelled") ELSE x
           z    == IF ends THEN FailedSave(y, old) ELSE y
           S(u, f) == FailedSave(u, f)
<1>1. mem[i] \in Instance /\ mem[i].nops < MaxOps
  BY DEF StoreType, Change
<1>2. Kept(mem[i], x) /\ x \in Instance
  <2>1. x \in Instance /\ SameProcess(mem[i], x) /\ x.lifecycle = mem[i].lifecycle
    BY <1>1, AddOpType
  <2> HIDE DEF x
  <2> QED
    BY <1>1, <2>1, KeptFields DEF SameProcess, Holds
<1>3. /\ Saved(i, y) \/ NotSaved(i, y, S(z, o)) \/ (Faulted(i, y, S(y, o)) /\ wedged' = TRUE)
  BY DEF Change
<1> HIDE DEF o, x
<1>4. Kept(mem[i], y) /\ y \in Instance
  BY <1>1, <1>2, EndingKeeps, KeptTransitive, KeptType
<1> HIDE DEF y
<1>5. Kept(mem[i], z) /\ z \in Instance
  BY <1>1, <1>4, EndingKeeps, KeptTransitive, KeptType
<1> HIDE DEF z
<1>6. /\ Kept(mem[i], S(z, o)) /\ S(z, o) \in Instance
      /\ Kept(mem[i], S(y, o)) /\ S(y, o) \in Instance
  BY <1>1, <1>4, <1>5, EndingKeeps, KeptTransitive, KeptType
<1> HIDE DEF S
<1> QED
  BY <1>3, <1>4, <1>6, SavedStep, NotSavedStep DEF QuietStep

(* A new record has no process.                                            *)
LEMMA CreateStep ==
  ASSUME StoreType, NEW i \in Instances, NEW k \in Keys, NEW p \in Ports, Create(i, k, p)
  PROVE  StoreType' /\ EmptyStep(i)
<1> DEFINE x == NewInstance(k, p)
<1>1. x \in Instance /\ Unused(x) /\ mem[i] \in Instance
  BY NewInstanceType DEF StoreType
<1>2. \/ StoreSaved(i, x)
      \/ /\ Rejected(i, x, mem[i]) \/ Faulted(i, x, mem[i])
         /\ wedged' = wedged
      \/ Faulted(i, x, x) /\ wedged' = TRUE
  BY DEF Create
<1> HIDE DEF x
<1>3. wedged \in BOOLEAN
  BY DEF StoreType
<1> QED
  BY <1>1, <1>2, <1>3, SavedStep, NotSavedStep DEF EmptyStep

(* A pruned record had no process left to account for.                     *)
LEMMA PruneStep ==
  ASSUME StoreType, NEW i \in Instances, Prune(i)
  PROVE  StoreType' /\ EmptyStep(i)
<1>1. Absent \in Instance /\ Unused(Absent) /\ mem[i] \in Instance
  BY AbsentType DEF StoreType
<1>2. \/ StoreSaved(i, Absent)
      \/ /\ Rejected(i, Absent, mem[i]) \/ Faulted(i, Absent, mem[i])
         /\ wedged' = TRUE
  BY DEF Prune
<1> QED
  BY <1>1, <1>2, SavedStep, NotSavedStep DEF EmptyStep

(* A new generation is prepared only when the last one is stopped.         *)
LEMMA PrepareRunStep ==
  ASSUME StoreType, NEW i \in Instances, NEW o \in OpIds, PrepareRun(i, o)
  PROVE  StoreType' /\ (QuietStep(i) \/ (EmptyStep(i) /\ MayPrepare(mem[i])))
<1> DEFINE x == [mem[i] EXCEPT !.gen = mem[i].gen + 1]
<1>1. mem[i] \in Instance
  BY DEF StoreType
<1>2. CASE Fails(i, o)
  BY <1>2, StillStep DEF Fails
<1>3. CASE MayPrepare(mem[i]) /\ mem[i].gen < MaxGen /\ StoreOrFail(i, o, x, x, "files")
  <2>1. mem[i].gen + 1 \in 0..MaxGen
    BY <1>1, <1>3, BoundsAssumption DEF Instance
  <2>2. x \in Instance /\ (Unused(mem[i]) => Unused(x))
    BY <1>1, <2>1, BoundsAssumption DEF Instance, Unused, Gens
  <2> HIDE DEF x
  <2> QED
    BY <1>3, <2>2, StoreOrFailStep DEF EmptyStep
<1> QED
  BY <1>2, <1>3 DEF PrepareRun

(* A launch that fails before its spawn releases a run without a           *)
(* process.                                                                *)
LEMMA ReleaseStep ==
  ASSUME StoreType, NEW i \in Instances, NEW o \in OpIds, MakeInput(i, o) \/ Exec(i, o)
  PROVE  StoreType' /\ (UNCHANGED <<mem, store>> \/ EmptyStep(i))
<1>1. Unspawned(mem[i]) \in Instance /\ (Unused(mem[i]) => Unused(Unspawned(mem[i])))
  BY UnspawnedKeeps DEF StoreType
<1>2. UNCHANGED <<mem, store>> \/ InMemory(i, Unspawned(mem[i]))
  BY DEF MakeInput, Exec
<1> QED
  BY <1>1, <1>2, StillStep, ReleaseMemory

(* The saved FIFO marks the run, or its failure releases it.               *)
LEMMA InputPreparedStep ==
  ASSUME StoreType, NEW i \in Instances, NEW o \in OpIds, InputPrepared(i, o)
  PROVE  StoreType' /\ (QuietStep(i) \/ EmptyStep(i))
<1> DEFINE x == [mem[i] EXCEPT !.runs[mem[i].gen].input = TRUE]
<1>1. Kept(mem[i], x) /\ mem[i] \in Instance
  BY RunMarks DEF StoreType
<1>2. Saved(i, x) \/ NotSaved(i, x, Unspawned(x))
  BY DEF InputPrepared
<1> HIDE DEF x
<1>3. x \in Instance
  BY <1>1, KeptType
<1>4. Unspawned(x) \in Instance /\ (Unused(x) => Unused(Unspawned(x)))
  BY <1>3, UnspawnedKeeps
<1>5. Unused(mem[i]) => Unused(x)
  BY <1>1, BoundsAssumption DEF Kept, KeepsRuns, Unused
<1> QED
  BY <1>1, <1>2, <1>3, <1>4, <1>5, SavedStep, NotSavedStep DEF QuietStep, EmptyStep

(* A rollback leaves the process unknown, or confirms that it is gone.     *)
LEMMA RollbackStep ==
  ASSUME StoreType, NEW i \in Instances, NEW o \in OpIds, Rollback(i, o)
  PROVE  /\ StoreType'
         /\ \/ QuietStep(i) /\ mem'[i].process = "unknown" /\ live' = live
            \/ EmptyStep(i) /\ live' = [live EXCEPT ![i] = @ \ {mem[i].gen}]
<1> DEFINE g == mem[i].gen
           r(d) == [mem[i].runs EXCEPT ![g].identity = d]
           x(d) == [mem[i] EXCEPT !.process = "unknown", !.runs = r(d)]
<1>1. mem[i] \in Instance
  BY DEF StoreType
<1>2. PICK d \in {"partial", "full"} :
        \/ live' = [live EXCEPT ![i] = @ \ {g}] /\ InMemory(i, Unspawned(x(d)))
        \/ InMemory(i, x(d)) /\ live' = live
  BY DEF Rollback
<1>3. /\ r(d) \in [Gens -> Run]
      /\ \A h \in Gens : /\ r(d)[h].stop = mem[i].runs[h].stop
                         /\ r(d)[h].spawnAttempted = mem[i].runs[h].spawnAttempted
                         /\ r(d)[h].input = mem[i].runs[h].input
  <2>1. mem[i].runs \in [Gens -> Run]
    BY <1>1 DEF Instance
  <2>2. r(d) = Identified(mem[i].runs, g, d)
    BY DEF Identified
  <2> HIDE DEF r
  <2> QED
    BY <2>1, <2>2, IdentityChange
<1> HIDE DEF r
<1>4. /\ x(d) \in Instance /\ x(d).gen = mem[i].gen /\ x(d).runs = r(d)
      /\ x(d).process = "unknown" /\ x(d).lifecycle = mem[i].lifecycle
  BY <1>1, <1>3 DEF Instance
<1> HIDE DEF x
<1>5. Kept(mem[i], x(d))
  BY <1>1, <1>3, <1>4 DEF Kept, KeepsRuns, Holds
<1>6. Unspawned(x(d)) \in Instance /\ (Unused(mem[i]) => Unused(Unspawned(x(d))))
  <2>1. Unused(mem[i]) => Unused(x(d))
    BY <1>3, <1>4 DEF Unused
  <2> QED
    BY <1>4, <2>1, UnspawnedKeeps
<1>7. CASE live' = [live EXCEPT ![i] = @ \ {g}] /\ InMemory(i, Unspawned(x(d)))
  BY <1>6, <1>7, ReleaseMemory
<1>8. CASE InMemory(i, x(d)) /\ live' = live
  <2>1. StoreType' /\ QuietStep(i)
    BY <1>5, <1>8, QuietMemory
  <2>2. mem'[i].process = "unknown"
    BY <1>4, <1>8 DEF InMemory, StoreType
  <2> QED
    BY <1>8, <2>1, <2>2
<1> QED
  BY <1>2, <1>7, <1>8

(* A reclaimed room, or one whose cleanup failed, has no process.          *)
LEMMA FinishStopStep ==
  ASSUME StoreType, NEW i \in Instances, NEW o \in OpIds, FinishStop(i, o)
  PROVE  StoreType' /\ EmptyStep(i)
<1> DEFINE x == Reclaimed(mem[i])
           y == EndOp(x, o, "succeeded")
           z == FailedSave(y, o)
<1>1. mem[i] \in Instance
  BY DEF StoreType
<1>2. x \in Instance /\ SameProcess(mem[i], x)
  BY <1>1 DEF Reclaimed, Instance, SameProcess
<1>3. Finishes(i, o, x, y)
  BY DEF FinishStop
<1> HIDE DEF x
<1>4. y \in Instance /\ SameProcess(x, y)
  BY <1>2, EndOpType
<1> HIDE DEF y
<1>5. z \in Instance /\ SameProcess(y, z)
  BY <1>4, FailedSaveType
<1>6. StoreType' /\ \E u \in {x, y, z} : RecordStep(i, u, y)
  BY <1>2, <1>3, <1>4, FinishesStep
<1> HIDE DEF z
<1>7. Unused(mem[i]) => Unused(x) /\ Unused(y) /\ Unused(z)
  BY <1>2, <1>4, <1>5 DEF Unused, SameProcess
<1> QED
  BY <1>2, <1>4, <1>5, <1>6, <1>7 DEF EmptyStep

----------------------------------------------------------------------------
(* What each action does to the operations of its room. *)

(* Other runs are another detail, and so are the marks set in a run.       *)
LEMMA RunsAlike ==
  ASSUME NEW x \in Instance, NEW r, [x EXCEPT !.runs = r] \in Instance
  PROVE  Alike(x, [x EXCEPT !.runs = r])
<1> DEFINE y == [x EXCEPT !.runs = r]
<1>1. /\ y.lifecycle = x.lifecycle /\ y.nops = x.nops /\ y.key = x.key /\ y.ops = x.ops
      /\ y.port = x.port /\ y.gen = x.gen
  BY DEF Instance
<1> QED
  BY <1>1, AlikeFields DEF Exists, Holds

(* The marks that launch and cleanup set in a run leave the room alike.    *)
LEMMA MarksAlike ==
  ASSUME NEW x \in Instance, NEW g
  PROVE  /\ Alike(x, [x EXCEPT !.runs[g].cfgCreated = TRUE])
         /\ Alike(x, [x EXCEPT !.runs[g].prepared = TRUE])
         /\ Alike(x, [x EXCEPT !.runs[g].spawnAttempted = TRUE])
         /\ Alike(x, [x EXCEPT !.runs[g].input = TRUE])
         /\ Alike(x, [x EXCEPT !.runs[g].inputRemoved = TRUE])
         /\ Alike(x, [x EXCEPT !.runs[g].cfgRemoved = TRUE])
<1>1. ASSUME NEW r, Kept(x, [x EXCEPT !.runs = r]) PROVE Alike(x, [x EXCEPT !.runs = r])
  BY <1>1, RunsAlike DEF Kept
<1>2. Alike(x, [x EXCEPT !.runs[g].cfgCreated = TRUE])
  BY <1>1, RunMarks
<1>3. Alike(x, [x EXCEPT !.runs[g].prepared = TRUE])
  BY <1>1, RunMarks
<1>4. Alike(x, [x EXCEPT !.runs[g].spawnAttempted = TRUE])
  BY <1>1, RunMarks
<1>5. Alike(x, [x EXCEPT !.runs[g].input = TRUE])
  BY <1>1, RunMarks
<1>6. Alike(x, [x EXCEPT !.runs[g].inputRemoved = TRUE])
  BY <1>1, RunMarks
<1>7. Alike(x, [x EXCEPT !.runs[g].cfgRemoved = TRUE])
  BY <1>1, RunMarks
<1> QED
  BY <1>2, <1>3, <1>4, <1>5, <1>6, <1>7

(* A launch without a process, an observation, and the result of a stop.   *)
LEMMA OutcomesAlike ==
  ASSUME NEW x \in Instance
  PROVE  /\ Alike(x, Unspawned(x))
         /\ \A v \in Verdicts : Alike(x, Observed(x, v))
         /\ \A c \in BOOLEAN : Alike(x, StopResult(x, c))
<1>1. Alike(x, Unspawned(x))
  <2> DEFINE y == Unspawned(x)
  <2>1. /\ y.nops = x.nops /\ y.lifecycle = x.lifecycle /\ y.key = x.key /\ y.ops = x.ops
        /\ y.port = x.port /\ y.gen = x.gen
    BY DEF Unspawned, Instance
  <2> QED
    BY <2>1, UnspawnedKeeps, AlikeFields DEF Exists, Holds
<1>2. ASSUME NEW v \in Verdicts PROVE Alike(x, Observed(x, v))
  <2> DEFINE y == Observed(x, v)
  <2>1. /\ y.nops = x.nops /\ y.key = x.key /\ y.ops = x.ops
        /\ y.port = x.port /\ y.gen = x.gen
    BY DEF Observed, Verdicts, Instance
  <2> QED
    BY <2>1, ObservedType, AlikeFields DEF Exists, Holds
<1>3. ASSUME NEW c \in BOOLEAN PROVE Alike(x, StopResult(x, c))
  <2> DEFINE y == StopResult(x, c)
  <2>1. /\ y.nops = x.nops /\ y.lifecycle = x.lifecycle /\ y.key = x.key /\ y.ops = x.ops
        /\ y.port = x.port /\ y.gen = x.gen
    BY DEF StopResult, Instance
  <2> QED
    BY <2>1, StopResultKeeps, AlikeFields DEF Exists, Holds
<1> QED
  BY <1>1, <1>2, <1>3

(* What a step of worker o leaves in y: nothing but its own operation      *)
(* ended, only a stop whose cleanup is complete gives the room up, and     *)
(* only PrepareRun makes a generation.                                     *)
Result(i, o, y) ==
    /\ Lasts(mem[i], y)
    /\ \A q \in OpIds : \/ y.ops[q].status = mem[i].ops[q].status
                        \/ q = o /\ ~Running(y, o)
    /\ Holds(mem[i]) =>
         \/ Holds(y)
         \/ ~Running(y, o) /\ pc[i][o] = "cleanup" /\ mem[i].ops[o].kind = "stop"
    /\ \/ y.gen = mem[i].gen
       \/ pc[i][o] = "prepare" /\ MayPrepare(mem[i]) /\ y.gen = mem[i].gen + 1

SameOps(x, y) ==
    /\ Holds(x) => Holds(y)
    /\ \A q \in OpIds : y.ops[q].status = x.ops[q].status

(* What a step of worker o may leave unsaved, in memory z, or saved with   *)
(* another x than it keeps: details; a generation whose save failed, until *)
(* the failure is finished; a stop that had ended before.                  *)
Unsaved(i, o, z, x) ==
    \/ /\ \A y \in {z, x} : y.gen = mem[i].gen /\ (Holds(mem[i]) => Holds(y))
       /\ pc'[i][o] = "exit" => Quits(i, o) \/ ~Running(mem[i], o)
    \/ pc[i][o] = "prepare" /\ pc'[i][o] = "abort" /\ MayPrepare(mem[i]) /\ z = x
    \/ pc[i][o] = "cleanup" /\ mem[i].ops[o].kind = "stop" /\ ~Running(mem[i], o)

(* The operation of a worker has ended when the worker is about to return, *)
(* unless it was told to quit, and not before.                             *)
WorkerEffect(i, o) ==
    /\ wedged => wedged'
    /\ \E z, x :
         /\ RecordStep(i, z, x) /\ Result(i, o, z) /\ Result(i, o, x)
         /\ IF pc'[i][o] = "exit" THEN Quits(i, o) \/ ~Running(z, o)
                                  ELSE SameOps(mem[i], z)
         /\ wedged' \/ disk' = mem' \/ Unsaved(i, o, z, x)

(* A change alike, or the end of its operation, is a result of a worker.   *)
LEMMA AlikeResult ==
  ASSUME NEW i \in Instances, NEW o \in OpIds, NEW y, Alike(mem[i], y) \/ Ends(mem[i], y, o)
  PROVE  Result(i, o, y)
<1>1. ASSUME Alike(mem[i], y) PROVE Result(i, o, y)
  <2>1. /\ Lasts(mem[i], y) /\ (Holds(mem[i]) => Holds(y)) /\ y.gen = mem[i].gen
        /\ \A q \in OpIds : y.ops[q].status = mem[i].ops[q].status
    BY <1>1 DEF Alike
  <2> QED
    BY <2>1 DEF Result
<1>2. ASSUME Ends(mem[i], y, o) PROVE Result(i, o, y)
  <2>1. /\ Lasts(mem[i], y) /\ (Holds(mem[i]) => Holds(y)) /\ ~Running(y, o)
        /\ y.gen = mem[i].gen
        /\ \A q \in OpIds : q # o => y.ops[q].status = mem[i].ops[q].status
    BY <1>2 DEF Ends, EndedAlone
  <2> QED
    BY <2>1 DEF Result
<1> QED
  BY <1>1, <1>2

(* Nothing changed.                                                        *)
LEMMA StillEffect ==
  ASSUME StoreType, NEW i \in Instances, NEW o \in OpIds, UNCHANGED <<mem, store>>,
         pc'[i][o] = "exit" => Quits(i, o)
  PROVE  WorkerEffect(i, o)
<1>1. /\ mem[i] \in Instance /\ mem' = [mem EXCEPT ![i] = mem[i]]
      /\ disk' = disk /\ wedged' = wedged
  BY DEF StoreType, store
<1>2. Alike(mem[i], mem[i])
  BY <1>1, AlikeSelf
<1>3. SameOps(mem[i], mem[i]) /\ Unsaved(i, o, mem[i], mem[i])
  BY DEF SameOps, Unsaved
<1>4. Result(i, o, mem[i])
  BY <1>2, AlikeResult
<1>5. RecordStep(i, mem[i], mem[i])
  BY <1>1 DEF RecordStep
<1> QED
  BY <1>1, <1>3, <1>4, <1>5 DEF WorkerEffect

(* What the ways of saving leave in memory and write to the file.          *)
LEMMA SavesRecord ==
  ASSUME NEW i \in Instances, NEW x, NEW y,
         \/ InMemory(i, x) \/ Saved(i, x) \/ StoreSaved(i, x)
         \/ NotSaved(i, x, y) \/ StoreNotSaved(i, x, y)
  PROVE  /\ wedged => wedged'
         /\ \/ RecordStep(i, x, x)
            \/ RecordStep(i, y, x) /\ (NotSaved(i, x, y) \/ StoreNotSaved(i, x, y))
<1>1. CASE InMemory(i, x)
  BY <1>1 DEF InMemory, store, RecordStep
<1>2. CASE Saved(i, x) \/ StoreSaved(i, x)
  BY <1>2 DEF Saved, StoreSaved, Published, RecordStep
<1>3. CASE NotSaved(i, x, y)
  BY <1>3 DEF NotSaved, Rejected, Faulted, RecordStep
<1>4. CASE StoreNotSaved(i, x, y)
  BY <1>4 DEF StoreNotSaved, Rejected, Faulted, RecordStep
<1> QED
  BY <1>1, <1>2, <1>3, <1>4

(* Saves of records alike, by a worker that goes on.                       *)
LEMMA SavesEffect ==
  ASSUME NEW i \in Instances, NEW o \in OpIds, NEW x, NEW y,
         Alike(mem[i], x), Alike(mem[i], y), pc'[i][o] # "exit",
         \/ InMemory(i, x) \/ Saved(i, x) \/ StoreSaved(i, x)
         \/ NotSaved(i, x, y) \/ StoreNotSaved(i, x, y)
  PROVE  WorkerEffect(i, o)
<1>1. \A w \in {x, y} : Result(i, o, w) /\ SameOps(mem[i], w)
  BY AlikeResult DEF Alike, SameOps
<1>2. \A w \in {x, y} : Unsaved(i, o, w, x)
  BY DEF Alike, Unsaved
<1>3. (wedged => wedged') /\ \E w \in {x, y} : RecordStep(i, w, x)
  BY SavesRecord
<1> QED
  BY <1>1, <1>2, <1>3 DEF WorkerEffect

(* A save of launch or stop: it goes on, or its operation has failed.      *)
LEMMA SaveOrFailEffect ==
  ASSUME WorkersType, NEW i \in Instances, NEW o \in OpIds, NEW x, NEW next,
         Alike(mem[i], x), next # "exit", SaveOrFail(i, o, x, next)
  PROVE  WorkerEffect(i, o)
<1>1. CASE Saved(i, x) /\ Goto(i, o, next)
  <2>1. pc'[i][o] # "exit"
    BY <1>1 DEF Goto, WorkersType
  <2> QED
    BY <1>1, <2>1, SavesEffect
<1>2. CASE NotSaved(i, x, FailedSave(x, o)) /\ Goto(i, o, "exit")
  <2>1. Ends(mem[i], FailedSave(x, o), o)
    <3>1. Ends(x, FailedSave(x, o), o)
      BY AlikeIsInstance, FailureEnds
    <3> QED
      BY <3>1, AlikeTransitive
  <2>2. ~Running(FailedSave(x, o), o)
    BY <2>1 DEF Ends, EndedAlone
  <2>3. pc'[i][o] = "exit"
    BY <1>2 DEF Goto, WorkersType
  <2>4. Result(i, o, x) /\ Result(i, o, FailedSave(x, o))
    BY <2>1, AlikeResult
  <2>5. wedged' /\ \E z \in {x, FailedSave(x, o)} : RecordStep(i, z, x) /\ ~Running(z, o)
    BY <1>2, <2>2 DEF NotSaved, Rejected, Faulted, RecordStep
  <2> QED
    BY <2>3, <2>4, <2>5 DEF WorkerEffect
<1> QED
  BY <1>1, <1>2 DEF SaveOrFail

(* An operation of the store itself.                                       *)
LEMMA StoreOrFailEffect ==
  ASSUME WorkersType, NEW i \in Instances, NEW o \in OpIds, NEW x, NEW y, NEW next,
         Alike(mem[i], x), Alike(mem[i], y), next # "exit", StoreOrFail(i, o, x, y, next)
  PROVE  WorkerEffect(i, o)
<1>1. pc'[i][o] \in {next, "abort"}
  BY DEF StoreOrFail, Goto, WorkersType
<1> QED
  BY <1>1, SavesEffect DEF StoreOrFail

(* finish, of a record x that is a result already, with the operation      *)
(* ended in y.                                                             *)
LEMMA FinishesEffect ==
  ASSUME NEW i \in Instances, NEW o \in OpIds, NEW x, NEW y, pc'[i][o] = "exit",
         Running(x, o) \/ (Result(i, o, x) /\ Unsaved(i, o, x, x)), y \in Instance, Result(i, o, y), ~Running(y, o),
         Result(i, o, FailedSave(y, o)), Finishes(i, o, x, y)
  PROVE  WorkerEffect(i, o)
<1>1. ~Running(FailedSave(y, o), o)
  BY FailureEnds DEF Ends, EndedAlone
<1>2. CASE ~Running(x, o) /\ InMemory(i, x)
  BY <1>2, SavesRecord DEF WorkerEffect
<1>3. CASE Saved(i, y)
  <2>1. disk' = mem'
    BY <1>3 DEF Saved, StoreSaved, Published
  <2> QED
    BY <1>3, <2>1, SavesRecord DEF WorkerEffect
<1>4. CASE NotSaved(i, y, FailedSave(y, o))
  <2>1. wedged'
    BY <1>4 DEF NotSaved
  <2>2. \E w \in {y, FailedSave(y, o)} : RecordStep(i, w, y)
    BY <1>4, SavesRecord
  <2> QED
    BY <1>1, <2>1, <2>2 DEF WorkerEffect
<1> QED
  BY <1>2, <1>3, <1>4 DEF Finishes

(* Launch, until the spawn.                                                *)
LEMMA LaunchEffect ==
  ASSUME StoreType, WorkersType, NEW i \in Instances, NEW o \in OpIds,
         \/ Launch(i, o) \/ PrepareRun(i, o) \/ PrepareFiles(i, o) \/ RunPrepared(i, o)
         \/ IntendSpawn(i, o)
  PROVE  WorkerEffect(i, o)
<1> DEFINE g == mem[i].gen
           n == [mem[i] EXCEPT !.gen = g + 1]
           c == [mem[i] EXCEPT !.runs[g].cfgCreated = TRUE]
           p == [c EXCEPT !.runs[g].prepared = TRUE]
           a == [mem[i] EXCEPT !.ops[o].gen = g]
           b == AtPhase(a, o, "spawning")
           s == [b EXCEPT !.runs[g].spawnAttempted = TRUE]
           l == AtPhase(mem[i], o, "preparing")
<1>1. mem[i] \in Instance
  BY DEF StoreType
<1>2. Alike(mem[i], l) /\ Alike(mem[i], c)
  BY <1>1, AtPhaseAlike, MarksAlike
<1>3. ASSUME g < MaxGen, pc[i][o] = "prepare", MayPrepare(mem[i]), StoreOrFail(i, o, n, n, "files")
      PROVE  WorkerEffect(i, o)
  <2>1. n \in Instance
    <3>1. g + 1 \in 0..MaxGen
      BY <1>1, <1>3, BoundsAssumption DEF Instance
    <3> QED
      BY <1>1, <3>1 DEF Instance
  <2>2. /\ n.lifecycle = mem[i].lifecycle /\ n.nops = mem[i].nops
        /\ n.key = mem[i].key /\ n.port = mem[i].port /\ n.ops = mem[i].ops
        /\ n.gen = mem[i].gen + 1
    BY <1>1 DEF Instance
  <2> HIDE DEF n
  <2>3. Result(i, o, n) /\ SameOps(mem[i], n)
    BY <1>3, <2>1, <2>2 DEF Result, SameOps, Lasts, Exists, Holds
  <2>4. pc'[i][o] \in {"files", "abort"} /\ (disk' = mem' \/ pc'[i][o] = "abort")
    BY <1>3 DEF StoreOrFail, StoreSaved, Published, Goto, WorkersType
  <2>5. (wedged => wedged') /\ RecordStep(i, n, n)
    BY <1>3, SavesRecord DEF StoreOrFail
  <2>6. disk' = mem' \/ Unsaved(i, o, n, n)
    BY <1>3, <2>4 DEF Unsaved
  <2> QED
    BY <2>3, <2>4, <2>5, <2>6 DEF WorkerEffect
<1>4. Alike(mem[i], p)
  <2>1. c \in Instance
    BY <1>2, AlikeIsInstance
  <2> HIDE DEF c
  <2>2. Alike(c, p)
    BY <2>1, MarksAlike
  <2> QED
    BY <1>2, <2>2, AlikeTransitive
<1>5. Alike(mem[i], a)
  <2> DEFINE w == [mem[i].ops[o] EXCEPT !.gen = g]
  <2>1. w \in Operation /\ w.kind = mem[i].ops[o].kind /\ w.status = mem[i].ops[o].status
    BY <1>1 DEF Instance, Operation
  <2>2. a.ops = [mem[i].ops EXCEPT ![o] = w]
    BY <1>1 DEF Instance
  <2>3. /\ a.lifecycle = mem[i].lifecycle /\ a.nops = mem[i].nops /\ a.key = mem[i].key
        /\ a.port = mem[i].port /\ a.gen = mem[i].gen
        /\ a = [mem[i] EXCEPT !.ops = a.ops]
    BY <1>1 DEF Instance
  <2> HIDE DEF w, a
  <2>4. /\ mem[i].ops \in [OpIds -> Operation] /\ a.ops \in [OpIds -> Operation]
        /\ \A q \in OpIds : a.ops[q] = IF q = o THEN w ELSE mem[i].ops[q]
    BY <1>1, <2>1, <2>2 DEF Instance
  <2>5. a \in Instance
    BY <1>1, <2>3, <2>4 DEF Instance
  <2> QED
    BY <2>1, <2>3, <2>4, <2>5 DEF Alike, Lasts, Exists, Holds
<1>6. Alike(mem[i], s)
  <2>1. a \in Instance
    BY <1>5, AlikeIsInstance
  <2> HIDE DEF a
  <2>2. Alike(a, b)
    BY <2>1, AtPhaseAlike
  <2>3. b \in Instance
    BY <2>2, AlikeIsInstance
  <2> HIDE DEF b
  <2>4. Alike(b, s)
    BY <2>3, MarksAlike
  <2> QED
    BY <1>5, <2>2, <2>4, AlikeTransitive
<1>7. \/ SaveOrFail(i, o, l, "prepare")
      \/ /\ g < MaxGen /\ pc[i][o] = "prepare" /\ MayPrepare(mem[i])
         /\ StoreOrFail(i, o, n, n, "files")
      \/ StoreOrFail(i, o, p, p, "spawn")
      \/ SaveOrFail(i, o, s, "fifo")
      \/ /\ UNCHANGED <<mem, store>> \/ StoreSaved(i, c) \/ StoreNotSaved(i, c, c) \/ InMemory(i, a)
         /\ Goto(i, o, "abort") \/ Goto(i, o, "cfg")
  <2>1. CASE Launch(i, o) \/ PrepareRun(i, o)
    BY <2>1 DEF Launch, PrepareRun, Fails
  <2>2. CASE PrepareFiles(i, o)
    BY <2>2 DEF PrepareFiles, Fails
  <2>3. CASE RunPrepared(i, o) \/ IntendSpawn(i, o)
    BY <2>3 DEF RunPrepared, IntendSpawn, Fails
  <2> QED
    BY <2>1, <2>2, <2>3
<1> HIDE DEF g, n, c, p, a, b, s, l
<1>8. ASSUME UNCHANGED <<mem, store>> \/ StoreSaved(i, c) \/ StoreNotSaved(i, c, c) \/ InMemory(i, a),
             Goto(i, o, "abort") \/ Goto(i, o, "cfg")
      PROVE  WorkerEffect(i, o)
  <2>1. pc'[i][o] # "exit"
    BY <1>8 DEF Goto, WorkersType
  <2> QED
    BY <1>2, <1>5, <1>8, <2>1, StillEffect, SavesEffect
<1> QED
  BY <1>2, <1>3, <1>4, <1>6, <1>7, <1>8, SaveOrFailEffect, StoreOrFailEffect

(* The spawn and its rollback.                                             *)
LEMMA SpawnEffect ==
  ASSUME StoreType, WorkersType, NEW i \in Instances, NEW o \in OpIds,
         \/ MakeInput(i, o) \/ InputPrepared(i, o) \/ Exec(i, o)
         \/ Spawned(i, o) \/ Rollback(i, o)
  PROVE  WorkerEffect(i, o)
<1> DEFINE g == mem[i].gen
           u == Unspawned(mem[i])
           f == [mem[i] EXCEPT !.runs[g].input = TRUE]
           w == Unspawned(f)
           r(d) == [mem[i].runs EXCEPT ![g].identity = d]
           x(d) == [mem[i] EXCEPT !.process = "unknown", !.runs = r(d)]
           v(d) == Unspawned(x(d))
           y == [mem[i] EXCEPT !.process = "running", !.room = "loading", !.err = FALSE,
                               !.runs = r("full")]
           z == AtPhase(y, o, "observing")
<1>1. mem[i] \in Instance
  BY DEF StoreType
<1>2. Alike(mem[i], u) /\ Alike(mem[i], f)
  BY <1>1, OutcomesAlike, MarksAlike
<1>3. Alike(mem[i], w)
  <2>1. f \in Instance
    BY <1>2, AlikeIsInstance
  <2> HIDE DEF f
  <2>2. Alike(f, w)
    BY <2>1, OutcomesAlike
  <2> QED
    BY <1>2, <2>2, AlikeTransitive
<1>4. \A d \in {"partial", "full"} : r(d) \in [Gens -> Run]
  <2>1. TAKE d \in {"partial", "full"}
  <2>2. mem[i].runs \in [Gens -> Run]
    BY <1>1 DEF Instance
  <2>3. r(d) = Identified(mem[i].runs, g, d)
    BY DEF Identified
  <2> HIDE DEF r
  <2> QED
    BY <2>2, <2>3, IdentityChange
<1> HIDE DEF r
<1>5. \A d \in {"partial", "full"} : Alike(mem[i], x(d)) /\ Alike(mem[i], v(d))
  <2>1. TAKE d \in {"partial", "full"}
  <2>2. x(d) \in Instance
    BY <1>1, <1>4 DEF Instance
  <2>3. /\ x(d).lifecycle = mem[i].lifecycle /\ x(d).nops = mem[i].nops
        /\ x(d).key = mem[i].key /\ x(d).ops = mem[i].ops
        /\ x(d).port = mem[i].port /\ x(d).gen = mem[i].gen
    BY <1>1 DEF Instance
  <2> HIDE DEF x
  <2>4. Alike(mem[i], x(d))
    BY <1>1, <2>2, <2>3, AlikeFields DEF Exists, Holds
  <2>5. Alike(x(d), v(d))
    BY <2>2, OutcomesAlike
  <2> QED
    BY <2>4, <2>5, AlikeTransitive
<1>6. Alike(mem[i], z)
  <2>1. y \in Instance
    BY <1>1, <1>4 DEF Instance
  <2>2. /\ y.lifecycle = mem[i].lifecycle /\ y.nops = mem[i].nops
        /\ y.key = mem[i].key /\ y.ops = mem[i].ops
        /\ y.port = mem[i].port /\ y.gen = mem[i].gen
    BY <1>1 DEF Instance
  <2> HIDE DEF y
  <2>3. Alike(mem[i], y)
    BY <1>1, <2>1, <2>2, AlikeFields DEF Exists, Holds
  <2>4. Alike(y, z)
    BY <2>1, AtPhaseAlike
  <2> QED
    BY <2>3, <2>4, AlikeTransitive
<1>7. \/ /\ \/ UNCHANGED <<mem, store>>
            \/ InMemory(i, u)
            \/ Saved(i, f) \/ NotSaved(i, f, w)
            \/ \E d \in {"partial", "full"} : InMemory(i, x(d)) \/ InMemory(i, v(d))
         /\ \E next \in {"input", "abort", "exec", "spawned"} : Goto(i, o, next)
      \/ SaveOrFail(i, o, z, "observe")
  <2>1. CASE MakeInput(i, o)
    BY <2>1 DEF MakeInput
  <2>2. CASE InputPrepared(i, o)
    BY <2>2 DEF InputPrepared
  <2>3. CASE Exec(i, o)
    BY <2>3 DEF Exec
  <2>4. CASE Spawned(i, o)
    BY <2>4 DEF Spawned, r
  <2>5. CASE Rollback(i, o)
    BY <2>5 DEF Rollback, r
  <2> QED
    BY <2>1, <2>2, <2>3, <2>4, <2>5
<1> HIDE DEF g, u, f, w, x, v, y, z
<1>8. ASSUME NEW next \in {"input", "abort", "exec", "spawned"}, Goto(i, o, next)
      PROVE  pc'[i][o] # "exit"
  BY <1>8 DEF Goto, WorkersType
<1> QED
  BY <1>2, <1>3, <1>5, <1>6, <1>7, <1>8, StillEffect, SavesEffect, SaveOrFailEffect

(* The stop of a process, the cleanup and the way back to launch.          *)
LEMMA StopEffect ==
  ASSUME StoreType, WorkersType, NEW i \in Instances, NEW o \in OpIds,
         \/ BeginStop(i, o) \/ BeginCleanup(i, o)
         \/ CleanInput(i, o) \/ CleanupRun(i, o) \/ Relaunch(i, o)
  PROVE  WorkerEffect(i, o)
<1> DEFINE p == AtPhase(mem[i], o, "stopping")
           q == AtPhase(mem[i], o, "cleanup")
           f == [mem[i] EXCEPT !.cleanup = "failed"]
           l == [mem[i] EXCEPT !.lifecycle = "active", !.cleanup = "pending", !.err = FALSE]
           x(g) == [mem[i] EXCEPT !.runs[g].inputRemoved = TRUE]
           y(g) == [mem[i] EXCEPT !.runs[g].cfgRemoved = TRUE]
           z(g) == [y(g) EXCEPT !.cleanup = "failed"]
<1>1. mem[i] \in Instance
  BY DEF StoreType
<1>2. Alike(mem[i], p) /\ Alike(mem[i], q)
  BY <1>1, AtPhaseAlike
<1>3. Alike(mem[i], f) /\ Alike(mem[i], l)
  <2>1. f \in Instance /\ l \in Instance
    BY <1>1 DEF Instance
  <2>2. /\ f.lifecycle = mem[i].lifecycle /\ f.nops = mem[i].nops
        /\ f.key = mem[i].key /\ f.ops = mem[i].ops
        /\ f.port = mem[i].port /\ f.gen = mem[i].gen
        /\ l.lifecycle = "active" /\ l.nops = mem[i].nops
        /\ l.key = mem[i].key /\ l.ops = mem[i].ops
        /\ l.port = mem[i].port /\ l.gen = mem[i].gen
    BY <1>1 DEF Instance
  <2> QED
    BY <1>1, <2>1, <2>2, AlikeFields DEF Exists, Holds
<1>4. \A g \in Gens : Alike(mem[i], x(g)) /\ Alike(mem[i], y(g)) /\ Alike(mem[i], z(g))
  <2>1. TAKE g \in Gens
  <2>2. Alike(mem[i], x(g)) /\ Alike(mem[i], y(g))
    BY <1>1, MarksAlike
  <2>3. y(g) \in Instance
    BY <2>2, AlikeIsInstance
  <2> HIDE DEF x, y
  <2>4. Alike(y(g), z(g))
    <3>1. /\ z(g) \in Instance /\ z(g).lifecycle = y(g).lifecycle /\ z(g).nops = y(g).nops
          /\ z(g).key = y(g).key /\ z(g).ops = y(g).ops
          /\ z(g).port = y(g).port /\ z(g).gen = y(g).gen
      BY <2>3 DEF Instance
    <3> QED
      BY <2>3, <3>1, AlikeFields DEF Exists, Holds
  <2> QED
    BY <2>2, <2>4, AlikeTransitive
<1>5. \/ SaveOrFail(i, o, p, "stopping") \/ SaveOrFail(i, o, q, "cleanup")
      \/ \E g \in Gens : SaveOrFail(i, o, x(g), "cleanup")
      \/ Quits(i, o) /\ UNCHANGED <<mem, store>>
      \/ /\ UNCHANGED <<mem, store>> \/ InMemory(i, f) \/ InMemory(i, l)
         /\ \E next \in {"abort", "stopped", "start"} : Goto(i, o, next)
      \/ \E g \in Gens : /\ StoreSaved(i, y(g)) \/ StoreNotSaved(i, y(g), z(g))
                         /\ Goto(i, o, "abort") \/ (pc' = pc /\ pc[i][o] = "cleanup")
      \/ UNCHANGED <<mem, store, pc>> /\ pc[i][o] = "cleanup"
  <2>1. CASE BeginStop(i, o)
    BY <2>1 DEF BeginStop, Fails
  <2>2. CASE BeginCleanup(i, o)
    BY <2>2 DEF BeginCleanup
  <2>3. CASE CleanInput(i, o)
    BY <2>3 DEF CleanInput, CleanupFails
  <2>4. CASE CleanupRun(i, o)
    BY <2>4 DEF CleanupRun, CleanupFails
  <2>5. CASE Relaunch(i, o)
    BY <2>5 DEF Relaunch
  <2> QED
    BY <2>1, <2>2, <2>3, <2>4, <2>5
<1> HIDE DEF p, q, f, l, x, y, z
<1>6. ASSUME NEW next \in {"abort", "stopped", "start"}, Goto(i, o, next)
      PROVE  pc'[i][o] # "exit"
  BY <1>6 DEF Goto, WorkersType
<1>7. pc' = pc /\ pc[i][o] = "cleanup" => pc'[i][o] # "exit"
  OBVIOUS
<1> QED
  BY <1>2, <1>3, <1>4, <1>5, <1>6, <1>7, StillEffect, SavesEffect, SaveOrFailEffect

(* The end of a stop, which gives the room up, and a failure.              *)
LEMMA FinishEffect ==
  ASSUME StoreType, WorkersType, NEW i \in Instances, NEW o \in OpIds,
         FinishStop(i, o) \/ Abort(i, o)
  PROVE  WorkerEffect(i, o)
<1>1. mem[i] \in Instance
  BY DEF StoreType
<1>2. pc'[i][o] = "exit"
  BY DEF FinishStop, Abort, Goto, WorkersType
<1>3. CASE Abort(i, o)
  <2> DEFINE y == FinishFailed(mem[i], o)
             s == FailedSave(y, o)
  <2>1. Ends(mem[i], y, o)
    BY <1>1, FailureEnds
  <2>2. y \in Instance /\ ~Running(y, o)
    BY <2>1 DEF Ends, EndedAlone, Lasts
  <2>3. Finishes(i, o, mem[i], y)
    BY <1>3 DEF Abort
  <2> HIDE DEF y
  <2>4. Ends(mem[i], s, o)
    BY <2>1, <2>2, FailureEnds, EndsTransitive
  <2>5. Result(i, o, y) /\ Result(i, o, s) /\ Result(i, o, mem[i])
    BY <1>1, <2>1, <2>4, AlikeSelf, AlikeResult
  <2>6. Running(mem[i], o) \/ Unsaved(i, o, mem[i], mem[i])
    BY DEF Unsaved
  <2> QED
    BY <1>2, <2>2, <2>3, <2>5, <2>6, FinishesEffect
<1>4. CASE FinishStop(i, o)
  <2> DEFINE x == Reclaimed(mem[i])
             y == EndOp(x, o, "succeeded")
             s == FailedSave(y, o)
  <2>1. x \in Instance /\ Lasts(mem[i], x) /\ x.ops = mem[i].ops /\ x.gen = mem[i].gen
    <3>1. /\ x \in Instance /\ x.lifecycle = "reclaimed" /\ x.nops = mem[i].nops
          /\ x.key = mem[i].key /\ x.ops = mem[i].ops
          /\ x.port = mem[i].port /\ x.gen = mem[i].gen
      BY <1>1 DEF Reclaimed, Instance
    <3> QED
      BY <3>1 DEF Lasts, Exists
  <2>2. /\ pc[i][o] = "cleanup" /\ mem[i].ops[o].kind = "stop"
        /\ Finishes(i, o, x, y)
    BY <1>4 DEF FinishStop
  <2> HIDE DEF x
  <2>3. Ends(x, y, o)
    BY <2>1, EndOpEnds
  <2>4. y \in Instance
    BY <2>3 DEF Ends, Lasts
  <2> HIDE DEF y
  <2>5. Ends(x, s, o)
    BY <2>3, <2>4, FailureEnds, EndsTransitive
  <2> HIDE DEF s
  <2>6. \A w \in {y, s} : /\ Lasts(mem[i], w) /\ ~Running(w, o) /\ w.gen = mem[i].gen
                          /\ \A r \in OpIds : r # o => w.ops[r].status = mem[i].ops[r].status
    BY <2>1, <2>3, <2>5 DEF Ends, EndedAlone, Lasts
  <2>7. Result(i, o, y) /\ Result(i, o, s)
    BY <2>2, <2>6 DEF Result
  <2>8. Running(x, o) \/ (Result(i, o, x) /\ Unsaved(i, o, x, x))
    BY <2>1, <2>2 DEF Result, Unsaved, Running
  <2> QED
    BY <1>2, <2>2, <2>4, <2>6, <2>7, <2>8, FinishesEffect DEF s
<1> QED
  BY <1>3, <1>4

(* Observations and the results of a stop.                                 *)
LEMMA ObserveEffect ==
  ASSUME StoreType, WorkersType, NEW i \in Instances, NEW o \in OpIds, NEW v \in Verdicts,
         NEW c \in BOOLEAN, Tick(i, o, v, c) \/ TimedOut(i, o, c) \/ Stopped(i, o, c)
  PROVE  WorkerEffect(i, o)
<1> DEFINE x == Observed(mem[i], v)
           e == EndOp(x, o, "succeeded")
           r == StopResult(mem[i], c)
           s == [r EXCEPT !.room = "unknown"]
<1>1. mem[i] \in Instance
  BY DEF StoreType
<1>2. Alike(mem[i], x) /\ Alike(mem[i], r)
  BY <1>1, OutcomesAlike
<1>3. x \in Instance /\ r \in Instance
  BY <1>2, AlikeIsInstance
<1>4. \/ /\ InMemory(i, x) \/ InMemory(i, r)
         /\ (pc' = pc /\ pc[i][o] = "observe") \/ \E next \in {"abort", "killing"} : Goto(i, o, next)
      \/ Finishes(i, o, x, e) /\ Goto(i, o, "exit")
      \/ SaveOrFail(i, o, s, "stopped")
  <2>1. CASE Tick(i, o, v, c)
    BY <2>1 DEF Tick
  <2>2. CASE TimedOut(i, o, c) \/ Stopped(i, o, c)
    BY <2>2 DEF TimedOut, Stopped
  <2> QED
    BY <2>1, <2>2
<1> HIDE DEF x, r
<1>5. Alike(mem[i], s)
  <2>1. /\ s \in Instance /\ s.lifecycle = r.lifecycle /\ s.nops = r.nops
        /\ s.key = r.key /\ s.port = r.port /\ s.gen = r.gen /\ s.ops = r.ops
    BY <1>3 DEF Instance
  <2>2. Alike(r, s)
    BY <1>3, <2>1, AlikeFields DEF Exists, Holds
  <2> QED
    BY <1>2, <2>2, AlikeTransitive
<1>6. Ends(x, e, o)
  BY <1>3, EndOpEnds
<1>7. e \in Instance /\ ~Running(e, o)
  BY <1>6 DEF Ends, EndedAlone, Lasts
<1> HIDE DEF e, s
<1>8. Ends(mem[i], e, o) /\ Ends(mem[i], FailedSave(e, o), o)
  BY <1>2, <1>6, <1>7, FailureEnds, EndsTransitive, AlikeTransitive
<1>9. CASE /\ InMemory(i, x) \/ InMemory(i, r)
           /\ (pc' = pc /\ pc[i][o] = "observe") \/ \E next \in {"abort", "killing"} : Goto(i, o, next)
  <2>1. pc'[i][o] # "exit"
    BY <1>9 DEF Goto, WorkersType
  <2> QED
    BY <1>2, <1>9, <2>1, SavesEffect
<1>10. CASE Finishes(i, o, x, e) /\ Goto(i, o, "exit")
  <2>1. pc'[i][o] = "exit"
    BY <1>10 DEF Goto, WorkersType
  <2>2. Result(i, o, x) /\ Result(i, o, e) /\ Result(i, o, FailedSave(e, o))
    BY <1>2, <1>8, AlikeResult
  <2>3. Running(x, o) \/ Unsaved(i, o, x, x)
    BY <1>2 DEF Unsaved, Alike, Running
  <2> QED
    BY <1>7, <1>10, <2>1, <2>2, <2>3, FinishesEffect
<1> QED
  BY <1>4, <1>5, <1>9, <1>10, SaveOrFailEffect

(* Every step of a worker.                                                 *)
LEMMA WorkerEffects ==
  ASSUME StoreType, WorkersType, NEW i \in Instances, NEW o \in OpIds, WorkerStep(i, o)
  PROVE  WorkerEffect(i, o)
<1>1. ASSUME Leave(i, o) PROVE WorkerEffect(i, o)
  BY <1>1, StillEffect DEF Leave
<1>2. ASSUME FinishWorker(i, o) PROVE WorkerEffect(i, o)
  <2>1. pc'[i][o] = "none"
    BY <1>2 DEF FinishWorker, Goto, WorkersType
  <2> QED
    BY <1>2, <2>1, StillEffect DEF FinishWorker
<1>3. "gone" \in Verdicts /\ TRUE \in BOOLEAN
  BY DEF Verdicts
<1> QED
  BY <1>1, <1>2, <1>3, LaunchEffect, SpawnEffect, StopEffect, FinishEffect, ObserveEffect
     DEF WorkerStep, LaunchStep, StopStep

(* What watch does: the operations and the room stay.                      *)
LEMMA WatchEffect ==
  ASSUME StoreType, NEW i \in Instances, NEW v \in Verdicts, Watch(i, v)
  PROVE  /\ wedged => wedged'
         /\ \E z, x : RecordStep(i, z, x) /\ Alike(mem[i], z) /\ Alike(mem[i], x)
<1> DEFINE x == Observed(mem[i], v)
           b == x.err \/ ~wedged
           f == [x EXCEPT !.lifecycle = "failed", !.err = b]
           y == IF Failing(v) THEN f ELSE x
           z == [y EXCEPT !.err = TRUE]
<1>1. Alike(mem[i], x)
  BY OutcomesAlike DEF StoreType
<1>2. x \in Instance
  BY <1>1, AlikeIsInstance
<1>3. Saved(i, y) \/ NotSaved(i, y, z)
  BY DEF Watch
<1>4. b \in BOOLEAN
  BY <1>2 DEF Instance, StoreType
<1> HIDE DEF x, b
<1>5. Alike(mem[i], f)
  <2>1. /\ f \in Instance /\ f.lifecycle = "failed" /\ f.nops = x.nops
        /\ f.key = x.key /\ f.port = x.port /\ f.gen = x.gen /\ f.ops = x.ops
    BY <1>2, <1>4 DEF Instance
  <2>2. Alike(x, f)
    BY <1>2, <2>1, AlikeFields DEF Exists, Holds
  <2> QED
    BY <1>1, <2>2, AlikeTransitive
<1>6. Alike(mem[i], y)
  BY <1>1, <1>5
<1>7. y \in Instance
  BY <1>6, AlikeIsInstance
<1> HIDE DEF f, y
<1>8. Alike(mem[i], z)
  <2>1. /\ z \in Instance /\ z.lifecycle = y.lifecycle /\ z.nops = y.nops
        /\ z.key = y.key /\ z.port = y.port /\ z.gen = y.gen /\ z.ops = y.ops
    BY <1>7 DEF Instance
  <2>2. Alike(y, z)
    BY <1>7, <2>1, AlikeFields DEF Exists, Holds
  <2> QED
    BY <1>6, <2>2, AlikeTransitive
<1> HIDE DEF z
<1> QED
  BY <1>3, <1>6, <1>8, SavesRecord

----------------------------------------------------------------------------
(* Type correctness. *)

(* The end of the manager process, and its next start.                     *)
LEMMA DownType ==
  ASSUME TypeOK, Down
  PROVE  /\ StoreType' /\ WorkersType' /\ WorldType'
         /\ up' = FALSE /\ closed' = FALSE /\ told' = told /\ pruned' = pruned
         /\ disk' = disk /\ mem' = [i \in Instances |-> Absent] /\ live' = live
<1>1. Absent \in Instance /\ "none" \in Pcs /\ 0 \in 0..MaxOps
  BY AbsentType, BoundsAssumption DEF Pcs
<1> QED
  BY <1>1 DEF Down, TypeOK, StoreType, WorkersType, WorldType, world, history

(* Recovery turns instances into instances.                                *)
LEMMA RecoveryType ==
  ASSUME StoreType, NEW v \in Findings(disk)
  PROVE  Recovery(v) \in [Instances -> Instance]
<1>1. \A i \in Instances : disk[i] \in Instance /\ v[i] \in Searches
  BY DEF StoreType, Findings
<1>2. \A i \in Instances : Recovered(disk[i], v[i]) \in Instance
  BY <1>1, RecoveredCases
<1> QED
  BY <1>2 DEF Recovery

(* Reopen keeps the types.                                                 *)
LEMMA ReopenType ==
  ASSUME TypeOK, Reopen
  PROVE  TypeOK'
<1> USE DEF TypeOK
<1>1. PICK v \in Findings(disk) :
        LET m == Recovery(v) IN
         \/ /\ Valid(m)
            /\ up' = TRUE /\ mem' = m /\ disk' = m
            /\ pc' = [i \in Instances |-> [o \in OpIds |->
                        IF ~(Resumes(m[i]) /\ o = m[i].nops) THEN "none"
                        ELSE IF m[i].ops[o].kind = "stop" THEN "wait" ELSE "observe"]]
            /\ reg' = [i \in Instances |-> IF Resumes(m[i]) THEN m[i].nops ELSE 0]
            /\ UNCHANGED faults
         \/ /\ Valid(m) /\ faults < MaxFaults /\ faults' = faults + 1
            /\ disk' \in {disk, m}
            /\ UNCHANGED <<up, mem, pc, reg>>
  BY DEF Reopen
<1> DEFINE m == Recovery(v)
<1>2. m \in [Instances -> Instance]
  BY RecoveryType DEF StoreType
<1>3. UNCHANGED <<wedged, cancelled, pred, world, closed, crashes, history>>
  BY DEF Reopen
<1> HIDE DEF m
<1>4. CASE /\ up' = TRUE /\ mem' = m /\ disk' = m
           /\ pc' = [i \in Instances |-> [o \in OpIds |->
                        IF ~(Resumes(m[i]) /\ o = m[i].nops) THEN "none"
                        ELSE IF m[i].ops[o].kind = "stop" THEN "wait" ELSE "observe"]]
           /\ reg' = [i \in Instances |-> IF Resumes(m[i]) THEN m[i].nops ELSE 0]
           /\ UNCHANGED faults
  <2>1. pc' \in [Instances -> [OpIds -> Pcs]]
    BY <1>4 DEF Pcs
  <2>2. reg' \in [Instances -> 0..MaxOps]
    BY <1>2, <1>4, BoundsAssumption DEF Instance
  <2> QED
    BY <1>2, <1>3, <1>4, <2>1, <2>2 DEF world, history
<1>5. CASE /\ faults < MaxFaults /\ faults' = faults + 1
           /\ disk' \in {disk, m}
           /\ UNCHANGED <<up, mem, pc, reg>>
  BY <1>2, <1>3, <1>5 DEF world, history
<1> QED
  BY <1>1, <1>4, <1>5 DEF m

(* Where a worker goes from each of its steps.                             *)
LEMMA WorkerGoes ==
  ASSUME WorkersType, NEW i \in Instances, NEW o \in OpIds, WorkerStep(i, o)
  PROVE  /\ \E p \in Pcs : Goto(i, o, p) \/ pc' = pc
         /\ UNCHANGED <<cancelled, pred, life, history>>
         /\ reg' = reg \/ reg' = [reg EXCEPT ![i] = 0]
<1> USE DEF Pcs, Fails, SaveOrFail, StoreOrFail, CleanupFails
<1>1. CASE LaunchStep(i, o)
  <2>1. CASE Launch(i, o) \/ PrepareRun(i, o) \/ PrepareFiles(i, o) \/ RunPrepared(i, o)
    BY <2>1 DEF Launch, PrepareRun, PrepareFiles, RunPrepared
  <2>2. CASE IntendSpawn(i, o) \/ MakeInput(i, o) \/ InputPrepared(i, o)
    BY <2>2 DEF IntendSpawn, MakeInput, InputPrepared
  <2>3. CASE Exec(i, o) \/ Spawned(i, o) \/ Rollback(i, o)
    BY <2>3 DEF Exec, Spawned, Rollback
  <2> QED
    BY <1>1, <2>1, <2>2, <2>3 DEF LaunchStep
<1>2. CASE StopStep(i, o)
  <2>1. CASE BeginStop(i, o) \/ (\E c \in BOOLEAN : Stopped(i, o, c)) \/ BeginCleanup(i, o)
    BY <2>1 DEF BeginStop, Stopped, BeginCleanup
  <2>2. CASE CleanInput(i, o) \/ CleanupRun(i, o)
    BY <2>2 DEF CleanInput, CleanupRun
  <2>3. CASE FinishStop(i, o) \/ Relaunch(i, o)
    BY <2>3 DEF FinishStop, Relaunch
  <2> QED
    BY <1>2, <2>1, <2>2, <2>3 DEF StopStep
<1>3. CASE \/ \E v \in Verdicts, late \in BOOLEAN : Tick(i, o, v, late)
           \/ \E c \in BOOLEAN : TimedOut(i, o, c)
  <2>1. ASSUME NEW v \in Verdicts, NEW late \in BOOLEAN, Tick(i, o, v, late)
        PROVE  /\ \E p \in Pcs : Goto(i, o, p) \/ pc' = pc
               /\ UNCHANGED <<cancelled, pred, reg, life, history>>
    BY <2>1 DEF Tick
  <2>2. ASSUME NEW c \in BOOLEAN, TimedOut(i, o, c)
        PROVE  /\ Goto(i, o, "abort")
               /\ UNCHANGED <<cancelled, pred, reg, life, history>>
    BY <2>2 DEF TimedOut
  <2> QED
    BY <1>3, <2>1, <2>2
<1>4. CASE Leave(i, o) \/ Abort(i, o)
  BY <1>4 DEF Leave, Abort
<1>5. CASE FinishWorker(i, o)
  <2>1. reg' = reg \/ reg' = [reg EXCEPT ![i] = 0]
    BY <1>5 DEF FinishWorker, WorkersType
  <2> QED
    BY <1>5, <2>1 DEF FinishWorker
<1> QED
  BY <1>1, <1>2, <1>3, <1>4, <1>5 DEF WorkerStep

----------------------------------------------------------------------------
(* The inductive invariant.  The manager alternates between facts it keeps *)
(* in its records and a world that changes on its own; what holds them     *)
(* together is that the only worker that may have spawned a process holds  *)
(* the mutex, and that its intent was on disk before.                      *)

LaunchPcs == {"files", "cfg", "spawn", "fifo", "input", "exec", "spawned"}

Exclusive ==
    \A i, j \in Instances, o, q \in OpIds :
        pc[i][o] \in LockedPcs /\ pc[j][q] \in LockedPcs => i = j /\ o = q

LaunchFacts(i, o) ==
    LET x == mem[i] IN
    /\ pc[i][o] \in LaunchPcs =>
         Holds(x) /\ x.gen \in Gens /\ x.runs[x.gen].stop # "confirmed"
    /\ pc[i][o] \in {"fifo", "input", "exec", "spawned"} =>
         disk[i] = x /\ x.runs[x.gen].spawnAttempted
    /\ pc[i][o] \in {"exec", "spawned"} => x.runs[x.gen].input
    /\ pc[i][o] \in (LaunchPcs \ {"spawned"}) \cup {"stopped", "cleanup"} => live[i] = {}

Launching == \A i \in Instances, o \in OpIds : LaunchFacts(i, o)

DownIsIdle ==
    ~up => \A i \in Instances : mem[i] = Absent /\ \A o \in OpIds : pc[i][o] = "none"

Tracked ==
    \A i \in Instances :
        /\ Unused(mem[i]) /\ Unused(disk[i])
        /\ Accounts(disk[i], live[i])
        /\ up => Accounts(mem[i], live[i])

StoppedHasNone ==
    \A i \in Instances :
        up /\ mem[i].process = "stopped" /\ (\A o \in OpIds : pc[i][o] # "spawned")
            => live[i] = {}

IInv == TypeOK /\ Exclusive /\ Launching /\ DownIsIdle /\ Tracked /\ StoppedHasNone

(* The processes of every instance but i stay, and i gets no new one.      *)
NoSpawn(i) ==
    /\ live'[i] \subseteq live[i]
    /\ \A j \in Instances : j # i => live'[j] = live[j]

(* A change of details still accounts for the same processes.              *)
LEMMA KeptAccounts ==
  ASSUME NEW x, NEW y, NEW L \in SUBSET Gens, Kept(x, y), Accounts(x, L)
  PROVE  Accounts(y, L)
  BY DEF Kept, KeepsRuns, Accounts

(* A change of details leaves later generations unused.                    *)
LEMMA KeptUnused == ASSUME NEW x, NEW y, Kept(x, y), Unused(x) PROVE Unused(y)
  BY DEF Kept, KeepsRuns, Unused

(* A record that accounts for some processes accounts for fewer.           *)
LEMMA FewerAccounted ==
  ASSUME NEW x, NEW L, NEW M, M \subseteq L, Accounts(x, L) PROVE Accounts(x, M)
  BY DEF Accounts

(* Tracked is kept by a step whose records account for the processes       *)
(* left.                                                                   *)
LEMMA TrackedStep ==
  ASSUME IInv, up, NEW i \in Instances, NEW z \in Instance, NEW x \in Instance,
         RecordStep(i, z, x), NoSpawn(i), Unused(z), Unused(x),
         Accounts(z, live'[i]), Accounts(x, live'[i])
  PROVE  Tracked'
<1>1. /\ mem' = [mem EXCEPT ![i] = z]
      /\ disk' = disk \/ disk' = [mem EXCEPT ![i] = x]
      /\ mem \in [Instances -> Instance] /\ disk \in [Instances -> Instance]
  BY DEF RecordStep, IInv, TypeOK
<1>2. ASSUME NEW j \in Instances
      PROVE  /\ Unused(mem'[j]) /\ Unused(disk'[j])
             /\ Accounts(disk'[j], live'[j]) /\ Accounts(mem'[j], live'[j])
  <2>1. /\ Unused(mem[j]) /\ Unused(disk[j])
        /\ Accounts(mem[j], live[j]) /\ Accounts(disk[j], live[j])
    BY DEF IInv, Tracked
  <2>2. Accounts(mem[j], live'[j]) /\ Accounts(disk[j], live'[j])
    BY <2>1, FewerAccounted DEF NoSpawn
  <2>3. CASE j = i
    BY <1>1, <2>1, <2>2, <2>3
  <2>4. CASE j # i
    BY <1>1, <2>1, <2>2, <2>4
  <2> QED
    BY <2>3, <2>4
<1> QED
  BY <1>2 DEF Tracked, Unused, Accounts, Holds

(* A quiet step that spawns nothing keeps Tracked.                         *)
LEMMA TrackedQuiet ==
  ASSUME IInv, up, NEW i \in Instances, QuietStep(i), NoSpawn(i)
  PROVE  Tracked'
<1>1. PICK z, x \in Instance : RecordStep(i, z, x) /\ Kept(mem[i], z) /\ Kept(mem[i], x)
  BY DEF QuietStep
<1>2. Unused(mem[i]) /\ Accounts(mem[i], live[i]) /\ live[i] \in SUBSET Gens
  BY DEF IInv, Tracked, TypeOK
<1>3. Unused(z) /\ Unused(x)
  BY <1>1, <1>2, KeptUnused
<1>4. Accounts(z, live'[i]) /\ Accounts(x, live'[i])
  BY <1>1, <1>2, KeptAccounts, FewerAccounted DEF NoSpawn
<1> QED
  BY <1>1, <1>3, <1>4, TrackedStep

(* An empty step keeps Tracked when the room has no process left.          *)
LEMMA TrackedEmpty ==
  ASSUME IInv, up, NEW i \in Instances, EmptyStep(i), NoSpawn(i), live'[i] = {}
  PROVE  Tracked'
<1>1. PICK z, x \in Instance :
        RecordStep(i, z, x) /\ (Unused(mem[i]) => Unused(z) /\ Unused(x))
  BY DEF EmptyStep
<1>2. Unused(z) /\ Unused(x)
  BY <1>1 DEF IInv, Tracked
<1>3. Accounts(z, live'[i]) /\ Accounts(x, live'[i])
  BY DEF Accounts
<1> QED
  BY <1>1, <1>2, <1>3, TrackedStep

(* A room whose current game has exited has no process at all.             *)
LEMMA VacantHasNone ==
  ASSUME IInv, up, NEW i \in Instances, Vacant(i) PROVE live[i] = {}
  BY DEF IInv, Tracked, Accounts, Vacant

(* A quiet step keeps StoppedHasNone: it stops no process in the           *)
(* records.                                                                *)
LEMMA StoppedQuiet ==
  ASSUME IInv, up, up' = up, NEW i \in Instances, NEW o \in OpIds, NEW p,
         QuietStep(i), NoSpawn(i), Goto(i, o, p),
         pc[i][o] # "spawned" \/ mem'[i].process # "stopped"
  PROVE  StoppedHasNone'
<1>1. PICK z, x \in Instance : RecordStep(i, z, x) /\ Kept(mem[i], z)
  BY DEF QuietStep
<1>2. /\ mem' = [mem EXCEPT ![i] = z]
      /\ z.process = mem[i].process \/ z.process # "stopped"
      /\ mem \in [Instances -> Instance] /\ pc \in [Instances -> [OpIds -> Pcs]]
      /\ pc' = [pc EXCEPT ![i][o] = p]
  BY <1>1 DEF RecordStep, Kept, IInv, TypeOK, Goto
<1>3. ASSUME NEW j \in Instances, mem'[j].process = "stopped",
             \A q \in OpIds : pc'[j][q] # "spawned"
      PROVE  live'[j] = {}
  <2>1. mem[j].process = "stopped" /\ \A q \in OpIds : pc[j][q] # "spawned"
    <3>1. CASE j = i
      BY <1>2, <1>3, <3>1
    <3>2. CASE j # i
      BY <1>2, <1>3, <3>2
    <3> QED
      BY <3>1, <3>2
  <2>2. live[j] = {}
    BY <2>1 DEF IInv, StoppedHasNone
  <2> QED
    BY <2>2 DEF NoSpawn
<1> QED
  BY <1>3 DEF StoppedHasNone

(* An empty step keeps StoppedHasNone: the room has no process left.       *)
LEMMA StoppedEmpty ==
  ASSUME IInv, up, up' = up, NEW i \in Instances, EmptyStep(i), NoSpawn(i), live'[i] = {},
         \A j \in Instances : j # i => pc'[j] = pc[j]
  PROVE  StoppedHasNone'
<1>1. PICK z, x \in Instance : RecordStep(i, z, x)
  BY DEF EmptyStep
<1>2. mem' = [mem EXCEPT ![i] = z] /\ mem \in [Instances -> Instance]
  BY <1>1 DEF RecordStep, IInv, TypeOK
<1>3. ASSUME NEW j \in Instances, mem'[j].process = "stopped", j # i,
             \A q \in OpIds : pc'[j][q] # "spawned"
      PROVE  live'[j] = {}
  BY <1>2, <1>3 DEF IInv, StoppedHasNone, NoSpawn
<1> QED
  BY <1>3 DEF StoppedHasNone

(* A worker moves: the others stay out of the critical section.            *)
LEMMA Moves ==
  ASSUME IInv, up, up' = up, NEW i \in Instances, NEW o \in OpIds, NEW p \in Pcs,
         Goto(i, o, p), Free \/ pc[i][o] \in LockedPcs, LaunchFacts(i, o)'
  PROVE  Exclusive' /\ Launching' /\ DownIsIdle'
<1>1. /\ pc \in [Instances -> [OpIds -> Pcs]] /\ pc' = [pc EXCEPT ![i][o] = p]
  BY DEF IInv, TypeOK, Goto
<1>2. \A j \in Instances, q \in OpIds : j # i \/ q # o =>
        pc'[j][q] = pc[j][q] /\ pc[j][q] \notin LockedPcs
  <2>1. TAKE j \in Instances, q \in OpIds
  <2>2. HAVE j # i \/ q # o
  <2>3. pc'[j][q] = pc[j][q]
    BY <1>1, <2>2
  <2>4. pc[j][q] \notin LockedPcs
    BY <2>2 DEF Free, IInv, Exclusive
  <2> QED
    BY <2>3, <2>4
<1>3. Exclusive'
  BY <1>2 DEF Exclusive
<1>4. Launching'
  <2>1. ASSUME NEW j \in Instances, NEW q \in OpIds, j # i \/ q # o
        PROVE  LaunchFacts(j, q)'
    BY <1>2, <2>1 DEF LaunchFacts, LaunchPcs, LockedPcs
  <2> QED
    BY <2>1 DEF Launching
<1> QED
  BY <1>3, <1>4 DEF DownIsIdle

(* Outside launch and cleanup nothing is asked of a worker's room.         *)
LEMMA AtRest ==
  ASSUME NEW i \in Instances, NEW o \in OpIds, IInv, NEW p, Goto(i, o, p),
         p \notin LaunchPcs \cup {"stopped", "cleanup"}
  PROVE  LaunchFacts(i, o)'
<1>1. pc'[i][o] = p
  BY DEF IInv, TypeOK, Goto
<1> QED
  BY <1>1 DEF LaunchFacts, LaunchPcs

(* A step of a worker keeps TypeOK if it keeps the records and the world   *)
(* typed.                                                                  *)
LEMMA WorkerTypes ==
  ASSUME IInv, NEW i \in Instances, NEW o \in OpIds, WorkerStep(i, o), StoreType', WorldType'
  PROVE  TypeOK' /\ up' = up
<1>1. WorkersType /\ LifeType
  BY TypeParts DEF IInv
<1>2. /\ \E p \in Pcs : Goto(i, o, p) \/ pc' = pc
      /\ UNCHANGED <<cancelled, pred, life, history>>
      /\ reg' = reg \/ reg' = [reg EXCEPT ![i] = 0]
  BY <1>1, WorkerGoes
<1>3. pc' \in [Instances -> [OpIds -> Pcs]]
  BY <1>1, <1>2, GotoType DEF WorkersType
<1>4. reg' \in [Instances -> 0..MaxOps]
  BY <1>1, <1>2, BoundsAssumption DEF WorkersType
<1>5. WorkersType' /\ LifeType'
  BY <1>1, <1>2, <1>3, <1>4 DEF WorkersType, LifeType, life, history
<1> QED
  BY <1>2, <1>5 DEF TypeOK, StoreType, WorkersType, WorldType, LifeType, life

(* A quiet step of a worker keeps the invariant.                           *)
LEMMA QuietWorker ==
  ASSUME IInv, up, NEW i \in Instances, NEW o \in OpIds, NEW p \in Pcs, WorkerStep(i, o),
         Free \/ pc[i][o] \in LockedPcs, Goto(i, o, p), LaunchFacts(i, o)',
         StoreType' /\ QuietStep(i), WorldType', live' = live,
         pc[i][o] # "spawned" \/ mem'[i].process # "stopped"
  PROVE  IInv'
<1>1. TypeOK' /\ up' = up
  BY WorkerTypes
<1>2. NoSpawn(i)
  BY DEF NoSpawn
<1> QED
  BY <1>1, <1>2, Moves, StoppedQuiet, TrackedQuiet DEF IInv

(* A step of a worker that leaves its room without a process keeps the     *)
(* invariant.                                                              *)
LEMMA EmptyWorker ==
  ASSUME IInv, up, NEW i \in Instances, NEW o \in OpIds, NEW p \in Pcs, WorkerStep(i, o),
         Free \/ pc[i][o] \in LockedPcs, Goto(i, o, p), LaunchFacts(i, o)',
         StoreType' /\ EmptyStep(i), WorldType', NoSpawn(i), live'[i] = {}
  PROVE  IInv'
<1>1. TypeOK' /\ up' = up
  BY WorkerTypes
<1>2. \A j \in Instances : j # i => pc'[j] = pc[j]
  BY DEF Goto, IInv, TypeOK
<1> QED
  BY <1>1, <1>2, Moves, StoppedEmpty, TrackedEmpty DEF IInv

----------------------------------------------------------------------------
(* Every action keeps the invariant. *)

(* The steps that only mark phases and runs keep the invariant.            *)
LEMMA QuietInv ==
  ASSUME IInv, NEW i \in Instances, NEW o \in OpIds,
         \/ Launch(i, o) \/ BeginStop(i, o) \/ BeginCleanup(i, o) \/ Abort(i, o)
         \/ CleanInput(i, o) \/ CleanupRun(i, o) \/ Relaunch(i, o)
  PROVE  IInv'
<1>1. StoreType /\ WorldType /\ mem[i] \in Instance
  BY DEF IInv, TypeOK, StoreType, WorldType
<1>2. StoreType' /\ QuietStep(i)
  BY <1>1, LaunchQuiet, AbortQuiet, CleanupQuiet
<1>3. WorkerStep(i, o)
  BY DEF WorkerStep, LaunchStep, StopStep
<1>4. /\ live' = live /\ UNCHANGED cancelled
      /\ up /\ (Free \/ pc[i][o] \in LockedPcs) /\ pc[i][o] # "spawned"
  BY DEF Launch, BeginStop, BeginCleanup, Abort, CleanInput, CleanupRun, Relaunch, Free,
         LockedPcs, world
<1>5. WorldType'
  <2>1. CASE CleanInput(i, o) \/ CleanupRun(i, o)
    BY <1>1, <2>1 DEF CleanInput, CleanupRun, WorldType
  <2>2. CASE ~(CleanInput(i, o) \/ CleanupRun(i, o))
    BY <1>1, <2>2 DEF Launch, BeginStop, BeginCleanup, Abort, Relaunch, WorldType, world
  <2> QED
    BY <2>1, <2>2
<1>6. PICK p \in Pcs :
        /\ Goto(i, o, p)
        /\ p \notin LaunchPcs
        /\ p \in {"stopped", "cleanup"} => live[i] = {}
  <2>1. CASE Launch(i, o) \/ Abort(i, o) \/ Relaunch(i, o)
    BY <2>1 DEF Launch, Abort, Relaunch, Fails, SaveOrFail, Pcs, LaunchPcs
  <2>2. CASE BeginStop(i, o)
    <3>1. CASE mem[i].process = "stopped"
      <4>1. live[i] = {}
        BY <2>2, <3>1 DEF BeginStop, Free, LockedPcs, IInv, StoppedHasNone
      <4> QED
        BY <2>2, <3>1, <4>1 DEF BeginStop, Fails, SaveOrFail, Pcs, LaunchPcs
    <3>2. CASE mem[i].process # "stopped"
      BY <2>2, <3>2 DEF BeginStop, Fails, SaveOrFail, Pcs, LaunchPcs
    <3> QED
      BY <3>1, <3>2
  <2>3. CASE BeginCleanup(i, o) \/ CleanInput(i, o) \/ CleanupRun(i, o)
    <3>1. pc[i][o] \in {"stopped", "cleanup"} /\ live[i] = {}
      BY <2>3 DEF BeginCleanup, CleanInput, CleanupRun, IInv, Launching, LaunchFacts
    <3>2. \E p \in {"exit", "abort", "cleanup"} : Goto(i, o, p)
      <4>1. CASE BeginCleanup(i, o)
        BY <4>1 DEF BeginCleanup, SaveOrFail
      <4>2. CASE UNCHANGED pc /\ (CleanInput(i, o) \/ CleanupRun(i, o))
        <5>1. pc[i][o] = "cleanup"
          BY <4>2 DEF CleanInput, CleanupRun
        <5>2. pc \in [Instances -> [OpIds -> Pcs]]
          BY DEF IInv, TypeOK
        <5> QED
          BY <4>2, <5>1, <5>2 DEF Goto
      <4>3. CASE ~UNCHANGED pc /\ (CleanInput(i, o) \/ CleanupRun(i, o))
        BY <4>3 DEF CleanInput, CleanupRun, CleanupFails, SaveOrFail
      <4> QED
        BY <2>3, <4>1, <4>2, <4>3
    <3> QED
      BY <3>1, <3>2 DEF Pcs, LaunchPcs
  <2> QED
    BY <2>1, <2>2, <2>3
<1>7. LaunchFacts(i, o)'
  <2>1. pc'[i][o] = p
    BY <1>6 DEF IInv, TypeOK, Goto
  <2> QED
    BY <1>4, <1>6, <2>1 DEF LaunchFacts, LaunchPcs
<1> QED
  BY <1>2, <1>3, <1>4, <1>5, <1>6, <1>7, QuietWorker

(* A worker that returns keeps the invariant.                              *)
LEMMA LeaveInv ==
  ASSUME IInv, NEW i \in Instances, NEW o \in OpIds, Leave(i, o) \/ FinishWorker(i, o)
  PROVE  IInv'
<1>1. StoreType /\ WorldType
  BY DEF IInv, TypeOK, StoreType, WorldType
<1>2. PICK p \in {"exit", "none"} : Goto(i, o, p)
  BY DEF Leave, FinishWorker
<1>3. UNCHANGED <<mem, store, world>> /\ Free /\ up /\ pc[i][o] # "spawned"
  BY DEF Leave, FinishWorker, Free
<1>4. StoreType' /\ QuietStep(i)
  BY <1>1, <1>3, StillStep
<1>5. WorldType' /\ live' = live
  BY <1>1, <1>3 DEF WorldType, world
<1>6. LaunchFacts(i, o)'
  BY <1>2, AtRest DEF LaunchPcs
<1>7. WorkerStep(i, o)
  BY DEF WorkerStep
<1>8. p \in Pcs
  BY DEF Pcs
<1> QED
  BY <1>2, <1>3, <1>4, <1>5, <1>6, <1>7, <1>8, QuietWorker

(* The observations and the stops.                                         *)
LEMMA ObserveInv ==
  ASSUME IInv, NEW i \in Instances, NEW o \in OpIds, NEW c \in BOOLEAN, NEW v \in Verdicts,
         Tick(i, o, v, c) \/ TimedOut(i, o, c) \/ Stopped(i, o, c)
  PROVE  IInv'
<1>1. StoreType /\ WorldType
  BY DEF IInv, TypeOK, StoreType, WorldType
<1>2. StoreType' /\ (QuietStep(i) \/ (EmptyStep(i) /\ Vacant(i)))
  BY <1>1, TickStep, TimedOutStep, StoppedStep
<1>3. WorkerStep(i, o)
  BY DEF WorkerStep, StopStep
<1>4. UNCHANGED world /\ Free /\ up /\ pc[i][o] # "spawned"
  BY DEF Tick, TimedOut, Stopped, Free
<1>5. WorldType' /\ live' = live
  BY <1>1, <1>4 DEF WorldType, world
<1>6. PICK p \in Pcs :
        /\ Goto(i, o, p)
        /\ p \notin LaunchPcs \cup {"cleanup"}
        /\ p = "stopped" => Vacant(i)
  <2>1. CASE Tick(i, o, v, c) /\ UNCHANGED pc
    <3>1. Goto(i, o, pc[i][o]) /\ pc[i][o] = "observe"
      BY <2>1 DEF Tick, Goto, IInv, TypeOK
    <3> QED
      BY <3>1 DEF Pcs, LaunchPcs
  <2>2. CASE Tick(i, o, v, c) /\ ~UNCHANGED pc
    BY <2>2 DEF Tick, Pcs, LaunchPcs
  <2>3. CASE TimedOut(i, o, c)
    BY <2>3 DEF TimedOut, Pcs, LaunchPcs
  <2>4. CASE Stopped(i, o, c)
    BY <2>4 DEF Stopped, MayConfirm, Vacant, SaveOrFail, Pcs, LaunchPcs
  <2> QED
    BY <2>1, <2>2, <2>3, <2>4
<1>7. LaunchFacts(i, o)'
  <2>1. p = "stopped" => live[i] = {}
    BY <1>4, <1>6, VacantHasNone
  <2>2. pc'[i][o] = p
    BY <1>6 DEF IInv, TypeOK, Goto
  <2> QED
    BY <1>5, <1>6, <2>1, <2>2 DEF LaunchFacts, LaunchPcs
<1>8. CASE QuietStep(i)
  BY <1>2, <1>3, <1>4, <1>5, <1>6, <1>7, <1>8, QuietWorker
<1>9. CASE EmptyStep(i) /\ Vacant(i)
  <2>1. NoSpawn(i) /\ live'[i] = {}
    BY <1>4, <1>5, <1>9, VacantHasNone DEF NoSpawn
  <2> QED
    BY <1>2, <1>3, <1>4, <1>5, <1>6, <1>7, <1>9, <2>1, EmptyWorker
<1> QED
  BY <1>2, <1>8, <1>9

(* The launch, to the moment the spawn is intended.                        *)
LEMMA PrepareInv ==
  ASSUME IInv, NEW i \in Instances, NEW o \in OpIds, PrepareRun(i, o)
  PROVE  IInv'
<1>1. StoreType /\ WorldType /\ mem[i] \in Instance
  BY DEF IInv, TypeOK, StoreType, WorldType
<1>2. StoreType' /\ (QuietStep(i) \/ (EmptyStep(i) /\ MayPrepare(mem[i])))
  BY <1>1, PrepareRunStep
<1>3. WorkerStep(i, o)
  BY DEF WorkerStep, LaunchStep
<1>4. UNCHANGED world /\ up /\ pc[i][o] = "prepare" /\ pc[i][o] \in LockedPcs
  BY DEF PrepareRun, LockedPcs
<1>5. WorldType' /\ live' = live /\ NoSpawn(i)
  BY <1>1, <1>4 DEF WorldType, world, NoSpawn
<1>6. MayPrepare(mem[i]) => live[i] = {}
  <2>1. \A q \in OpIds : pc[i][q] # "spawned"
    BY <1>4 DEF IInv, Exclusive, LockedPcs
  <2> QED
    BY <1>4, <2>1 DEF MayPrepare, IInv, StoppedHasNone
<1>7. PICK p \in {"abort", "files"} :
        /\ Goto(i, o, p)
        /\ p = "files" => /\ MayPrepare(mem[i]) /\ mem[i].gen < MaxGen
                          /\ mem' = [mem EXCEPT ![i] = [mem[i] EXCEPT !.gen = @ + 1]]
  <2>1. CASE Fails(i, o)
    BY <2>1 DEF Fails
  <2>2. CASE ~Fails(i, o)
    BY <2>2 DEF PrepareRun, StoreOrFail, StoreSaved, Published
  <2> QED
    BY <2>1, <2>2
<1>8. LaunchFacts(i, o)'
  <2>1. pc'[i][o] = p
    BY <1>7 DEF IInv, TypeOK, Goto
  <2>2. CASE p = "abort"
    BY <2>1, <2>2 DEF LaunchFacts, LaunchPcs
  <2>3. CASE p = "files"
    <3> DEFINE g == mem[i].gen + 1
    <3>1. g \in Gens /\ g > mem[i].gen
      BY <1>1, <1>7, <2>3, BoundsAssumption DEF Instance, Gens
    <3>2. mem[i].runs[g].stop # "confirmed"
      BY <3>1 DEF IInv, Tracked, Unused
    <3>3. /\ mem'[i].lifecycle = mem[i].lifecycle /\ mem'[i].runs = mem[i].runs
          /\ mem'[i].gen = g
      BY <1>1, <1>7, <2>3 DEF Instance, StoreType
    <3>4. live'[i] = {} /\ mem[i].lifecycle = "active"
      BY <1>5, <1>6, <1>7, <2>3 DEF MayPrepare
    <3> HIDE DEF g
    <3> QED
      BY <2>1, <2>3, <3>1, <3>2, <3>3, <3>4 DEF LaunchFacts, LaunchPcs, Holds
  <2> QED
    BY <2>2, <2>3
<1>9. p \in Pcs /\ pc[i][o] # "spawned"
  BY <1>4 DEF Pcs
<1>10. CASE QuietStep(i)
  BY <1>2, <1>3, <1>4, <1>5, <1>7, <1>8, <1>9, <1>10, QuietWorker
<1>11. CASE EmptyStep(i) /\ MayPrepare(mem[i])
  BY <1>2, <1>3, <1>4, <1>5, <1>6, <1>7, <1>8, <1>9, <1>11, EmptyWorker
<1> QED
  BY <1>2, <1>10, <1>11

(* Preparing files keeps the invariant.                                    *)
LEMMA FilesInv ==
  ASSUME IInv, NEW i \in Instances, NEW o \in OpIds, PrepareFiles(i, o) \/ RunPrepared(i, o)
  PROVE  IInv'
<1>1. StoreType /\ WorldType /\ mem[i] \in Instance
  BY DEF IInv, TypeOK, StoreType, WorldType
<1>2. StoreType' /\ QuietStep(i)
  BY <1>1, PrepareFilesQuiet, RunPreparedQuiet
<1>3. WorkerStep(i, o)
  BY DEF WorkerStep, LaunchStep
<1>4. /\ up /\ pc[i][o] \in {"files", "cfg"} /\ pc[i][o] \in LockedPcs /\ pc[i][o] # "spawned"
      /\ live' = live
  BY DEF PrepareFiles, RunPrepared, LockedPcs, world
<1>5. LaunchFacts(i, o)
  BY DEF IInv, Launching
<1>6. WorldType'
  <2>1. mem[i].gen \in Gens
    BY <1>4, <1>5 DEF LaunchFacts, LaunchPcs
  <2> QED
    BY <1>1, <2>1 DEF PrepareFiles, RunPrepared, WorldType, world
<1>7. PICK p \in {"abort", "cfg", "spawn"} : Goto(i, o, p)
  BY DEF PrepareFiles, RunPrepared, Fails, StoreOrFail
<1>8. LaunchFacts(i, o)'
  <2>1. pc'[i][o] = p
    BY <1>7 DEF IInv, TypeOK, Goto
  <2>2. PICK z \in Instance : Kept(mem[i], z) /\ mem'[i] = z
    BY <1>1, <1>2 DEF QuietStep, RecordStep, StoreType
  <2>3. live'[i] = {} /\ Holds(mem[i]) /\ mem[i].gen \in Gens
        /\ mem[i].runs[mem[i].gen].stop # "confirmed"
    BY <1>4, <1>5 DEF LaunchFacts, LaunchPcs
  <2>4. Holds(z) /\ z.gen \in Gens /\ z.runs[z.gen].stop # "confirmed"
    BY <2>2, <2>3 DEF Kept, KeepsRuns
  <2> QED
    BY <1>7, <2>1, <2>2, <2>3, <2>4 DEF LaunchFacts, LaunchPcs
<1>9. p \in Pcs
  BY DEF Pcs
<1> QED
  BY <1>2, <1>3, <1>4, <1>6, <1>7, <1>8, <1>9, QuietWorker

(* The intent to spawn keeps the invariant, and is on disk after it.       *)
LEMMA IntendSpawnInv ==
  ASSUME IInv, NEW i \in Instances, NEW o \in OpIds, IntendSpawn(i, o)
  PROVE  IInv'
<1>1. StoreType /\ WorldType /\ mem[i] \in Instance
  BY DEF IInv, TypeOK, StoreType, WorldType
<1>2. StoreType' /\ QuietStep(i)
  BY <1>1, IntendSpawnQuiet
<1>3. WorkerStep(i, o)
  BY DEF WorkerStep, LaunchStep
<1>4. UNCHANGED world /\ up /\ pc[i][o] = "spawn" /\ pc[i][o] \in LockedPcs
  BY DEF IntendSpawn, LockedPcs
<1>5. WorldType' /\ live' = live
  BY <1>1, <1>4 DEF WorldType, world
<1>6. Holds(mem[i]) /\ mem[i].gen \in Gens /\ mem[i].runs[mem[i].gen].stop # "confirmed"
      /\ live[i] = {}
  BY <1>4 DEF IInv, Launching, LaunchFacts, LaunchPcs
<1>7. PICK p \in {"abort", "exit", "fifo"} :
        /\ Goto(i, o, p)
        /\ p = "fifo" => disk' = mem' /\ mem'[i].runs[mem'[i].gen].spawnAttempted
  <2> DEFINE g == mem[i].gen
             x == [mem[i] EXCEPT !.ops[o].gen = g]
             y == [AtPhase(x, o, "spawning") EXCEPT !.runs[g].spawnAttempted = TRUE]
  <2>1. CASE InMemory(i, x) /\ Goto(i, o, "abort")
    BY <2>1
  <2>2. CASE SaveOrFail(i, o, y, "fifo")
    <3>1. CASE Goto(i, o, "fifo") /\ Saved(i, y)
      <4>1. disk' = mem' /\ mem'[i] = y
        BY <1>1, <3>1 DEF Saved, StoreSaved, Published, StoreType
      <4>2. y.gen = g /\ y.runs[g].spawnAttempted
        <5>1. /\ AtPhase(x, o, "spawning").gen = g /\ AtPhase(x, o, "spawning").runs = mem[i].runs
              /\ DOMAIN AtPhase(x, o, "spawning") = DOMAIN mem[i]
          BY <1>1 DEF AtPhase, Instance
        <5>2. mem[i].runs \in [Gens -> Run] /\ "runs" \in DOMAIN mem[i] /\ "gen" \in DOMAIN mem[i]
          BY <1>1 DEF Instance
        <5> HIDE DEF x
        <5> QED
          BY <1>6, <5>1, <5>2 DEF Run
      <4> HIDE DEF y
      <4> QED
        BY <3>1, <4>1, <4>2
    <3> QED
      BY <2>2, <3>1 DEF SaveOrFail
  <2> QED
    BY <2>1, <2>2 DEF IntendSpawn
<1>8. LaunchFacts(i, o)'
  <2>1. pc'[i][o] = p
    BY <1>7 DEF IInv, TypeOK, Goto
  <2>2. PICK z \in Instance : Kept(mem[i], z) /\ mem'[i] = z
    BY <1>1, <1>2 DEF QuietStep, RecordStep, StoreType
  <2>3. Holds(z) /\ z.gen \in Gens /\ z.runs[z.gen].stop # "confirmed"
    BY <1>6, <2>2 DEF Kept, KeepsRuns
  <2> QED
    BY <1>5, <1>6, <1>7, <2>1, <2>2, <2>3 DEF LaunchFacts, LaunchPcs
<1>9. p \in Pcs /\ pc[i][o] # "spawned"
  BY <1>4 DEF Pcs
<1> QED
  BY <1>2, <1>3, <1>4, <1>5, <1>7, <1>8, <1>9, QuietWorker

(* Making the FIFO keeps the invariant.                                    *)
LEMMA MakeInputInv ==
  ASSUME IInv, NEW i \in Instances, NEW o \in OpIds, MakeInput(i, o)
  PROVE  IInv'
<1>1. StoreType /\ WorldType
  BY DEF IInv, TypeOK, StoreType, WorldType
<1>2. StoreType' /\ (UNCHANGED <<mem, store>> \/ EmptyStep(i))
  BY <1>1, ReleaseStep
<1>3. WorkerStep(i, o)
  BY DEF WorkerStep, LaunchStep
<1>4. live' = live /\ up /\ pc[i][o] = "fifo" /\ pc[i][o] \in LockedPcs /\ NoSpawn(i)
  BY DEF MakeInput, LockedPcs, NoSpawn
<1>5. LaunchFacts(i, o) /\ mem[i].gen \in Gens /\ live[i] = {}
  BY <1>4 DEF IInv, Launching, LaunchFacts, LaunchPcs
<1>6. WorldType'
  BY <1>1, <1>5 DEF MakeInput, WorldType
<1>7. PICK p \in {"abort", "input"} :
        Goto(i, o, p) /\ (p = "input" => UNCHANGED <<mem, store>>)
  BY DEF MakeInput
<1>8. LaunchFacts(i, o)'
  <2>1. pc'[i][o] = p
    BY <1>7 DEF IInv, TypeOK, Goto
  <2> QED
    BY <1>4, <1>5, <1>7, <2>1 DEF LaunchFacts, LaunchPcs, store
<1>9. p \in Pcs /\ pc[i][o] # "spawned"
  BY <1>4 DEF Pcs
<1>10. CASE UNCHANGED <<mem, store>>
  BY <1>1, <1>3, <1>4, <1>6, <1>7, <1>8, <1>9, <1>10, StillStep, QuietWorker
<1>11. CASE EmptyStep(i)
  BY <1>2, <1>3, <1>4, <1>5, <1>6, <1>7, <1>8, <1>9, <1>11, EmptyWorker
<1> QED
  BY <1>2, <1>10, <1>11

(* Saving the ownership of the FIFO keeps the invariant.                   *)
LEMMA InputPreparedInv ==
  ASSUME IInv, NEW i \in Instances, NEW o \in OpIds, InputPrepared(i, o)
  PROVE  IInv'
<1>1. StoreType /\ WorldType /\ mem[i] \in Instance
  BY DEF IInv, TypeOK, StoreType, WorldType
<1>2. StoreType' /\ (QuietStep(i) \/ EmptyStep(i))
  BY <1>1, InputPreparedStep
<1>3. WorkerStep(i, o)
  BY DEF WorkerStep, LaunchStep
<1>4. live' = live /\ up /\ pc[i][o] = "input" /\ pc[i][o] \in LockedPcs /\ NoSpawn(i)
  BY DEF InputPrepared, LockedPcs, NoSpawn
<1>5. /\ Holds(mem[i]) /\ mem[i].gen \in Gens /\ mem[i].runs[mem[i].gen].stop # "confirmed"
      /\ mem[i].runs[mem[i].gen].spawnAttempted /\ live[i] = {}
  BY <1>4 DEF IInv, Launching, LaunchFacts, LaunchPcs
<1>6. WorldType'
  BY <1>1, <1>5 DEF InputPrepared, WorldType
<1> DEFINE g == mem[i].gen
           x == [mem[i] EXCEPT !.runs[g].input = TRUE]
<1>7. PICK p \in {"abort", "exec"} :
        Goto(i, o, p) /\ (p = "exec" => disk' = mem' /\ mem'[i] = x)
  <2>1. CASE Saved(i, x) /\ Goto(i, o, "exec")
    BY <1>1, <2>1 DEF Saved, StoreSaved, Published, StoreType
  <2>2. CASE Goto(i, o, "abort")
    BY <2>2
  <2> QED
    BY <2>1, <2>2 DEF InputPrepared
<1>8. LaunchFacts(i, o)'
  <2>1. pc'[i][o] = p
    BY <1>7 DEF IInv, TypeOK, Goto
  <2>2. Kept(mem[i], x)
    BY <1>1, RunMarks
  <2>3. x.gen = g /\ x.runs[g].input
    BY <1>1, <1>5 DEF Instance, Run
  <2>4. /\ Holds(x) /\ x.gen \in Gens /\ x.runs[x.gen].stop # "confirmed"
        /\ x.runs[x.gen].spawnAttempted /\ x.runs[x.gen].input
    BY <1>5, <2>2, <2>3 DEF Kept, KeepsRuns
  <2> HIDE DEF x
  <2> QED
    BY <1>4, <1>5, <1>7, <2>1, <2>4 DEF LaunchFacts, LaunchPcs
<1>9. p \in Pcs /\ pc[i][o] # "spawned"
  BY <1>4 DEF Pcs
<1> HIDE DEF x
<1>10. CASE QuietStep(i)
  BY <1>2, <1>3, <1>4, <1>6, <1>7, <1>8, <1>9, <1>10, QuietWorker
<1>11. CASE EmptyStep(i)
  BY <1>2, <1>3, <1>4, <1>5, <1>6, <1>7, <1>8, <1>9, <1>11, EmptyWorker
<1> QED
  BY <1>2, <1>10, <1>11

(* The spawn itself: its intent and its input are already on disk.         *)
LEMMA ExecInv ==
  ASSUME IInv, NEW i \in Instances, NEW o \in OpIds, Exec(i, o)
  PROVE  IInv'
<1> DEFINE g == mem[i].gen
<1>1. StoreType /\ WorldType /\ mem[i] \in Instance
  BY DEF IInv, TypeOK, StoreType, WorldType
<1>2. StoreType' /\ (UNCHANGED <<mem, store>> \/ EmptyStep(i))
  BY <1>1, ReleaseStep
<1>3. WorkerStep(i, o)
  BY DEF WorkerStep, LaunchStep
<1>4. up /\ pc[i][o] = "exec" /\ pc[i][o] \in LockedPcs
  BY DEF Exec, LockedPcs
<1>5. /\ Holds(mem[i]) /\ g \in Gens /\ mem[i].runs[g].stop # "confirmed"
      /\ mem[i].runs[g].spawnAttempted /\ mem[i].runs[g].input
      /\ disk[i] = mem[i] /\ live[i] = {}
  BY <1>4 DEF IInv, Launching, LaunchFacts, LaunchPcs
<1>6. WorldType'
  BY <1>1, <1>5 DEF Exec, WorldType
<1>7. TypeOK' /\ up' = up
  BY <1>2, <1>3, <1>6, WorkerTypes
<1>8. CASE /\ live' = [live EXCEPT ![i] = @ \cup {g}]
           /\ UNCHANGED <<mem, store, fifo>> /\ Goto(i, o, "spawned")
  <2>1. live'[i] = {g} /\ \A j \in Instances : j # i => live'[j] = live[j]
    BY <1>1, <1>5, <1>8 DEF WorldType
  <2>2. mem' = mem /\ disk' = disk
    BY <1>8 DEF store
  <2>3. pc'[i][o] = "spawned" /\ (\A j \in Instances : j # i => pc'[j] = pc[j])
    BY <1>8 DEF IInv, TypeOK, Goto
  <2>4. LaunchFacts(i, o)'
    BY <1>5, <2>2, <2>3 DEF LaunchFacts, LaunchPcs
  <2>5. Exclusive' /\ Launching' /\ DownIsIdle'
    BY <1>4, <1>7, <1>8, <2>4, Moves DEF Pcs
  <2>6. Tracked'
    <3>1. Accounts(mem[i], {g}) /\ Accounts(disk[i], {g})
      BY <1>5 DEF Accounts
    <3>2. \A j \in Instances : /\ Unused(mem[j]) /\ Unused(disk[j])
                               /\ Accounts(disk[j], live'[j]) /\ Accounts(mem[j], live'[j])
      BY <1>4, <2>1, <3>1 DEF IInv, Tracked
    <3> QED
      BY <2>2, <3>2 DEF Tracked, Unused, Accounts, Holds
  <2>7. StoppedHasNone'
    BY <1>7, <2>1, <2>2, <2>3 DEF IInv, StoppedHasNone
  <2> QED
    BY <1>7, <2>5, <2>6, <2>7 DEF IInv
<1>9. CASE InMemory(i, Unspawned(mem[i])) /\ Goto(i, o, "abort") /\ UNCHANGED live
  <2>1. EmptyStep(i)
    BY <1>1, <1>9, UnspawnedKeeps, ReleaseMemory DEF StoreType
  <2>2. NoSpawn(i) /\ live'[i] = {}
    BY <1>5, <1>9 DEF NoSpawn
  <2>3. LaunchFacts(i, o)'
    BY <1>9, AtRest DEF LaunchPcs
  <2> QED
    BY <1>2, <1>3, <1>4, <1>6, <1>9, <2>1, <2>2, <2>3, EmptyWorker DEF Pcs
<1> QED
  BY <1>8, <1>9 DEF Exec

(* Recording the identity keeps the invariant.                             *)
LEMMA SpawnedInv ==
  ASSUME IInv, NEW i \in Instances, NEW o \in OpIds, Spawned(i, o)
  PROVE  IInv'
<1>1. StoreType /\ WorldType /\ mem[i] \in Instance
  BY DEF IInv, TypeOK, StoreType, WorldType
<1>2. StoreType' /\ QuietStep(i)
  BY <1>1, SpawnedQuiet
<1>3. WorkerStep(i, o)
  BY DEF WorkerStep, LaunchStep
<1>4. UNCHANGED world /\ up /\ pc[i][o] = "spawned" /\ pc[i][o] \in LockedPcs
  BY DEF Spawned, LockedPcs
<1>5. WorldType' /\ live' = live
  BY <1>1, <1>4 DEF WorldType, world
<1> DEFINE x == [mem[i] EXCEPT !.process = "running", !.room = "loading", !.err = FALSE,
                               !.runs[mem[i].gen].identity = "full"]
           y == AtPhase(x, o, "observing")
<1>6. SaveOrFail(i, o, y, "observe")
  BY DEF Spawned
<1>7. y.process = "running" /\ FailedSave(y, o).process = "running"
  BY <1>1 DEF Instance, AtPhase, FailedSave, EndOp
<1> HIDE DEF y
<1>8. mem'[i].process # "stopped"
  BY <1>1, <1>6, <1>7 DEF SaveOrFail, Saved, StoreSaved, Published, NotSaved, Rejected, Faulted,
                          StoreType
<1>9. PICK p \in {"observe", "exit"} : Goto(i, o, p)
  BY <1>6 DEF SaveOrFail
<1>10. LaunchFacts(i, o)'
  BY <1>9, AtRest DEF LaunchPcs
<1>11. p \in Pcs
  BY DEF Pcs
<1> QED
  BY <1>2, <1>3, <1>4, <1>5, <1>8, <1>9, <1>10, <1>11, QuietWorker

(* A rollback keeps the invariant.                                         *)
LEMMA RollbackInv ==
  ASSUME IInv, NEW i \in Instances, NEW o \in OpIds, Rollback(i, o)
  PROVE  IInv'
<1>1. StoreType /\ WorldType /\ mem[i] \in Instance
  BY DEF IInv, TypeOK, StoreType, WorldType
<1>2. /\ StoreType'
      /\ \/ QuietStep(i) /\ mem'[i].process = "unknown" /\ live' = live
         \/ EmptyStep(i) /\ live' = [live EXCEPT ![i] = @ \ {mem[i].gen}]
  BY <1>1, RollbackStep
<1>3. WorkerStep(i, o)
  BY DEF WorkerStep, LaunchStep
<1>4. up /\ Goto(i, o, "abort") /\ pc[i][o] \in LockedPcs
  BY DEF Rollback, LockedPcs
<1>5. live[i] \subseteq {mem[i].gen}
  BY <1>4 DEF IInv, Tracked, Accounts
<1>6. WorldType'
  BY <1>1 DEF Rollback, WorldType
<1>7. LaunchFacts(i, o)'
  BY <1>4, AtRest DEF LaunchPcs
<1>8. CASE QuietStep(i) /\ mem'[i].process = "unknown" /\ live' = live
  BY <1>2, <1>3, <1>4, <1>6, <1>7, <1>8, QuietWorker DEF Pcs
<1>9. CASE EmptyStep(i) /\ live' = [live EXCEPT ![i] = @ \ {mem[i].gen}]
  <2>1. NoSpawn(i) /\ live'[i] = {}
    BY <1>1, <1>5, <1>9 DEF NoSpawn, WorldType
  <2> QED
    BY <1>2, <1>3, <1>4, <1>6, <1>7, <1>9, <2>1, EmptyWorker DEF Pcs
<1> QED
  BY <1>2, <1>8, <1>9

(* The end of a stop keeps the invariant.                                  *)
LEMMA FinishStopInv ==
  ASSUME IInv, NEW i \in Instances, NEW o \in OpIds, FinishStop(i, o)
  PROVE  IInv'
<1>1. StoreType /\ WorldType
  BY DEF IInv, TypeOK, StoreType, WorldType
<1>2. StoreType' /\ EmptyStep(i)
  BY <1>1, FinishStopStep
<1>3. WorkerStep(i, o)
  BY DEF WorkerStep, StopStep
<1>4. UNCHANGED world /\ up /\ Goto(i, o, "exit") /\ pc[i][o] = "cleanup"
  BY DEF FinishStop
<1>5. WorldType' /\ live' = live /\ NoSpawn(i)
  BY <1>1, <1>4 DEF WorldType, world, NoSpawn
<1>6. live[i] = {}
  BY <1>4 DEF IInv, Launching, LaunchFacts
<1>7. LaunchFacts(i, o)'
  BY <1>4, AtRest DEF LaunchPcs
<1> QED
  BY <1>2, <1>3, <1>4, <1>5, <1>6, <1>7, EmptyWorker DEF LockedPcs, Pcs

(* The requests, the observations of the watch goroutine and the history.  *)
LEMMA OutsideInv ==
  ASSUME IInv, Free, up' = up, TypeOK', NEW i \in Instances, live' = live,
         QuietStep(i) \/ (EmptyStep(i) /\ live[i] = {}),
         NEW o \in OpIds, NEW q \in {"start", "wait"}, Goto(i, o, q) \/ pc' = pc
  PROVE  IInv'
<1>1. up /\ NoSpawn(i)
  BY DEF Free, NoSpawn
<1>2. PICK p \in Pcs : Goto(i, o, p) /\ p \notin LockedPcs
  <2>1. pc' = pc => Goto(i, o, pc[i][o]) /\ pc[i][o] \in Pcs /\ pc[i][o] \notin LockedPcs
    BY DEF Goto, Free, IInv, TypeOK
  <2>2. q \in Pcs /\ q \notin LockedPcs
    BY DEF Pcs, LockedPcs
  <2> QED
    BY <2>1, <2>2
<1>3. LaunchFacts(i, o)'
  BY <1>2, AtRest DEF LaunchPcs, LockedPcs
<1>4. Exclusive' /\ Launching' /\ DownIsIdle'
  BY <1>1, <1>2, <1>3, Moves
<1>5. pc[i][o] # "spawned" /\ \A j \in Instances : j # i => pc'[j] = pc[j]
  BY <1>2 DEF Free, LockedPcs, Goto, IInv, TypeOK
<1>6. CASE QuietStep(i)
  BY <1>1, <1>2, <1>4, <1>5, <1>6, StoppedQuiet, TrackedQuiet DEF IInv
<1>7. CASE EmptyStep(i) /\ live[i] = {}
  BY <1>1, <1>4, <1>5, <1>7, StoppedEmpty, TrackedEmpty DEF IInv
<1> QED
  BY <1>6, <1>7

(* A request of a client keeps the invariant.                              *)
LEMMA RequestInv ==
  ASSUME IInv, NEW i \in Instances, Request(i)
  PROVE  IInv'
<1>1. StoreType /\ WorkersType /\ WorldType /\ LifeType /\ mem[i] \in Instance
  BY TypeParts DEF IInv, StoreType
<1>2. 1 \in OpIds /\ 1 \in 0..MaxOps /\ 0 \in 0..MaxOps
  BY BoundsAssumption DEF OpIds
<1>3. ASSUME NEW k \in Keys, NEW p \in Ports, Create(i, k, p)
      PROVE  IInv'
  <2>1. StoreType' /\ EmptyStep(i)
    BY <1>1, <1>3, CreateStep
  <2>2. live[i] = {}
    <3>1. ~Holds(disk[i])
      BY <1>3 DEF Create, Fresh, Exists, Holds
    <3> QED
      BY <3>1 DEF IInv, Tracked, Accounts
  <2>3. Goto(i, 1, "start") \/ pc' = pc
    BY <1>3 DEF Create
  <2>4. /\ Free /\ UNCHANGED <<world, life, pruned, cancelled, pred>>
        /\ reg' \in [Instances -> 0..MaxOps] /\ told' \in [Instances -> 0..MaxOps]
    BY <1>1, <1>2, <1>3 DEF Create, WorkersType, LifeType
  <2>5. pc' \in [Instances -> [OpIds -> Pcs]]
    BY <1>1, <1>2, <2>3, GotoType DEF WorkersType, Pcs
  <2>6. TypeOK' /\ up' = up /\ live' = live
    BY <1>1, <2>1, <2>4, <2>5 DEF TypeOK, StoreType, WorkersType, WorldType, LifeType, world, life
  <2> QED
    BY <1>2, <2>1, <2>2, <2>3, <2>4, <2>6, OutsideInv
<1>4. CASE Replay(i)
  <2>1. StoreType' /\ QuietStep(i)
    BY <1>1, <1>4, StillStep DEF Replay
  <2>2. Goto(i, 1, "start") \/ pc' = pc
    BY <1>4 DEF Replay
  <2>3. /\ Free /\ UNCHANGED <<world, life, pruned, cancelled, pred>>
        /\ reg' \in [Instances -> 0..MaxOps] /\ told' \in [Instances -> 0..MaxOps]
    BY <1>1, <1>2, <1>4 DEF Replay, WorkersType, LifeType
  <2>4. pc' \in [Instances -> [OpIds -> Pcs]]
    BY <1>1, <1>2, <2>2, GotoType DEF WorkersType, Pcs
  <2>5. TypeOK' /\ up' = up /\ live' = live
    BY <1>1, <2>1, <2>3, <2>4 DEF TypeOK, StoreType, WorkersType, WorldType, LifeType, world, life
  <2> QED
    BY <1>2, <2>1, <2>2, <2>3, <2>5, OutsideInv
<1>5. ASSUME NEW kind \in {"stop", "restart"}, Change(i, kind)
      PROVE  IInv'
  <2> DEFINE o == mem[i].nops + 1
  <2>1. StoreType' /\ QuietStep(i)
    BY <1>1, <1>5, ChangeStep
  <2>2. o \in OpIds /\ o \in 0..MaxOps /\ reg[i] \in 0..MaxOps
    BY <1>1, <1>5, BoundsAssumption DEF Change, Instance, OpIds, WorkersType
  <2>3. Goto(i, o, "wait") \/ pc' = pc
    BY <1>5 DEF Change
  <2>4. cancelled' \in [Instances -> SUBSET OpIds]
    <3>1. reg[i] = 0 \/ reg[i] \in OpIds
      BY <2>2, BoundsAssumption DEF OpIds
    <3>2. cancelled' = [cancelled EXCEPT ![i] = IF reg[i] = 0 THEN @ ELSE @ \cup {reg[i]}]
      BY <1>5 DEF Change
    <3> QED
      BY <1>1, <3>1, <3>2 DEF WorkersType
  <2>5. \/ /\ pred' = [pred EXCEPT ![i][o] = reg[i]]
           /\ reg' = [reg EXCEPT ![i] = o]
           /\ told' = [told EXCEPT ![i] = o]
        \/ UNCHANGED <<pred, reg, told>>
    BY <1>5 DEF Change
  <2>6. Free /\ UNCHANGED <<world, life, pruned>>
    BY <1>5 DEF Change
  <2> HIDE DEF o
  <2>7. /\ pred' \in [Instances -> [OpIds -> 0..MaxOps]]
        /\ reg' \in [Instances -> 0..MaxOps] /\ told' \in [Instances -> 0..MaxOps]
    <3>1. CASE UNCHANGED <<pred, reg, told>>
      BY <1>1, <3>1 DEF WorkersType, LifeType
    <3>2. CASE /\ pred' = [pred EXCEPT ![i][o] = reg[i]]
               /\ reg' = [reg EXCEPT ![i] = o]
               /\ told' = [told EXCEPT ![i] = o]
      <4>1. [pred[i] EXCEPT ![o] = reg[i]] \in [OpIds -> 0..MaxOps]
        BY <1>1, <2>2 DEF WorkersType
      <4> QED
        BY <1>1, <2>2, <3>2, <4>1 DEF WorkersType, LifeType
    <3> QED
      BY <2>5, <3>1, <3>2
  <2>8. pc' \in [Instances -> [OpIds -> Pcs]]
    BY <1>1, <2>2, <2>3, GotoType DEF WorkersType, Pcs
  <2>9. TypeOK' /\ up' = up /\ live' = live
    BY <1>1, <2>1, <2>4, <2>6, <2>7, <2>8
       DEF TypeOK, StoreType, WorkersType, WorldType, LifeType, world, life
  <2> QED
    BY <2>1, <2>2, <2>3, <2>6, <2>9, OutsideInv
<1> QED
  BY <1>3, <1>4, <1>5 DEF Request, Stop, Restart

(* watch keeps the invariant.                                              *)
LEMMA WatchInv ==
  ASSUME IInv, NEW i \in Instances, NEW v \in Verdicts, Watch(i, v)
  PROVE  IInv'
<1>1. StoreType /\ WorkersType /\ WorldType /\ LifeType
  BY TypeParts DEF IInv
<1>2. StoreType' /\ (QuietStep(i) \/ (EmptyStep(i) /\ Vacant(i)))
  BY <1>1, WatchStep
<1>3. Free /\ up /\ UNCHANGED <<workers, world, life, history>>
  BY DEF Watch, Free
<1>4. TypeOK' /\ up' = up /\ live' = live /\ pc' = pc
  BY <1>1, <1>2, <1>3 DEF TypeOK, StoreType, WorkersType, WorldType, LifeType,
                          workers, world, life, history
<1>5. Vacant(i) => live[i] = {}
  BY <1>3, VacantHasNone
<1>6. 1 \in OpIds
  BY BoundsAssumption DEF OpIds
<1> QED
  BY <1>2, <1>3, <1>4, <1>5, <1>6, OutsideInv

(* Pruning a history keeps the invariant.                                  *)
LEMMA PruneInv ==
  ASSUME IInv, NEW i \in Instances, Prune(i)
  PROVE  IInv'
<1>1. StoreType /\ WorkersType /\ WorldType /\ LifeType
  BY TypeParts DEF IInv
<1>2. StoreType' /\ EmptyStep(i)
  BY <1>1, PruneStep
<1>3. Free /\ up /\ UNCHANGED <<workers, world, life, told>> /\ pruned' \in SUBSET Instances
  BY <1>1 DEF Prune, Free, LifeType
<1>4. TypeOK' /\ up' = up /\ live' = live /\ pc' = pc
  BY <1>1, <1>2, <1>3 DEF TypeOK, StoreType, WorkersType, WorldType, LifeType,
                          workers, world, life
<1>5. live[i] = {}
  <2>1. ~Holds(mem[i])
    BY DEF Prune, Holds
  <2> QED
    BY <1>3, <2>1 DEF IInv, Tracked, Accounts
<1>6. 1 \in OpIds
  BY BoundsAssumption DEF OpIds
<1> QED
  BY <1>2, <1>3, <1>4, <1>5, <1>6, OutsideInv

(* The manager process and the world.                                      *)
LEMMA CloseInv == ASSUME IInv, Close PROVE IInv'
<1>1. /\ UNCHANGED <<mem, disk, wedged, faults, pc, cancelled, pred, reg, live, fifo, cfg,
                      up, told, pruned>>
      /\ closed' = TRUE /\ crashes' \in Nat
  BY DEF Close, IInv, TypeOK, store, workers, world, history
<1>2. TypeOK'
  BY <1>1 DEF IInv, TypeOK
<1>3. Exclusive' /\ Launching' /\ DownIsIdle' /\ StoppedHasNone'
  BY <1>1 DEF IInv, Exclusive, Launching, LaunchFacts, DownIsIdle, StoppedHasNone
<1>4. Tracked'
  BY <1>1 DEF IInv, Tracked, Unused, Accounts, Holds
<1> QED
  BY <1>2, <1>3, <1>4 DEF IInv

(* The exit of a game keeps the invariant.                                 *)
LEMMA ExitInv ==
  ASSUME IInv, NEW g \in Gens, NEW i \in Instances, GameExits(i, g)
  PROVE  IInv'
<1>1. /\ UNCHANGED <<mem, store, workers, fifo, cfg, life, history>>
      /\ live' = [live EXCEPT ![i] = @ \ {g}]
  BY DEF GameExits
<1>2. live' \in [Instances -> SUBSET Gens] /\ \A j \in Instances : live'[j] \subseteq live[j]
  BY <1>1 DEF IInv, TypeOK
<1>3. UNCHANGED <<mem, disk, wedged, faults, pc, cancelled, pred, reg, fifo, cfg,
                  up, closed, crashes, told, pruned>>
  BY <1>1 DEF store, workers, life, history
<1>4. TypeOK'
  BY <1>2, <1>3 DEF IInv, TypeOK
<1>5. Exclusive' /\ DownIsIdle'
  BY <1>3 DEF IInv, Exclusive, DownIsIdle
<1>6. Launching'
  <2>1. ASSUME NEW j \in Instances, NEW o \in OpIds
        PROVE  LaunchFacts(j, o)'
    BY <1>2, <1>3 DEF IInv, Launching, LaunchFacts
  <2> QED
    BY <2>1 DEF Launching
<1>7. Tracked'
  <2>1. \A j \in Instances : /\ Accounts(disk[j], live'[j])
                             /\ up => Accounts(mem[j], live'[j])
    BY <1>2, FewerAccounted DEF IInv, Tracked
  <2> QED
    BY <1>3, <2>1 DEF IInv, Tracked, Unused, Accounts, Holds
<1>8. StoppedHasNone'
  BY <1>2, <1>3 DEF IInv, StoppedHasNone
<1> QED
  BY <1>4, <1>5, <1>6, <1>7, <1>8 DEF IInv

(* The end of the manager keeps the invariant.                             *)
LEMMA DownInv == ASSUME IInv, Down, crashes' \in Nat PROVE IInv'
<1>1. /\ StoreType' /\ WorkersType' /\ WorldType'
      /\ up' = FALSE /\ closed' = FALSE /\ told' = told /\ pruned' = pruned
      /\ disk' = disk /\ mem' = [i \in Instances |-> Absent] /\ live' = live
  BY DownType DEF IInv
<1>2. pc' = [i \in Instances |-> [o \in OpIds |-> "none"]]
  BY DEF Down
<1>3. TypeOK'
  BY <1>1 DEF IInv, TypeOK, StoreType, WorkersType, WorldType
<1>4. Exclusive' /\ Launching' /\ DownIsIdle' /\ StoppedHasNone'
  BY <1>1, <1>2 DEF Exclusive, Launching, LaunchFacts, DownIsIdle, StoppedHasNone, LockedPcs,
                    LaunchPcs
<1>5. Tracked'
  BY <1>1, AbsentType DEF IInv, Tracked, Unused, Accounts, Holds
<1> QED
  BY <1>3, <1>4, <1>5 DEF IInv

(* Recovery releases a record only when its process was found to be gone.  *)
LEMMA RecoveryTracks ==
  ASSUME IInv, NEW v \in Findings(disk), NEW i \in Instances
  PROVE  LET r == Recovery(v)[i]
         IN  r \in Instance /\ Unused(r) /\ Accounts(r, live[i])
             /\ (r.process = "stopped" => live[i] = {})
<1> DEFINE x == disk[i]
           y == Located(x, v[i])
           r == Recovered(x, v[i])
<1>1. /\ x \in Instance /\ Unused(x) /\ Accounts(x, live[i]) /\ live[i] \in SUBSET Gens
      /\ v[i] \in Searches
      /\ v[i] \in {"gone", "exited"} => x.gen \notin live[i]
  BY DEF IInv, TypeOK, Tracked, Findings
<1>2. /\ y \in Instance /\ y.gen = x.gen /\ y.lifecycle = x.lifecycle
      /\ Unused(y)
      /\ v[i] # "gone" => \A g \in Gens :
            /\ y.runs[g].stop = x.runs[g].stop
            /\ y.runs[g].input = x.runs[g].input
            /\ y.runs[g].spawnAttempted = x.runs[g].spawnAttempted
      /\ v[i] \notin {"gone", "exited"} /\ Traceable(x) => y.process # "stopped"
  BY <1>1, LocatedType
<1>3. \/ ~Holds(x) /\ r = x
      \/ /\ Holds(x) /\ Holds(r) /\ r \in Instance /\ SameProcess(y, r)
  BY <1>1, RecoveredCases
<1>4. v[i] \in {"gone", "exited"} => live[i] = {}
  BY <1>1 DEF Accounts
<1>5. live[i] # {} => Traceable(x) /\ Holds(x)
  BY <1>1, BoundsAssumption DEF Accounts, Traceable, Unconfirmed, Gens
<1>6. Recovery(v)[i] = r
  BY DEF Recovery
<1> HIDE DEF x, y, r
<1>7. CASE ~Holds(x) /\ r = x
  BY <1>1, <1>5, <1>6, <1>7
<1>8. CASE Holds(x) /\ Holds(r) /\ r \in Instance /\ SameProcess(y, r)
  <2>1. Unused(r)
    BY <1>2, <1>8 DEF Unused, SameProcess
  <2>2. Accounts(r, live[i])
    <3>1. ASSUME NEW g \in live[i]
          PROVE  /\ r.gen = g /\ r.runs[g].spawnAttempted /\ r.runs[g].input
                 /\ r.runs[g].stop # "confirmed"
      BY <1>1, <1>2, <1>4, <1>8, <3>1 DEF Accounts, SameProcess
    <3> QED
      BY <1>8, <3>1 DEF Accounts
  <2>3. r.process = "stopped" => live[i] = {}
    BY <1>2, <1>4, <1>5, <1>8 DEF SameProcess
  <2> QED
    BY <1>6, <1>8, <2>1, <2>2, <2>3
<1> QED
  BY <1>3, <1>7, <1>8

(* Reopen keeps the invariant: recovery calls a process stopped only if    *)
(* it is.                                                                  *)
LEMMA ReopenInv == ASSUME IInv, Reopen PROVE IInv'
<1>1. TypeOK' /\ ~up
  BY ReopenType DEF IInv, Reopen
<1>2. PICK v \in Findings(disk) :
        LET m == Recovery(v) IN
         \/ /\ up' = TRUE /\ mem' = m /\ disk' = m
            /\ pc' = [i \in Instances |-> [o \in OpIds |->
                        IF ~(Resumes(m[i]) /\ o = m[i].nops) THEN "none"
                        ELSE IF m[i].ops[o].kind = "stop" THEN "wait" ELSE "observe"]]
         \/ disk' \in {disk, m} /\ UNCHANGED <<up, mem, pc>>
  BY DEF Reopen
<1> DEFINE m == Recovery(v)
<1>3. live' = live
  BY DEF Reopen, world
<1>4. \A i \in Instances : /\ Unused(m[i]) /\ Accounts(m[i], live[i])
                           /\ m[i].process = "stopped" => live[i] = {}
  BY RecoveryTracks
<1>5. \A i \in Instances, o \in OpIds : pc[i][o] = "none"
  BY <1>1 DEF IInv, DownIsIdle
<1> HIDE DEF m
<1>6. CASE /\ up' = TRUE /\ mem' = m /\ disk' = m
           /\ pc' = [i \in Instances |-> [o \in OpIds |->
                        IF ~(Resumes(m[i]) /\ o = m[i].nops) THEN "none"
                        ELSE IF m[i].ops[o].kind = "stop" THEN "wait" ELSE "observe"]]
  <2>1. \A i \in Instances, o \in OpIds : pc'[i][o] \in {"none", "wait", "observe"}
    BY <1>6
  <2>2. Exclusive' /\ Launching' /\ DownIsIdle'
    BY <1>6, <2>1 DEF Exclusive, Launching, LaunchFacts, DownIsIdle, LockedPcs, LaunchPcs
  <2>3. Tracked'
    BY <1>3, <1>4, <1>6 DEF Tracked, Unused, Accounts, Holds
  <2>4. StoppedHasNone'
    BY <1>3, <1>4, <1>6 DEF StoppedHasNone
  <2> QED
    BY <1>1, <2>2, <2>3, <2>4 DEF IInv
<1>7. CASE disk' \in {disk, m} /\ UNCHANGED <<up, mem, pc>>
  <2>1. Exclusive' /\ Launching' /\ DownIsIdle'
    BY <1>5, <1>7 DEF IInv, Exclusive, Launching, LaunchFacts, DownIsIdle, LockedPcs, LaunchPcs
  <2>2. Tracked'
    BY <1>1, <1>3, <1>4, <1>7 DEF IInv, Tracked, Unused, Accounts, Holds
  <2>3. StoppedHasNone'
    BY <1>1, <1>7 DEF StoppedHasNone
  <2> QED
    BY <1>1, <2>1, <2>2, <2>3 DEF IInv
<1> QED
  BY <1>2, <1>6, <1>7 DEF m

----------------------------------------------------------------------------
(* The theorems. *)

(* The invariant holds initially.                                          *)
LEMMA InitInv == ASSUME Init PROVE IInv
<1>1. Absent \in Instance /\ "none" \in Pcs /\ 0 \in 0..MaxOps
  BY AbsentType, BoundsAssumption DEF Pcs
<1>2. TypeOK
  BY <1>1 DEF Init, TypeOK
<1>3. Exclusive /\ Launching /\ DownIsIdle /\ StoppedHasNone
  BY DEF Init, Exclusive, Launching, LaunchFacts, DownIsIdle, StoppedHasNone, LockedPcs, LaunchPcs
<1>4. Tracked
  BY AbsentType DEF Init, Tracked, Accounts
<1> QED
  BY <1>2, <1>3, <1>4 DEF IInv

(* Every step of a worker keeps the invariant.                             *)
LEMMA WorkerInv ==
  ASSUME IInv, NEW i \in Instances, NEW o \in OpIds, WorkerStep(i, o)
  PROVE  IInv'
<1>1. "gone" \in Verdicts
  BY DEF Verdicts
<1>2. CASE LaunchStep(i, o)
  BY <1>2, QuietInv, PrepareInv, FilesInv, IntendSpawnInv, MakeInputInv, InputPreparedInv,
     ExecInv, SpawnedInv, RollbackInv DEF LaunchStep
<1>3. CASE StopStep(i, o)
  BY <1>1, <1>3, QuietInv, ObserveInv, FinishStopInv DEF StopStep
<1>4. CASE ~LaunchStep(i, o) /\ ~StopStep(i, o)
  BY <1>1, <1>4, QuietInv, LeaveInv, ObserveInv DEF WorkerStep
<1> QED
  BY <1>2, <1>3, <1>4

(* Every step keeps the invariant.                                         *)
LEMMA NextInv == ASSUME IInv, [Next]_vars PROVE IInv'
<1>1. ASSUME NEW i \in Instances, NEW o \in OpIds, WorkerStep(i, o)
      PROVE  IInv'
  BY <1>1, WorkerInv
<1>2. ASSUME NEW i \in Instances, Request(i) \/ Prune(i)
      PROVE  IInv'
  BY <1>2, RequestInv, PruneInv
<1>3. ASSUME NEW i \in Instances, NEW v \in Verdicts, Watch(i, v)
      PROVE  IInv'
  BY <1>3, WatchInv
<1>4. ASSUME NEW i \in Instances, NEW g \in Gens, GameExits(i, g)
      PROVE  IInv'
  BY <1>4, ExitInv
<1>5. CASE Close
  BY <1>5, CloseInv
<1>6. CASE Exited \/ Crash
  <2>1. Down /\ crashes' \in Nat
    BY <1>6 DEF Exited, Crash, IInv, TypeOK
  <2> QED
    BY <2>1, DownInv
<1>7. CASE Reopen
  BY <1>7, ReopenInv
<1>8. CASE UNCHANGED vars
  BY <1>8 DEF vars, store, workers, world, life, history, IInv, TypeOK, Exclusive, Launching,
              LaunchFacts, DownIsIdle, Tracked, StoppedHasNone, Unused, Accounts, Holds
<1> QED
  BY <1>1, <1>2, <1>3, <1>4, <1>5, <1>6, <1>7, <1>8 DEF Next

(* The inductive invariant holds in every state of every behaviour.        *)
THEOREM Invariance == Spec => []IInv
  BY InitInv, NextInv, PTL DEF Spec

(* Every variable keeps its type: no step of a handler, a worker or the    *)
(* recovery leaves the states the records can hold (records.go, manager.go)*)
THEOREM TypeCorrect == Spec => []TypeOK
<1>1. IInv => TypeOK
  BY DEF IInv
<1> QED
  BY <1>1, Invariance, PTL

(* launch, stopOrRestart and recover never let two game processes of one   *)
(* instance exist, whatever crashes, faults and exits they meet.           *)
THEOREM OneProcess == Spec => []AtMostOneProcess
<1>1. ASSUME IInv PROVE AtMostOneProcess
  <2>1. ASSUME NEW i \in Instances PROVE Cardinality(live[i]) <= 1
    <3>1. live[i] \subseteq {disk[i].gen}
      BY <1>1 DEF IInv, Tracked, Accounts
    <3>2. live[i] = {} \/ live[i] = {disk[i].gen}
      BY <3>1
    <3>3. CASE live[i] = {}
      <4>1. Cardinality({}) = 0
        BY FS_EmptySet
      <4> QED
        BY <3>3, <4>1
    <3>4. CASE live[i] = {disk[i].gen}
      <4>1. Cardinality({disk[i].gen}) = 1
        BY FS_Singleton
      <4> QED
        BY <3>4, <4>1
    <3> QED
      BY <3>2, <3>3, <3>4
  <2> QED
    BY <2>1 DEF AtMostOneProcess
<1> QED
  BY <1>1, Invariance, PTL

(* A game process is always traceable from the state file: InputPrepared   *)
(* and the saves before it are on disk before the child exists.            *)
THEOREM AlwaysTraceable == Spec => []SpawnIsTraceable
<1>1. IInv => SpawnIsTraceable
  BY DEF IInv, Tracked, Accounts, SpawnIsTraceable
<1> QED
  BY <1>1, Invariance, PTL

(* "stopped" and "confirmed" are only recorded of processes that are gone  *)
(* (engine.Stop, rollbackStart, observe, recover).                         *)
THEOREM StoppedTruthful == Spec => []StoppedIsTrue
<1>1. ASSUME IInv PROVE StoppedIsTrue
  <2>1. ASSUME NEW i \in Instances, NEW g \in live[i]
        PROVE  mem[i].runs[g].stop # "confirmed"
    <3>1. CASE up
      BY <1>1, <2>1, <3>1 DEF IInv, Tracked, Accounts
    <3>2. CASE ~up
      <4>1. mem[i] = Absent /\ g \in Gens
        BY <1>1, <2>1, <3>2 DEF IInv, DownIsIdle, TypeOK
      <4> QED
        BY <4>1 DEF Absent, NewRun
    <3> QED
      BY <3>1, <3>2
  <2> QED
    BY <1>1, <2>1 DEF IInv, StoppedHasNone, StoppedIsTrue
<1> QED
  BY <1>1, Invariance, PTL

----------------------------------------------------------------------------
(* The state file. *)

(* A step writes no state file, or one that validateState accepts.         *)
WritesValid == disk' = disk \/ Valid(disk')

(* Every way of saving checks what it writes.                              *)
LEMMA SavesValid ==
  ASSUME NEW i \in Instances, NEW x, NEW y,
         \/ InMemory(i, x) \/ Saved(i, x) \/ StoreSaved(i, x)
         \/ NotSaved(i, x, y) \/ StoreNotSaved(i, x, y)
         \/ Rejected(i, x, y) \/ Faulted(i, x, y)
  PROVE  WritesValid
  BY DEF WritesValid, InMemory, store, Saved, StoreSaved, Published, NotSaved,
         StoreNotSaved, Rejected, Faulted

(* So do the ways of a worker.                                             *)
LEMMA WorkerSavesValid ==
  ASSUME NEW i \in Instances, NEW o, NEW x, NEW y, NEW next,
         \/ SaveOrFail(i, o, x, next) \/ StoreOrFail(i, o, x, y, next)
         \/ Finishes(i, o, x, y) \/ Fails(i, o) \/ CleanupFails(i, o)
         \/ UNCHANGED <<mem, store>>
  PROVE  WritesValid
<1>1. UNCHANGED <<mem, store>> => WritesValid
  BY DEF WritesValid, store
<1> QED
  BY <1>1, SavesValid DEF SaveOrFail, StoreOrFail, Finishes, Fails, CleanupFails

(* Every step of a worker writes what validateState accepts, or nothing.   *)
LEMMA WorkerWrites ==
  ASSUME NEW i \in Instances, NEW o \in OpIds, WorkerStep(i, o)
  PROVE  WritesValid
<1>1. CASE LaunchStep(i, o)
  <2>1. CASE Launch(i, o) \/ PrepareRun(i, o) \/ PrepareFiles(i, o) \/ RunPrepared(i, o)
    BY <2>1, WorkerSavesValid, SavesValid DEF Launch, PrepareRun, PrepareFiles, RunPrepared
  <2>2. CASE IntendSpawn(i, o) \/ MakeInput(i, o) \/ InputPrepared(i, o)
    BY <2>2, WorkerSavesValid, SavesValid DEF IntendSpawn, MakeInput, InputPrepared
  <2>3. CASE Exec(i, o) \/ Spawned(i, o) \/ Rollback(i, o)
    BY <2>3, WorkerSavesValid, SavesValid DEF Exec, Spawned, Rollback
  <2> QED
    BY <1>1, <2>1, <2>2, <2>3 DEF LaunchStep
<1>2. CASE StopStep(i, o)
  <2>1. CASE BeginStop(i, o) \/ (\E c \in BOOLEAN : Stopped(i, o, c)) \/ BeginCleanup(i, o)
    BY <2>1, WorkerSavesValid, SavesValid DEF BeginStop, Stopped, BeginCleanup
  <2>2. CASE CleanInput(i, o) \/ CleanupRun(i, o)
    BY <2>2, WorkerSavesValid, SavesValid DEF CleanInput, CleanupRun
  <2>3. CASE FinishStop(i, o) \/ Relaunch(i, o)
    BY <2>3, WorkerSavesValid, SavesValid DEF FinishStop, Relaunch
  <2> QED
    BY <1>2, <2>1, <2>2, <2>3 DEF StopStep
<1>3. CASE \/ \E v \in Verdicts, late \in BOOLEAN : Tick(i, o, v, late)
           \/ \E c \in BOOLEAN : TimedOut(i, o, c)
  BY <1>3, WorkerSavesValid, SavesValid DEF Tick, TimedOut
<1>4. CASE Leave(i, o) \/ Abort(i, o) \/ FinishWorker(i, o)
  BY <1>4, WorkerSavesValid DEF Leave, Abort, FinishWorker
<1> QED
  BY <1>1, <1>2, <1>3, <1>4 DEF WorkerStep

(* What recovery makes of a valid state file is valid, whatever it finds.  *)
LEMMA RecoveryValid ==
  ASSUME disk \in [Instances -> Instance], Valid(disk), NEW v \in Findings(disk)
  PROVE  Valid(Recovery(v))
<1> DEFINE m == Recovery(v)
<1>1. DOMAIN m = Instances /\ DOMAIN disk = Instances
  BY DEF Recovery
<1>2. ASSUME NEW i \in Instances
      PROVE  /\ ValidRecord(m[i]) /\ m[i].port = disk[i].port
             /\ Holds(m[i]) <=> Holds(disk[i])
  <2>1. m[i] = Recovered(disk[i], v[i])
    BY DEF Recovery
  <2>2. disk[i] \in Instance /\ ValidRecord(disk[i]) /\ v[i] \in Searches
    BY <1>1 DEF Valid, ValidRecord, Findings
  <2> QED
    BY <2>1, <2>2, RecoveredValid
<1> HIDE DEF m
<1> QED
  BY <1>1, <1>2 DEF Valid, ValidRecord, DistinctPorts, m

(* Every step leaves a valid state file.                                   *)
LEMMA StepWritesValid ==
  ASSUME TypeOK, Valid(disk), [Next]_vars
  PROVE  Valid(disk')
<1>1. ASSUME NEW i \in Instances, Request(i) PROVE WritesValid
  <2>1. ASSUME NEW k \in Keys, NEW p \in Ports, Create(i, k, p) PROVE WritesValid
    BY <2>1, SavesValid DEF Create
  <2>2. CASE Replay(i)
    BY <2>2, WorkerSavesValid DEF Replay
  <2>3. ASSUME NEW kind, Change(i, kind) PROVE WritesValid
    BY <2>3, SavesValid DEF Change
  <2> QED
    BY <1>1, <2>1, <2>2, <2>3 DEF Request, Stop, Restart
<1>2. ASSUME NEW i \in Instances, Prune(i) PROVE WritesValid
  BY <1>2, SavesValid DEF Prune
<1>3. ASSUME NEW i \in Instances, NEW v \in Verdicts, Watch(i, v) PROVE WritesValid
  BY <1>3, SavesValid DEF Watch
<1>4. ASSUME NEW i \in Instances, NEW g \in Gens, GameExits(i, g) PROVE WritesValid
  BY <1>4, WorkerSavesValid DEF GameExits
<1>5. ASSUME Close \/ Exited \/ Crash \/ UNCHANGED vars PROVE WritesValid
  BY <1>5 DEF Close, Exited, Crash, Down, vars, store, WritesValid
<1>6. ASSUME Reopen PROVE WritesValid
  BY <1>6, RecoveryValid DEF Reopen, WritesValid, TypeOK
<1>7. ASSUME NEW i \in Instances, NEW o \in OpIds, WorkerStep(i, o) PROVE WritesValid
  BY <1>7, WorkerWrites
<1>8. WritesValid
  BY <1>1, <1>2, <1>3, <1>4, <1>5, <1>6, <1>7 DEF Next
<1> QED
  BY <1>8 DEF WritesValid

(* The state file is valid in every state: Store.Save validates what it    *)
(* writes, also what earlier failures left in memory, and recovery keeps   *)
(* valid what it takes over (validateState).                               *)
THEOREM FileValid == Spec => []Valid(disk)
<1>1. ASSUME Init PROVE Valid(disk)
  BY <1>1 DEF Init, Valid, DistinctPorts, Absent, Exists, Holds
<1>2. TypeOK /\ Valid(disk) /\ [Next]_vars => Valid(disk)'
  <2>1. Valid(disk') => Valid(disk)'
    BY DEF Valid, DistinctPorts
  <2> QED
    BY <2>1, StepWritesValid
<1> QED
  BY <1>1, <1>2, TypeCorrect, PTL DEF Spec

(* Whatever a crash leaves can be opened again, whatever recovery finds of *)
(* the processes (Open, recover, validateState).                           *)
THEOREM AlwaysReopenable == Spec => []Reopenable
<1>1. TypeOK /\ Valid(disk) => Reopenable
  BY RecoveryValid DEF TypeOK, Reopenable
<1> QED
  BY <1>1, TypeCorrect, FileValid, PTL

(* Two game processes never have the same port: both rooms are held in the *)
(* state file while their processes exist, and validateState keeps held    *)
(* rooms apart (allocatePort, portReserved).                               *)
THEOREM PortsNeverShared == Spec => []PortsExclusive
<1>1. ASSUME IInv, Valid(disk), NEW i \in Instances, NEW j \in Instances,
             i # j, live[i] # {}, live[j] # {}
      PROVE  disk[i].port # disk[j].port
  <2>1. Holds(disk[i]) /\ Holds(disk[j])
    BY <1>1 DEF IInv, Tracked, Accounts
  <2>2. DOMAIN disk = Instances
    BY <1>1 DEF IInv, TypeOK
  <2> QED
    BY <1>1, <2>1, <2>2 DEF Valid, DistinctPorts
<1>2. IInv /\ Valid(disk) => PortsExclusive
  BY <1>1 DEF PortsExclusive
<1> QED
  BY <1>2, Invariance, FileValid, PTL

----------------------------------------------------------------------------
(* No accepted request is lost. *)

(* A step in which the room of instance i, and its operations, last.       *)
LastingStep(i) ==
    /\ \E z, x : RecordStep(i, z, x) /\ Lasts(mem[i], z) /\ Lasts(mem[i], x)
    /\ wedged => wedged'

(* Two changes after each other lose no request either.                    *)
LEMMA LastsTransitive ==
  ASSUME NEW x, NEW y, NEW z, Lasts(x, y), Lasts(y, z)
  PROVE  Lasts(x, z)
  BY DEF Lasts

(* Every room the manager knows is in the state file, unless a write has   *)
(* failed and mutations have stopped.                                      *)
InSync ==
    up /\ ~wedged =>
        \A i \in Instances \ pruned : Exists(mem[i]) => Exists(disk[i])

(* A worker works on a room that exists.                                   *)
WorkersKnown ==
    \A i \in Instances \ pruned, o \in OpIds : pc[i][o] # "none" => Exists(mem[i])

(* Every room has an operation, the one that created it.                   *)
RoomsHaveOps ==
    \A i \in Instances \ pruned : Exists(mem[i]) => mem[i].nops > 0

Durable == AcceptedSurvives /\ InSync /\ WorkersKnown /\ RoomsHaveOps

(* What a lasting step of instance i does, told and pruned unchanged.      *)
LEMMA LastingInv ==
  ASSUME TypeOK, TypeOK', Durable, up, up' = up, NEW i \in Instances, LastingStep(i),
         told' = told, pruned' = pruned,
         i \in pruned \/ Exists(mem[i]), \A j \in Instances : j # i => pc'[j] = pc[j]
  PROVE  Durable'
<1>1. PICK z, x : RecordStep(i, z, x) /\ Lasts(mem[i], z) /\ Lasts(mem[i], x)
  BY DEF LastingStep
<1>2. /\ mem \in [Instances -> Instance] /\ disk \in [Instances -> Instance]
      /\ mem'[i] = z /\ \A j \in Instances : j # i => mem'[j] = mem[j]
      /\ \/ disk' = disk
         \/ disk'[i] = x /\ \A j \in Instances : j # i => disk'[j] = mem[j]
  BY <1>1 DEF TypeOK, RecordStep
<1>3. \A j \in Instances \ pruned : /\ Exists(mem[j]) => Exists(mem'[j])
                                    /\ mem'[j].nops = mem[j].nops
  BY <1>1, <1>2 DEF Lasts
<1>4. \A j \in Instances \ pruned :
         \/ disk'[j] = disk[j]
         \/ (Exists(mem[j]) => Exists(disk'[j])) /\ disk'[j].nops = mem[j].nops
  BY <1>1, <1>2 DEF Lasts
<1>5. AcceptedSurvives'
  BY <1>3, <1>4 DEF Durable, AcceptedSurvives
<1>6. InSync'
  <2>1. ASSUME up', ~wedged', NEW j \in Instances \ pruned', Exists(mem'[j])
        PROVE  Exists(disk'[j])
    <3>1. ~wedged
      BY <2>1 DEF LastingStep
    <3>2. Exists(mem[j])
      BY <1>2, <2>1
    <3>3. Exists(disk[j])
      BY <2>1, <3>1, <3>2 DEF Durable, InSync
    <3> QED
      BY <1>4, <2>1, <3>2, <3>3
  <2> QED
    BY <2>1 DEF InSync
<1>7. WorkersKnown'
  BY <1>2, <1>3 DEF Durable, WorkersKnown
<1>8. RoomsHaveOps'
  <2>1. ASSUME NEW j \in Instances \ pruned', Exists(mem'[j]) PROVE mem'[j].nops > 0
    BY <1>2, <1>3, <2>1 DEF Durable, RoomsHaveOps
  <2> QED
    BY <2>1 DEF RoomsHaveOps
<1> QED
  BY <1>5, <1>6, <1>7, <1>8 DEF Durable

(* Only a worker that has not returned takes a step.                       *)
LEMMA WorkerAtWork ==
  ASSUME NEW i \in Instances, NEW o \in OpIds, WorkerStep(i, o)
  PROVE  pc[i][o] # "none"
<1>1. CASE LaunchStep(i, o)
  BY <1>1 DEF LaunchStep, Launch, PrepareRun, PrepareFiles, RunPrepared, IntendSpawn,
              MakeInput, InputPrepared, Exec, Spawned, Rollback
<1>2. CASE StopStep(i, o)
  BY <1>2 DEF StopStep, BeginStop, Stopped, BeginCleanup, CleanInput, CleanupRun,
              FinishStop, Relaunch
<1>3. ASSUME ~LaunchStep(i, o), ~StopStep(i, o) PROVE pc[i][o] # "none"
  BY <1>3 DEF WorkerStep, Tick, TimedOut, Leave, Abort, FinishWorker
<1> QED
  BY <1>1, <1>2, <1>3

(* A step of a worker.                                                     *)
LEMMA WorkerDurable ==
  ASSUME TypeOK, TypeOK', up, Durable, NEW i \in Instances, NEW o \in OpIds, WorkerStep(i, o)
  PROVE  Durable'
<1>1. StoreType /\ WorkersType
  BY TypeParts
<1>2. /\ \E p \in Pcs : Goto(i, o, p) \/ pc' = pc
      /\ UNCHANGED <<cancelled, pred, life, history>>
  BY <1>1, WorkerGoes
<1>3. up' = up /\ told' = told /\ pruned' = pruned
  BY <1>2 DEF life, history
<1>4. \A j \in Instances : j # i => pc'[j] = pc[j]
  BY <1>1, <1>2 DEF Goto, WorkersType
<1>5. LastingStep(i)
  BY <1>1, WorkerEffects DEF WorkerEffect, Result, LastingStep
<1>6. i \in pruned \/ Exists(mem[i])
  BY WorkerAtWork DEF Durable, WorkersKnown
<1> QED
  BY <1>3, <1>4, <1>5, <1>6, LastingInv

(* An observation by watch.                                                *)
LEMMA WatchDurable ==
  ASSUME TypeOK, TypeOK', up, Durable, NEW i \in Instances, NEW v \in Verdicts, Watch(i, v)
  PROVE  Durable'
<1>1. /\ up' = up /\ told' = told /\ pruned' = pruned /\ pc' = pc
      /\ Exists(mem[i])
  BY DEF Watch, workers, life, history, Holds, Exists
<1>2. StoreType
  BY TypeParts
<1>4. LastingStep(i)
  BY <1>2, WatchEffect DEF Alike, LastingStep
<1> QED
  BY <1>1, <1>4, LastingInv

(* What a saved record of one instance means for those that are not        *)
(* changed.                                                                *)
Others(i) ==
    \A j \in Instances : j # i =>
        /\ mem'[j] = mem[j] /\ told'[j] = told[j] /\ pc'[j] = pc[j]
        /\ disk'[j] = disk[j] \/ disk'[j] = mem[j]
        /\ j \in pruned' <=> j \in pruned

(* A step at one instance loses nothing of the others.                     *)
LEMMA OthersDurable ==
  ASSUME Durable, up, up', NEW i \in Instances, Others(i), wedged => wedged',
         NEW j \in Instances, j # i, j \notin pruned'
  PROVE  /\ told'[j] > 0 => /\ Exists(disk'[j]) /\ disk'[j].nops >= told'[j]
                            /\ Exists(mem'[j]) /\ mem'[j].nops >= told'[j]
         /\ ~wedged' /\ Exists(mem'[j]) => Exists(disk'[j])
         /\ \A o \in OpIds : pc'[j][o] # "none" => Exists(mem'[j])
         /\ Exists(mem'[j]) => mem'[j].nops > 0
<1>1. /\ mem'[j] = mem[j] /\ told'[j] = told[j] /\ pc'[j] = pc[j] /\ j \notin pruned
      /\ disk'[j] = disk[j] \/ disk'[j] = mem[j]
  BY DEF Others
<1> QED
  BY <1>1 DEF Durable, AcceptedSurvives, InSync, WorkersKnown, RoomsHaveOps

(* Durable, from its parts for instance i and for the others.              *)
LEMMA DurableFrom ==
  ASSUME Durable, up, up', NEW i \in Instances, Others(i), wedged => wedged',
         i \notin pruned' =>
           /\ told'[i] > 0 => /\ Exists(disk'[i]) /\ disk'[i].nops >= told'[i]
                              /\ Exists(mem'[i]) /\ mem'[i].nops >= told'[i]
           /\ ~wedged' /\ Exists(mem'[i]) => Exists(disk'[i])
           /\ \A o \in OpIds : pc'[i][o] # "none" => Exists(mem'[i])
           /\ Exists(mem'[i]) => mem'[i].nops > 0
  PROVE  Durable'
<1>1. AcceptedSurvives'
  BY OthersDurable DEF AcceptedSurvives
<1>2. InSync'
  BY OthersDurable DEF InSync
<1>3. WorkersKnown'
  BY OthersDurable DEF WorkersKnown
<1>4. RoomsHaveOps'
  BY OthersDurable DEF RoomsHaveOps
<1> QED
  BY <1>1, <1>2, <1>3, <1>4 DEF Durable

(* A new intention: its identifier is only told once it is in the file.    *)
LEMMA CreateDurable ==
  ASSUME TypeOK, Durable, NEW i \in Instances, NEW k \in Keys, NEW p \in Ports, Create(i, k, p)
  PROVE  Durable'
<1> DEFINE x == NewInstance(k, p)
<1>1. x \in Instance /\ x.nops = 1 /\ Exists(x)
  <2>1. x \in Instance
    BY NewInstanceType
  <2>2. x.nops = 1 /\ x.lifecycle = "active"
    BY DEF NewInstance, Absent
  <2> QED
    BY <2>1, <2>2 DEF Exists
<1> HIDE DEF x
<1>2. /\ up /\ up' = up /\ ~wedged /\ pruned' = pruned /\ told[i] = 0
      /\ ~Exists(mem[i]) /\ mem \in [Instances -> Instance] /\ disk \in [Instances -> Instance]
      /\ pc \in [Instances -> [OpIds -> Pcs]] /\ told \in [Instances -> 0..MaxOps]
  BY DEF Create, Free, Fresh, life, TypeOK
<1>3. i \in pruned \/ \A o \in OpIds : pc[i][o] = "none"
  BY <1>2 DEF Durable, WorkersKnown
<1>4. \/ StoreSaved(i, x) /\ Goto(i, 1, "start") /\ told' = [told EXCEPT ![i] = 1]
      \/ /\ Rejected(i, x, mem[i]) \/ Faulted(i, x, mem[i])
         /\ disk' = disk /\ pc' = pc /\ told' = told
      \/ Faulted(i, x, x) /\ wedged' = TRUE /\ pc' = pc /\ told' = told
  BY DEF Create, x
<1>5. CASE StoreSaved(i, x) /\ Goto(i, 1, "start") /\ told' = [told EXCEPT ![i] = 1]
  <2>1. mem' = [mem EXCEPT ![i] = x] /\ disk' = mem' /\ pc' = [pc EXCEPT ![i][1] = "start"]
    BY <1>5 DEF StoreSaved, Published, Goto
  <2>2. Others(i) /\ mem'[i] = x /\ disk'[i] = x /\ told'[i] = 1
    BY <1>2, <1>5, <2>1 DEF Others
  <2> QED
    BY <1>1, <1>2, <2>2, DurableFrom
<1>6. CASE /\ Rejected(i, x, mem[i]) \/ Faulted(i, x, mem[i])
           /\ disk' = disk /\ pc' = pc /\ told' = told
  <2>1. mem' = [mem EXCEPT ![i] = mem[i]]
    BY <1>6 DEF Rejected, Faulted
  <2>2. mem' = mem
    BY <1>2, <2>1
  <2>3. Others(i)
    BY <1>2, <1>6, <2>2 DEF Others
  <2> QED
    BY <1>2, <1>3, <1>6, <2>2, <2>3, DurableFrom
<1>7. CASE Faulted(i, x, x) /\ wedged' = TRUE /\ pc' = pc /\ told' = told
  <2>1. mem' = [mem EXCEPT ![i] = x] /\ (disk' = disk \/ disk' = mem')
    BY <1>7 DEF Faulted
  <2>2. Others(i) /\ mem'[i] = x
    BY <1>2, <1>7, <2>1 DEF Others
  <2> QED
    BY <1>1, <1>2, <1>7, <2>2, DurableFrom
<1> QED
  BY <1>4, <1>5, <1>6, <1>7

(* A replayed intention is told again: it is in the file, because nothing  *)
(* is answered after a failed write.                                       *)
LEMMA ReplayDurable ==
  ASSUME TypeOK, Valid(disk), Durable, NEW i \in Instances, Replay(i)
  PROVE  Durable'
<1>1. /\ up /\ up' = up /\ ~wedged /\ wedged' = wedged /\ pruned' = pruned /\ Exists(mem[i])
      /\ mem' = mem /\ disk' = disk
      /\ told' = [told EXCEPT ![i] = IF @ = 0 THEN 1 ELSE @]
      /\ pc' = pc \/ Goto(i, 1, "start")
  BY DEF Replay, Free, life, store
<1>2. told \in [Instances -> 0..MaxOps] /\ pc \in [Instances -> [OpIds -> Pcs]]
      /\ mem \in [Instances -> Instance] /\ disk \in [Instances -> Instance]
  BY DEF TypeOK
<1>3. Others(i)
  BY <1>1, <1>2 DEF Others, Goto
<1>4. i \notin pruned =>
        /\ Exists(disk[i]) /\ disk[i].nops >= 1
        /\ mem[i].nops >= 1
        /\ told[i] > 0 => disk[i].nops >= told[i] /\ mem[i].nops >= told[i]
  <2>1. Exists(disk[i]) => disk[i].nops > 0
    BY <1>2 DEF Valid, ValidInstance
  <2> QED
    BY <1>1, <1>2, <2>1 DEF Durable, InSync, AcceptedSurvives, RoomsHaveOps, Instance
<1>5. told'[i] = IF told[i] = 0 THEN 1 ELSE told[i]
  BY <1>1, <1>2
<1>6. told'[i] = 1 \/ told'[i] = told[i]
  BY <1>5
<1>7. i \notin pruned /\ told'[i] > 0 => disk[i].nops >= told'[i] /\ mem[i].nops >= told'[i]
  BY <1>4, <1>6
<1>8. i \notin pruned /\ Exists(mem[i]) => mem[i].nops > 0
  BY DEF Durable, RoomsHaveOps
<1> QED
  BY <1>1, <1>3, <1>4, <1>7, <1>8, DurableFrom

(* What a stop or restart makes of the record and the file, whether it is  *)
(* accepted or not.                                                        *)
LEMMA ChangeResult ==
  ASSUME TypeOK, NEW i \in Instances, NEW kind \in {"stop", "restart"}, Change(i, kind)
  PROVE  \E y, w :
            /\ y.nops = mem[i].nops + 1 /\ y.key = mem[i].key /\ Exists(y)
            /\ w.nops = mem[i].nops + 1 /\ w.key = mem[i].key /\ Exists(w)
            /\ Holds(y) /\ y.port = mem[i].port /\ y.gen = mem[i].gen
            /\ reg[i] # mem[i].nops + 1 => Running(y, mem[i].nops + 1)
            /\ \/ /\ mem' = [mem EXCEPT ![i] = y] /\ disk' = mem' /\ w = y
                  /\ Goto(i, mem[i].nops + 1, "wait")
                  /\ told' = [told EXCEPT ![i] = mem[i].nops + 1]
               \/ /\ mem' = [mem EXCEPT ![i] = w]
                  /\ disk' = disk \/ disk' = [mem EXCEPT ![i] = y]
                  /\ wedged' = TRUE /\ pc' = pc /\ told' = told
<1> DEFINE old  == reg[i]
           o    == mem[i].nops + 1
           x    == AddOp(mem[i], kind)
           ends == old # 0 /\ old \notin cancelled[i] /\ Running(x, old)
           y    == IF ends THEN EndOp(x, old, "cancelled") ELSE x
           z    == IF ends THEN FailedSave(y, old) ELSE y
           S(u, f) == FailedSave(u, f)
<1>1. o \in OpIds /\ (ends => old \in OpIds)
  <2>1. mem[i] \in Instance /\ mem[i].nops < MaxOps /\ reg[i] \in 0..MaxOps
    BY DEF Change, TypeOK
  <2> QED
    BY <2>1, BoundsAssumption DEF Instance, OpIds
<1>2. /\ mem[i] \in Instance /\ mem[i].nops \in Nat /\ mem[i].nops < MaxOps
      /\ Exists(mem[i]) /\ Holds(mem[i])
  <2>1. mem[i] \in Instance /\ mem[i].nops < MaxOps
    BY DEF TypeOK, Change
  <2>2. Exists(mem[i]) /\ Holds(mem[i])
    BY DEF Change, MayStop, MayRestart, Holds, Exists
  <2> QED
    BY <2>1, <2>2, BoundsAssumption DEF Instance
<1>3. /\ x \in Instance /\ x.nops = o /\ x.key = mem[i].key /\ Exists(x)
      /\ Holds(x) /\ x.port = mem[i].port /\ x.gen = mem[i].gen /\ Running(x, o)
  <2>1. x \in Instance /\ x.lifecycle = mem[i].lifecycle
    BY <1>2, <1>1, AddOpType
  <2>2. x.nops = o /\ x.key = mem[i].key /\ x.port = mem[i].port /\ x.gen = mem[i].gen
    BY <1>2 DEF AddOp, Instance
  <2>3. x.ops = [mem[i].ops EXCEPT ![o] = NewOp(kind, mem[i].gen)]
    BY <1>2 DEF AddOp, Instance
  <2>4. mem[i].ops \in [OpIds -> Operation]
    BY <1>2 DEF Instance
  <2>5. x.ops[o].status = "running"
    BY <1>1, <2>3, <2>4 DEF NewOp
  <2> QED
    BY <1>2, <2>1, <2>2, <2>5 DEF Exists, Holds, Running
<1>4. \/ /\ Saved(i, y) /\ Goto(i, o, "wait") /\ told' = [told EXCEPT ![i] = o]
      \/ /\ NotSaved(i, y, S(z, o)) \/ (Faulted(i, y, S(y, o)) /\ wedged' = TRUE)
         /\ pc' = pc /\ told' = told
  BY DEF Change
<1> HIDE DEF x
<1>5. /\ Lasts(x, y) /\ Holds(y) /\ y.gen = x.gen
      /\ old # o => Running(y, o)
  BY <1>1, <1>3, EndOpEnds, AlikeSelf DEF Ends, EndedAlone, Alike, Running
<1>6. y \in Instance
  BY <1>5 DEF Lasts
<1> HIDE DEF y
<1>7. Lasts(x, z)
  BY <1>1, <1>5, <1>6, FailureEnds, LastsTransitive DEF Ends
<1>8. z \in Instance
  BY <1>7 DEF Lasts
<1> HIDE DEF z, o
<1>9. Lasts(x, S(z, o)) /\ Lasts(x, S(y, o))
  BY <1>1, <1>5, <1>6, <1>7, <1>8, FailureEnds, LastsTransitive DEF Ends
<1> HIDE DEF S
<1>10. \A u \in {y, S(z, o), S(y, o)} : u.nops = o /\ u.key = mem[i].key /\ Exists(u)
  BY <1>3, <1>5, <1>9 DEF Lasts
<1>11. y.port = mem[i].port /\ y.gen = mem[i].gen
  BY <1>3, <1>5 DEF Lasts
<1>12. ~wedged
  BY DEF Change
<1>13. CASE Saved(i, y) /\ Goto(i, o, "wait") /\ told' = [told EXCEPT ![i] = o]
  <2>1. mem' = [mem EXCEPT ![i] = y] /\ disk' = mem'
    BY <1>13 DEF Saved, StoreSaved, Published
  <2> QED
    BY <1>5, <1>10, <1>13, <1>11, <2>1 DEF o
<1>14. CASE /\ NotSaved(i, y, S(z, o)) \/ (Faulted(i, y, S(y, o)) /\ wedged' = TRUE)
            /\ pc' = pc /\ told' = told
  <2>1. PICK w \in {S(z, o), S(y, o)} :
           /\ mem' = [mem EXCEPT ![i] = w]
           /\ disk' = disk \/ disk' = [mem EXCEPT ![i] = y]
           /\ wedged' = TRUE
    <3>1. CASE NotSaved(i, y, S(z, o))
      BY <1>12, <3>1 DEF NotSaved, Rejected, Faulted
    <3>2. CASE Faulted(i, y, S(y, o)) /\ wedged' = TRUE
      BY <3>2 DEF Faulted
    <3> QED
      BY <1>14, <3>1, <3>2
  <2> QED
    BY <1>5, <1>10, <1>14, <1>11, <2>1 DEF o
<1> QED
  BY <1>4, <1>13, <1>14

(* A stop or restart: its operation is only told once it is in the file.   *)
LEMMA ChangeDurable ==
  ASSUME TypeOK, Durable, NEW i \in Instances, NEW kind \in {"stop", "restart"}, Change(i, kind)
  PROVE  Durable'
<1> DEFINE o == mem[i].nops + 1
<1>1. PICK y, w :
            /\ y.nops = o /\ y.key = mem[i].key /\ Exists(y)
            /\ w.nops = o /\ w.key = mem[i].key /\ Exists(w)
            /\ Holds(y) /\ y.port = mem[i].port /\ y.gen = mem[i].gen
            /\ reg[i] # o => Running(y, o)
            /\ \/ /\ mem' = [mem EXCEPT ![i] = y] /\ disk' = mem' /\ w = y
                  /\ Goto(i, o, "wait") /\ told' = [told EXCEPT ![i] = o]
               \/ /\ mem' = [mem EXCEPT ![i] = w]
                  /\ disk' = disk \/ disk' = [mem EXCEPT ![i] = y]
                  /\ wedged' = TRUE /\ pc' = pc /\ told' = told
  BY ChangeResult
<1>2. /\ up /\ up' = up /\ ~wedged /\ pruned' = pruned
      /\ mem \in [Instances -> Instance] /\ disk \in [Instances -> Instance]
      /\ pc \in [Instances -> [OpIds -> Pcs]] /\ told \in [Instances -> 0..MaxOps]
  BY DEF Change, Free, life, TypeOK
<1>3. mem[i].nops \in Nat /\ o \in Nat /\ o > 0 /\ told[i] \in Nat
  <2>1. mem[i] \in Instance /\ told[i] \in 0..MaxOps
    BY <1>2
  <2> QED
    BY <2>1, BoundsAssumption DEF Instance
<1>4. CASE /\ mem' = [mem EXCEPT ![i] = y] /\ disk' = mem'
           /\ Goto(i, o, "wait") /\ told' = [told EXCEPT ![i] = o]
  <2>1. Others(i) /\ mem'[i] = y /\ disk'[i] = y /\ told'[i] = o
    BY <1>2, <1>4 DEF Others, Goto
  <2> QED
    BY <1>1, <1>2, <1>3, <2>1, DurableFrom
<1>5. CASE /\ mem' = [mem EXCEPT ![i] = w]
           /\ disk' = disk \/ disk' = [mem EXCEPT ![i] = y]
           /\ wedged' = TRUE /\ pc' = pc /\ told' = told
  <2>1. Others(i) /\ mem'[i] = w /\ (disk'[i] = disk[i] \/ disk'[i] = y)
    BY <1>2, <1>5 DEF Others
  <2>2. i \notin pruned /\ told[i] > 0 =>
          /\ Exists(disk[i]) /\ disk[i].nops >= told[i] /\ mem[i].nops >= told[i]
    BY <1>2 DEF Durable, AcceptedSurvives
  <2>3. mem[i].nops >= told[i] => o >= told[i]
    BY <1>3
  <2>4. i \notin pruned' /\ told'[i] > 0 =>
          /\ Exists(disk'[i]) /\ disk'[i].nops >= told'[i]
          /\ Exists(mem'[i]) /\ mem'[i].nops >= told'[i]
    BY <1>1, <1>2, <1>5, <2>1, <2>2, <2>3
  <2> QED
    BY <1>1, <1>2, <1>3, <1>5, <2>1, <2>4, DurableFrom
<1> QED
  BY <1>1, <1>4, <1>5

(* An expired history: it is known as pruned from the moment it may be     *)
(* missing from the file.                                                  *)
LEMMA PruneDurable ==
  ASSUME TypeOK, Durable, NEW i \in Instances, Prune(i)
  PROVE  Durable'
<1>1. /\ up /\ up' = up /\ ~wedged /\ told' = told /\ pc' = pc /\ Exists(mem[i])
      /\ pruned' = IF Exists(disk'[i]) THEN pruned ELSE pruned \cup {i}
      /\ \/ StoreSaved(i, Absent)
         \/ /\ Rejected(i, Absent, mem[i]) \/ Faulted(i, Absent, mem[i])
            /\ wedged' = TRUE
  BY DEF Prune, Free, life, workers, Exists
<1>2. mem \in [Instances -> Instance] /\ disk \in [Instances -> Instance] /\ ~Exists(Absent)
  BY DEF TypeOK, Absent, Exists
<1>3. CASE StoreSaved(i, Absent)
  <2>1. mem' = [mem EXCEPT ![i] = Absent] /\ disk' = mem'
    BY <1>3 DEF StoreSaved, Published
  <2>2. i \in pruned' /\ Others(i)
    BY <1>1, <1>2, <2>1 DEF Others
  <2> QED
    BY <1>1, <2>2, DurableFrom
<1>4. CASE /\ Rejected(i, Absent, mem[i]) \/ Faulted(i, Absent, mem[i])
           /\ wedged' = TRUE
  <2>1. mem' = [mem EXCEPT ![i] = mem[i]] /\ (disk' = disk \/ disk' = [mem EXCEPT ![i] = Absent])
    BY <1>4 DEF Rejected, Faulted
  <2>2. mem' = mem /\ Others(i)
    BY <1>1, <1>2, <2>1 DEF Others
  <2>3. disk'[i] = disk[i] \/ i \in pruned'
    BY <1>1, <1>2, <2>1
  <2>4. i \notin pruned' => i \notin pruned
    BY <1>1
  <2> QED
    BY <1>1, <1>4, <2>2, <2>3, <2>4, DurableFrom
       DEF Durable, AcceptedSurvives, WorkersKnown, RoomsHaveOps
<1> QED
  BY <1>1, <1>3, <1>4

(* The end of the manager process leaves the file.                         *)
LEMMA DownDurable ==
  ASSUME TypeOK, Durable, Down
  PROVE  Durable'
<1>1. /\ ~up' /\ told' = told /\ pruned' = pruned /\ disk' = disk
      /\ \A i \in Instances : mem'[i] = Absent /\ \A o \in OpIds : pc'[i][o] = "none"
  BY DEF Down, history
<1>2. ~Exists(Absent)
  BY DEF Absent, Exists
<1> QED
  BY <1>1, <1>2 DEF Durable, AcceptedSurvives, InSync, WorkersKnown, RoomsHaveOps

(* Recovery takes every room and every operation over from the file.       *)
LEMMA ReopenDurable ==
  ASSUME TypeOK, Valid(disk), Durable, Reopen
  PROVE  Durable'
<1>1. PICK v \in Findings(disk) :
        LET m == Recovery(v) IN
         \/ /\ Valid(m)
            /\ up' = TRUE /\ mem' = m /\ disk' = m
            /\ pc' = [i \in Instances |-> [o \in OpIds |->
                        IF ~(Resumes(m[i]) /\ o = m[i].nops) THEN "none"
                        ELSE IF m[i].ops[o].kind = "stop" THEN "wait" ELSE "observe"]]
         \/ /\ disk' \in {disk, m}
            /\ UNCHANGED <<up, mem, pc>>
  BY DEF Reopen
<1> DEFINE m == Recovery(v)
<1>2. ~up /\ told' = told /\ pruned' = pruned
  BY DEF Reopen, history
<1>3. disk \in [Instances -> Instance] /\ DOMAIN disk = Instances
  BY DEF TypeOK
<1>4. \A i \in Instances : /\ Exists(m[i]) <=> Exists(disk[i])
                           /\ m[i].nops = disk[i].nops
  <2>1. TAKE i \in Instances
  <2>2. m[i] = Recovered(disk[i], v[i]) /\ v[i] \in Searches
    BY DEF Recovery, Findings
  <2>3. disk[i] \in Instance /\ ValidRecord(disk[i])
    BY <1>3 DEF Valid, ValidRecord
  <2> QED
    BY <2>2, <2>3, RecoveredValid
<1>5. \A i \in Instances : Exists(disk[i]) => disk[i].nops > 0
  BY <1>3 DEF Valid, ValidInstance
<1> HIDE DEF m
<1>6. CASE /\ up' = TRUE /\ mem' = m /\ disk' = m
           /\ pc' = [i \in Instances |-> [o \in OpIds |->
                       IF ~(Resumes(m[i]) /\ o = m[i].nops) THEN "none"
                       ELSE IF m[i].ops[o].kind = "stop" THEN "wait" ELSE "observe"]]
  <2>1. AcceptedSurvives'
    BY <1>2, <1>4, <1>6 DEF Durable, AcceptedSurvives
  <2>2. InSync' /\ RoomsHaveOps'
    BY <1>4, <1>5, <1>6 DEF InSync, RoomsHaveOps
  <2>3. WorkersKnown'
    <3>1. ASSUME NEW i \in Instances, NEW o \in OpIds, pc'[i][o] # "none" PROVE Exists(mem'[i])
      BY <1>6, <3>1 DEF Resumes, Holds, Exists
    <3> QED
      BY <3>1 DEF WorkersKnown
  <2> QED
    BY <2>1, <2>2, <2>3 DEF Durable
<1>7. CASE disk' \in {disk, m} /\ UNCHANGED <<up, mem, pc>>
  <2>1. AcceptedSurvives'
    BY <1>2, <1>4, <1>7 DEF Durable, AcceptedSurvives
  <2> QED
    BY <1>2, <1>7, <2>1 DEF Durable, InSync, WorkersKnown, RoomsHaveOps
<1> QED
  BY <1>1, <1>6, <1>7 DEF m

(* Every step keeps what was accepted.                                     *)
LEMMA NextDurable ==
  ASSUME IInv, IInv', Valid(disk), Durable, [Next]_vars
  PROVE  Durable'
<1>1. TypeOK /\ TypeOK'
  BY DEF IInv
<1>2. ASSUME NEW i \in Instances, NEW o \in OpIds, WorkerStep(i, o) PROVE Durable'
  <2>1. up
    <3>1. ~up => pc[i][o] = "none"
      BY DEF IInv, DownIsIdle
    <3>2. pc[i][o] # "none"
      BY <1>1, <1>2, WorkerAtWork
    <3> QED
      BY <3>1, <3>2
  <2> QED
    BY <1>1, <1>2, <2>1, WorkerDurable
<1>3. ASSUME NEW i \in Instances, Request(i) PROVE Durable'
  BY <1>1, <1>3, CreateDurable, ReplayDurable, ChangeDurable DEF Request, Stop, Restart
<1>4. ASSUME NEW i \in Instances, NEW v \in Verdicts, Watch(i, v) PROVE Durable'
  <2>1. up
    BY <1>4 DEF Watch, Free
  <2> QED
    BY <1>1, <1>4, <2>1, WatchDurable
<1>5. ASSUME NEW i \in Instances, Prune(i) PROVE Durable'
  BY <1>1, <1>5, PruneDurable
<1>6. ASSUME UNCHANGED <<mem, store, pc, up, history>> PROVE Durable'
  BY <1>6 DEF store, history, Durable, AcceptedSurvives, InSync, WorkersKnown, RoomsHaveOps
<1>7. ASSUME NEW i \in Instances, NEW g \in Gens, GameExits(i, g) PROVE Durable'
  BY <1>6, <1>7 DEF GameExits, workers, life
<1>8. ASSUME Close \/ UNCHANGED vars PROVE Durable'
  BY <1>6, <1>8 DEF Close, vars, workers, life
<1>9. ASSUME Exited \/ Crash PROVE Durable'
  BY <1>1, <1>9, DownDurable DEF Exited, Crash
<1>10. ASSUME Reopen PROVE Durable'
  BY <1>1, <1>10, ReopenDurable
<1> QED
  BY <1>2, <1>3, <1>4, <1>5, <1>7, <1>8, <1>9, <1>10 DEF Next

(* An operation whose identifier was told is in the file and in memory: it *)
(* is told only after the save, and nothing is told once a save has failed *)
(* (CreateChecked, change).                                                *)
THEOREM NothingAcceptedIsLost == Spec => []AcceptedSurvives
<1>1. Init => Durable
  BY DEF Init, Durable, AcceptedSurvives, InSync, WorkersKnown, RoomsHaveOps, Absent, Exists
<1>2. IInv /\ IInv' /\ Valid(disk) /\ Durable /\ [Next]_vars => Durable'
  BY NextDurable
<1>3. Durable => AcceptedSurvives
  BY DEF Durable
<1> QED
  BY <1>1, <1>2, <1>3, Invariance, FileValid, PTL DEF Spec

----------------------------------------------------------------------------
(* Who works on a room. *)

(* Where the workers of an instance may be.                                *)
Busy(i, o)   == pc[i][o] \notin {"none", "exit"}
AtWork(i, o) == pc[i][o] \notin {"none", "wait", "exit"}

(* While the manager is open, the registered worker is the newest that has *)
(* not returned, and a worker behind another waits for one that is not     *)
(* older than that.                                                        *)
Queued(i) ==
    /\ \A o \in OpIds : pc[i][o] # "none" => reg[i] # 0 /\ o <= reg[i]
    /\ reg[i] # 0 => pc[i][reg[i]] # "none"
    /\ \A o, q \in OpIds :
         o < q /\ pc[i][o] # "none" /\ pc[i][q] # "none"
           => /\ pc[i][q] = "wait" /\ pred[i][q] # 0
              /\ o <= pred[i][q] /\ pc[i][pred[i][q]] # "none"

OneAtWork(i) == \A o, q \in OpIds : AtWork(i, o) /\ AtWork(i, q) => o = q

(* Workers work on a room that is held, for operations it has.             *)
Manned(i) ==
    /\ \A o \in OpIds : Busy(i, o) => Holds(mem[i])
    /\ Exists(mem[i]) =>
         mem[i].nops > 0 /\ reg[i] <= mem[i].nops /\ cancelled[i] \subseteq 1..mem[i].nops
    /\ i \notin pruned /\ ~Exists(mem[i]) =>
         reg[i] = 0 /\ cancelled[i] = {} /\ \A o \in OpIds : pc[i][o] = "none"

(* A stop is the last operation of its room while it is at it.             *)
StopsLast(i) ==
    \A o \in OpIds : Busy(i, o) /\ mem[i].ops[o].kind = "stop" =>
        /\ AtWork(i, o) => \A q \in OpIds : q # o => ~Busy(i, q)
        /\ ~closed => reg[i] = o
        /\ ~wedged => Running(mem[i], o)
        /\ \A q \in 1..mem[i].nops : q # o => ~Running(mem[i], q)

(* Only the current operation of a room that is held runs, it is not       *)
(* cancelled, and somebody works on it.                                    *)
CurrentRuns(i) ==
    \A q \in 1..mem[i].nops : Running(mem[i], q) =>
        /\ q = mem[i].nops /\ Holds(mem[i])
        /\ ~wedged => q \notin cancelled[i]
        /\ up /\ ~closed /\ ~wedged => Busy(i, q)

OnlyCurrent(x) == \A q \in 1..x.nops : Running(x, q) => q = x.nops /\ Holds(x)

Owned(i) ==
    /\ closed \/ Queued(i)
    /\ OneAtWork(i) /\ Manned(i) /\ StopsLast(i) /\ CurrentRuns(i) /\ OnlyCurrent(disk[i])

DownIsClean == ~up => \A i \in Instances : reg[i] = 0 /\ cancelled[i] = {}

OwnedInv == DownIsClean /\ \A i \in Instances : Owned(i)

(* What a step at instance i leaves of another.                            *)
SameWorkers(j) ==
    pc'[j] = pc[j] /\ reg'[j] = reg[j] /\ pred'[j] = pred[j] /\ cancelled'[j] = cancelled[j]

(* A step at another instance leaves the workers of this one in order.     *)
LEMMA ElsewhereOwned ==
  ASSUME OwnedInv, up, wedged => wedged', closed => closed', NEW j \in Instances,
         mem'[j] = mem[j], SameWorkers(j), disk'[j] = disk[j] \/ disk'[j] = mem[j],
         j \in pruned' <=> j \in pruned
  PROVE  Owned(j)'
<1>1. Owned(j)
  BY DEF OwnedInv
<1>2. (closed \/ Queued(j))'
  BY <1>1 DEF Owned, Queued, SameWorkers
<1>3. OneAtWork(j)' /\ Manned(j)'
  BY <1>1 DEF Owned, OneAtWork, Manned, AtWork, Busy, SameWorkers
<1>4. StopsLast(j)'
  BY <1>1 DEF Owned, StopsLast, AtWork, Busy, SameWorkers
<1>5. CurrentRuns(j)'
  BY <1>1 DEF Owned, CurrentRuns, Busy, SameWorkers
<1>6. OnlyCurrent(disk'[j])
  BY <1>1 DEF Owned, CurrentRuns, OnlyCurrent
<1> QED
  BY <1>2, <1>3, <1>4, <1>5, <1>6 DEF Owned, OnlyCurrent

(* Owned everywhere, from instance i and what the step leaves elsewhere.   *)
LEMMA OwnedFrom ==
  ASSUME OwnedInv, up, up', wedged => wedged', closed => closed', NEW i \in Instances,
         \A j \in Instances : j # i =>
            /\ mem'[j] = mem[j] /\ SameWorkers(j)
            /\ disk'[j] = disk[j] \/ disk'[j] = mem[j]
            /\ j \in pruned' <=> j \in pruned,
         Owned(i)'
  PROVE  OwnedInv'
<1>1. \A j \in Instances : j # i => Owned(j)'
  BY ElsewhereOwned
<1> QED
  BY <1>1 DEF OwnedInv, DownIsClean

(* How a worker moves.                                                     *)
WorkerMove(i, o) ==
    /\ pc[i][o] \notin {"none", "exit"}
    /\ pc' = pc \/ \E p \in Pcs \ {"none", "wait"} : Goto(i, o, p)
    /\ pc[i][o] = "wait" => \/ ~closed /\ PredecessorDone(i, o)
                            \/ closed /\ Goto(i, o, "exit")
                            \/ pc' = pc
    /\ UNCHANGED <<reg, pred, cancelled, closed, up, pruned>>

(* A step of a worker is its last, or it moves it on.                      *)
LEMMA WorkerMoves ==
  ASSUME NEW i \in Instances, NEW o \in OpIds, WorkerStep(i, o)
  PROVE  FinishWorker(i, o) \/ WorkerMove(i, o)
<1> USE DEF WorkerMove, Pcs, Fails, SaveOrFail, StoreOrFail, CleanupFails, life, history
<1>1. CASE LaunchStep(i, o)
  <2>1. CASE Launch(i, o) \/ PrepareRun(i, o) \/ PrepareFiles(i, o) \/ RunPrepared(i, o)
    BY <2>1 DEF Launch, PrepareRun, PrepareFiles, RunPrepared
  <2>2. CASE IntendSpawn(i, o) \/ MakeInput(i, o) \/ InputPrepared(i, o)
    BY <2>2 DEF IntendSpawn, MakeInput, InputPrepared
  <2>3. CASE Exec(i, o) \/ Spawned(i, o) \/ Rollback(i, o)
    BY <2>3 DEF Exec, Spawned, Rollback
  <2> QED
    BY <1>1, <2>1, <2>2, <2>3 DEF LaunchStep
<1>2. CASE StopStep(i, o)
  <2>1. CASE BeginStop(i, o)
    <3>1. ~closed /\ PredecessorDone(i, o) /\ pc[i][o] = "wait"
      BY <2>1 DEF BeginStop, Quits
    <3> QED
      BY <2>1, <3>1 DEF BeginStop
  <2>2. CASE (\E c \in BOOLEAN : Stopped(i, o, c)) \/ BeginCleanup(i, o)
    BY <2>2 DEF Stopped, BeginCleanup
  <2>3. CASE CleanInput(i, o) \/ CleanupRun(i, o)
    BY <2>3 DEF CleanInput, CleanupRun
  <2>4. CASE FinishStop(i, o) \/ Relaunch(i, o)
    BY <2>4 DEF FinishStop, Relaunch
  <2> QED
    BY <1>2, <2>1, <2>2, <2>3, <2>4 DEF StopStep
<1>3. CASE \/ \E v \in Verdicts, late \in BOOLEAN : Tick(i, o, v, late)
           \/ \E c \in BOOLEAN : TimedOut(i, o, c)
  BY <1>3 DEF Tick, TimedOut
<1>4. CASE Leave(i, o) \/ Abort(i, o)
  BY <1>4 DEF Leave, Abort
<1> QED
  BY <1>1, <1>2, <1>3, <1>4 DEF WorkerStep

(* A worker that moves keeps the order.                                    *)
LEMMA MoveOrdered ==
  ASSUME WorkersType, NEW i \in Instances, NEW o \in OpIds, WorkerMove(i, o),
         closed \/ Queued(i), OneAtWork(i)
  PROVE  (closed \/ Queued(i))' /\ OneAtWork(i)'
<1>1. CASE pc' = pc
  BY <1>1 DEF OneAtWork, AtWork, Queued, WorkerMove
<1>2. ASSUME NEW p \in Pcs \ {"none", "wait"}, Goto(i, o, p)
      PROVE  (closed \/ Queued(i))' /\ OneAtWork(i)'
  <2>1. /\ \A q \in OpIds : q # o => pc'[i][q] = pc[i][q]
        /\ pc'[i][o] = p /\ p \notin {"none", "wait"}
    BY <1>2 DEF Goto, WorkersType
  <2>2. reg' = reg /\ pred' = pred /\ closed' = closed /\ pc[i][o] \notin {"none", "exit"}
    BY DEF WorkerMove
  <2>3. pred \in [Instances -> [OpIds -> 0..MaxOps]] /\ reg \in [Instances -> 0..MaxOps]
    BY DEF WorkersType
  <2>5. CASE closed
    <3>1. pc[i][o] = "wait" => pc' = pc \/ p = "exit"
      BY <1>2, <2>1, <2>5 DEF WorkerMove, Goto, WorkersType
    <3>2. OneAtWork(i)'
      BY <2>1, <2>2, <3>1 DEF OneAtWork, AtWork
    <3> QED
      BY <2>2, <2>5, <3>2
  <2>6. CASE ~closed
    <3>1. Queued(i)
      BY <2>6
    <3>2. \A q \in OpIds : q < o => pc[i][q] = "none"
      <4>1. ASSUME NEW q \in OpIds, q < o, pc[i][q] # "none" PROVE FALSE
        <5>1. pc[i][o] = "wait" /\ pred[i][o] # 0 /\ pc[i][pred[i][o]] # "none"
          BY <2>2, <3>1, <4>1 DEF Queued
        <5>2. PredecessorDone(i, o)
          BY <2>1, <2>6, <5>1 DEF WorkerMove
        <5> QED
          BY <5>1, <5>2 DEF PredecessorDone
      <4> QED
        BY <4>1
    <3>3. \A q \in OpIds : q > o => pc[i][q] \in {"none", "wait"}
      BY <2>2, <3>1 DEF Queued
    <3>4. Queued(i)'
      <4>1. \A q \in OpIds : pc'[i][q] # "none" => pc[i][q] # "none"
        BY <2>1, <2>2
      <4>2. \A q \in 1..MaxOps : pc[i][q] # "none" => pc'[i][q] # "none"
        BY <2>1, <2>2 DEF OpIds
      <4>3. \A q \in OpIds : pc'[i][q] # "none" => reg'[i] # 0 /\ q <= reg'[i]
        BY <2>2, <3>1, <4>1 DEF Queued
      <4>4. reg'[i] # 0 => pc'[i][reg'[i]] # "none"
        BY <2>2, <2>3, <3>1, <4>2, BoundsAssumption DEF Queued
      <4>5. ASSUME NEW a \in OpIds, NEW q \in OpIds, a < q,
                   pc'[i][a] # "none", pc'[i][q] # "none"
            PROVE  /\ pc'[i][q] = "wait" /\ pred'[i][q] # 0
                   /\ a <= pred'[i][q] /\ pc'[i][pred'[i][q]] # "none"
        <5>1. /\ pc[i][q] = "wait" /\ pred[i][q] # 0 /\ a <= pred[i][q]
              /\ pc[i][pred[i][q]] # "none"
          BY <3>1, <4>1, <4>5 DEF Queued
        <5>2. q # o
          BY <3>2, <4>1, <4>5
        <5>3. pc'[i][pred[i][q]] # "none"
          BY <2>3, <4>2, <5>1, BoundsAssumption DEF OpIds
        <5> QED
          BY <2>1, <2>2, <5>1, <5>2, <5>3
      <4> QED
        BY <4>3, <4>4, <4>5 DEF Queued
    <3>5. \A q \in OpIds : q # o => pc[i][q] \in {"none", "wait"}
      BY <3>2, <3>3 DEF OpIds
    <3>6. OneAtWork(i)'
      BY <2>1, <3>5 DEF OneAtWork, AtWork
    <3> QED
      BY <3>4, <3>6
  <2> QED
    BY <2>5, <2>6
<1> QED
  BY <1>1, <1>2 DEF WorkerMove

(* A stop that begins to work is alone.                                    *)
LEMMA MoveAlone ==
  ASSUME WorkersType, NEW i \in Instances, NEW o \in OpIds, WorkerMove(i, o), Owned(i),
         mem[i].ops[o].kind = "stop", AtWork(i, o)'
  PROVE  \A q \in OpIds : q # o => ~Busy(i, q)
<1>1. Busy(i, o)
  BY DEF Busy, WorkerMove
<1>2. CASE AtWork(i, o)
  BY <1>1, <1>2 DEF Owned, StopsLast
<1>3. CASE ~AtWork(i, o)
  <2>1. pc[i][o] = "wait"
    BY <1>1, <1>3 DEF AtWork, Busy
  <2>2. pc' # pc /\ ~Goto(i, o, "exit")
    BY <2>1 DEF AtWork, Goto, WorkersType
  <2>3. ~closed /\ PredecessorDone(i, o)
    BY <2>1, <2>2 DEF WorkerMove
  <2>4. reg[i] = o /\ Queued(i)
    BY <1>1, <2>3 DEF Owned, StopsLast
  <2>5. ASSUME NEW q \in OpIds, q # o, Busy(i, q) PROVE FALSE
    <3>1. pc[i][q] # "none" /\ pc[i][o] # "none"
      BY <1>1, <2>5 DEF Busy
    <3>2. q < o
      BY <2>4, <2>5, <3>1 DEF Queued, OpIds
    <3>3. pred[i][o] # 0 /\ pc[i][pred[i][o]] # "none"
      BY <2>4, <3>1, <3>2 DEF Queued
    <3> QED
      BY <2>3, <3>3 DEF PredecessorDone
  <2> QED
    BY <2>5
<1> QED
  BY <1>2, <1>3

(* A step of a worker keeps the room it works on owned.                    *)
LEMMA MoveOwned ==
  ASSUME TypeOK, up, OwnedInv, NEW i \in Instances, NEW o \in OpIds,
         WorkerMove(i, o), WorkerEffect(i, o)
  PROVE  Owned(i)'
<1>1. StoreType /\ WorkersType
  BY TypeParts
<1>2. Owned(i)
  BY DEF OwnedInv
<1>3. PICK z, x : /\ RecordStep(i, z, x) /\ Result(i, o, z) /\ Result(i, o, x)
                  /\ IF pc'[i][o] = "exit" THEN Quits(i, o) \/ ~Running(z, o)
                                           ELSE SameOps(mem[i], z)
  BY DEF WorkerEffect
<1>4. /\ wedged => wedged'
      /\ mem'[i] = z /\ (disk'[i] = disk[i] \/ disk'[i] = x)
      /\ reg' = reg /\ pred' = pred /\ cancelled' = cancelled
      /\ closed' = closed /\ up' = up /\ pruned' = pruned
  BY <1>1, <1>3 DEF WorkerEffect, RecordStep, StoreType, WorkerMove
<1>5. /\ \A q \in OpIds : q # o => pc'[i][q] = pc[i][q]
      /\ pc'[i][o] # "none" /\ Busy(i, o) /\ \A q \in OpIds : Busy(i, q)' => Busy(i, q)
  BY <1>1 DEF WorkerMove, Busy, Goto, WorkersType
<1>6. Holds(mem[i])
  BY <1>2, <1>5 DEF Owned, Manned
<1>7. ASSUME NEW w, Result(i, o, w)
      PROVE  /\ w.nops = mem[i].nops /\ Exists(w)
             /\ \A q \in OpIds : /\ w.ops[q].kind = mem[i].ops[q].kind
                                 /\ Running(w, q) => Running(mem[i], q)
             /\ \A q \in OpIds : q # o => (Running(w, q) <=> Running(mem[i], q))
             /\ \/ Holds(w)
                \/ /\ ~Running(w, o) /\ pc[i][o] = "cleanup" /\ mem[i].ops[o].kind = "stop"
  BY <1>6, <1>7 DEF Result, Lasts, Running, Holds, Exists
<1>8. mem[i].nops \in Nat /\ 1..mem[i].nops \subseteq OpIds
  BY <1>1, BoundsAssumption DEF StoreType, Instance, OpIds
<1>9. ASSUME NEW w, Result(i, o, w) PROVE OnlyCurrent(w)
  <2>1. ASSUME NEW q \in 1..w.nops, Running(w, q) PROVE q = w.nops /\ Holds(w)
    <3>1. q \in 1..mem[i].nops /\ q \in OpIds /\ Running(mem[i], q)
      BY <1>7, <1>8, <1>9, <2>1
    <3>2. q = mem[i].nops
      BY <1>2, <3>1 DEF Owned, CurrentRuns
    <3>3. Holds(w)
      <4>1. ASSUME ~Holds(w) PROVE FALSE
        <5>1. ~Running(w, o) /\ mem[i].ops[o].kind = "stop"
          BY <1>7, <1>9, <4>1
        <5>2. q # o
          BY <2>1, <5>1
        <5> QED
          BY <1>2, <1>5, <3>1, <5>1, <5>2 DEF Owned, StopsLast
      <4> QED
        BY <4>1
    <3> QED
      BY <1>7, <1>9, <3>2, <3>3
  <2> QED
    BY <2>1 DEF OnlyCurrent
<1>10. (closed \/ Queued(i))' /\ OneAtWork(i)'
  BY <1>1, <1>2, MoveOrdered DEF Owned
<1>11. OnlyCurrent(disk'[i])
  BY <1>2, <1>3, <1>4, <1>9 DEF Owned
<1>12. Manned(i)'
  <2>1. ASSUME NEW q \in OpIds, Busy(i, q)' PROVE Holds(z)
    <3>1. ASSUME ~Holds(z) PROVE FALSE
      <4>1. ~Running(z, o) /\ pc[i][o] = "cleanup" /\ mem[i].ops[o].kind = "stop"
        BY <1>3, <1>7, <3>1
      <4>2. pc'[i][o] = "exit"
        BY <1>3, <1>6, <3>1 DEF SameOps
      <4>3. q # o
        BY <2>1, <4>2 DEF Busy
      <4>4. AtWork(i, o) /\ Busy(i, q)
        BY <1>5, <2>1, <4>1 DEF AtWork
      <4> QED
        BY <1>2, <1>5, <4>1, <4>3, <4>4 DEF Owned, StopsLast
    <3> QED
      BY <3>1
  <2>2. Exists(z) /\ Exists(mem[i]) /\ z.nops = mem[i].nops
    BY <1>3, <1>6, <1>7 DEF Exists, Holds
  <2>3. mem[i].nops > 0 /\ reg[i] <= mem[i].nops /\ cancelled[i] \subseteq 1..mem[i].nops
    BY <1>2, <2>2 DEF Owned, Manned
  <2> QED
    BY <1>4, <2>1, <2>2, <2>3 DEF Manned
<1>13. StopsLast(i)'
  <2>1. ASSUME NEW s \in OpIds, Busy(i, s)', z.ops[s].kind = "stop"
        PROVE  /\ AtWork(i, s)' => \A q \in OpIds : q # s => ~Busy(i, q)'
               /\ ~closed' => reg'[i] = s
               /\ ~wedged' => Running(z, s)
               /\ \A q \in 1..z.nops : q # s => ~Running(z, q)
    <3>1. Busy(i, s) /\ mem[i].ops[s].kind = "stop"
      BY <1>3, <1>5, <1>7, <2>1
    <3>2. /\ AtWork(i, s) => \A q \in OpIds : q # s => ~Busy(i, q)
          /\ ~closed => reg[i] = s
          /\ ~wedged => Running(mem[i], s)
          /\ \A q \in 1..mem[i].nops : q # s => ~Running(mem[i], q)
      BY <1>2, <3>1 DEF Owned, StopsLast
    <3>3. AtWork(i, s)' => \A q \in OpIds : q # s => ~Busy(i, q)'
      <4>1. CASE s = o
        BY <1>1, <1>2, <1>5, <3>1, <4>1, MoveAlone
      <4>2. CASE s # o
        <5>1. AtWork(i, s)' => AtWork(i, s)
          BY <1>5, <4>2 DEF AtWork
        <5> QED
          BY <1>5, <3>2, <5>1
      <4> QED
        BY <4>1, <4>2
    <3>4. ~wedged' => Running(z, s)
      <4>1. CASE s = o
        <5>1. pc'[i][o] # "exit"
          BY <2>1, <4>1 DEF Busy
        <5>2. SameOps(mem[i], z)
          BY <1>3, <5>1
        <5> QED
          BY <1>4, <3>2, <4>1, <5>2 DEF SameOps, Running
      <4>2. CASE s # o
        BY <1>3, <1>4, <1>7, <3>2, <4>2
      <4> QED
        BY <4>1, <4>2
    <3>5. \A q \in 1..z.nops : q # s => ~Running(z, q)
      BY <1>3, <1>7, <1>8, <3>2
    <3> QED
      BY <1>4, <3>2, <3>3, <3>4, <3>5
  <2> QED
    BY <1>4, <2>1 DEF StopsLast
<1>14. CurrentRuns(i)'
  <2>1. ASSUME NEW q \in 1..z.nops, Running(z, q)
        PROVE  /\ q = z.nops /\ Holds(z)
               /\ ~wedged' => q \notin cancelled'[i]
               /\ up' /\ ~closed' /\ ~wedged' => Busy(i, q)'
    <3>1. q = z.nops /\ Holds(z)
      BY <1>3, <1>9, <2>1 DEF OnlyCurrent
    <3>2. q \in 1..mem[i].nops /\ q \in OpIds /\ Running(mem[i], q)
      BY <1>3, <1>7, <1>8, <2>1
    <3>3. /\ ~wedged => q \notin cancelled[i]
          /\ up /\ ~closed /\ ~wedged => Busy(i, q)
      BY <1>2, <3>2 DEF Owned, CurrentRuns
    <3>4. up' /\ ~closed' /\ ~wedged' => Busy(i, q)'
      <4>1. CASE q # o
        BY <1>4, <1>5, <3>2, <3>3, <4>1 DEF Busy
      <4>2. ASSUME q = o, up', ~closed', ~wedged' PROVE Busy(i, q)'
        <5>1. pc'[i][o] # "exit"
          BY <1>3, <1>4, <2>1, <3>3, <4>2 DEF Quits
        <5> QED
          BY <1>5, <4>2, <5>1 DEF Busy
      <4> QED
        BY <4>1, <4>2
    <3> QED
      BY <1>4, <3>1, <3>3, <3>4
  <2> QED
    BY <1>4, <2>1 DEF CurrentRuns
<1> QED
  BY <1>10, <1>11, <1>12, <1>13, <1>14 DEF Owned, OnlyCurrent

(* So does a worker that returns.                                          *)
LEMMA FinishOwned ==
  ASSUME TypeOK, up, OwnedInv, NEW i \in Instances, NEW o \in OpIds, FinishWorker(i, o)
  PROVE  Owned(i)'
<1>1. /\ pc[i][o] = "exit" /\ pred' = pred /\ closed' = closed
      /\ pc' = [pc EXCEPT ![i][o] = "none"]
      /\ reg' = [reg EXCEPT ![i] = IF @ = o THEN 0 ELSE @]
      /\ mem' = mem /\ disk' = disk /\ wedged' = wedged /\ cancelled' = cancelled
      /\ up' = up /\ pruned' = pruned
  BY DEF FinishWorker, Goto, life, store, history
<1>0. WorkersType /\ Owned(i)
  BY TypeParts DEF OwnedInv
<1>2. /\ \A q \in OpIds : q # o => pc'[i][q] = pc[i][q]
      /\ pc'[i][o] = "none"
      /\ reg'[i] = IF reg[i] = o THEN 0 ELSE reg[i]
      /\ \A q \in OpIds : (Busy(i, q)' <=> Busy(i, q)) /\ (AtWork(i, q)' <=> AtWork(i, q))
  BY <1>0, <1>1 DEF WorkersType, Busy, AtWork
<1>3. pred \in [Instances -> [OpIds -> 0..MaxOps]] /\ reg \in [Instances -> 0..MaxOps]
  BY <1>0 DEF WorkersType
<1>4. OneAtWork(i)'
  BY <1>0, <1>2 DEF Owned, OneAtWork
<1>5. ASSUME ~closed PROVE Queued(i)'
  <2>2. Queued(i)
    BY <1>0, <1>5 DEF Owned
  <2>3. \A q \in OpIds : q < o => pc[i][q] = "none"
    BY <1>1, <2>2 DEF Queued
  <2>4. \A q \in OpIds : pc'[i][q] # "none" => q > o /\ pc[i][q] # "none"
    BY <1>2, <2>3 DEF OpIds
  <2>5. \A q \in OpIds : pc'[i][q] # "none" => reg'[i] # 0 /\ q <= reg'[i]
    BY <1>2, <1>3, <2>2, <2>4, BoundsAssumption DEF Queued, OpIds
  <2>6. reg'[i] # 0 => pc'[i][reg'[i]] # "none"
    BY <1>2, <1>3, <2>2, BoundsAssumption DEF Queued, OpIds
  <2>7. ASSUME NEW a \in OpIds, NEW q \in OpIds, a < q, pc'[i][a] # "none", pc'[i][q] # "none"
        PROVE  /\ pc'[i][q] = "wait" /\ pred'[i][q] # 0
               /\ a <= pred'[i][q] /\ pc'[i][pred'[i][q]] # "none"
    <3>1. /\ a > o /\ pc[i][q] = "wait" /\ pred[i][q] # 0 /\ a <= pred[i][q]
          /\ pc[i][pred[i][q]] # "none"
      BY <2>2, <2>4, <2>7 DEF Queued
    <3>2. pred[i][q] # o /\ pred[i][q] \in OpIds
      BY <1>3, <3>1, BoundsAssumption DEF OpIds
    <3> QED
      BY <1>1, <1>2, <2>4, <2>7, <3>1, <3>2
  <2> QED
    BY <2>5, <2>6, <2>7 DEF Queued
<1>6. Manned(i)'
  <2>1. mem'[i] = mem[i] /\ (reg'[i] = reg[i] \/ reg'[i] = 0)
    BY <1>1, <1>2
  <2>2. 0 <= mem[i].nops
    BY BoundsAssumption DEF TypeOK, Instance
  <2>3. \A q \in OpIds : pc[i][q] = "none" => pc'[i][q] = "none"
    BY <1>2
  <2> QED
    BY <1>0, <1>1, <1>2, <2>1, <2>2, <2>3 DEF Owned, Manned
<1>7. StopsLast(i)'
  <2>1. \A q \in OpIds : Busy(i, q) => q # o
    BY <1>1 DEF Busy
  <2>2. \A q \in OpIds : Busy(i, q) /\ reg[i] = q => reg'[i] = q
    BY <1>2, <2>1
  <2> QED
    BY <1>0, <1>1, <1>2, <2>2 DEF Owned, StopsLast
<1>8. CurrentRuns(i)' /\ OnlyCurrent(disk'[i])
  <2>1. 1..mem[i].nops \subseteq OpIds
    BY BoundsAssumption DEF TypeOK, Instance, OpIds
  <2>2. CurrentRuns(i)'
    BY <1>0, <1>1, <1>2, <2>1 DEF Owned, CurrentRuns
  <2> QED
    BY <1>0, <1>1, <2>2 DEF Owned
<1>9. (closed \/ Queued(i))'
  BY <1>1, <1>5
<1> QED
  BY <1>4, <1>6, <1>7, <1>8, <1>9 DEF Owned, OnlyCurrent

(* Every step of a worker keeps all rooms owned.                           *)
LEMMA WorkerOwned ==
  ASSUME TypeOK, up, OwnedInv, NEW i \in Instances, NEW o \in OpIds, WorkerStep(i, o)
  PROVE  OwnedInv'
<1>1. StoreType /\ WorkersType
  BY TypeParts
<1>2. WorkerEffect(i, o)
  BY <1>1, WorkerEffects
<1>3. /\ \E p \in Pcs : Goto(i, o, p) \/ pc' = pc
      /\ UNCHANGED <<cancelled, pred, life, history>>
      /\ reg' = reg \/ reg' = [reg EXCEPT ![i] = 0]
  BY <1>1, WorkerGoes
<1>4. Owned(i)'
  BY <1>2, WorkerMoves, MoveOwned, FinishOwned
<1>5. \A j \in Instances : j # i => SameWorkers(j)
  BY <1>1, <1>3 DEF SameWorkers, Goto, WorkersType
<1>6. \A j \in Instances : j # i => mem'[j] = mem[j] /\ (disk'[j] = disk[j] \/ disk'[j] = mem[j])
  BY <1>1, <1>2 DEF WorkerEffect, RecordStep, StoreType
<1>7. (wedged => wedged') /\ up' = up /\ closed' = closed /\ pruned' = pruned
  BY <1>2, <1>3 DEF WorkerEffect, life, history
<1> QED
  BY <1>4, <1>5, <1>6, <1>7, OwnedFrom

(* So does an observation by watch.                                        *)
LEMMA WatchOwned ==
  ASSUME TypeOK, OwnedInv, NEW i \in Instances, NEW v \in Verdicts, Watch(i, v)
  PROVE  OwnedInv'
<1>1. StoreType
  BY TypeParts
<1>2. PICK z, x : RecordStep(i, z, x) /\ Alike(mem[i], z) /\ Alike(mem[i], x)
  BY <1>1, WatchEffect
<1>3. /\ up /\ Holds(mem[i]) /\ (wedged => wedged')
      /\ pc' = pc /\ reg' = reg /\ pred' = pred /\ cancelled' = cancelled
      /\ up' = up /\ closed' = closed /\ pruned' = pruned
  BY <1>1, WatchEffect DEF Watch, Free, workers, life, history
<1>4. /\ mem'[i] = z /\ (disk'[i] = disk[i] \/ disk'[i] = x)
      /\ \A j \in Instances : j # i => /\ mem'[j] = mem[j]
                                       /\ disk'[j] = disk[j] \/ disk'[j] = mem[j]
  BY <1>1, <1>2 DEF RecordStep, StoreType
<1>5. mem[i].nops \in Nat /\ 1..mem[i].nops \subseteq OpIds
  BY <1>1, BoundsAssumption DEF StoreType, Instance, OpIds
<1>6. ASSUME NEW w, Alike(mem[i], w)
      PROVE  /\ w.nops = mem[i].nops /\ Exists(w) /\ Holds(w)
             /\ \A q \in OpIds : /\ w.ops[q].kind = mem[i].ops[q].kind
                                 /\ Running(w, q) <=> Running(mem[i], q)
  BY <1>3, <1>6 DEF Alike, Lasts, Running, Holds, Exists
<1>7. Owned(i)
  BY DEF OwnedInv
<1>8. OnlyCurrent(x)
  BY <1>2, <1>5, <1>6, <1>7 DEF Owned, CurrentRuns, OnlyCurrent
<1>9. OnlyCurrent(disk'[i])
  BY <1>4, <1>7, <1>8 DEF Owned
<1>10. (closed \/ Queued(i))' /\ OneAtWork(i)'
  BY <1>3, <1>7 DEF Owned, Queued, OneAtWork, AtWork
<1>11. Manned(i)'
  <2>1. Exists(mem[i])
    BY <1>3 DEF Holds, Exists
  <2> QED
    BY <1>2, <1>3, <1>4, <1>6, <1>7, <2>1 DEF Owned, Manned, Busy
<1>12. StopsLast(i)'
  BY <1>2, <1>3, <1>4, <1>5, <1>6, <1>7 DEF Owned, StopsLast, Busy, AtWork
<1>13. CurrentRuns(i)'
  BY <1>2, <1>3, <1>4, <1>5, <1>6, <1>7 DEF Owned, CurrentRuns, Busy
<1>14. Owned(i)'
  BY <1>9, <1>10, <1>11, <1>12, <1>13 DEF Owned, OnlyCurrent
<1>15. \A j \in Instances : j # i => SameWorkers(j)
  BY <1>3 DEF SameWorkers
<1> QED
  BY <1>3, <1>4, <1>14, <1>15, OwnedFrom

(* A step that changes neither the records nor the workers.                *)
LEMMA StillOwned ==
  ASSUME OwnedInv, closed => closed', wedged => wedged', up' = up, pruned' = pruned,
         UNCHANGED <<mem, disk, workers>>
  PROVE  OwnedInv'
<1>1. pc' = pc /\ reg' = reg /\ pred' = pred /\ cancelled' = cancelled
  BY DEF workers
<1> SUFFICES ASSUME NEW i \in Instances PROVE Owned(i)'
  BY <1>1 DEF OwnedInv, DownIsClean
<1>2. Owned(i)
  BY DEF OwnedInv
<1>3. (closed \/ Queued(i))' /\ OneAtWork(i)' /\ Manned(i)'
  BY <1>1, <1>2 DEF Owned, Queued, OneAtWork, Manned, AtWork, Busy
<1>4. StopsLast(i)'
  BY <1>1, <1>2 DEF Owned, StopsLast, AtWork, Busy
<1>5. CurrentRuns(i)' /\ OnlyCurrent(disk'[i])
  BY <1>1, <1>2 DEF Owned, CurrentRuns, Busy
<1> QED
  BY <1>3, <1>4, <1>5 DEF Owned, OnlyCurrent

(* A new room has its first worker, or none when its save was uncertain.   *)
LEMMA CreateOwned ==
  ASSUME TypeOK, OwnedInv, NEW i \in Instances, NEW k \in Keys, NEW p \in Ports, Create(i, k, p)
  PROVE  OwnedInv'
<1> DEFINE x == NewInstance(k, p)
<1>1. /\ x.nops = 1 /\ x.lifecycle = "active"
      /\ x.ops[1].status = "running" /\ x.ops[1].kind = "create"
  <2>1. x.ops = [Absent.ops EXCEPT ![1] = NewOp("create", 0)]
        /\ x.nops = 1 /\ x.lifecycle = "active"
    BY DEF NewInstance, Absent
  <2>2. Absent.ops = [o \in OpIds |-> NoOp] /\ 1 \in OpIds
    BY BoundsAssumption DEF Absent, OpIds
  <2>3. x.ops[1] = NewOp("create", 0)
    BY <2>1, <2>2
  <2> QED
    BY <2>1, <2>3 DEF NewOp
<1> HIDE DEF x
<1>2. /\ up /\ up' = up /\ closed' = closed /\ ~closed /\ ~wedged /\ pruned' = pruned
      /\ cancelled' = cancelled /\ pred' = pred /\ i \notin pruned /\ ~Exists(mem[i])
      /\ ~Exists(disk[i])
  BY DEF Create, Free, Fresh, life
<1>3. /\ mem \in [Instances -> Instance] /\ disk \in [Instances -> Instance]
      /\ pc \in [Instances -> [OpIds -> Pcs]] /\ reg \in [Instances -> 0..MaxOps]
  BY DEF TypeOK
<1>4. Owned(i)
  BY DEF OwnedInv
<1>5. reg[i] = 0 /\ cancelled[i] = {} /\ \A o \in OpIds : pc[i][o] = "none"
  BY <1>2, <1>4 DEF Owned, Manned
<1>6. \/ /\ StoreSaved(i, x) /\ Goto(i, 1, "start") /\ reg' = [reg EXCEPT ![i] = 1]
      \/ /\ Rejected(i, x, mem[i]) \/ Faulted(i, x, mem[i])
         /\ disk' = disk /\ wedged' = wedged /\ pc' = pc /\ reg' = reg
      \/ Faulted(i, x, x) /\ wedged' = TRUE /\ pc' = pc /\ reg' = reg
  BY DEF Create, x
<1>7. 1 \in OpIds
  BY BoundsAssumption DEF OpIds
<1>8. OnlyCurrent(x)
  BY <1>1 DEF OnlyCurrent, Holds
<1>9. CASE StoreSaved(i, x) /\ Goto(i, 1, "start") /\ reg' = [reg EXCEPT ![i] = 1]
  <2>1. /\ mem' = [mem EXCEPT ![i] = x] /\ disk' = mem' /\ wedged' = wedged
        /\ pc' = [pc EXCEPT ![i][1] = "start"]
    BY <1>9 DEF StoreSaved, Published, Goto
  <2>2. /\ mem'[i] = x /\ disk'[i] = x /\ reg'[i] = 1
        /\ pc'[i][1] = "start" /\ \A o \in OpIds : o # 1 => pc'[i][o] = "none"
    BY <1>3, <1>5, <1>7, <1>9, <2>1
  <2>3. \A j \in Instances : j # i =>
            /\ mem'[j] = mem[j] /\ SameWorkers(j) /\ disk'[j] = mem[j]
    BY <1>2, <1>3, <1>9, <2>1 DEF SameWorkers
  <2>4. Queued(i)' /\ OneAtWork(i)'
    BY <2>2 DEF Queued, OneAtWork, AtWork
  <2>5. Manned(i)'
    BY <1>1, <1>2, <1>5, <2>2 DEF Manned, Busy, Holds, Exists
  <2>6. StopsLast(i)'
    BY <1>1, <2>2 DEF StopsLast, Busy
  <2>7. CurrentRuns(i)'
    BY <1>1, <1>2, <1>5, <2>2 DEF CurrentRuns, Busy, Holds
  <2>8. Owned(i)'
    BY <1>8, <2>2, <2>4, <2>5, <2>6, <2>7 DEF Owned, OnlyCurrent
  <2> QED
    BY <1>2, <2>1, <2>3, <2>8, OwnedFrom
<1>10. CASE /\ Rejected(i, x, mem[i]) \/ Faulted(i, x, mem[i])
            /\ disk' = disk /\ wedged' = wedged /\ pc' = pc /\ reg' = reg
  <2>1. mem' = mem
    BY <1>3, <1>10 DEF Rejected, Faulted
  <2> QED
    BY <1>2, <1>10, <2>1, StillOwned DEF workers
<1>11. CASE Faulted(i, x, x) /\ wedged' = TRUE /\ pc' = pc /\ reg' = reg
  <2>1. mem' = [mem EXCEPT ![i] = x] /\ (disk' = disk \/ disk' = mem')
    BY <1>11 DEF Faulted
  <2>2. /\ mem'[i] = x /\ (disk'[i] = x \/ disk'[i] = disk[i])
        /\ reg'[i] = 0 /\ \A o \in OpIds : pc'[i][o] = "none"
    BY <1>3, <1>5, <1>11, <2>1
  <2>3. \A j \in Instances : j # i =>
            /\ mem'[j] = mem[j] /\ SameWorkers(j) /\ (disk'[j] = disk[j] \/ disk'[j] = mem[j])
    BY <1>2, <1>3, <1>11, <2>1 DEF SameWorkers
  <2>4. Queued(i)' /\ OneAtWork(i)'
    BY <2>2 DEF Queued, OneAtWork, AtWork
  <2>5. Manned(i)'
    BY <1>1, <1>2, <1>5, <2>2 DEF Manned, Busy, Holds, Exists
  <2>6. StopsLast(i)'
    BY <1>1, <2>2 DEF StopsLast, Busy
  <2>7. CurrentRuns(i)'
    BY <1>1, <1>2, <1>5, <1>11, <2>2 DEF CurrentRuns, Busy, Holds
  <2>8. OnlyCurrent(disk'[i])
    BY <1>4, <1>8, <2>2 DEF Owned
  <2>9. Owned(i)'
    BY <2>4, <2>5, <2>6, <2>7, <2>8 DEF Owned, OnlyCurrent
  <2> QED
    BY <1>2, <1>11, <2>3, <2>9, OwnedFrom
<1> QED
  BY <1>6, <1>9, <1>10, <1>11

(* A replay finds the worker of a create that still runs.                  *)
LEMMA ReplayOwned ==
  ASSUME TypeOK, OwnedInv, NEW i \in Instances, Replay(i)
  PROVE  OwnedInv'
<1>1. /\ up /\ ~closed /\ ~wedged /\ mem' = mem /\ disk' = disk /\ wedged' = wedged
      /\ up' = up /\ closed' = closed /\ pruned' = pruned
      /\ cancelled' = cancelled /\ pred' = pred /\ Exists(mem[i])
      /\ (Running(mem[i], 1) /\ reg[i] = 0 /\ mem[i].lifecycle = "active") \/ UNCHANGED <<pc, reg>>
  BY DEF Replay, Free, life, store
<1>2. CASE UNCHANGED <<pc, reg>>
  BY <1>1, <1>2, StillOwned DEF workers
<1>3. CASE Running(mem[i], 1) /\ reg[i] = 0 /\ mem[i].lifecycle = "active"
  <2>1. Owned(i)
    BY DEF OwnedInv
  <2>2. 1 \in 1..mem[i].nops
    <3>1. mem[i].nops \in Nat /\ mem[i].nops > 0
      BY <1>1, <2>1, BoundsAssumption DEF Owned, Manned, TypeOK, Instance
    <3> QED
      BY <3>1
  <2>3. Busy(i, 1)
    BY <1>1, <1>3, <2>1, <2>2 DEF Owned, CurrentRuns
  <2>4. 1 \in OpIds
    BY BoundsAssumption DEF OpIds
  <2>5. ~Busy(i, 1)
    BY <1>1, <1>3, <2>1, <2>4 DEF Owned, Queued, Busy
  <2> QED
    BY <2>3, <2>5
<1> QED
  BY <1>1, <1>2, <1>3

(* What change finds: no stop is at work, and nothing else runs than the   *)
(* operation of the registered worker, which it cancels.                   *)
LEMMA ChangeFinds ==
  ASSUME TypeOK, OwnedInv, NEW i \in Instances, NEW kind \in {"stop", "restart"}, Change(i, kind)
  PROVE  /\ \A o \in OpIds : Busy(i, o) => mem[i].ops[o].kind # "stop"
         /\ \A q \in 1..mem[i].nops : Running(mem[i], q) =>
              q = reg[i] /\ q # 0 /\ q \notin cancelled[i]
<1>1. /\ up /\ ~closed /\ ~wedged /\ Owned(i) /\ Holds(mem[i])
      /\ reg[i] # 0 => IF kind = "stop" THEN mem[i].ops[reg[i]].kind # "stop"
                                        ELSE ~Running(mem[i], reg[i])
  BY DEF Change, Free, OwnedInv, MayStop, MayRestart, Holds
<1>2. ASSUME NEW o \in OpIds, Busy(i, o), mem[i].ops[o].kind = "stop" PROVE FALSE
  <2>1. reg[i] = o /\ Running(mem[i], o)
    BY <1>1, <1>2 DEF Owned, StopsLast
  <2> QED
    BY <1>1, <1>2, <2>1 DEF OpIds
<1>3. ASSUME NEW q \in 1..mem[i].nops, Running(mem[i], q)
      PROVE  q = reg[i] /\ q # 0 /\ q \notin cancelled[i]
  <2>1. q \in OpIds /\ mem[i].nops \in Nat /\ reg[i] \in Nat
    BY BoundsAssumption DEF TypeOK, Instance, OpIds
  <2>2. q = mem[i].nops /\ q \notin cancelled[i] /\ Busy(i, q)
    BY <1>1, <1>3 DEF Owned, CurrentRuns
  <2>3. q <= reg[i]
    BY <1>1, <2>1, <2>2 DEF Owned, Queued, Busy
  <2>4. reg[i] <= mem[i].nops
    BY <1>1 DEF Owned, Manned, Holds, Exists
  <2> QED
    BY <2>1, <2>2, <2>3, <2>4 DEF OpIds
<1> QED
  BY <1>2, <1>3

(* A stop or restart takes the room over from the worker before it.        *)
LEMMA ChangeOwned ==
  ASSUME TypeOK, OwnedInv, NEW i \in Instances, NEW kind \in {"stop", "restart"}, Change(i, kind)
  PROVE  OwnedInv'
<1> DEFINE old  == reg[i]
           o    == mem[i].nops + 1
           x    == AddOp(mem[i], kind)
           ends == old # 0 /\ old \notin cancelled[i] /\ Running(x, old)
           y    == IF ends THEN EndOp(x, old, "cancelled") ELSE x
           z    == IF ends THEN FailedSave(y, old) ELSE y
           S(u, f) == FailedSave(u, f)
<1>1. /\ up /\ up' = up /\ ~closed /\ closed' = closed /\ ~wedged /\ pruned' = pruned
      /\ cancelled' = [cancelled EXCEPT ![i] = IF old = 0 THEN @ ELSE @ \cup {old}]
      /\ Holds(mem[i]) /\ mem[i].nops < MaxOps
  BY DEF Change, Free, life, MayStop, MayRestart, Holds
<1>2. /\ mem \in [Instances -> Instance] /\ disk \in [Instances -> Instance]
      /\ pc \in [Instances -> [OpIds -> Pcs]] /\ reg \in [Instances -> 0..MaxOps]
      /\ pred \in [Instances -> [OpIds -> 0..MaxOps]]
      /\ cancelled \in [Instances -> SUBSET OpIds]
  BY DEF TypeOK
<1>3. /\ mem[i] \in Instance /\ mem[i].nops \in Nat /\ o \in OpIds /\ o \in 1..o
      /\ 1..mem[i].nops \subseteq OpIds
      /\ reg[i] \in Nat /\ (old # 0 => old \in OpIds)
  BY <1>1, <1>2, BoundsAssumption DEF Instance, OpIds
<1>4. /\ Owned(i) /\ Queued(i) /\ Manned(i)
      /\ reg[i] <= mem[i].nops /\ cancelled[i] \subseteq 1..mem[i].nops
  BY <1>1 DEF OwnedInv, Owned, Manned, Holds, Exists
<1>5. /\ \A q \in OpIds : Busy(i, q) => mem[i].ops[q].kind # "stop"
      /\ \A q \in 1..mem[i].nops : Running(mem[i], q) =>
           q = old /\ q # 0 /\ q \notin cancelled[i]
  BY ChangeFinds
<1>6. /\ x \in Instance /\ x.nops = o /\ x.lifecycle = mem[i].lifecycle
      /\ Running(x, o) /\ x.ops[o].kind = kind
      /\ \A q \in OpIds : q # o => x.ops[q] = mem[i].ops[q]
  <2>1. x \in Instance /\ x.lifecycle = mem[i].lifecycle
    BY <1>1, <1>3, AddOpType
  <2>2. x.nops = o /\ x.ops = [mem[i].ops EXCEPT ![o] = NewOp(kind, mem[i].gen)]
    BY <1>3 DEF AddOp, Instance
  <2>3. mem[i].ops \in [OpIds -> Operation]
    BY <1>3 DEF Instance
  <2>4. x.ops[o] = NewOp(kind, mem[i].gen)
    BY <1>3, <2>2, <2>3
  <2> QED
    BY <2>1, <2>2, <2>3, <2>4 DEF NewOp, Running
<1>7. \/ /\ Saved(i, y) /\ Goto(i, o, "wait")
         /\ pred' = [pred EXCEPT ![i][o] = old] /\ reg' = [reg EXCEPT ![i] = o]
      \/ /\ NotSaved(i, y, S(z, o)) \/ (Faulted(i, y, S(y, o)) /\ wedged' = TRUE)
         /\ pc' = pc /\ pred' = pred /\ reg' = reg
  BY DEF Change
<1>8. ends => old # o
  BY <1>3, <1>4
<1> HIDE DEF x
<1>9. /\ Lasts(x, y) /\ (Holds(x) => Holds(y)) /\ (Running(x, o) => Running(y, o))
      /\ \A q \in OpIds : Running(y, q) => Running(x, q)
      /\ ends => ~Running(y, old)
  <2>1. CASE ends
    <3>1. Ends(x, y, old)
      BY <1>3, <1>6, <2>1, EndOpEnds
    <3>2. /\ Lasts(x, y) /\ (Holds(x) => Holds(y)) /\ ~Running(y, old)
          /\ \A q \in OpIds : q # old => y.ops[q].status = x.ops[q].status
      BY <3>1 DEF Ends, EndedAlone
    <3> QED
      BY <1>3, <1>8, <2>1, <3>2 DEF Running
  <2>2. CASE ~ends
    <3>1. y = x
      BY <2>2
    <3> QED
      BY <1>6, <2>2, <3>1, AlikeSelf DEF Alike
  <2> QED
    BY <2>1, <2>2
<1>10. \A q \in 1..mem[i].nops : ~Running(y, q)
  <2>1. ASSUME NEW q \in 1..mem[i].nops, Running(y, q) PROVE FALSE
    <3>1. q # o /\ q \in OpIds
      BY <1>3
    <3>2. Running(x, q) /\ Running(mem[i], q)
      BY <1>6, <1>9, <2>1, <3>1 DEF Running
    <3>3. q = old /\ q # 0 /\ q \notin cancelled[i]
      BY <1>5, <2>1, <3>2
    <3>4. ends
      BY <3>2, <3>3
    <3> QED
      BY <1>9, <2>1, <3>3, <3>4
  <2> QED
    BY <2>1
<1>11. y \in Instance /\ y.nops = o /\ Holds(y) /\ Running(y, o)
       /\ \A q \in OpIds : y.ops[q].kind = x.ops[q].kind
  BY <1>1, <1>6, <1>9 DEF Lasts, Holds
<1>12. OnlyCurrent(y)
  BY <1>3, <1>10, <1>11 DEF OnlyCurrent
<1>13. cancelled'[i] \subseteq 1..mem[i].nops /\ o \notin cancelled'[i]
  BY <1>1, <1>2, <1>3, <1>4
<1>14. \A q \in OpIds : Busy(i, q) => /\ q # o /\ mem[i].ops[q].kind = x.ops[q].kind
                                      /\ q <= mem[i].nops
  BY <1>3, <1>4, <1>6 DEF Queued, Busy, OpIds
<1>15. \A q \in OpIds : pc[i][q] # "none" => q < o
  BY <1>3, <1>4 DEF Queued, OpIds
<1>16. CASE /\ Saved(i, y) /\ Goto(i, o, "wait")
            /\ pred' = [pred EXCEPT ![i][o] = old] /\ reg' = [reg EXCEPT ![i] = o]
  <2>1. mem' = [mem EXCEPT ![i] = y] /\ disk' = mem' /\ wedged' = wedged
    BY <1>16 DEF Saved, StoreSaved, Published
  <2>2. /\ mem'[i] = y /\ disk'[i] = y /\ reg'[i] = o /\ pc'[i][o] = "wait" /\ pred'[i][o] = old
        /\ \A q \in OpIds : q # o => pc'[i][q] = pc[i][q] /\ pred'[i][q] = pred[i][q]
    BY <1>2, <1>3, <1>16, <2>1 DEF Goto
  <2>3. \A j \in Instances : j # i =>
            /\ mem'[j] = mem[j] /\ SameWorkers(j) /\ disk'[j] = mem[j]
    BY <1>1, <1>2, <1>16, <2>1 DEF SameWorkers, Goto
  <2>4. Queued(i)'
    <3>1. \A q \in OpIds : pc'[i][q] # "none" => q <= o
      BY <1>3, <1>15, <2>2 DEF OpIds
    <3>2. ASSUME NEW a \in OpIds, NEW q \in OpIds, a < q, pc'[i][a] # "none", pc'[i][q] # "none"
          PROVE  /\ pc'[i][q] = "wait" /\ pred'[i][q] # 0
                 /\ a <= pred'[i][q] /\ pc'[i][pred'[i][q]] # "none"
      <4>1. a # o /\ pc[i][a] # "none"
        BY <1>3, <2>2, <3>1, <3>2 DEF OpIds
      <4>2. CASE q = o
        <5>1. old # 0 /\ a <= old /\ pc[i][old] # "none"
          BY <1>4, <4>1 DEF Queued
        <5>2. old # o /\ old \in OpIds
          BY <1>3, <1>4, <5>1
        <5> QED
          BY <2>2, <4>2, <5>1, <5>2
      <4>3. CASE q # o
        <5>1. /\ pc[i][q] = "wait" /\ pred[i][q] # 0 /\ a <= pred[i][q]
              /\ pc[i][pred[i][q]] # "none"
          BY <1>4, <2>2, <3>2, <4>1, <4>3 DEF Queued
        <5>2. pred[i][q] \in OpIds
          BY <1>2, <5>1, BoundsAssumption DEF OpIds
        <5>3. pred[i][q] # o
          BY <1>3, <1>15, <5>1, <5>2 DEF OpIds
        <5> QED
          BY <2>2, <4>3, <5>1, <5>2, <5>3
      <4> QED
        BY <4>2, <4>3
    <3>3. reg'[i] # 0 /\ pc'[i][reg'[i]] # "none"
      BY <1>3, <2>2
    <3> QED
      BY <2>2, <3>1, <3>2, <3>3 DEF Queued
  <2>5. OneAtWork(i)'
    BY <1>4, <2>2 DEF Owned, OneAtWork, AtWork
  <2>6. Manned(i)'
    <3>1. /\ o > 0 /\ reg'[i] <= o /\ cancelled'[i] \subseteq 1..o /\ Exists(y)
      BY <1>3, <1>11, <1>13, <2>2 DEF Holds, Exists
    <3> QED
      BY <1>11, <2>2, <3>1 DEF Manned
  <2>7. StopsLast(i)'
    <3>1. ASSUME NEW s \in OpIds, Busy(i, s)', y.ops[s].kind = "stop"
          PROVE  s = o
      BY <1>5, <1>11, <1>14, <2>2, <3>1 DEF Busy
    <3>2. \A q \in 1..y.nops : q # o => ~Running(y, q)
      <4>1. \A q \in 1..y.nops : q # o => q \in 1..mem[i].nops
        BY <1>3, <1>11
      <4> QED
        BY <1>10, <4>1
    <3> HIDE DEF y
    <3>3. \A s \in OpIds : Busy(i, s)' /\ y.ops[s].kind = "stop" =>
             /\ pc'[i][s] = "wait" /\ reg'[i] = s /\ Running(y, s)
             /\ \A q \in 1..y.nops : q # s => ~Running(y, q)
      BY <1>11, <2>2, <3>1, <3>2
    <3> QED
      BY <2>2, <3>3 DEF StopsLast, AtWork
  <2>8. CurrentRuns(i)'
    <3>1. ASSUME NEW q \in 1..y.nops, Running(y, q) PROVE q = o
      <4>1. q = o \/ q \in 1..mem[i].nops
        BY <1>3, <1>11
      <4> QED
        BY <1>10, <3>1, <4>1
    <3>2. pc'[i][o] \notin {"none", "exit"}
      BY <2>2
    <3> HIDE DEF y
    <3>3. \A q \in 1..y.nops : Running(y, q) =>
             /\ q = y.nops /\ Holds(y) /\ q \notin cancelled'[i]
             /\ pc'[i][q] \notin {"none", "exit"}
      BY <1>11, <1>13, <3>1, <3>2
    <3> QED
      BY <2>2, <3>3 DEF CurrentRuns, Busy
  <2>9. Owned(i)'
    BY <1>12, <2>2, <2>4, <2>5, <2>6, <2>7, <2>8 DEF Owned, OnlyCurrent
  <2> QED
    BY <1>1, <2>1, <2>3, <2>9, OwnedFrom
<1>17. CASE /\ NotSaved(i, y, S(z, o)) \/ (Faulted(i, y, S(y, o)) /\ wedged' = TRUE)
            /\ pc' = pc /\ pred' = pred /\ reg' = reg
  <2>1. (ends => z = FailedSave(y, old)) /\ (~ends => z = y) /\ (ends => old \in OpIds)
    BY <1>3
  <2> HIDE DEF y, z, ends
  <2>0. z \in Instance /\ z.nops = o /\ Holds(z) /\ (\A q \in OpIds : Running(z, q) => Running(y, q))
        /\ \A q \in OpIds : z.ops[q].kind = x.ops[q].kind
    <3>1. CASE ends
      <4>1. Ends(y, z, old)
        BY <1>11, <2>1, <3>1, FailureEnds
      <4>2. Lasts(y, z) /\ Holds(z) /\ ~Running(z, old)
            /\ \A q \in OpIds : q # old => z.ops[q].status = y.ops[q].status
        BY <1>11, <4>1 DEF Ends, EndedAlone
      <4>3. \A q \in OpIds : Running(z, q) => Running(y, q)
        BY <4>2 DEF Running
      <4>4. z \in Instance /\ z.nops = y.nops /\ \A q \in OpIds : z.ops[q].kind = y.ops[q].kind
        BY <4>2 DEF Lasts
      <4> QED
        BY <1>11, <4>2, <4>3, <4>4
    <3>2. CASE ~ends
      BY <1>11, <2>1, <3>2
    <3> QED
      BY <3>1, <3>2
  <2>2. PICK u \in {y, z} : NotSaved(i, y, S(u, o)) \/ (Faulted(i, y, S(u, o)) /\ wedged' = TRUE)
    BY <1>17
  <2> DEFINE w == S(u, o)
  <2>3. Ends(u, w, o)
    BY <1>3, <1>11, <2>0, FailureEnds
  <2>4. /\ w.nops = o /\ Holds(w) /\ \A q \in OpIds : w.ops[q].kind = x.ops[q].kind
        /\ ~Running(w, o) /\ \A q \in OpIds : Running(w, q) => Running(y, q)
    BY <1>11, <2>0, <2>3 DEF Ends, EndedAlone, Lasts, Running
  <2>5. /\ mem' = [mem EXCEPT ![i] = w] /\ wedged' = TRUE
        /\ disk' = disk \/ disk' = [mem EXCEPT ![i] = y]
    <3>1. CASE NotSaved(i, y, w)
      BY <1>1, <3>1 DEF NotSaved, Rejected, Faulted
    <3>2. CASE Faulted(i, y, w) /\ wedged' = TRUE
      BY <3>2 DEF Faulted
    <3> QED
      BY <2>2, <3>1, <3>2
  <2> HIDE DEF w
  <2>6. mem'[i] = w /\ (disk'[i] = disk[i] \/ disk'[i] = y)
    BY <1>2, <2>5
  <2>7. \A j \in Instances : j # i =>
            /\ mem'[j] = mem[j] /\ SameWorkers(j) /\ (disk'[j] = disk[j] \/ disk'[j] = mem[j])
    BY <1>1, <1>2, <1>17, <2>5 DEF SameWorkers
  <2>8. \A q \in 1..w.nops : ~Running(w, q)
    BY <1>3, <1>10, <2>4
  <2>9. Queued(i)' /\ OneAtWork(i)'
    BY <1>4, <1>17 DEF Owned, Queued, OneAtWork, AtWork
  <2>10. Manned(i)'
    <3>1. /\ o > 0 /\ reg'[i] <= o /\ cancelled'[i] \subseteq 1..o /\ Exists(w)
      BY <1>3, <1>4, <1>13, <1>17, <2>4 DEF Holds, Exists
    <3> QED
      BY <2>4, <2>6, <3>1 DEF Manned
  <2>11. StopsLast(i)'
    <3>1. ASSUME NEW s \in OpIds, Busy(i, s)' PROVE w.ops[s].kind # "stop"
      BY <1>5, <1>14, <1>17, <2>4, <3>1 DEF Busy
    <3> QED
      BY <2>6, <3>1 DEF StopsLast
  <2>12. CurrentRuns(i)'
    BY <2>6, <2>8 DEF CurrentRuns
  <2>13. OnlyCurrent(disk'[i])
    BY <1>4, <1>12, <2>6 DEF Owned
  <2>14. Owned(i)'
    BY <2>9, <2>10, <2>11, <2>12, <2>13 DEF Owned, OnlyCurrent
  <2> QED
    BY <1>1, <2>5, <2>7, <2>14, OwnedFrom
<1> QED
  BY <1>7, <1>16, <1>17

(* Recovery takes over every operation of a record, and starts none.       *)
LEMMA RecoveredLasts ==
  ASSUME NEW x \in Instance, ValidRecord(x), NEW v \in Searches
  PROVE  /\ Lasts(x, Recovered(x, v)) /\ Recovered(x, v).gen = x.gen
         /\ Holds(x) <=> Holds(Recovered(x, v))
         /\ \A q \in OpIds : Running(Recovered(x, v), q) => Running(x, q)
<1>1. CASE ~Holds(x)
  BY <1>1 DEF Recovered, Lasts
<1>2. CASE Holds(x)
  <2> DEFINE y == Located(x, v)
             r == Recovered(x, v)
             e == IF Running(y, y.nops) THEN EndOp(y, y.nops, "failed") ELSE y
             f == [e EXCEPT !.lifecycle = "failed", !.err = TRUE,
                            !.room = IF y.process = "stopped" THEN "failed" ELSE @]
             b == AtPhase(y, y.nops, "observing")
             a == [b EXCEPT !.lifecycle = "active"]
  <2>1. y \in Instance /\ y.lifecycle = x.lifecycle
    BY LocatedType
  <2>2. /\ y.nops = x.nops /\ y.key = x.key /\ y.ops = x.ops
        /\ y.port = x.port /\ y.gen = x.gen
    BY LocatedKeeps
  <2>3. Alike(x, y) /\ Holds(y)
    BY <1>2, <2>1, <2>2, AlikeFields DEF Holds, Exists
  <2>4. y.nops \in OpIds
    <3>1. x.nops > 0
      BY <1>2 DEF ValidRecord, ValidInstance, Exists, Holds
    <3> QED
      BY <2>1, <2>2, <3>1, BoundsAssumption DEF Instance, OpIds
  <2>5. r = f \/ r = y \/ r = a
    BY <1>2 DEF Recovered, RecoveryFailed
  <2> HIDE DEF y, r
  <2>6. Lasts(y, e) /\ e.gen = y.gen /\ \A q \in OpIds : Running(e, q) => Running(y, q)
    <3>1. CASE Running(y, y.nops)
      <4>1. Ends(y, e, y.nops)
        BY <2>1, <2>4, <3>1, EndOpEnds
      <4> HIDE DEF e
      <4> QED
        BY <4>1 DEF Ends, EndedAlone, Lasts, Running
    <3>2. CASE ~Running(y, y.nops)
      BY <2>1, <3>2, AlikeSelf DEF Alike
    <3> QED
      BY <3>1, <3>2
  <2>7. Alike(y, b)
    BY <2>1, AtPhaseAlike
  <2> HIDE DEF e, b
  <2>8. Lasts(y, r) /\ Holds(r) /\ r.gen = y.gen /\ \A q \in OpIds : Running(r, q) => Running(y, q)
    <3>1. CASE r = f
      <4>1. e \in Instance
        BY <2>6 DEF Lasts
      <4>2. /\ f.nops = e.nops /\ f.key = e.key /\ f.port = e.port /\ f.ops = e.ops
            /\ f.gen = e.gen
        BY <4>1 DEF Instance
      <4>3. f \in Instance /\ f.lifecycle = "failed"
        BY <2>1, RecoveryFailedType DEF RecoveryFailed, e
      <4> HIDE DEF f
      <4> QED
        BY <2>6, <3>1, <4>2, <4>3 DEF Lasts, Running, Exists, Holds
    <3>2. CASE r = y
      BY <2>1, <2>3, <3>2, AlikeSelf DEF Alike
    <3>3. CASE r = a
      <4>1. b \in Instance
        BY <2>7, AlikeIsInstance
      <4>2. /\ a \in Instance /\ a.lifecycle = "active"
            /\ a.nops = b.nops /\ a.key = b.key /\ a.port = b.port /\ a.ops = b.ops
            /\ a.gen = b.gen
        BY <4>1 DEF Instance
      <4> HIDE DEF a
      <4> QED
        BY <2>7, <3>3, <4>2 DEF Alike, Lasts, Running, Exists, Holds
    <3> QED
      BY <2>5, <3>1, <3>2, <3>3
  <2>9. Lasts(x, r) /\ r.gen = x.gen /\ \A q \in OpIds : Running(r, q) => Running(x, q)
    BY <2>2, <2>3, <2>8 DEF Alike, Lasts, Running
  <2> QED
    BY <1>2, <2>8, <2>9 DEF r
<1> QED
  BY <1>1, <1>2

(* An expired history leaves no room to work on.                           *)
LEMMA PruneOwned ==
  ASSUME TypeOK, OwnedInv, NEW i \in Instances, Prune(i)
  PROVE  OwnedInv'
<1>1. /\ up /\ up' = up /\ ~closed /\ closed' = closed /\ ~wedged /\ ~Holds(mem[i])
      /\ pc' = pc /\ reg' = reg /\ pred' = pred /\ cancelled' = cancelled
      /\ pruned' = IF Exists(disk'[i]) THEN pruned ELSE pruned \cup {i}
      /\ \/ StoreSaved(i, Absent)
         \/ /\ Rejected(i, Absent, mem[i]) \/ Faulted(i, Absent, mem[i])
            /\ wedged' = TRUE
  BY DEF Prune, Free, life, workers, Holds
<1>2. /\ mem \in [Instances -> Instance] /\ disk \in [Instances -> Instance]
      /\ ~Exists(Absent) /\ Absent.nops = 0
  BY DEF TypeOK, Absent, Exists
<1>3. Owned(i) /\ \A o \in OpIds : ~Busy(i, o)
  BY <1>1 DEF OwnedInv, Owned, Manned
<1>4. (closed \/ Queued(i))' /\ OneAtWork(i)' /\ \A o \in OpIds : ~Busy(i, o)'
  BY <1>1, <1>3 DEF Owned, Queued, OneAtWork, AtWork, Busy
<1>5. StopsLast(i)'
  BY <1>4 DEF StopsLast
<1>6. CASE StoreSaved(i, Absent)
  <2>1. mem' = [mem EXCEPT ![i] = Absent] /\ disk' = mem' /\ wedged' = wedged
    BY <1>6 DEF StoreSaved, Published
  <2>2. mem'[i] = Absent /\ disk'[i] = Absent /\ i \in pruned'
    BY <1>1, <1>2, <2>1
  <2>3. \A j \in Instances : j # i =>
          /\ mem'[j] = mem[j] /\ SameWorkers(j) /\ disk'[j] = mem[j]
          /\ j \in pruned' <=> j \in pruned
    BY <1>1, <1>2, <2>1 DEF SameWorkers
  <2>4. Manned(i)' /\ CurrentRuns(i)' /\ OnlyCurrent(disk'[i])
    BY <1>2, <1>4, <2>2 DEF Manned, CurrentRuns, OnlyCurrent
  <2>5. Owned(i)'
    BY <1>4, <1>5, <2>4 DEF Owned, OnlyCurrent
  <2> QED
    BY <1>1, <2>1, <2>3, <2>5, OwnedFrom
<1>7. CASE /\ Rejected(i, Absent, mem[i]) \/ Faulted(i, Absent, mem[i])
           /\ wedged' = TRUE
  <2>1. mem' = [mem EXCEPT ![i] = mem[i]] /\ (disk' = disk \/ disk' = [mem EXCEPT ![i] = Absent])
    BY <1>7 DEF Rejected, Faulted
  <2>2. mem' = mem /\ (disk'[i] = disk[i] \/ disk'[i] = Absent)
    BY <1>2, <2>1
  <2>3. \A j \in Instances : j # i =>
          /\ mem'[j] = mem[j] /\ SameWorkers(j) /\ (disk'[j] = disk[j] \/ disk'[j] = mem[j])
          /\ j \in pruned' <=> j \in pruned
    BY <1>1, <1>2, <2>1 DEF SameWorkers
  <2>4. i \notin pruned' => i \notin pruned
    BY <1>1
  <2>5. Manned(i)'
    BY <1>1, <1>3, <2>2, <2>4 DEF Owned, Manned, Busy
  <2>6. CurrentRuns(i)'
    BY <1>1, <1>3, <1>7, <2>2 DEF Owned, CurrentRuns, Busy
  <2>7. OnlyCurrent(disk'[i])
    BY <1>2, <1>3, <2>2 DEF Owned, OnlyCurrent
  <2>8. Owned(i)'
    BY <1>4, <1>5, <2>5, <2>6, <2>7 DEF Owned, OnlyCurrent
  <2> QED
    BY <1>1, <1>7, <2>3, <2>8, OwnedFrom
<1> QED
  BY <1>1, <1>6, <1>7

(* The manager process takes its workers with it.                          *)
LEMMA DownOwned ==
  ASSUME TypeOK, OwnedInv, Down
  PROVE  OwnedInv'
<1>1. /\ ~up' /\ disk' = disk
      /\ \A i \in Instances :
           /\ mem'[i] = Absent /\ reg'[i] = 0 /\ cancelled'[i] = {}
           /\ \A o \in OpIds : pc'[i][o] = "none"
  BY DEF Down
<1>2. ~Exists(Absent) /\ Absent.nops = 0
  BY DEF Absent, Exists
<1>3. ASSUME NEW i \in Instances PROVE Owned(i)'
  <2>1. Queued(i)' /\ OneAtWork(i)' /\ Manned(i)' /\ StopsLast(i)'
    BY <1>1, <1>2 DEF Queued, OneAtWork, Manned, StopsLast, AtWork, Busy
  <2>2. CurrentRuns(i)' /\ OnlyCurrent(disk'[i])
    BY <1>1, <1>2 DEF CurrentRuns, OwnedInv, Owned
  <2> QED
    BY <2>1, <2>2 DEF Owned, OnlyCurrent
<1> QED
  BY <1>1, <1>3 DEF OwnedInv, DownIsClean

(* Recovery gives the current operation a worker again, and runs no other. *)
LEMMA ReopenOwned ==
  ASSUME TypeOK, Valid(disk), DownIsIdle, OwnedInv, Reopen
  PROVE  OwnedInv'
<1>1. PICK v \in Findings(disk) :
        LET m == Recovery(v) IN
         \/ /\ up' = TRUE /\ mem' = m /\ disk' = m
            /\ pc' = [i \in Instances |-> [o \in OpIds |->
                        IF ~(Resumes(m[i]) /\ o = m[i].nops) THEN "none"
                        ELSE IF m[i].ops[o].kind = "stop" THEN "wait" ELSE "observe"]]
            /\ reg' = [i \in Instances |-> IF Resumes(m[i]) THEN m[i].nops ELSE 0]
         \/ /\ disk' \in {disk, m}
            /\ UNCHANGED <<up, mem, pc, reg>>
  BY DEF Reopen
<1> DEFINE m == Recovery(v)
<1>2. ~up /\ wedged' = wedged /\ closed' = closed /\ cancelled' = cancelled /\ pruned' = pruned
      /\ pred' = pred
  BY DEF Reopen, history
<1>3. disk \in [Instances -> Instance] /\ DOMAIN disk = Instances
  BY DEF TypeOK
<1>4. \A i \in Instances :
        /\ Lasts(disk[i], m[i]) /\ (Holds(disk[i]) <=> Holds(m[i]))
        /\ \A q \in OpIds : Running(m[i], q) => Running(disk[i], q)
        /\ Exists(m[i]) => m[i].nops > 0
  <2>1. TAKE i \in Instances
  <2>2. m[i] = Recovered(disk[i], v[i]) /\ v[i] \in Searches
    BY DEF Recovery, Findings
  <2>3. disk[i] \in Instance /\ ValidRecord(disk[i])
    BY <1>3 DEF Valid, ValidRecord
  <2> HIDE DEF m
  <2>4. ValidRecord(m[i])
    BY <2>2, <2>3, RecoveredValid
  <2> QED
    BY <2>2, <2>3, <2>4, RecoveredLasts DEF ValidRecord, ValidInstance
<1>5. \A i \in Instances : cancelled[i] = {} /\ reg[i] = 0 /\ Owned(i)
                           /\ mem[i] = Absent /\ \A o \in OpIds : pc[i][o] = "none"
  BY <1>2 DEF OwnedInv, DownIsClean, DownIsIdle
<1> HIDE DEF m
<1>6. \A i \in Instances : m[i] \in Instance /\ m[i].nops \in Nat /\ 1..m[i].nops \subseteq OpIds
                           /\ m[i].nops = disk[i].nops
  BY <1>4, BoundsAssumption DEF Lasts, Instance, OpIds
<1>7. ASSUME NEW i \in Instances PROVE OnlyCurrent(m[i])
  <2>1. OnlyCurrent(disk[i])
    BY <1>5 DEF Owned
  <2>2. ASSUME NEW q \in 1..m[i].nops, Running(m[i], q) PROVE q = m[i].nops /\ Holds(m[i])
    <3>1. q \in 1..disk[i].nops /\ q \in OpIds
      BY <1>6
    <3>2. Running(disk[i], q)
      BY <1>4, <2>2, <3>1
    <3> QED
      BY <1>4, <1>6, <2>1, <3>1, <3>2 DEF OnlyCurrent
  <2> QED
    BY <2>2 DEF OnlyCurrent
<1>8. CASE /\ up' = TRUE /\ mem' = m /\ disk' = m
           /\ pc' = [i \in Instances |-> [o \in OpIds |->
                       IF ~(Resumes(m[i]) /\ o = m[i].nops) THEN "none"
                       ELSE IF m[i].ops[o].kind = "stop" THEN "wait" ELSE "observe"]]
           /\ reg' = [i \in Instances |-> IF Resumes(m[i]) THEN m[i].nops ELSE 0]
  <2>1. ASSUME NEW i \in Instances PROVE Owned(i)'
    <3> DEFINE x == m[i]
    <3>1. /\ mem'[i] = x /\ disk'[i] = x /\ cancelled'[i] = {}
          /\ reg'[i] = IF Resumes(x) THEN x.nops ELSE 0
          /\ \A o \in OpIds : pc'[i][o] = IF ~(Resumes(x) /\ o = x.nops) THEN "none"
                                          ELSE IF x.ops[o].kind = "stop" THEN "wait" ELSE "observe"
      BY <1>2, <1>5, <1>8
    <3>2. OnlyCurrent(x) /\ x.nops \in Nat /\ 1..x.nops \subseteq OpIds
          /\ (Exists(x) => x.nops > 0)
      BY <1>4, <1>6, <1>7
    <3> HIDE DEF x
    <3>3. Resumes(x) => Exists(x) /\ Holds(x) /\ x.nops > 0 /\ x.nops \in OpIds /\ Running(x, x.nops)
      <4>1. x.nops > 0 => x.nops \in 1..x.nops
        BY <3>2
      <4> QED
        BY <3>2, <4>1 DEF Resumes, Holds, Exists
    <3>4. \A o \in OpIds : pc'[i][o] # "none" => /\ Resumes(x) /\ o = x.nops /\ pc'[i][o] # "exit"
                                                 /\ pc'[i][o] = "wait" <=> x.ops[o].kind = "stop"
      BY <3>1
    <3>5. Queued(i)'
      <4>1. \A o \in OpIds : pc'[i][o] # "none" => reg'[i] # 0 /\ o <= reg'[i]
        BY <3>1, <3>2, <3>3, <3>4 DEF OpIds
      <4>2. reg'[i] # 0 => pc'[i][reg'[i]] # "none"
        BY <3>1, <3>3
      <4>3. \A o, q \in OpIds : o < q => pc'[i][o] = "none" \/ pc'[i][q] = "none"
        BY <3>4 DEF OpIds
      <4> QED
        BY <4>1, <4>2, <4>3 DEF Queued
    <3>6. OneAtWork(i)'
      BY <3>4 DEF OneAtWork, AtWork
    <3>7. Manned(i)'
      <4>1. \A o \in OpIds : Busy(i, o)' => Holds(x)
        BY <3>3, <3>4 DEF Busy
      <4>2. Exists(x) => x.nops > 0 /\ reg'[i] <= x.nops /\ cancelled'[i] \subseteq 1..x.nops
        BY <3>1, <3>2
      <4>3. ~Exists(x) => reg'[i] = 0 /\ cancelled'[i] = {} /\ \A o \in OpIds : pc'[i][o] = "none"
        BY <3>1, <3>3
      <4> QED
        BY <3>1, <4>1, <4>2, <4>3 DEF Manned
    <3>8. StopsLast(i)'
      <4>1. ASSUME NEW o \in OpIds, Busy(i, o)', x.ops[o].kind = "stop"
            PROVE  /\ ~AtWork(i, o)' /\ reg'[i] = o /\ Running(x, o)
                   /\ \A q \in 1..x.nops : q # o => ~Running(x, q)
        <5>1. Resumes(x) /\ o = x.nops /\ pc'[i][o] = "wait"
          BY <3>4, <4>1 DEF Busy
        <5> QED
          BY <3>1, <3>2, <3>3, <5>1 DEF AtWork, OnlyCurrent
      <4> QED
        BY <3>1, <4>1 DEF StopsLast
    <3>9. CurrentRuns(i)'
      <4>1. ASSUME NEW q \in 1..x.nops, Running(x, q)
            PROVE  q = x.nops /\ Holds(x) /\ pc'[i][q] \notin {"none", "exit"}
        <5>1. q = x.nops /\ Holds(x) /\ q \in OpIds
          BY <3>2, <4>1 DEF OnlyCurrent
        <5>2. Resumes(x)
          BY <4>1, <5>1 DEF Resumes
        <5> QED
          BY <3>1, <5>1, <5>2
      <4> QED
        BY <3>1, <4>1 DEF CurrentRuns, Busy
    <3> QED
      BY <3>1, <3>2, <3>5, <3>6, <3>7, <3>8, <3>9 DEF Owned, OnlyCurrent
  <2> QED
    BY <1>8, <2>1 DEF OwnedInv, DownIsClean
<1>9. CASE disk' \in {disk, m} /\ UNCHANGED <<up, mem, pc, reg>>
  <2>1. ASSUME NEW i \in Instances PROVE Owned(i)'
    <3>1. /\ mem'[i] = Absent /\ reg'[i] = 0 /\ cancelled'[i] = {}
          /\ \A o \in OpIds : pc'[i][o] = "none"
      BY <1>2, <1>5, <1>9
    <3>2. ~Exists(Absent) /\ Absent.nops = 0
      BY DEF Absent, Exists
    <3>3. Queued(i)' /\ OneAtWork(i)' /\ Manned(i)' /\ StopsLast(i)'
      BY <3>1, <3>2 DEF Queued, OneAtWork, Manned, StopsLast, AtWork, Busy
    <3>4. CurrentRuns(i)'
      BY <3>1, <3>2 DEF CurrentRuns
    <3>5. OnlyCurrent(disk'[i])
      BY <1>5, <1>7, <1>9 DEF Owned
    <3> QED
      BY <3>3, <3>4, <3>5 DEF Owned, OnlyCurrent
  <2> QED
    BY <1>2, <1>5, <1>9, <2>1 DEF OwnedInv, DownIsClean
<1> QED
  BY <1>1, <1>8, <1>9 DEF m

(* Every step keeps all rooms owned.                                       *)
LEMMA NextOwned ==
  ASSUME IInv, Valid(disk), OwnedInv, [Next]_vars
  PROVE  OwnedInv'
<1>1. TypeOK /\ DownIsIdle
  BY DEF IInv
<1>2. ASSUME NEW i \in Instances, NEW o \in OpIds, WorkerStep(i, o) PROVE OwnedInv'
  <2>1. up
    <3>1. ~up => pc[i][o] = "none"
      BY <1>1 DEF DownIsIdle
    <3>2. pc[i][o] # "none"
      BY <1>1, <1>2, WorkerAtWork
    <3> QED
      BY <3>1, <3>2
  <2> QED
    BY <1>1, <1>2, <2>1, WorkerOwned
<1>3. ASSUME NEW i \in Instances, Request(i) PROVE OwnedInv'
  BY <1>1, <1>3, CreateOwned, ReplayOwned, ChangeOwned DEF Request, Stop, Restart
<1>4. ASSUME NEW i \in Instances, NEW v \in Verdicts, Watch(i, v) PROVE OwnedInv'
  BY <1>1, <1>4, WatchOwned
<1>5. ASSUME NEW i \in Instances, Prune(i) PROVE OwnedInv'
  BY <1>1, <1>5, PruneOwned
<1>6. ASSUME NEW i \in Instances, NEW g \in Gens, GameExits(i, g) PROVE OwnedInv'
  BY <1>6, StillOwned DEF GameExits, store, life, history
<1>7. ASSUME Close PROVE OwnedInv'
  BY <1>7, StillOwned DEF Close, store, history, Free
<1>8. ASSUME UNCHANGED vars PROVE OwnedInv'
  BY <1>8, StillOwned DEF vars, store, life, history
<1>9. ASSUME Exited \/ Crash PROVE OwnedInv'
  BY <1>1, <1>9, DownOwned DEF Exited, Crash
<1>10. ASSUME Reopen PROVE OwnedInv'
  BY <1>1, <1>10, ReopenOwned
<1> QED
  BY <1>2, <1>3, <1>4, <1>5, <1>6, <1>7, <1>8, <1>9, <1>10 DEF Next

(* So all rooms are owned, always.                                         *)
LEMMA RoomsOwned == Spec => []OwnedInv
<1>1. ASSUME Init PROVE OwnedInv
  <2>1. /\ \A i \in Instances : mem[i] = Absent /\ disk[i] = Absent /\ reg[i] = 0 /\ cancelled[i] = {}
                                /\ \A o \in OpIds : pc[i][o] = "none"
        /\ ~Exists(Absent) /\ Absent.nops = 0
    BY <1>1 DEF Init, Absent, Exists
  <2>2. ASSUME NEW i \in Instances PROVE Owned(i)
    BY <2>1 DEF Owned, Queued, OneAtWork, Manned, StopsLast, CurrentRuns, OnlyCurrent, AtWork, Busy
  <2> QED
    BY <2>1, <2>2 DEF OwnedInv, DownIsClean
<1>2. IInv /\ Valid(disk) /\ OwnedInv /\ [Next]_vars => OwnedInv'
  BY NextOwned
<1> QED
  BY <1>1, <1>2, Invariance, FileValid, PTL DEF Spec

(* At most one worker of a room is past waiting: the workers of a room     *)
(* form a queue, each waiting for the done channel of one that is not      *)
(* older than any other before it (change, finishWorker).                  *)
THEOREM OneWorkerAtATime == Spec => []OneActiveWorker
<1>1. OwnedInv => OneActiveWorker
  BY DEF OwnedInv, Owned, OneAtWork, AtWork, OneActiveWorker
<1> QED
  BY <1>1, RoomsOwned, PTL

(* While requests are accepted, an operation that runs is the current one  *)
(* and its worker has not returned: a worker that leaves early was told to *)
(* quit by a change that has ended its operation (finish, recover).        *)
THEOREM NobodyLeftRunning == Spec => []RunningHasWorker
<1>1. OwnedInv => RunningHasWorker
  BY DEF OwnedInv, Owned, CurrentRuns, Busy, RunningHasWorker
<1> QED
  BY <1>1, RoomsOwned, PTL
=============================================================================
