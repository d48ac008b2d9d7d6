--------------------------- MODULE ServiceProofs ---------------------------
(***************************************************************************)
(* Theorems about Service, for any numbers of managers, clients, calls,    *)
(* faults, kills and losses of power.  All of them rest on the lock:       *)
(* it has one holder, which gives it up last, and a child that has not     *)
(* reached its exec keeps it.                                              *)
(***************************************************************************)
EXTENDS Service, TLAPS

(* The variables that the theorems are about.                              *)
Types ==
    /\ pc \in [Managers -> Pcs] /\ save \in [Managers -> Saves]
    /\ busy \in [Managers -> Calls \cup {None}]

(* The lock has one holder, and one that has it keeps children from others.*)
Exclusive ==
    /\ \A m, n \in Managers : pc[m] \in Holding /\ pc[n] \in Holding => m = n
    /\ \A m, n \in Managers : pc[m] \in Holding /\ n \in forked => m = n

(* A Save is the recovery's or a creation's, and ends before the manager.  *)
Saving ==
    \A m \in Managers :
        /\ busy[m] # None => pc[m] \in {"serving", "draining"}
        /\ save[m] # "none" => IF busy[m] = None THEN pc[m] = "recovering"
                                                 ELSE pc[m] \in {"serving", "draining"}

(* From Listen on the socket is there, and the record names it once it was *)
(* published.                                                              *)
Listed ==
    \A m \in Managers :
        /\ pc[m] \in Listening => m \in sockets
        /\ pc[m] \in {"published", "recovering", "serving"} => endpoint = m

IInv == Types /\ Exclusive /\ Saving /\ Listed

USE ServiceAssumption DEF Pcs, Holding, Listening, Saves

----------------------------------------------------------------------------
(* Before the first manager there is nothing.                              *)
LEMMA Initially == ASSUME Init PROVE IInv
  BY DEF Init, IInv, Types, Exclusive, Saving, Listed

(* Listen and Open: a manager takes the lock only when nobody has it.      *)
LEMMA Starting == ASSUME IInv, NEW m \in Managers, Start(m) PROVE IInv'
<1> USE DEF IInv, Types, Exclusive, Saving, Listed, Goto, local, disk
<1>1. CASE Lock(m)
  BY <1>1 DEF Lock, LockFree
<1>2. CASE Bind(m)
  BY <1>2 DEF Bind
<1>3. CASE CheckEndpoint(m)
  BY <1>3 DEF CheckEndpoint
<1>4. CASE PublishEndpoint(m)
  BY <1>4 DEF PublishEndpoint
<1>5. CASE Open(m)
  BY <1>5 DEF Open
<1> QED  BY <1>1, <1>2, <1>3, <1>4, <1>5 DEF Start

(* A Save that goes on, ...                                                *)
LEMMA Going ==
    ASSUME IInv, NEW m \in Managers, NEW from \in Saves \ {"none"}, NEW to \in Saves,
           Step(m, from, to)
    PROVE  IInv'
  BY DEF IInv, Types, Exclusive, Saving, Listed, Step, AtSave, local

(* ... and one that ends, with or without success.                         *)
LEMMA Ending ==
    ASSUME IInv, NEW m \in Managers, NEW from \in Saves \ {"none"},
           NEW published, NEW synced, SaveEnds(m, from, published, synced), UNCHANGED local
    PROVE  IInv'
<1> USE DEF IInv, Types, Exclusive, Saving, Listed, SaveEnds, AtSave, Goto, local
<1>1. CASE busy[m] = None
  <2>1. CASE synced
    BY <1>1, <2>1
  <2>2. CASE ~synced
    BY <1>1, <2>2
  <2> QED  BY <2>1, <2>2
<1>2. CASE busy[m] # None
  BY <1>2
<1> QED  BY <1>1, <1>2

(* Every step of a Save.                                                   *)
LEMMA SaveStep == ASSUME IInv, NEW m \in Managers, Save(m) PROVE IInv'
<1>1. CASE CheckStore(m)
  BY <1>1, Going DEF CheckStore, local
<1>2. CASE WriteMarker(m)
  BY <1>2, Going, Ending DEF WriteMarker, local
<1>3. CASE WriteTemp(m)
  BY <1>3, Going, Ending DEF WriteTemp, SaveFails, local
<1>4. CASE Replace(m)
  BY <1>4, Going, Ending DEF Replace, SaveFails, local
<1>5. CASE SyncDirectory(m)
  BY <1>5, Going, Ending DEF SyncDirectory, local
<1> QED  BY <1>1, <1>2, <1>3, <1>4, <1>5 DEF Save

(* A request begins a Save only of a manager that serves or drains.        *)
LEMMA Handling ==
    ASSUME IInv, NEW m \in Managers, NEW c \in Calls, Accept(m, c) \/ Handle(m, c)
    PROVE  IInv'
<1> USE DEF IInv, Types, Exclusive, Saving, Listed, local, process
<1>1. CASE Accept(m, c)
  BY <1>1 DEF Accept
<1>2. CASE Handle(m, c)
  BY <1>2 DEF Handle
<1> QED  BY <1>1, <1>2

(* Children come from the one that serves.                                 *)
LEMMA Forking == ASSUME IInv, NEW m \in Managers, Fork(m) \/ Exec(m) PROVE IInv'
  BY DEF IInv, Types, Exclusive, Saving, Listed, process, Fork, Exec

(* A manager on its way out, and one that is killed.                       *)
LEMMA Leaving == ASSUME IInv, NEW m \in Managers, End(m) \/ Kill(m) PROVE IInv'
<1> USE DEF IInv, Types, Exclusive, Saving, Listed, Goto, local, disk
<1>1. CASE Drain(m)
  BY <1>1 DEF Drain
<1>2. CASE Close(m)
  BY <1>2 DEF Close
<1>3. CASE ReadEndpoint(m)
  BY <1>3 DEF ReadEndpoint
<1>4. CASE RemoveEndpoint(m)
  BY <1>4 DEF RemoveEndpoint
<1>5. CASE RemoveSocket(m)
  BY <1>5 DEF RemoveSocket
<1>6. CASE Exit(m)
  BY <1>6 DEF Exit, Ended
<1>7. CASE Kill(m)
  BY <1>7 DEF Kill, Ended
<1> QED  BY <1>1, <1>2, <1>3, <1>4, <1>5, <1>6, <1>7 DEF End

(* Nobody outlives a loss of power.                                        *)
LEMMA Losing == ASSUME IInv, PowerLoss PROVE IInv'
<1>1. \A m \in Managers : pc'[m] \in {"new", "dead"}
  BY DEF PowerLoss
<1>2. pc' \in [Managers -> Pcs]
  BY DEF PowerLoss
<1>3. \A m \in Managers : busy'[m] = None /\ save'[m] = "none"
  BY DEF PowerLoss, Ended, IInv, Types, Saving
<1>4. busy' \in [Managers -> Calls \cup {None}] /\ save' \in [Managers -> Saves]
  BY <1>3 DEF PowerLoss, Ended
<1> QED  BY <1>1, <1>2, <1>3, <1>4 DEF IInv, Types, Exclusive, Saving, Listed

(* Steps that touch nothing of this keep it.                               *)
LEMMA Untouched ==
    ASSUME IInv, UNCHANGED <<pc, save, busy, endpoint, sockets, forked>>
    PROVE  IInv'
  BY DEF IInv, Types, Exclusive, Saving, Listed

(* A client changes only the calls.                                        *)
LEMMA Calling == ASSUME NEW c \in Calls, Client(c) PROVE UNCHANGED <<process, local>>
  BY DEF Client, Look, Dial, GiveUp

----------------------------------------------------------------------------
(* IInv holds in every state of all the managers of a data directory.      *)
THEOREM ServiceInvariance == Spec => []IInv
<1>1. ASSUME IInv, [Next]_vars PROVE IInv'
  <2>1. CASE \E m \in Managers : Start(m) \/ Save(m) \/ Fork(m) \/ Exec(m) \/ End(m) \/ Kill(m)
    BY <1>1, <2>1, Starting, SaveStep, Forking, Leaving
  <2>2. CASE \E m \in Managers, c \in Calls : Accept(m, c) \/ Handle(m, c)
    BY <1>1, <2>2, Handling
  <2>3. CASE (\E c \in Calls : Client(c)) \/ UNCHANGED vars
    <3>1. UNCHANGED <<process, local>>
      BY <2>3, Calling DEF vars
    <3> QED  BY <1>1, <3>1, Untouched DEF process, local
  <2>4. CASE PowerLoss
    BY <1>1, <2>4, Losing
  <2> QED  BY <1>1, <2>1, <2>2, <2>3, <2>4 DEF Next
<1> QED  BY Initially, <1>1, PTL DEF Spec

(* No two managers ever write one data directory.                          *)
THEOREM WriterAlone == Spec => []OneWriter
<1>1. IInv => OneWriter  BY DEF IInv, Types, Exclusive, Saving, OneWriter, MayWrite
<1> QED  BY ServiceInvariance, <1>1, PTL

(* No manager opens the store while a predecessor's child has not reached  *)
(* its exec: its search by the command line misses none.                   *)
THEOREM ChildrenSeen == Spec => []NoChildUnseen
<1>1. IInv => NoChildUnseen  BY DEF IInv, Exclusive, NoChildUnseen
<1> QED  BY ServiceInvariance, <1>1, PTL

(* A manager that serves can be found.                                     *)
THEOREM ServesReachable == Spec => []Reachable
<1>1. IInv => Reachable  BY DEF IInv, Listed, Reachable
<1> QED  BY ServiceInvariance, <1>1, PTL

----------------------------------------------------------------------------
(* Service implements Promise.  What was answered is durable; what is      *)
(* durable is visible; and the one manager that may write knows what is    *)
(* visible, and knows of nothing that is not durable unless its writeError *)
(* is set.                                                                 *)

DRooms == IF durable.state = NoState THEN {} ELSE durable.state

RoomTypes ==
    /\ mem \in [Managers -> SUBSET Keys]
    /\ visible \in Files /\ durable \in Files
    /\ endpoint \in Managers \cup {None}
    /\ calls \in [Calls -> Call]

(* A call that was never used has no answer, any other one has a key, and  *)
(* the one that is handled was used.                                       *)
Used ==
    /\ \A c \in Calls : IF calls[c].at = "idle" THEN calls[c].heard = "none"
                                                ELSE calls[c].key \in Keys
    /\ \A m \in Managers : busy[m] # None => calls[busy[m]].at # "idle"

Kept == Answered \subseteq DRooms /\ DRooms \subseteq Rooms

KnowsOf(m) ==
    MayWrite(m) =>
        /\ IF save[m] = "sync" THEN visible.state = Goal(m) ELSE mem[m] = Rooms
        /\ pc[m] # "recovering" /\ m \notin faulted => mem[m] \subseteq DRooms

Knows == \A m \in Managers : KnowsOf(m)

PInv == IInv /\ RoomTypes /\ Used /\ Kept /\ Knows

(* What a step of Promise is, over the variables of Service.               *)
Promised ==
    \/ Rooms' = Rooms /\ Answered' = Answered
    \/ \E k \in Keys : k \notin Rooms /\ Rooms' = Rooms \cup {k} /\ Answered' = Answered
    \/ \E k \in Keys : k \in Rooms /\ Answered' = Answered \cup {k} /\ Rooms' = Rooms
    \/ \E lost \in SUBSET (Rooms \ Answered) : Rooms' = Rooms \ lost /\ Answered' = Answered

USE ServiceAssumption

----------------------------------------------------------------------------
(* A key set is never the absence of a state file.                         *)
LEMMA StateOfKeys == ASSUME NEW S \in SUBSET Keys PROVE S # NoState
  BY DEF NoState

(* An empty data directory has nothing to keep.                            *)
LEMMA Starts == ASSUME Init PROVE PInv
<1>1. IInv  BY Initially
<1>2. RoomTypes
  <2>1. NoFiles \in Files  BY DEF NoFiles, Files
  <2>2. NoCall \in Call  BY DEF NoCall, Call
  <2> QED  BY <2>1, <2>2 DEF Init, RoomTypes
<1>3. Used  BY DEF Init, Used, NoCall
<1>4. Answered = {} /\ DRooms = {} /\ Rooms = {}
  BY DEF Init, Answered, DRooms, Rooms, NoFiles, NoCall
<1>5. Knows  BY DEF Init, Knows, KnowsOf, MayWrite
<1> QED  BY <1>1, <1>2, <1>3, <1>4, <1>5 DEF PInv, Kept

(* Calls after which nobody was answered that was not before.              *)
Quiet ==
    /\ calls' \in [Calls -> Call]
    /\ \A c \in Calls : /\ calls[c].at # "idle" => calls'[c].at # "idle"
                        /\ calls[c].at # "idle" => calls'[c].key = calls[c].key
                        /\ calls'[c].heard = "answered" <=> calls[c].heard = "answered"
                        /\ IF calls'[c].at = "idle" THEN calls'[c].heard = "none"
                                                    ELSE calls'[c].key \in Keys

(* A step that leaves the calls alone is quiet.                            *)
LEMMA Unchanged == ASSUME RoomTypes, Used, UNCHANGED calls PROVE Quiet
  BY DEF RoomTypes, Used, Quiet

(* A call that hears something is done, and keeps an answer it had.        *)
LEMMA Hearing ==
    ASSUME NEW call \in Call, call.at # "idle", NEW what \in {"failed", "answered"}
    PROVE  /\ Hears(call, what) \in Call
           /\ Hears(call, what).at = "done" /\ Hears(call, what).key = call.key
           /\ what = "failed" => (Hears(call, what).heard = "answered" <=> call.heard = "answered")
           /\ Hears(call, what).heard = "answered" => call.heard = "answered" \/ what = "answered"
           /\ call.heard = "answered" => Hears(call, what).heard = "answered"
  BY DEF Hears, Call

(* Connections that are dropped answer nobody.                             *)
LEMMA Dropping ==
    ASSUME RoomTypes, Used, NEW m \in Managers, NEW stages \in SUBSET {"queued", "taken"},
           calls' = Dropped(m, stages)
    PROVE  Quiet
<1> SUFFICES ASSUME NEW c \in Calls
             PROVE  /\ calls'[c] \in Call
                    /\ calls[c].at # "idle" => calls'[c].at # "idle" /\ calls'[c].key = calls[c].key
                    /\ calls'[c].heard = "answered" <=> calls[c].heard = "answered"
                    /\ IF calls'[c].at = "idle" THEN calls'[c].heard = "none"
                                                ELSE calls'[c].key \in Keys
  BY DEF Dropped, Quiet
<1>1. calls[c] \in Call  BY DEF RoomTypes
<1>2. CASE calls'[c] = calls[c]
  BY <1>1, <1>2 DEF Used
<1>3. CASE calls'[c] = Hears(calls[c], "failed") /\ calls[c].at # "idle"
  BY <1>1, <1>3, Hearing DEF Used
<1> QED  BY <1>2, <1>3 DEF Dropped

(* A call that fails answers nobody.                                       *)
LEMMA Failing ==
    ASSUME RoomTypes, Used, NEW c \in Calls, calls[c].at # "idle", Reply(c, "failed")
    PROVE  Quiet
<1>1. calls[c] \in Call  BY DEF RoomTypes
<1>2. /\ Hears(calls[c], "failed") \in Call
      /\ Hears(calls[c], "failed").at = "done" /\ Hears(calls[c], "failed").key = calls[c].key
      /\ Hears(calls[c], "failed").heard = "answered" <=> calls[c].heard = "answered"
  BY <1>1, Hearing
<1> QED  BY <1>2 DEF Reply, RoomTypes, Used, Quiet

(* An answer adds its key and no other.                                    *)
LEMMA Answering ==
    ASSUME RoomTypes, Used, NEW c \in Calls, calls[c].at # "idle", Reply(c, "answered")
    PROVE  /\ calls' \in [Calls -> Call]
           /\ Answered' = Answered \/ Answered' = Answered \cup {calls[c].key}
           /\ \A d \in Calls : /\ calls[d].at # "idle" => calls'[d].at # "idle"
                               /\ calls'[d].key = calls[d].key
                               /\ IF calls'[d].at = "idle" THEN calls'[d].heard = "none"
                                                           ELSE calls'[d].key \in Keys
<1>1. calls[c] \in Call  BY DEF RoomTypes
<1>2. /\ Hears(calls[c], "answered") \in Call
      /\ Hears(calls[c], "answered").at = "done"
      /\ Hears(calls[c], "answered").key = calls[c].key
      /\ calls[c].heard = "answered" => Hears(calls[c], "answered").heard = "answered"
  BY <1>1, Hearing
<1>3. \A d \in Calls : calls'[d] = IF d = c THEN Hears(calls[c], "answered") ELSE calls[d]
  BY DEF Reply, RoomTypes
<1>4. Answered \subseteq Answered'
  BY <1>2, <1>3 DEF Answered
<1>5. Answered' \subseteq Answered \cup {calls[c].key}
  BY <1>2, <1>3 DEF Answered
<1>6. Answered' = Answered \/ Answered' = Answered \cup {calls[c].key}
  BY <1>4, <1>5
<1>7. calls' \in [Calls -> Call]
  BY <1>2 DEF Reply, RoomTypes
<1>8. calls[c].key \in Keys  BY DEF Used
<1> QED  BY <1>2, <1>3, <1>6, <1>7, <1>8 DEF Used

(* After a quiet step the same keys are answered.                          *)
LEMMA QuietAnswers == ASSUME RoomTypes, Used, Quiet PROVE Answered' = Answered
  BY DEF Used, Quiet, Answered

----------------------------------------------------------------------------
(* Calls that keep their keys, and a manager that does not move.           *)
KeysKept ==
    \A c \in Calls : calls[c].at # "idle" =>
        calls'[c].at # "idle" /\ calls'[c].key = calls[c].key

Same(n) ==
    /\ pc'[n] = pc[n] /\ mem'[n] = mem[n] /\ busy'[n] = busy[n] /\ save'[n] = save[n]
    /\ n \in faulted' <=> n \in faulted

(* What the others know is still true: either the files are what they were,*)
(* or it is m that writes them, and nobody else may.                       *)
LEMMA Others ==
    ASSUME PInv, KeysKept, NEW m \in Managers, \A n \in Managers \ {m} : Same(n),
           UNCHANGED disk \/ MayWrite(m), KnowsOf(m)'
    PROVE  Knows'
<1> SUFFICES ASSUME NEW n \in Managers, n # m, MayWrite(n)' PROVE KnowsOf(n)'
  BY DEF Knows, KnowsOf
<1>1. MayWrite(n) /\ Same(n)
  BY DEF MayWrite, Same
<1>2. OneWriter
  BY DEF PInv, IInv, Types, Exclusive, Saving, OneWriter, MayWrite, Holding, Pcs
<1>3. UNCHANGED disk
  BY <1>1, <1>2 DEF OneWriter
<1>4. Goal(n)' = Goal(n)
  BY <1>1 DEF Goal, Same, KeysKept, PInv, Used, IInv, Types
<1>5. KnowsOf(n)  BY DEF PInv, Knows
<1> QED  BY <1>1, <1>3, <1>4, <1>5 DEF KnowsOf, MayWrite, Same, Rooms, DRooms, disk

(* Nothing of the files changes, and nobody is answered.                   *)
LEMMA Still ==
    ASSUME PInv, UNCHANGED disk, Quiet
    PROVE  Kept' /\ Promised /\ KeysKept /\ UNCHANGED <<Rooms, DRooms>>
<1>1. Answered' = Answered  BY QuietAnswers DEF PInv
<1> QED  BY <1>1 DEF PInv, Kept, Promised, KeysKept, Quiet, Rooms, DRooms, disk

(* The steps that are left to show, for a manager m, and all the rest.     *)
Rest == RoomTypes' /\ Used' /\ Kept' /\ Knows' /\ Promised

(* A manager that opens the store knows what is visible.                   *)
LEMMA StartingP == ASSUME PInv, NEW m \in Managers, Start(m) PROVE Rest
<1>1. Quiet
  BY Unchanged, Dropping DEF PInv, Start, Lock, Bind, CheckEndpoint, PublishEndpoint, Open
<1>2. UNCHANGED disk /\ UNCHANGED <<busy, faulted>>
  BY DEF Start, Lock, Bind, CheckEndpoint, PublishEndpoint, Open
<1>3. Kept' /\ Promised /\ KeysKept /\ UNCHANGED <<Rooms, DRooms>>
  BY <1>1, <1>2, Still
<1>4. save[m] = "none" /\ busy[m] = None
  BY DEF PInv, IInv, Saving, Start, Lock, Bind, CheckEndpoint, PublishEndpoint, Open, Goto
<1>5. /\ \A n \in Managers \ {m} : Same(n)
      /\ KnowsOf(m)' /\ mem' \in [Managers -> SUBSET Keys]
  <2>1. CASE Open(m)
    <3>1. Fresh \/ Intact => Loaded \in SUBSET Keys /\ Loaded = Rooms
      BY DEF PInv, RoomTypes, Files, Loaded, Fresh, Intact, Rooms
    <3> QED  BY <1>2, <1>3, <1>4, <2>1, <3>1
             DEF Open, Goto, PInv, IInv, Types, RoomTypes, Same, KnowsOf, MayWrite
  <2>2. CASE Lock(m) \/ Bind(m) \/ CheckEndpoint(m) \/ PublishEndpoint(m)
    BY <1>2, <1>4, <2>2 DEF Lock, Bind, CheckEndpoint, PublishEndpoint, Goto, PInv, IInv, Types,
       RoomTypes, Same, KnowsOf, MayWrite
  <2> QED  BY <2>1, <2>2 DEF Start
<1>6. endpoint' \in Managers \cup {None}
  BY DEF PInv, RoomTypes, Start, Lock, Bind, CheckEndpoint, PublishEndpoint, Open, local
<1>7. RoomTypes' /\ Used'
  BY <1>1, <1>2, <1>5, <1>6 DEF PInv, RoomTypes, Used, Quiet, disk, IInv, Types
<1>8. Knows'
  BY <1>2, <1>3, <1>5, Others
<1> QED  BY <1>3, <1>7, <1>8 DEF Rest

(* A manager on its way out no longer writes.                              *)
LEMMA LeavingP == ASSUME PInv, NEW m \in Managers, End(m) \/ Kill(m) PROVE Rest
<1>1. Quiet
  BY Unchanged, Dropping DEF PInv, End, Drain, Close, ReadEndpoint, RemoveEndpoint, RemoveSocket,
     Exit, Kill
<1>2. UNCHANGED disk
  BY DEF End, Drain, Close, ReadEndpoint, RemoveEndpoint, RemoveSocket, Exit, Kill
<1>3. Kept' /\ Promised /\ KeysKept /\ UNCHANGED <<Rooms, DRooms>>
  BY <1>1, <1>2, Still
<1>4. /\ \A n \in Managers \ {m} : Same(n)
      /\ mem' \in [Managers -> SUBSET Keys] /\ endpoint' \in Managers \cup {None}
      /\ \A n \in Managers : busy'[n] \in {busy[n], None}
  <2> USE DEF PInv, IInv, Types, RoomTypes, Same, Goto, local
  <2>1. CASE Exit(m) \/ Kill(m)
    BY <2>1 DEF Exit, Kill, Ended
  <2>2. CASE Drain(m) \/ Close(m) \/ ReadEndpoint(m)
    BY <2>2 DEF Drain, Close, ReadEndpoint
  <2>3. CASE RemoveEndpoint(m) \/ RemoveSocket(m)
    BY <2>3 DEF RemoveEndpoint, RemoveSocket
  <2> QED  BY <2>1, <2>2, <2>3 DEF End
<1>5. KnowsOf(m)'
  <2> USE DEF PInv, IInv, Types, Saving, Goto, MayWrite
  <2>1. CASE Drain(m)
    <3>1. KnowsOf(m) /\ MayWrite(m) /\ pc[m] # "recovering" /\ Goal(m)' = Goal(m)
      BY <1>3, <2>1 DEF Drain, Knows, Goal, KeysKept, Used
    <3> QED  BY <1>2, <1>3, <2>1, <3>1 DEF Drain, KnowsOf, disk
  <2>2. CASE End(m) /\ ~Drain(m)
    BY <2>2 DEF End, Close, ReadEndpoint, RemoveEndpoint, RemoveSocket, Exit, Ended, KnowsOf
  <2>3. CASE Kill(m)
    BY <2>3 DEF Kill, Ended, KnowsOf
  <2> QED  BY <2>1, <2>2, <2>3
<1>6. RoomTypes' /\ Used'
  <2>1. RoomTypes'
    BY <1>1, <1>2, <1>4 DEF PInv, RoomTypes, Quiet, disk
  <2>2. Used'
    BY <1>1, <1>4 DEF PInv, Used, Quiet, IInv, Types
  <2> QED  BY <2>1, <2>2
<1>7. Knows'
  BY <1>2, <1>3, <1>4, <1>5, Others
<1> QED  BY <1>3, <1>6, <1>7 DEF Rest

(* A request is answered from memory, refused, or begins a Save.           *)
LEMMA HandlingP ==
    ASSUME PInv, NEW m \in Managers, NEW c \in Calls, Accept(m, c) \/ Handle(m, c)
    PROVE  Rest
<1>1. /\ UNCHANGED <<disk, local, mem, pc, faulted>>
      /\ calls[c].at # "idle"
  BY DEF Accept, Handle, process
<1>2. KeysKept /\ Kept' /\ Promised /\ calls' \in [Calls -> Call] /\ UNCHANGED <<Rooms, DRooms>>
      /\ \A d \in Calls : IF calls'[d].at = "idle" THEN calls'[d].heard = "none"
                                                     ELSE calls'[d].key \in Keys
  <2>1. CASE Quiet
    BY <1>1, <2>1, Still DEF Quiet
  <2>2. CASE Reply(c, "answered") /\ calls[c].key \in mem[m] /\ m \notin faulted
             /\ pc[m] \in {"serving", "draining"}
    <3>1. mem[m] \subseteq DRooms
      BY <2>2 DEF PInv, Knows, KnowsOf, MayWrite
    <3>2. Answered' = Answered \/ Answered' = Answered \cup {calls[c].key}
      BY <1>1, <2>2, Answering DEF PInv
    <3>3. calls[c].key \in Keys
      BY <1>1 DEF PInv, Used
    <3>4. UNCHANGED <<Rooms, DRooms>>
      BY <1>1 DEF disk, Rooms, DRooms
    <3>5. Kept' /\ Promised
      BY <2>2, <3>1, <3>2, <3>3, <3>4 DEF PInv, Kept, Promised
    <3>6. KeysKept
      BY <1>1, <2>2, Answering DEF PInv, KeysKept
    <3> QED  BY <1>1, <2>2, <3>4, <3>5, <3>6, Answering DEF PInv
  <2>3. CASE Accept(m, c)
    <3>1. CASE calls' = [calls EXCEPT ![c].at = "taken"]
      BY <1>1, <2>1, <3>1 DEF PInv, RoomTypes, Used, Quiet, Call
    <3>2. CASE Reply(c, "failed")
      BY <1>1, <2>1, <3>2, Failing DEF PInv
    <3> QED  BY <2>3, <3>1, <3>2 DEF Accept
  <2>4. CASE Handle(m, c) /\ (Reply(c, "failed") \/ UNCHANGED calls)
    BY <1>1, <2>1, <2>4, Failing, Unchanged DEF PInv
  <2> QED  BY <2>2, <2>3, <2>4 DEF Handle
<1>3. Used' /\ RoomTypes'
  <2>1. busy' = busy \/ (busy' = [busy EXCEPT ![m] = c])
    BY DEF Accept, Handle, process
  <2>2. Used'
    BY <1>1, <1>2, <2>1 DEF PInv, Used, KeysKept, IInv, Types
  <2> QED  BY <1>1, <1>2, <2>2 DEF PInv, RoomTypes, disk, local
<1>4. \A n \in Managers \ {m} : Same(n)
  BY <1>1 DEF Accept, Handle, process, Same, PInv, IInv, Types
<1>5. KnowsOf(m)'
  <2>1. CASE UNCHANGED <<busy, save>>
    <3>1. Goal(m)' = Goal(m) /\ (MayWrite(m)' <=> MayWrite(m))
      BY <1>1, <1>2, <2>1 DEF Goal, MayWrite, KeysKept, PInv, Used, IInv, Types
    <3> QED  BY <1>1, <1>2, <2>1, <3>1 DEF PInv, Knows, KnowsOf, disk
  <2>2. CASE /\ pc[m] \in {"serving", "draining"} /\ m \notin faulted /\ busy[m] = None
             /\ save' = [save EXCEPT ![m] = "check"]
    <3>1. save[m] # "sync"
      BY <2>2 DEF PInv, IInv, Saving
    <3>2. mem[m] = Rooms /\ mem[m] \subseteq DRooms
      BY <2>2, <3>1 DEF PInv, Knows, KnowsOf, MayWrite
    <3> QED  BY <1>1, <1>2, <2>2, <3>2 DEF PInv, IInv, Types, KnowsOf, disk
  <2> QED  BY <2>1, <2>2 DEF Accept, Handle, process
<1>6. Knows'
  BY <1>1, <1>2, <1>4, <1>5, Others
<1> QED  BY <1>2, <1>3, <1>6 DEF Rest

----------------------------------------------------------------------------
(* The steps of a Save by m: nobody else may write.                        *)
LEMMA SavesAlone ==
    ASSUME PInv, NEW m \in Managers, save[m] # "none"
    PROVE  /\ MayWrite(m) /\ Goal(m) \in SUBSET Keys
           /\ busy[m] # None => /\ pc[m] \in {"serving", "draining"}
                                /\ busy[m] \in Calls /\ calls[busy[m]].at # "idle"
                                /\ calls[busy[m]].key \in Keys
                                /\ Goal(m) = mem[m] \cup {calls[busy[m]].key}
           /\ busy[m] = None => pc[m] = "recovering" /\ Goal(m) = mem[m]
  BY DEF PInv, IInv, Types, Saving, RoomTypes, Used, MayWrite, Goal

(* A Save that goes on and leaves the key sets of the files alone.         *)
LEMMA GoesOnP ==
    ASSUME PInv, NEW m \in Managers, NEW from \in Saves \ {"none", "sync"},
           NEW to \in Saves \ {"none", "sync"}, Step(m, from, to),
           visible' \in Files, durable' \in Files, UNCHANGED <<Rooms, DRooms>>
    PROVE  Rest
<1>1. MayWrite(m)  BY SavesAlone DEF Step, AtSave
<1>2. Quiet /\ KeysKept
  BY Unchanged DEF Step, PInv, KeysKept
<1>3. Kept' /\ Promised
  BY <1>2, QuietAnswers DEF PInv, Kept, Promised
<1>4. \A n \in Managers \ {m} : Same(n)
  BY DEF Step, AtSave, Same, PInv, IInv, Types
<1>5. KnowsOf(m)'
  BY <1>1 DEF Step, AtSave, PInv, IInv, Types, Knows, KnowsOf
<1>6. Knows'  BY <1>1, <1>2, <1>4, <1>5, Others
<1> QED  BY <1>3, <1>6 DEF Rest, Step, local, PInv, RoomTypes, Used

(* What a Save that ends does to the calls.                                *)
LEMMA EndReplies ==
    ASSUME PInv, NEW m \in Managers, NEW from \in Saves \ {"none"},
           NEW published \in BOOLEAN, NEW synced \in BOOLEAN, SaveEnds(m, from, published, synced)
    PROVE  /\ calls' \in [Calls -> Call] /\ KeysKept
           /\ \A d \in Calls : IF calls'[d].at = "idle" THEN calls'[d].heard = "none"
                                                        ELSE calls'[d].key \in Keys
           /\ \/ Answered' = Answered
              \/ synced /\ busy[m] # None /\ Answered' = Answered \cup {calls[busy[m]].key}
<1>1. save[m] # "none"  BY DEF SaveEnds, AtSave
<1>2. CASE busy[m] = None
  <2>1. Quiet
    BY <1>2, Unchanged, Dropping DEF SaveEnds, PInv
  <2> QED  BY <2>1, QuietAnswers DEF Quiet, KeysKept, PInv
<1>3. CASE busy[m] # None /\ ~synced
  <2>1. Reply(busy[m], "failed")
    BY <1>3 DEF SaveEnds
  <2>2. Quiet
    BY <1>1, <1>3, <2>1, SavesAlone, Failing DEF PInv
  <2> QED  BY <2>2, QuietAnswers DEF Quiet, KeysKept, PInv
<1>4. CASE busy[m] # None /\ synced
  <2>1. Reply(busy[m], "answered")
    BY <1>4 DEF SaveEnds
  <2>2. busy[m] \in Calls /\ calls[busy[m]].at # "idle"
    BY <1>1, <1>4, SavesAlone
  <2> QED  BY <1>4, <2>1, <2>2, Answering DEF KeysKept, PInv
<1> QED  BY <1>2, <1>3, <1>4

(* What it does to the manager.                                            *)
LEMMA EndMoves ==
    ASSUME PInv, NEW m \in Managers, NEW from \in Saves \ {"none"},
           NEW published \in BOOLEAN, NEW synced \in BOOLEAN, SaveEnds(m, from, published, synced)
    PROVE  /\ \A n \in Managers \ {m} : Same(n)
           /\ save'[m] = "none" /\ \A n \in Managers : busy'[n] \in {busy[n], None}
           /\ mem'[m] = IF busy[m] # None /\ published THEN Goal(m) ELSE mem[m]
           /\ mem' \in [Managers -> SUBSET Keys]
           /\ busy[m] = None => /\ pc'[m] = IF synced THEN "serving" ELSE "closed"
                                /\ faulted' = faulted
           /\ busy[m] # None => /\ pc'[m] = pc[m]
                                /\ faulted' = IF published /\ ~synced THEN faulted \cup {m} ELSE faulted
<1>1. Goal(m) \in SUBSET Keys
  BY SavesAlone DEF SaveEnds, AtSave
<1>2. CASE busy[m] = None
  BY <1>2 DEF SaveEnds, AtSave, Goto, PInv, IInv, Types, RoomTypes, Same
<1>3. CASE busy[m] # None
  BY <1>1, <1>3 DEF SaveEnds, AtSave, PInv, IInv, Types, RoomTypes, Same
<1> QED  BY <1>2, <1>3

(* A Save that ends keeps the types.                                       *)
LEMMA EndTypes ==
    ASSUME PInv, NEW m \in Managers, NEW from \in Saves \ {"none"},
           NEW published \in BOOLEAN, NEW synced \in BOOLEAN, SaveEnds(m, from, published, synced),
           visible' \in Files, durable' \in Files, UNCHANGED local
    PROVE  RoomTypes' /\ Used'
<1>1. RoomTypes'
  BY EndReplies, EndMoves DEF PInv, RoomTypes, local
<1>2. Used'
  BY EndReplies, EndMoves DEF PInv, Used, KeysKept, IInv, Types
<1> QED  BY <1>1, <1>2

(* A Save that published nothing: memory still is what the files show.     *)
LEMMA NothingSaved ==
    ASSUME PInv, NEW m \in Managers, NEW from \in Saves \ {"none", "sync"},
           SaveEnds(m, from, FALSE, FALSE), UNCHANGED local,
           visible' \in Files, durable' \in Files, UNCHANGED <<Rooms, DRooms>>
    PROVE  Rest
<1>1. save[m] = from /\ MayWrite(m)
  BY SavesAlone DEF SaveEnds, AtSave
<1>2. RoomTypes' /\ Used'
  BY EndTypes
<1>3. KeysKept /\ Answered' = Answered
  BY EndReplies
<1>4. Kept' /\ Promised
  BY <1>3 DEF PInv, Kept, Promised
<1>5. KnowsOf(m)'
  <2>1. KnowsOf(m)  BY DEF PInv, Knows
  <2>2. CASE busy[m] = None
    BY <2>2, EndMoves DEF KnowsOf, MayWrite
  <2>3. CASE busy[m] # None
    BY <1>1, <2>1, <2>3, EndMoves DEF KnowsOf, MayWrite
  <2> QED  BY <2>2, <2>3
<1>6. Knows'
  BY <1>1, <1>3, <1>5, EndMoves, Others
<1> QED  BY <1>2, <1>4, <1>6 DEF Rest

(* Before the state is replaced a Save writes the marker and a temporary   *)
(* file: neither is a room.                                                *)
LEMMA BeforeReplaceP ==
    ASSUME PInv, NEW m \in Managers, CheckStore(m) \/ WriteMarker(m) \/ WriteTemp(m)
    PROVE  Rest
<1> USE DEF Saves
<1>1. visible' \in Files /\ durable' \in Files /\ UNCHANGED <<Rooms, DRooms>>
  BY DEF PInv, RoomTypes, Files, Rooms, DRooms, CheckStore, WriteMarker, WriteTemp, SaveFails,
     disk
<1>2. CASE CheckStore(m)
  BY <1>1, <1>2, GoesOnP DEF CheckStore
<1>3. CASE WriteMarker(m)
  BY <1>1, <1>3, GoesOnP, NothingSaved DEF WriteMarker
<1>4. CASE WriteTemp(m)
  BY <1>1, <1>4, GoesOnP, NothingSaved DEF WriteTemp, SaveFails
<1> QED  BY <1>2, <1>3, <1>4

(* The rename makes the room, or none that was not there.                  *)
LEMMA ReplaceP == ASSUME PInv, NEW m \in Managers, Replace(m) PROVE Rest
<1> USE DEF Saves
<1>1. CASE SaveFails(m, "replace")
  <2>1. visible' \in Files /\ durable' \in Files /\ UNCHANGED <<Rooms, DRooms>>
    BY <1>1 DEF SaveFails, PInv, RoomTypes, disk, Rooms, DRooms
  <2> QED  BY <1>1, <2>1, NothingSaved DEF SaveFails
<1>2. CASE /\ Step(m, "replace", "sync")
           /\ visible' = [visible EXCEPT !.state = Goal(m)] /\ UNCHANGED durable
  <2>1. save[m] = "replace" /\ MayWrite(m) /\ Goal(m) \in SUBSET Keys
    BY <1>2, SavesAlone DEF Step, AtSave
  <2>2. visible' \in Files /\ visible'.state = Goal(m) /\ Rooms' = Goal(m) /\ DRooms' = DRooms
    BY <1>2, <2>1, StateOfKeys DEF PInv, RoomTypes, Files, Rooms, DRooms
  <2>3. mem[m] = Rooms
    BY <2>1 DEF PInv, Knows, KnowsOf
  <2>4. Rooms' = Rooms \/ \E k \in Keys : k \notin Rooms /\ Rooms' = Rooms \cup {k}
    <3>1. CASE busy[m] = None
      BY <2>1, <2>2, <2>3, <3>1, SavesAlone
    <3>2. CASE busy[m] # None
      <4>1. calls[busy[m]].key \in Keys /\ Rooms' = Rooms \cup {calls[busy[m]].key}
        BY <2>1, <2>2, <2>3, <3>2, SavesAlone
      <4> QED  BY <4>1
    <3> QED  BY <3>1, <3>2
  <2>5. Quiet /\ KeysKept /\ Answered' = Answered
    BY <1>2, Unchanged, QuietAnswers DEF Step, PInv, KeysKept
  <2>6. Kept' /\ Promised
    BY <2>2, <2>4, <2>5 DEF PInv, Kept, Promised
  <2>7. \A n \in Managers \ {m} : Same(n)
    BY <1>2 DEF Step, AtSave, Same, PInv, IInv, Types
  <2>8. KnowsOf(m)'
    <3>1. KnowsOf(m)  BY DEF PInv, Knows
    <3>2. Goal(m)' = Goal(m) /\ save'[m] = "sync"
      BY <1>2 DEF Step, AtSave, Goal, PInv, IInv, Types
    <3> QED  BY <1>2, <2>1, <2>2, <3>1, <3>2 DEF Step, KnowsOf
  <2>9. Knows'  BY <2>1, <2>5, <2>7, <2>8, Others
  <2> QED  BY <1>2, <2>2, <2>6, <2>9 DEF Rest, Step, local, PInv, RoomTypes, Used
<1> QED  BY <1>1, <1>2 DEF Replace

(* Only what the directory was synced for is answered.                     *)
LEMMA SyncP == ASSUME PInv, NEW m \in Managers, SyncDirectory(m) PROVE Rest
<1> USE DEF Saves
<1>1. PICK synced \in BOOLEAN :
        /\ SaveEnds(m, "sync", TRUE, synced) /\ UNCHANGED <<visible, local>>
        /\ durable' = IF synced THEN visible ELSE durable
  BY DEF SyncDirectory, disk
<1>2. save[m] = "sync" /\ MayWrite(m) /\ Goal(m) \in SUBSET Keys
  BY <1>1, SavesAlone DEF SaveEnds, AtSave
<1>3. visible.state = Goal(m) /\ Rooms = Goal(m)
  BY <1>2, StateOfKeys DEF PInv, Knows, KnowsOf, Rooms
<1>4. visible' \in Files /\ durable' \in Files
  BY <1>1 DEF PInv, RoomTypes
<1>5. RoomTypes' /\ Used'
  BY <1>1, <1>4, EndTypes
<1>6. Rooms' = Rooms /\ DRooms' = IF synced THEN Rooms ELSE DRooms
  BY <1>1 DEF Rooms, DRooms
<1>7. /\ KeysKept
      /\ \/ Answered' = Answered
         \/ synced /\ busy[m] # None /\ Answered' = Answered \cup {calls[busy[m]].key}
  <2>1. CASE synced = TRUE
    <3>1. SaveEnds(m, "sync", TRUE, TRUE)  BY <1>1, <2>1
    <3> QED  BY <2>1, <3>1, EndReplies
  <2>2. CASE synced = FALSE
    <3>1. SaveEnds(m, "sync", TRUE, FALSE)  BY <1>1, <2>2
    <3> QED  BY <2>2, <3>1, EndReplies
  <2> QED  BY <2>1, <2>2
<1>8. busy[m] # None => calls[busy[m]].key \in Keys /\ calls[busy[m]].key \in Rooms
  BY <1>2, <1>3, SavesAlone
<1>9. Kept' /\ Promised
  BY <1>6, <1>7, <1>8 DEF PInv, Kept, Promised
<1>10. /\ \A n \in Managers \ {m} : Same(n)
       /\ save'[m] = "none" /\ mem'[m] = IF busy[m] # None THEN Goal(m) ELSE mem[m]
       /\ busy[m] = None => pc'[m] = IF synced THEN "serving" ELSE "closed"
       /\ busy[m] # None => (~synced => faulted' = faulted \cup {m})
  <2>1. CASE synced = TRUE
    <3>1. SaveEnds(m, "sync", TRUE, TRUE)  BY <1>1, <2>1
    <3> QED  BY <2>1, <3>1, EndMoves
  <2>2. CASE synced = FALSE
    <3>1. SaveEnds(m, "sync", TRUE, FALSE)  BY <1>1, <2>2
    <3> QED  BY <2>2, <3>1, EndMoves
  <2> QED  BY <2>1, <2>2
<1>11. KnowsOf(m)'
  <2>1. mem'[m] = Rooms' /\ save'[m] = "none"
    BY <1>2, <1>3, <1>6, <1>10, SavesAlone
  <2>2. synced => Rooms' = DRooms'
    BY <1>6
  <2>3. ~synced /\ MayWrite(m)' => m \in faulted'
    BY <1>10, <2>1 DEF MayWrite
  <2> QED  BY <2>1, <2>2, <2>3 DEF KnowsOf
<1>12. Knows'
  BY <1>2, <1>7, <1>10, <1>11, Others
<1> QED  BY <1>5, <1>9, <1>12 DEF Rest

(* Children have nothing to do with the rooms.                             *)
LEMMA ForkingP == ASSUME PInv, NEW m \in Managers, Fork(m) \/ Exec(m) PROVE Rest
<1>1. UNCHANGED <<process, disk, endpoint, calls>>
  BY DEF Fork, Exec
<1> QED
  BY <1>1 DEF Rest, PInv, RoomTypes, Used, Kept, Knows, KnowsOf, MayWrite, Goal, Rooms, DRooms,
     Answered, Promised, process, disk

(* A client that looks, dials and gives up learns of no room.              *)
LEMMA ClientP == ASSUME PInv, NEW c \in Calls, Client(c) PROVE Rest
<1>1. UNCHANGED <<process, disk, local>>
  BY DEF Client, Look, Dial, GiveUp
<1>2. Quiet
  <2> USE DEF PInv, RoomTypes, Used, Quiet
  <2>1. ASSUME NEW k \in Keys, Look(c, k) PROVE Quiet
    BY <2>1 DEF Look, Call
  <2>2. CASE Dial(c)
    <3>1. CASE calls' = [calls EXCEPT ![c].at = "queued"]
      BY <2>2, <3>1 DEF Dial, Call
    <3>2. CASE Reply(c, "failed")
      BY <2>2, <3>2, Failing DEF Dial
    <3> QED  BY <2>2, <3>1, <3>2 DEF Dial
  <2>3. CASE GiveUp(c)
    <3>1. calls[c] \in Call /\ calls[c].at # "idle"
      BY <2>3 DEF GiveUp
    <3>2. calls' = [calls EXCEPT ![c].heard = "failed",
                                 ![c].at = IF calls[c].at = "looked" THEN "done" ELSE calls[c].at]
      BY <2>3 DEF GiveUp
    <3>3. calls'[c] \in Call /\ calls'[c].at # "idle" /\ calls'[c].heard = "failed"
          /\ calls'[c].key = calls[c].key
      BY <3>1, <3>2 DEF Call
    <3>4. \A d \in Calls \ {c} : calls'[d] = calls[d]
      BY <3>2
    <3>5. calls[c].heard = "waiting"
      BY <2>3 DEF GiveUp
    <3> QED  BY <3>1, <3>2, <3>3, <3>4, <3>5
  <2> QED  BY <2>1, <2>2, <2>3 DEF Client
<1>3. Kept' /\ Promised /\ KeysKept /\ UNCHANGED <<Rooms, DRooms>>
  BY <1>1, <1>2, Still
<1>4. RoomTypes' /\ Used'
  BY <1>1, <1>2 DEF PInv, RoomTypes, Used, Quiet, process, disk, local, IInv, Types
<1>5. \A n \in Managers : Goal(n)' = Goal(n)
  BY <1>1, <1>3 DEF Goal, KeysKept, PInv, Used, IInv, Types, process
<1>6. Knows'
  BY <1>1, <1>3, <1>5 DEF PInv, Knows, KnowsOf, MayWrite, process, disk
<1> QED  BY <1>3, <1>4, <1>6 DEF Rest

(* A loss of power forgets rooms, but none that was answered.              *)
LEMMA LosingP == ASSUME PInv, PowerLoss PROVE Rest
<1>1. /\ visible'.state \in {visible.state, durable.state}
      /\ visible' \in Files /\ durable' = visible'
  BY DEF PowerLoss, PInv, RoomTypes, Files
<1>2. Quiet
  <2>1. ASSUME NEW c \in Calls
        PROVE  calls'[c] = IF calls[c].at = "idle" THEN calls[c] ELSE Hears(calls[c], "failed")
    BY DEF PowerLoss
  <2>2. ASSUME NEW c \in Calls, calls[c].at # "idle"
        PROVE  /\ Hears(calls[c], "failed") \in Call
               /\ Hears(calls[c], "failed").at = "done"
               /\ Hears(calls[c], "failed").key = calls[c].key
               /\ Hears(calls[c], "failed").heard = "answered" <=> calls[c].heard = "answered"
    BY <2>2, Hearing DEF PInv, RoomTypes
  <2>3. calls' \in [Calls -> Call]
    BY <2>2 DEF PowerLoss, PInv, RoomTypes
  <2> QED  BY <2>1, <2>2, <2>3 DEF PInv, Used, Quiet
<1>3. Answered' = Answered  BY <1>2, QuietAnswers DEF PInv
<1>4. DRooms' = Rooms' /\ Rooms' \in {Rooms, DRooms}
  BY <1>1 DEF Rooms, DRooms
<1>5. Kept'  BY <1>3, <1>4 DEF PInv, Kept
<1>6. Promised
  <2>1. Rooms' = Rooms \ (Rooms \ Rooms') /\ Rooms \ Rooms' \in SUBSET (Rooms \ Answered)
    BY <1>4 DEF PInv, Kept
  <2> QED  BY <1>3, <2>1 DEF Promised
<1>7. /\ \A m \in Managers : busy'[m] = None /\ ~MayWrite(m)'
      /\ mem' \in [Managers -> SUBSET Keys]
  BY DEF PowerLoss, Ended, PInv, IInv, Types, Saving, RoomTypes, MayWrite
<1>8. RoomTypes' /\ Used' /\ Knows'
  BY <1>1, <1>2, <1>7 DEF PowerLoss, PInv, RoomTypes, Used, Quiet, Knows, KnowsOf
<1> QED  BY <1>5, <1>6, <1>8 DEF Rest

----------------------------------------------------------------------------
(* Every step keeps PInv and is a step of Promise, or none.                *)
LEMMA StepP == ASSUME PInv, [Next]_vars PROVE Rest
<1>1. CASE \E m \in Managers : Save(m)
  BY <1>1, BeforeReplaceP, ReplaceP, SyncP DEF Save
<1>2. CASE \E m \in Managers : Start(m) \/ Fork(m) \/ Exec(m) \/ End(m) \/ Kill(m)
  BY <1>2, StartingP, ForkingP, LeavingP
<1>3. CASE \E m \in Managers, c \in Calls : Accept(m, c) \/ Handle(m, c)
  BY <1>3, HandlingP
<1>4. CASE (\E c \in Calls : Client(c)) \/ PowerLoss
  BY <1>4, ClientP, LosingP
<1>5. CASE UNCHANGED vars
  BY <1>5 DEF Rest, PInv, RoomTypes, Used, Kept, Knows, KnowsOf, MayWrite, Goal, Rooms, DRooms,
     Answered, Promised, vars, process, disk, local
<1> QED  BY <1>1, <1>2, <1>3, <1>4, <1>5 DEF Next

(* The invariant behind it: what was answered is durable, what is durable  *)
(* is visible, and the manager that may write knows what is visible.       *)
THEOREM PromiseInvariance == Spec => []PInv
<1>1. Spec => [](RoomTypes /\ Used /\ Kept /\ Knows)
  <2>1. Init => RoomTypes /\ Used /\ Kept /\ Knows
    BY Starts DEF PInv
  <2>2. IInv /\ (RoomTypes /\ Used /\ Kept /\ Knows) /\ [Next]_vars
          => (RoomTypes /\ Used /\ Kept /\ Knows)'
    BY StepP DEF PInv, Rest
  <2> QED  BY <2>1, <2>2, ServiceInvariance, PTL DEF Spec
<1> QED  BY <1>1, ServiceInvariance, PTL DEF PInv

(* The managers of a data directory, over all crashes, faults and losses   *)
(* of power, implement Promise: every creation key makes one room, and an  *)
(* answered creation is never lost.                                        *)
THEOREM ImplementsPromise == Spec => KeepsPromise
<1>1. Init => ThePromise!Init
  BY DEF Init, ThePromise!Init, Rooms, Answered, NoFiles, NoCall
<1>2. PInv /\ [Next]_vars => [ThePromise!Next]_<<Rooms, Answered>>
  <2>1. SUFFICES ASSUME PInv, [Next]_vars PROVE [ThePromise!Next]_<<Rooms, Answered>>
    OBVIOUS
  <2>2. Promised  BY <2>1, StepP DEF Rest
  <2> QED
    BY <2>2 DEF Promised, ThePromise!Next, ThePromise!Make, ThePromise!Answer, ThePromise!Forget
<1> QED  BY <1>1, <1>2, PromiseInvariance, PTL DEF Spec, KeepsPromise, ThePromise!Spec
----------------------------------------------------------------------------
(* A store that was saved once always opens again.  A state file that any  *)
(* loss of power may leave is visible too, and was put beside a marker     *)
(* that had been synced; the Save at work relies on the marker it saw or   *)
(* wrote, and rewrites one only as long as there is no state file.         *)

Marked == visible.marker = "ok" /\ durable.marker = "ok"

Openable ==
    /\ durable.state # NoState => visible.state # NoState
    /\ visible.state # NoState => Marked
    /\ \A m \in Managers :
         /\ save[m] = "mark" => visible.state = NoState
         /\ save[m] \in {"temp", "replace", "sync"} => Marked

(* No Save is at work but that of the one that may write.                  *)
LEMMA SoleSave ==
    ASSUME PInv, NEW m \in Managers, save[m] # "none", NEW n \in Managers \ {m}
    PROVE  save[n] = "none"
  BY DEF PInv, IInv, Types, Exclusive, Saving

(* A Save that is cut or ends leaves a store that opens.                   *)
LEMMA OpenableSaves ==
    ASSUME PInv, Openable, NEW m \in Managers, Save(m)
    PROVE  Openable'
<1>1. visible \in Files /\ durable \in Files /\ save \in [Managers -> Saves]
  BY DEF PInv, IInv, Types, RoomTypes
<1>2. save[m] # "none" /\ save'[m] \in Saves /\ \A n \in Managers \ {m} : save'[n] = save[n]
  BY <1>1 DEF Save, CheckStore, WriteMarker, WriteTemp, Replace, SyncDirectory, SaveFails,
     Step, SaveEnds, AtSave
<1>3. \A n \in Managers \ {m} : save'[n] = "none"
  BY <1>2, SoleSave
<1>4. SUFFICES /\ durable'.state # NoState => visible'.state # NoState
               /\ visible'.state # NoState => Marked'
               /\ save'[m] = "mark" => visible'.state = NoState
               /\ save'[m] \in {"temp", "replace", "sync"} => Marked'
  BY <1>3 DEF Openable
<1> USE DEF Openable, Marked, Files
<1>5. CASE CheckStore(m)
  BY <1>1, <1>5 DEF CheckStore, Step, AtSave, Intact, Fresh, disk
<1>6. CASE WriteMarker(m)
  BY <1>1, <1>6 DEF WriteMarker, Step, SaveEnds, AtSave
<1>7. CASE WriteTemp(m)
  BY <1>1, <1>7 DEF WriteTemp, SaveFails, Step, SaveEnds, AtSave, disk
<1>8. CASE Replace(m)
  <2>1. Goal(m) # NoState /\ save[m] = "replace"
    BY <1>8, SavesAlone, StateOfKeys DEF Replace, SaveFails, Step, SaveEnds, AtSave
  <2> QED
    BY <1>1, <1>8, <2>1 DEF Replace, SaveFails, Step, SaveEnds, AtSave, disk
<1>9. CASE SyncDirectory(m)
  BY <1>1, <1>9 DEF SyncDirectory, SaveEnds, AtSave, disk
<1> QED  BY <1>5, <1>6, <1>7, <1>8, <1>9 DEF Save

(* Of a store that opens, a loss of power leaves one that opens.           *)
LEMMA OpenableLosses == ASSUME PInv, Openable, PowerLoss PROVE Openable'
<1>1. \A m \in Managers : save'[m] = "none"
  BY DEF PowerLoss, Ended, PInv, IInv, Types, Saving
<1>2. /\ visible'.marker \in {visible.marker, durable.marker}
      /\ visible'.state \in {visible.state, durable.state}
      /\ durable' = visible'
  BY DEF PowerLoss
<1> QED  BY <1>1, <1>2 DEF Openable, Marked

(* Nothing else touches the files, and a Save only begins or is dropped.   *)
LEMMA OpenableElse ==
    ASSUME PInv, Openable, UNCHANGED disk,
           \A m \in Managers : save'[m] \in {save[m], "check", "none"}
    PROVE  Openable'
  BY DEF Openable, Marked, disk

(* A manager that read its endpoint and ends without serving: only Open    *)
(* does that, and only if there is no state to open.                       *)
OnlyUnsaved ==
    \A m \in Managers : pc[m] = "published" /\ pc'[m] = "closed" => durable.state = NoState

(* Every other step of a manager leaves the saving to the Save.            *)
LEMMA Moving ==
    ASSUME PInv, Openable, NEW m \in Managers,
           Start(m) \/ Fork(m) \/ Exec(m) \/ End(m) \/ Kill(m)
    PROVE  Openable' /\ OnlyUnsaved
<1> USE DEF PInv, IInv, Types, Goto
<1>1. UNCHANGED disk /\ \A n \in Managers : save'[n] \in {save[n], "check", "none"}
  BY DEF Start, Lock, Bind, CheckEndpoint, PublishEndpoint, Open, Fork, Exec, End, Drain, Close,
     ReadEndpoint, RemoveEndpoint, RemoveSocket, Exit, Kill, Ended, process
<1>2. OnlyUnsaved
  <2>1. CASE Open(m)
    <3>1. durable.state # NoState => Intact
      BY DEF Openable, Marked, Intact
    <3> QED  BY <2>1, <3>1 DEF Open, OnlyUnsaved
  <2>2. CASE ~Open(m)
    BY <2>2 DEF Start, Lock, Bind, CheckEndpoint, PublishEndpoint, Fork, Exec, End, Drain, Close,
       ReadEndpoint, RemoveEndpoint, RemoveSocket, Exit, Kill, process, OnlyUnsaved
  <2> QED  BY <2>1, <2>2
<1> QED  BY <1>1, <1>2, OpenableElse

(* Every step keeps a store that opens, and closes none that was saved.    *)
LEMMA StepO == ASSUME PInv, Openable, [Next]_vars PROVE Openable' /\ OnlyUnsaved
<1>1. CASE \E m \in Managers : Start(m) \/ Fork(m) \/ Exec(m) \/ End(m) \/ Kill(m)
  BY <1>1, Moving
<1>2. CASE \E m \in Managers : Save(m)
  <2>1. PICK m \in Managers : Save(m)
    BY <1>2
  <2>2. \A n \in Managers : pc[n] = "published" => pc'[n] = "published"
    BY <2>1 DEF Save, CheckStore, WriteMarker, WriteTemp, Replace, SyncDirectory, SaveFails,
       Step, SaveEnds, Goto, PInv, IInv, Types
  <2> QED  BY <2>1, <2>2, OpenableSaves DEF OnlyUnsaved
<1>3. CASE \E m \in Managers, c \in Calls : Accept(m, c) \/ Handle(m, c)
  <2>1. PICK m \in Managers, c \in Calls : Accept(m, c) \/ Handle(m, c)
    BY <1>3
  <2>2. /\ UNCHANGED <<pc, disk>>
        /\ \A n \in Managers : save'[n] \in {save[n], "check", "none"}
    BY <2>1 DEF Accept, Handle, process, PInv, IInv, Types
  <2> QED  BY <2>2, OpenableElse DEF OnlyUnsaved
<1>4. CASE (\E c \in Calls : Client(c)) \/ UNCHANGED vars
  <2>1. UNCHANGED <<process, disk>>
    BY <1>4 DEF Client, Look, Dial, GiveUp, vars
  <2> QED  BY <2>1, OpenableElse DEF OnlyUnsaved, process
<1>5. CASE PowerLoss
  <2>1. \A m \in Managers : pc'[m] # "closed"
    BY <1>5 DEF PowerLoss
  <2> QED  BY <1>5, <2>1, OpenableLosses DEF OnlyUnsaved
<1> QED  BY <1>1, <1>2, <1>3, <1>4, <1>5 DEF Next

(* A store that was saved once opens again after every crash, fault and    *)
(* loss of power: a manager that opens it goes on to recovery.             *)
THEOREM SavedOpensAgain == Spec => OpensAgain
<1>1. Init => Openable
  BY DEF Init, Openable, NoFiles
<1>2. PInv /\ Openable /\ [Next]_vars => Openable'
  BY StepO
<1>3. PInv /\ Openable /\ [Next]_vars => [OnlyUnsaved]_vars
  BY StepO
<1>4. OpensAgain <=> [][OnlyUnsaved]_vars
  BY DEF OpensAgain, OnlyUnsaved
<1> QED  BY <1>1, <1>2, <1>3, <1>4, PromiseInvariance, PTL DEF Spec
=============================================================================
