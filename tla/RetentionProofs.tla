-------------------------- MODULE RetentionProofs --------------------------
(***************************************************************************)
(* Theorems about Retention, for any numbers of rooms, faults and crashes: *)
(* files go before records, and records in memory after those in the file. *)
(***************************************************************************)
EXTENDS Retention, TLAPS

(* Without MemoryKnows the others are not inductive: a save writes what    *)
(* the memory holds.  A crash in turn makes memory what the file holds.    *)
IInv ==
    /\ files \in [Ids -> SUBSET Parts] /\ foreign \subseteq Ids
    /\ FilesHaveRecord /\ ForeignKept /\ MemoryKnows

USE LimitAssumption

(* A call that looks at rooms changes none of them.                        *)
LEMMA Looking == ASSUME IInv, Start \/ Inspect PROVE IInv'
  BY DEF IInv, FilesHaveRecord, ForeignKept, MemoryKnows, Start, Inspect, world

(* A file is removed only as long as its room has a record, and the        *)
(* directory only if nothing else is in it.                                *)
LEMMA Removing == ASSUME IInv, NEW p \in Parts, RemoveFile(p) PROVE IInv'
<1>1. at \in Ids \/ files' = files
  BY DEF RemoveFile, IInv
<1>2. CASE files' = files
  BY <1>2 DEF RemoveFile, IInv, FilesHaveRecord, ForeignKept, MemoryKnows, world
<1>3. CASE at \in Ids
  <2>1. \A i \in Ids : files'[i] = IF i = at THEN files[i] \ {p} ELSE files[i]
    BY <1>3 DEF RemoveFile, IInv
  <2>2. at \in foreign => p # Directory
    BY DEF RemoveFile, Removable
  <2> QED  BY <2>1, <2>2 DEF RemoveFile, IInv, FilesHaveRecord, ForeignKept, MemoryKnows, world
<1> QED  BY <1>1, <1>2, <1>3

(* A record is dropped only when the room has no file left, so that nobody *)
(* has put anything into its directory either.                             *)
LEMMA Dropping == ASSUME IInv, DropRecord \/ DropFails PROVE IInv'
<1>1. files[at] = {} /\ UNCHANGED <<files, foreign>>
  BY DEF DropRecord, DropFails, AllGone, world
<1>2. mem' \in {mem, mem \ {at}} /\ disk' \in {disk, mem \ {at}} /\ disk' \subseteq mem'
  BY DEF DropRecord, DropFails, IInv, MemoryKnows
<1>3. at \notin foreign
  BY <1>1 DEF IInv, ForeignKept
<1> QED  BY <1>1, <1>2, <1>3 DEF IInv, FilesHaveRecord, ForeignKept, MemoryKnows

(* What the rest of the world does, and a restart.                         *)
LEMMA Outside ==
    ASSUME IInv, RemoveFails \/ Restart \/ \E i \in Ids : Expire(i) \/ Meddle(i)
    PROVE  IInv'
<1>1. CASE RemoveFails \/ Restart
  BY <1>1 DEF IInv, FilesHaveRecord, ForeignKept, MemoryKnows, RemoveFails, Restart, world
<1>2. CASE \E i \in Ids : Expire(i) \/ Meddle(i)
  BY <1>2 DEF IInv, FilesHaveRecord, ForeignKept, MemoryKnows, Expire, Meddle
<1> QED  BY <1>1, <1>2

(* IInv holds in every state of the maintenance.                           *)
THEOREM RetentionInvariance == Spec => []IInv
<1>1. Init => IInv
  BY DEF Init, IInv, FilesHaveRecord, ForeignKept, MemoryKnows
<1>2. IInv /\ [Next]_vars => IInv'
  <2>1. CASE UNCHANGED vars
    BY <2>1 DEF vars, world, IInv, FilesHaveRecord, ForeignKept, MemoryKnows
  <2> QED  BY <2>1, Looking, Removing, Dropping, Outside DEF Next, Prune
<1> QED  BY <1>1, <1>2, PTL DEF Spec

(* Files of a history that is being removed never lose their record, so    *)
(* that an interrupted removal is taken up again.                          *)
THEOREM HistoryOwned == Spec => []FilesHaveRecord
  BY RetentionInvariance, PTL DEF IInv

(* What others put into the directory of a room is never removed.          *)
THEOREM ForeignSafe == Spec => []ForeignKept
  BY RetentionInvariance, PTL DEF IInv

(* Memory never forgets a room, and so its idempotency key, that the state *)
(* file may still have.                                                    *)
THEOREM KeysRemembered == Spec => []MemoryKnows
  BY RetentionInvariance, PTL DEF IInv
=============================================================================
