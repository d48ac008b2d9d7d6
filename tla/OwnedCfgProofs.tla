--------------------------- MODULE OwnedCfgProofs ---------------------------
(***************************************************************************)
(* Theorems about OwnedCfg, for any set of files that others put in the    *)
(* directory of the game and any number of crashes.                        *)
(***************************************************************************)
EXTENDS OwnedCfg, TLAPS

(* A file is held only between its capture and what is decided about it,   *)
(* and lies in a private directory all that time.                          *)
Holding ==
    /\ held # None <=> pc \in {"captured", "mine", "other"}
    /\ held # None => held \in captured

(* A file is in one place: at the path or captured.  What others removed   *)
(* does not come back.                                                     *)
Placed ==
    /\ captured \subseteq used /\ taken \subseteq used
    /\ entry # None => entry \in used /\ entry \notin captured

(* The generated file is created once, and is not captured before its      *)
(* creation is saved.                                                      *)
Creating ==
    /\ pc = "new" => Ours \notin used
    /\ pc \in {"created", "unread"} => entry = Ours \/ Ours \in taken

(* What is about to be unlinked is the generated file, unchanged, and      *)
(* after the unlink nothing puts it back.                                  *)
Unlinking ==
    /\ pc = "mine" => held = Ours /\ Ours \notin altered
    /\ pc = "unlinked" => entry # Ours

(* After a recorded removal nothing is cleaned again.                      *)
Settled == removed => pc = "idle"

(* Until a crash, a captured file of others is held or was reported.       *)
Displaced == crashes = 0 => captured \cap Foreign \subseteq reported \cup {held}

IInv ==
    /\ TypeOK /\ Holding /\ Placed /\ Creating /\ Unlinking /\ Settled /\ Displaced
    /\ FilesKept /\ RemovedIsAbsent

USE FilesAssumption DEF Files

----------------------------------------------------------------------------
(* The invariant holds before the file is created.                         *)
LEMMA Initially == ASSUME Init PROVE IInv
<1>1. TypeOK
  <2>1. crashes \in 0..MaxCrashes
    BY DEF Init
  <2>2. linked \in BOOLEAN /\ removed \in BOOLEAN
    BY DEF Init
  <2> QED
    BY <2>1, <2>2 DEF Init, TypeOK
<1>2. Holding /\ Placed /\ Creating /\ Unlinking /\ Settled
  BY DEF Init, Holding, Placed, Creating, Unlinking, Settled
<1>3. Displaced /\ FilesKept /\ RemovedIsAbsent
  BY DEF Init, Displaced, FilesKept, RemovedIsAbsent
<1> QED
  BY <1>1, <1>2, <1>3 DEF IInv

(* Creating the file and saving that it was created.                       *)
LEMMA CreatingInv == ASSUME IInv, CreateCFG \/ SaveCreated PROVE IInv'
<1> USE DEF IInv, TypeOK, Holding, Placed, Creating, Unlinking, Settled, Displaced,
            FilesKept, RemovedIsAbsent, saved
<1>1. CASE CreateCFG
  BY <1>1 DEF CreateCFG
<1>2. CASE SaveCreated
  BY <1>2 DEF SaveCreated, Evidence
<1> QED
  BY <1>1, <1>2

(* Looking at the file changes nothing but the place of the store, and an  *)
(* absent file is recorded as removed.                                     *)
LEMMA LookingInv == ASSUME IInv, CleanupAbsent \/ Verify \/ GiveUp \/ Recheck PROVE IInv'
<1> USE DEF IInv, TypeOK, Holding, Placed, Creating, Unlinking, Settled, Displaced,
            FilesKept, RemovedIsAbsent, saved, dir, Cleanable, Matches
<1>1. CASE CleanupAbsent
  BY <1>1 DEF CleanupAbsent, AbsentAtHome
<1>2. CASE Verify \/ GiveUp
  BY <1>2 DEF Verify, GiveUp
<1>3. CASE Recheck
  BY <1>3 DEF Recheck
<1> QED
  BY <1>1, <1>2, <1>3

(* Moving the file: its capture, its return, its end.                      *)
LEMMA MovingInv == ASSUME IInv, Capture \/ Restore \/ Unlink \/ Finish PROVE IInv'
<1> USE DEF IInv, TypeOK, Holding, Placed, Creating, Unlinking, Settled, Displaced,
            FilesKept, RemovedIsAbsent, saved, dir
<1>1. CASE Capture
  BY <1>1 DEF Capture
<1>2. CASE Restore
  BY <1>2 DEF Restore, FreeForRestore
<1>3. CASE Unlink
  BY <1>3 DEF Unlink
<1>4. CASE Finish
  BY <1>4 DEF Finish
<1> QED
  BY <1>1, <1>2, <1>3, <1>4

(* A crash forgets what the store held.                                    *)
LEMMA CrashInv == ASSUME IInv, Crash PROVE IInv'
  BY DEF IInv, TypeOK, Holding, Placed, Creating, Unlinking, Settled, Displaced,
     FilesKept, RemovedIsAbsent, saved, dir, Crash

(* Others never touch what is captured and already checked again.          *)
LEMMA OthersInv == ASSUME IInv, Others PROVE IInv'
<1> USE DEF IInv, TypeOK, Holding, Placed, Creating, Unlinking, Settled, Displaced,
            FilesKept, RemovedIsAbsent, saved
<1>1. ASSUME NEW f \in Foreign, Put(f) PROVE IInv'
  BY <1>1 DEF Put
<1>2. CASE Take
  BY <1>2 DEF Take
<1>3. ASSUME NEW f \in Files, Edit(f) PROVE IInv'
  BY <1>3 DEF Edit
<1>4. CASE Relink
  BY <1>4 DEF Relink
<1> QED
  BY <1>1, <1>2, <1>3, <1>4 DEF Others

(* IInv holds in every state of every behaviour.                           *)
THEOREM CfgInvariance == Spec => []IInv
<1>1. ASSUME IInv, [Next]_vars PROVE IInv'
  <2>1. CASE UNCHANGED vars
    BY <1>1, <2>1 DEF vars, dir, saved, IInv, TypeOK, Holding, Placed, Creating, Unlinking,
       Settled, Displaced, FilesKept, RemovedIsAbsent
  <2> QED
    BY <1>1, <2>1, CreatingInv, LookingInv, MovingInv, CrashInv, OthersInv DEF Next
<1> QED
  BY Initially, <1>1, PTL DEF Spec

(* No race and no crash costs anybody a file: what is neither at the path  *)
(* nor in a private directory was removed by others, or is the generated   *)
(* file with its generated content (cleanupOwnedCFG).                      *)
THEOREM NoFileIsLost == Spec => []FilesKept
<1>1. IInv => FilesKept
  BY DEF IInv
<1> QED
  BY CfgInvariance, <1>1, PTL

(* Without a crash, a file of others that was moved away is put back or an *)
(* error says where it is (cleanupOwnedCFG).                               *)
THEOREM DisplacedReported == Spec => []DisplacedIsReported
<1>1. IInv => DisplacedIsReported
  BY DEF IInv, Displaced, Holding, DisplacedIsReported, TypeOK
<1> QED
  BY CfgInvariance, <1>1, PTL

(* A recorded removal of an owned cfg is true of the path (CleanupRun).    *)
THEOREM RemovedAbsent == Spec => []RemovedIsAbsent
<1>1. IInv => RemovedIsAbsent
  BY DEF IInv
<1> QED
  BY CfgInvariance, <1>1, PTL
=============================================================================
