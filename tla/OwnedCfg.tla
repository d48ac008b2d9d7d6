------------------------------ MODULE OwnedCfg ------------------------------
(***************************************************************************)
(* The generated cfg of one run in the shared cfg directory of the game:   *)
(* createOwnedCFG and cleanupOwnedCFG (internal/records/cfg_owned_linux.go *)
(* and CleanupRun, which decides whether to call it).  The file is deleted *)
(* only when it is the very object that was created, with the content it   *)
(* was given.  Operators and other programs work in the same directory at  *)
(* the same time, system calls fail, and the manager may crash.            *)
(*                                                                         *)
(* To delete, the directory entry is first moved into a private directory, *)
(* checked again there, and then unlinked, or put back without replacing   *)
(* anything.  Ours is the file that was created; every other file is       *)
(* foreign, even with the same content.  It is assumed that the inode      *)
(* number of a file is not given to another one while this goes on, and    *)
(* that nobody edits a file through a handle kept open past the last check.*)
(***************************************************************************)
EXTENDS Naturals

CONSTANTS
    Ours,         \* the file that is created
    Foreign,      \* files others put at its path
    None,
    MaxCrashes    \* bound: crashes of the manager

ASSUME FilesAssumption ==
    /\ Ours \notin Foreign /\ None \notin Foreign \cup {Ours}
    /\ MaxCrashes \in Nat

VARIABLES
    entry,      \* the file at the cfg path, in the directory it was created in
    linked,     \* the path still leads to that directory
    captured,   \* files in private directories
    altered,    \* files whose content is not what was generated
    owned,      \* cfgCreated and cfgOwnership as saved: "none", "lost", "saved"
    removed,    \* cfgRemoved as saved
    pc,         \* where the store is in creating or cleaning
    held,       \* the file it has captured
    used,       \* files that have existed
    taken,      \* files that others removed
    reported,   \* captured files whose place an error named
    crashes

dir   == <<entry, linked, captured, altered>>
saved == <<owned, removed>>
vars  == <<dir, saved, pc, held, used, taken, reported, crashes>>

Files == Foreign \cup {Ours}

TypeOK ==
    /\ entry \in Files \cup {None} /\ linked \in BOOLEAN
    /\ captured \subseteq Files /\ altered \subseteq Files
    /\ owned \in {"none", "lost", "saved"} /\ removed \in BOOLEAN
    /\ pc \in {"new", "created", "unread", "idle", "verified", "captured",
               "mine", "other", "unlinked"}
    /\ held \in Files \cup {None}
    /\ used \subseteq Files /\ taken \subseteq Files /\ reported \subseteq Files
    /\ crashes \in 0..MaxCrashes

Init ==
    /\ entry = None /\ linked = TRUE /\ captured = {} /\ altered = {}
    /\ owned = "none" /\ removed = FALSE
    /\ pc = "new" /\ held = None
    /\ used = {} /\ taken = {} /\ reported = {} /\ crashes = 0

----------------------------------------------------------------------------
(* createOwnedCFG and the save of what it returned. *)

(* The file is created exclusively: anything at the path refuses it.  When *)
(* its inode cannot be read the ownership is lost.                         *)
CreateCFG ==
    /\ pc = "new"
    /\ \/ /\ linked /\ entry = None
          /\ entry' = Ours /\ used' = used \cup {Ours}
          /\ pc' \in {"created", "unread"}
       \/ pc' = "idle" /\ UNCHANGED <<entry, used>>
    /\ UNCHANGED <<linked, captured, altered, saved, held, taken, reported, crashes>>

Evidence(p) == IF p = "created" THEN "saved" ELSE "lost"

(* PrepareRun saves that the file was created, also when writing failed.   *)
SaveCreated ==
    /\ pc \in {"created", "unread"}
    /\ owned' = Evidence(pc)
    /\ altered' \in {altered, altered \cup {Ours}}
    /\ pc' = "idle"
    /\ UNCHANGED <<entry, linked, captured, removed, held, used, taken, reported, crashes>>

----------------------------------------------------------------------------
(* CleanupRun and cleanupOwnedCFG. *)

Cleanable == pc = "idle" /\ ~removed

(* Mutant: the directory is not compared with the recorded one. *)
AbsentAnywhere == linked => entry = None

AbsentAtHome == linked /\ entry = None

(* Nothing to remove.  Without a recorded ownership the directory that the *)
(* path leads to is not compared with the one the file was created in.     *)
CleanupAbsent ==
    /\ Cleanable
    /\ IF owned = "saved" THEN AbsentAtHome ELSE linked => entry = None
    /\ removed' = TRUE
    /\ UNCHANGED <<dir, owned, pc, held, used, taken, reported, crashes>>

Matches(f) == f = Ours /\ f \notin altered

(* The file at the path is the one that was created, and unchanged; every  *)
(* other answer is an error that changes nothing.                          *)
Verify ==
    /\ Cleanable /\ owned = "saved"
    /\ linked /\ entry # None /\ Matches(entry)
    /\ pc' = "verified"
    /\ UNCHANGED <<dir, saved, held, used, taken, reported, crashes>>

(* The path leads elsewhere by now, or a system call fails.                *)
GiveUp ==
    /\ pc = "verified"
    /\ pc' = "idle"
    /\ UNCHANGED <<dir, saved, held, used, taken, reported, crashes>>

(* The entry, whatever it is by now, is moved into a private directory.    *)
Capture ==
    /\ pc = "verified" /\ entry # None
    /\ held' = entry /\ captured' = captured \cup {entry} /\ entry' = None
    /\ pc' = "captured"
    /\ UNCHANGED <<linked, altered, saved, used, taken, reported, crashes>>

(* A failing read of the captured file counts against it.                  *)
Recheck ==
    /\ pc = "captured"
    /\ \/ Matches(held) /\ pc' = "mine"
       \/ pc' = "other"
    /\ UNCHANGED <<dir, saved, held, used, taken, reported, crashes>>

(* Mutant: putting a file back replaces what is there. *)
FreeAnyway == TRUE

FreeForRestore == entry = None

(* Mutant: the error does not name the place. *)
RestoreSilently ==
    /\ pc = "other"
    /\ \/ /\ FreeForRestore
          /\ entry' = held /\ captured' = captured \ {held}
       \/ UNCHANGED <<entry, captured>>
    /\ pc' = "idle" /\ held' = None
    /\ UNCHANGED <<linked, altered, saved, used, taken, reported, crashes>>

(* The captured file is put back, unless something else is there by now:   *)
(* then the error names where it is kept.                                  *)
Restore ==
    /\ pc = "other"
    /\ \/ /\ FreeForRestore
          /\ entry' = held /\ captured' = captured \ {held}
          /\ UNCHANGED reported
       \/ reported' = reported \cup {held} /\ UNCHANGED <<entry, captured>>
    /\ pc' = "idle" /\ held' = None
    /\ UNCHANGED <<linked, altered, saved, used, taken, crashes>>

(* The unlink may fail, and the error then names no place.                 *)
Unlink ==
    /\ pc = "mine"
    /\ \/ captured' = captured \ {held} /\ pc' = "unlinked"
       \/ pc' = "idle" /\ UNCHANGED captured
    /\ held' = None
    /\ UNCHANGED <<entry, linked, altered, saved, used, taken, reported, crashes>>

(* The private directory is removed, the parent synced and cfgRemoved      *)
(* saved, or one of them fails.                                            *)
Finish ==
    /\ pc = "unlinked"
    /\ removed' \in BOOLEAN
    /\ pc' = "idle"
    /\ UNCHANGED <<dir, owned, held, used, taken, reported, crashes>>

----------------------------------------------------------------------------

Crash ==
    /\ pc # "idle" /\ crashes < MaxCrashes
    /\ pc' = "idle" /\ held' = None /\ crashes' = crashes + 1
    /\ UNCHANGED <<dir, saved, used, taken, reported>>

(* Others put a file of any content at the path, remove or edit the file   *)
(* there, or exchange the directory; a captured file may still be edited.  *)
Put(f) ==
    /\ entry = None /\ f \notin used
    /\ entry' = f /\ used' = used \cup {f}
    /\ altered' \in {altered, altered \cup {f}}
    /\ UNCHANGED <<linked, captured, saved, pc, held, taken, reported, crashes>>

Take ==
    /\ entry # None
    /\ taken' = taken \cup {entry} /\ entry' = None
    /\ UNCHANGED <<linked, captured, altered, saved, pc, held, used, reported, crashes>>

Edit(f) ==
    /\ f = entry \/ (f = held /\ pc = "captured")
    /\ altered' = altered \cup {f}
    /\ UNCHANGED <<entry, linked, captured, saved, pc, held, used, taken, reported, crashes>>

Relink ==
    /\ linked' = ~linked
    /\ UNCHANGED <<entry, captured, altered, saved, pc, held, used, taken, reported, crashes>>

Others == (\E f \in Foreign : Put(f)) \/ Take \/ (\E f \in Files : Edit(f)) \/ Relink

Next ==
    \/ CreateCFG \/ SaveCreated
    \/ CleanupAbsent \/ Verify \/ GiveUp \/ Capture \/ Recheck \/ Restore \/ Unlink \/ Finish
    \/ Crash \/ Others

Spec == Init /\ [][Next]_vars

----------------------------------------------------------------------------
(* No race between the check, the capture and the restore, and no crash,   *)
(* costs anybody a file: whatever existed and was not removed by others is *)
(* at the path or in a private directory, except the generated file itself *)
(* with its generated content (cleanupOwnedCFG).                           *)
FilesKept ==
    \A f \in used \ taken : f = entry \/ f \in captured \/ (f = Ours /\ f \notin altered)

(* A file of others that was moved away in a race is back at the path, or  *)
(* an error has said where it is, unless the manager crashed meanwhile.    *)
DisplacedIsReported ==
    crashes = 0 /\ pc = "idle" => captured \cap Foreign \subseteq reported

(* When the removal of an owned cfg is recorded, the file is not at the    *)
(* path, not even when the directory was exchanged and put back meanwhile. *)
RemovedIsAbsent == removed /\ owned = "saved" => entry # Ours

(* Recorded as removed, the generated file is nowhere, so that a room does *)
(* not pass for reclaimed while it keeps files (docs/local-api.md).        *)
RemovedIsGone == removed /\ owned = "saved" => Ours \notin captured
=============================================================================
