-------------------------------- MODULE A2S --------------------------------
(***************************************************************************)
(* d2core a2s enable (internal/a2s/file.go): runs of a command that edits  *)
(* the gameinfo.gi of an installation with Merge, while other programs     *)
(* edit the file, calls fail and runs are killed.  A run is split where    *)
(* the files change or are read again; one that fails goes to "leave",     *)
(* where its deferred functions remove its temporary file and its lock.    *)
(***************************************************************************)
EXTENDS GameInfo, TLC

CONSTANTS
    Runs,       \* runs of the command
    Texts,      \* what gameinfo.gi may hold at first
    Edits,      \* what other programs may write to it
    None,
    MaxEdits,   \* bound: edits by other programs
    MaxKills    \* bound: runs that are killed

ASSUME RunsAssumption ==
    /\ None \notin Runs /\ Texts \cup Edits \subseteq Seq(Tokens)
    /\ MaxEdits \in Nat /\ MaxKills \in Nat

VARIABLES
    file,     \* gameinfo.gi: its text, its inode and who wrote it
    inodes,   \* the inodes given out
    backups,  \* the backup files, by the text whose digest names them
    lock,     \* the run whose lock file lies there, or None
    pc,       \* where each run is
    source,   \* what it read first (before, identity)
    status,   \* its result
    touched,  \* the runs during or after which others wrote the file
    late,     \* those for which they did so between Compare and Replace
    edits,
    kills

disk    == <<file, inodes, backups, lock>>
history == <<touched, late, edits, kills>>
vars    == <<disk, pc, source, status, history>>

Torn == <<"!">>

Pcs == {"start", "read", "backup", "write", "sync", "temp", "compare",
        "replace", "verify", "leave", "done", "killed"}
Statuses == {"none", "error", "conflict", "already_configured", "inserted"}
AllTexts == Texts \cup Edits \cup {Merge(t).text : t \in Texts \cup Edits} \cup {Torn}
Files    == [text : AllTexts, inode : Nat, by : Runs \cup {None}]

TypeOK ==
    /\ file \in Files /\ inodes \in Nat
    /\ \A t \in DOMAIN backups : t \in AllTexts /\ backups[t] \in AllTexts
    /\ lock \in Runs \cup {None}
    /\ pc \in [Runs -> Pcs] /\ status \in [Runs -> Statuses]
    /\ source \in [Runs -> Files \cup {None}]
    /\ touched \subseteq Runs /\ late \subseteq Runs
    /\ edits \in Nat /\ kills \in Nat

Init ==
    /\ \E t \in Texts : file = [text |-> t, inode |-> 0, by |-> None]
    /\ inodes = 0 /\ backups = <<>> /\ lock = None
    /\ pc = [r \in Runs |-> "start"]
    /\ source = [r \in Runs |-> None]
    /\ status = [r \in Runs |-> "none"]
    /\ touched = {} /\ late = {} /\ edits = 0 /\ kills = 0

----------------------------------------------------------------------------
Go(r, to) == pc' = [pc EXCEPT ![r] = to] /\ UNCHANGED status

Leave(r, result) ==
    /\ pc' = [pc EXCEPT ![r] = IF @ = "start" THEN "done" ELSE "leave"]
    /\ status' = [status EXCEPT ![r] = result]

Fail(r)     == Leave(r, "error") /\ UNCHANGED disk
Conflict(r) == Leave(r, "conflict") /\ UNCHANGED disk

Text(r)   == source[r].text
After(r) == Merge(Text(r)).text

(* The checks of the path may fail, the lock may be another's; one that    *)
(* cannot be looked at once it is created is left behind.                  *)
Lock(r) ==
    /\ pc[r] = "start"
    /\ \/ Fail(r)
       \/ lock # None /\ Conflict(r)
       \/ /\ lock = None /\ lock' = r
          /\ Go(r, "read") \/ Leave(r, "error")
          /\ UNCHANGED <<file, inodes, backups>>
    /\ UNCHANGED <<source, history>>

(* A file that is too large is not read, here and wherever it is read      *)
(* again (readBounded).                                                    *)
Read(r) ==
    LET merged == Merge(file.text) IN
    /\ pc[r] = "read"
    /\ \/ Fail(r)
       \/ Bounded(file.text) /\ ~merged.ok /\ Conflict(r)
       \/ merged.ok /\ ~merged.changed /\ Leave(r, "already_configured") /\ UNCHANGED disk
       \/ merged.changed /\ Go(r, "backup") /\ UNCHANGED disk
    /\ source' = [source EXCEPT ![r] = file]
    /\ UNCHANGED history

(* Mutant: a file of the backup's name is taken for the backup. *)
TrustBackup(r) ==
    /\ pc[r] = "backup"
    /\ \/ Fail(r)
       \/ Text(r) \in DOMAIN backups /\ Go(r, "temp") /\ UNCHANGED disk
       \/ /\ Text(r) \notin DOMAIN backups
          /\ backups' = [t \in DOMAIN backups \cup {Text(r)} |->
                           IF t = Text(r) THEN Torn ELSE backups[t]]
          /\ Go(r, "write") /\ UNCHANGED <<file, inodes, lock>>
    /\ UNCHANGED <<source, history>>

(* An existing backup must hold the very text; a new one is still empty.   *)
OpenBackup(r) ==
    /\ pc[r] = "backup"
    /\ \/ Fail(r)
       \/ /\ Text(r) \in DOMAIN backups
          /\ \/ backups[Text(r)] = Text(r) /\ Go(r, "temp") /\ UNCHANGED disk
             \/ Conflict(r)                 \* another text, or not readable
       \/ /\ Text(r) \notin DOMAIN backups
          /\ backups' = [t \in DOMAIN backups \cup {Text(r)} |->
                           IF t = Text(r) THEN Torn ELSE backups[t]]
          /\ Go(r, "write") /\ UNCHANGED <<file, inodes, lock>>
    /\ UNCHANGED <<source, history>>

(* A write that fails leaves the backup torn.                              *)
WriteBackup(r) ==
    /\ pc[r] = "write"
    /\ \/ Fail(r)
       \/ /\ backups' = [backups EXCEPT ![Text(r)] = Text(r)]
          /\ Go(r, "sync") /\ UNCHANGED <<file, inodes, lock>>
    /\ UNCHANGED <<source, history>>

(* The file is synced and closed, and its directory is synced.             *)
SyncBackup(r) ==
    /\ pc[r] = "sync"
    /\ Fail(r) \/ (Go(r, "temp") /\ UNCHANGED disk)
    /\ UNCHANGED <<source, history>>

(* The temporary file: written, synced and closed, or given up.            *)
WriteTemp(r) ==
    /\ pc[r] = "temp"
    /\ Fail(r) \/ (Go(r, "compare") /\ UNCHANGED disk)
    /\ UNCHANGED <<source, history>>

Compare(r) ==
    /\ pc[r] = "compare"
    /\ \/ Conflict(r)
       \/ /\ file.inode = source[r].inode /\ file.text = Text(r)
          /\ Go(r, "replace") /\ UNCHANGED disk
    /\ UNCHANGED <<source, history>>

Put(text, who) ==
    /\ inodes' = inodes + 1
    /\ file' = [text |-> text, inode |-> inodes', by |-> who]

(* Mutant: the temporary file was not complete. *)
ReplaceTorn(r) ==
    /\ pc[r] = "replace"
    /\ Put(Torn, r) /\ UNCHANGED <<backups, lock>>
    /\ Go(r, "verify")
    /\ UNCHANGED <<source, history>>

(* The rename may fail, and so may the sync of the directory after it.     *)
Replace(r) ==
    /\ pc[r] = "replace"
    /\ \/ Fail(r)
       \/ /\ Put(After(r), r) /\ UNCHANGED <<backups, lock>>
          /\ Go(r, "verify") \/ Leave(r, "error")
    /\ UNCHANGED <<source, history>>

Verify(r) ==
    /\ pc[r] = "verify"
    /\ \/ Fail(r)
       \/ /\ Bounded(file.text) /\ file.text = After(r)
          /\ Leave(r, "inserted") /\ UNCHANGED disk
       \/ Bounded(file.text) /\ file.text # After(r) /\ Conflict(r)
    /\ UNCHANGED <<source, history>>

(* The lock is removed if it is the run's own and that does not fail.      *)
Unlock(r) ==
    /\ pc[r] = "leave"
    /\ lock' = lock \/ (lock = r /\ lock' = None)
    /\ Go(r, "done")
    /\ UNCHANGED <<file, inodes, backups, source, history>>

----------------------------------------------------------------------------
(* The user, and other programs. *)

Active(r) == pc[r] \notin {"start", "done", "killed"}

Kill(r) ==
    /\ Active(r) /\ kills < MaxKills
    /\ kills' = kills + 1
    /\ Go(r, "killed")
    /\ UNCHANGED <<disk, source, touched, late, edits>>

(* docs/a2s.md:21: a lock that was left is removed by hand, once no run is *)
(* active.                                                                 *)
RemoveLock ==
    /\ lock # None /\ \A r \in Runs : ~Active(r)
    /\ lock' = None
    /\ UNCHANGED <<file, inodes, backups, pc, source, status, history>>

(* Another program writes the file in place, or puts another one there.    *)
Edit(t) ==
    /\ edits < MaxEdits /\ edits' = edits + 1
    /\ Put(t, None) \/ (file' = [file EXCEPT !.text = t, !.by = None] /\ UNCHANGED inodes)
    /\ touched' = {r \in Runs : pc[r] # "start"}
    /\ late' = late \cup {r \in Runs : pc[r] = "replace"}
    /\ UNCHANGED <<backups, lock, pc, source, status, kills>>

Step(r) ==
    \/ Lock(r) \/ Read(r) \/ OpenBackup(r) \/ WriteBackup(r) \/ SyncBackup(r)
    \/ WriteTemp(r) \/ Compare(r) \/ Replace(r) \/ Verify(r) \/ Unlock(r)

Next ==
    \/ \E r \in Runs : Step(r) \/ Kill(r)
    \/ RemoveLock
    \/ \E t \in Edits : Edit(t)

Spec == Init /\ [][Next]_vars

----------------------------------------------------------------------------
(* Properties. *)

(* Merge adds the one setting to whatever text lies there and changes      *)
(* nothing else the text says, or refuses it; it never adds it twice       *)
(* (merge.go:158-207).                                                     *)
MergeIsFaithful == Faithful(file.text) /\ Stable(file.text)

(* A run replaces a text by what Merge makes of it, and a whole backup of  *)
(* it lies there by then, also after runs that were killed or failed half  *)
(* way; excepted is only what others write between its last look and its   *)
(* rename, as docs/a2s.md:21 says.                                         *)
OriginalIsKept ==
    [][\A r \in Runs \ late : file' # file /\ file'.by = r =>
         /\ file'.text = Merge(file.text).text
         /\ file.text \in DOMAIN backups /\ backups[file.text] = file.text]_vars

(* A result is true of the file until others write to it: after inserted   *)
(* and already_configured it has the setting, and after a conflict it is   *)
(* not the work of the run that reports it.                                *)
ResultIsTrue ==
    \A r \in Runs :
        /\ status[r] \in {"inserted", "already_configured"} /\ r \notin touched
             => Contains(Says(file.text), Advertised)
        /\ status[r] = "conflict" => file.by # r
=============================================================================
