------------------------------ MODULE Observer ------------------------------
(***************************************************************************)
(* The log observer (internal/engine/observe.go).  Readiness is decided by *)
(* literal rules found in the engine log of this generation.  A scan reads *)
(* at most one chunk from where the last one stopped and searches it with  *)
(* the end of what was read before, while the game goes on writing and the *)
(* file may be emptied or replaced by another one.                         *)
(*                                                                         *)
(* Characters are model values; Chunk stands for the 1 MiB a scan reads    *)
(* and Keep for the 511 bytes it keeps.  Scan is split between Stat and    *)
(* the read, where the file may grow.                                      *)
(***************************************************************************)
EXTENDS Naturals, Sequences

CONSTANTS
    Char,          \* what a log is made of
    SuccessAll,    \* rules that must all be found
    FailureAny,    \* rules of which none may be found
    Chunk,         \* the longest read of one scan
    Keep,          \* the length of the kept suffix
    MaxLog,        \* bound: length of a log
    MaxFiles       \* bound: files that are made at the path

(* The template refuses rules longer than 512 bytes, and empty ones.       *)
ASSUME RulesAssumption ==
    /\ Chunk \in Nat \ {0} /\ Keep \in Nat /\ MaxLog \in Nat /\ MaxFiles \in Nat \ {0}
    /\ SuccessAll # {}
    /\ \A r \in SuccessAll \cup FailureAny :
         r \in Seq(Char) /\ Len(r) \in 1..(Keep + 1)

VARIABLES
    logs,      \* the content of each file made
    path,      \* the file at the path, 0 for none
    made,      \* how many files were made
    opened,    \* the file a scan has opened, 0 when no scan runs
    size,      \* its size when the scan looked
    previous,  \* o.previous: the file of the scan before
    offset, suffix, matched, failed,    \* the observer
    ready,     \* what the last scan answered
    seen,      \* all that was read since the observer was last reset
    torn       \* the file was emptied below offset and no scan has noticed

log      == <<logs, path, made>>
scan     == <<opened, size>>
observer == <<previous, offset, suffix, matched, failed, seen>>
vars     == <<log, scan, observer, ready, torn>>

Files == 1..MaxFiles
Texts == UNION {[1..n -> Char] : n \in 0..MaxLog}

Occurs(r, text) ==
    \E k \in 0..(Len(text) - Len(r)) : SubSeq(text, k + 1, k + Len(r)) = r

TypeOK ==
    /\ logs \in [Files -> Texts]
    /\ path \in 0..MaxFiles /\ made \in Files /\ opened \in 0..MaxFiles
    /\ previous \in 0..MaxFiles
    /\ size \in 0..MaxLog /\ offset \in 0..MaxLog
    /\ suffix \in Seq(Char) /\ Len(suffix) <= Keep
    /\ matched \subseteq SuccessAll
    /\ failed \in BOOLEAN /\ ready \in BOOLEAN /\ torn \in BOOLEAN
    /\ seen \in Seq(Char)

Init ==
    /\ logs = [f \in Files |-> <<>>]
    /\ path = 1 /\ made = 1
    /\ opened = 0 /\ size = 0
    /\ previous = 0 /\ offset = 0 /\ suffix = <<>> /\ matched = {} /\ failed = FALSE
    /\ ready = FALSE /\ seen = <<>> /\ torn = FALSE

----------------------------------------------------------------------------
(* The game and whoever else touches the file. *)

Write(c) ==
    /\ path # 0 /\ Len(logs[path]) < MaxLog
    /\ logs' = [logs EXCEPT ![path] = @ \o <<c>>]
    /\ UNCHANGED <<path, made, scan, observer, ready, torn>>

Cut ==
    /\ path # 0 /\ logs[path] # <<>>
    /\ logs' = [logs EXCEPT ![path] = <<>>]
    /\ torn' = (torn \/ (path = previous /\ offset > 0))
    /\ UNCHANGED <<path, made, scan, observer, ready>>

(* A file that no scan holds open can never be read again.                 *)
Unlink ==
    /\ path # 0
    /\ path' = 0
    /\ logs' = IF opened = path THEN logs ELSE [logs EXCEPT ![path] = <<>>]
    /\ UNCHANGED <<made, scan, observer, ready, torn>>

Remake ==
    /\ path = 0 /\ made < MaxFiles
    /\ made' = made + 1 /\ path' = made'
    /\ UNCHANGED <<logs, scan, observer, ready, torn>>

----------------------------------------------------------------------------
(* Scan. *)

(* No log, or it cannot be opened: an answer without evidence.             *)
NoLog ==
    /\ opened = 0
    /\ ready' = FALSE
    /\ UNCHANGED <<log, scan, observer, torn>>

IsAnother(f) == Len(logs[f]) < offset \/ (previous # 0 /\ previous # f)

(* Mutant: a failure outlives the log it was found in. *)
ResetKeepsFailure ==
    /\ offset' = 0 /\ suffix' = <<>> /\ matched' = {} /\ failed' = failed
    /\ seen' = <<>> /\ torn' = FALSE

Reset ==
    /\ offset' = 0 /\ suffix' = <<>> /\ matched' = {} /\ failed' = FALSE
    /\ seen' = <<>> /\ torn' = FALSE

Stat ==
    /\ opened = 0 /\ path # 0
    /\ opened' = path /\ size' = Len(logs[path]) /\ previous' = path
    /\ IF IsAnother(path) THEN Reset
       ELSE UNCHANGED <<offset, suffix, matched, failed, seen, torn>>
    /\ UNCHANGED <<log, ready>>

(* Mutant: one character too few is kept. *)
LastButOne(text) == IF Len(text) < Keep THEN text ELSE SubSeq(text, Len(text) - Keep + 2, Len(text))

Last(text) == IF Len(text) > Keep THEN SubSeq(text, Len(text) - Keep + 1, Len(text)) ELSE text

(* Mutant: readiness does not wait for the rest of the log. *)
AllFoundSoFar(found, bad, end) == found = SuccessAll /\ ~bad

AllFound(found, bad, end) == found = SuccessAll /\ ~bad /\ end >= size

Read ==
    LET rest  == Len(logs[opened]) - offset
        n     == IF rest <= 0 THEN 0 ELSE IF rest < Chunk THEN rest ELSE Chunk
        chunk == SubSeq(logs[opened], offset + 1, offset + n)
        text  == suffix \o chunk
        found == matched \cup {r \in SuccessAll : Occurs(r, text)}
        bad   == failed \/ \E r \in FailureAny : Occurs(r, text)
    IN
    /\ opened # 0
    /\ offset' = offset + n
    /\ suffix' = Last(text)
    /\ matched' = found /\ failed' = bad
    /\ ready' = AllFound(found, bad, offset + n)
    /\ seen' = seen \o chunk
    /\ opened' = 0 /\ size' = 0
    /\ logs' = IF opened = path THEN logs ELSE [logs EXCEPT ![opened] = <<>>]
    /\ UNCHANGED <<path, made, previous, torn>>

World == (\E c \in Char : Write(c)) \/ Cut \/ Unlink \/ Remake

Next == World \/ NoLog \/ Stat \/ Read

(* awaitReadiness and watch scan on every tick, and a scan always returns. *)
Spec == Init /\ [][Next]_vars /\ WF_vars(Stat) /\ WF_vars(Read)

----------------------------------------------------------------------------
(* Whatever the chunks cut apart, a rule counts as found exactly when it   *)
(* occurs in what was read since the last reset: none is missed across two *)
(* scans, and none is found in what a reset should have forgotten (Scan).  *)
FoundIsRead ==
    /\ matched = {r \in SuccessAll : Occurs(r, seen)}
    /\ failed <=> \E r \in FailureAny : Occurs(r, seen)

(* A room becomes ready only on a log that, as it stood when the scan      *)
(* looked, holds every success rule and no failure rule, unless it was     *)
(* emptied and written again unnoticed; a log of another file never counts *)
(* (Scan).                                                                 *)
ReadyIsEarned ==
    [][opened # 0 /\ opened' = 0 /\ ready' /\ ~torn =>
         LET text == SubSeq(logs[opened], 1, size)
         IN  /\ \A r \in FailureAny : ~Occurs(r, text)
             /\ \A r \in SuccessAll : Occurs(r, SubSeq(logs[opened], 1, offset'))]_vars

(* The log holds all success rules and no failure.                          *)
Promising ==
    /\ path # 0 /\ ~torn
    /\ \A r \in SuccessAll : Occurs(r, logs[path])
    /\ \A r \in FailureAny : ~Occurs(r, logs[path])

(* However much the game wrote before, a log that holds all success rules  *)
(* and no failure makes the room ready, or it changes for the worse first. *)
CatchesUp == Promising ~> (ready \/ ~Promising)
=============================================================================
