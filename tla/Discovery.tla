----------------------------- MODULE Discovery -----------------------------
(***************************************************************************)
(* How recovery finds a game whose start was saved as an intent but whose  *)
(* identity was not (engine.Discover on Linux), in the world of EngineStop *)
(* and before it: Stop and CleanupInput wait for the identity found here.  *)
(* Only the entry of /proc that the game has or had is followed; every     *)
(* other process differs from the intent in its arguments.                 *)
(***************************************************************************)
EXTENDS EngineStop

VARIABLES
    exec,      \* how far the exec of the game's child is
    clock,     \* whether the wall clock was set back since the intent
    scan,      \* where Discover is, for the entry of the game
    fifo,      \* what lay at stdin.fifo when it began
    pfd,       \* the process of its pidfd, or None
    identity,  \* what it read against the intent
    found,     \* what it returned last
    began      \* how far the exec was when it began

discovery == <<scan, fifo, pfd, identity, found, began>>
surround  == <<exec, clock>>
allVars   == <<vars, discovery, surround>>

DiscoveryTypeOK ==
    /\ TypeOK
    /\ exec \in {"forked", "loading", "done"} /\ clock \in {"kept", "back"}
    /\ scan \in {"none", "exe", "cmdline", "pidfd", "read", "poll", "time", "verify"}
    /\ fifo \in {"own", "foreign", "none"} /\ pfd \in Others \cup {Game, None}
    /\ identity \in {"unread", "same", "other"}
    /\ began \in {"forked", "loading", "done"}
    /\ found \in {"none", "game", "absent", "error"}

DiscoveryInit ==
    /\ Init
    /\ exec = "forked" /\ clock = "kept"
    /\ scan = "none" /\ fifo = "none" /\ pfd = None /\ identity = "unread"
    /\ found = "none" /\ began = "forked"

----------------------------------------------------------------------------
(* Discover.  An entry that is not the game's is passed over, and with it  *)
(* the last hope to find the game; an entry that cannot be judged ends the *)
(* search with an error.                                                   *)

Ends(what) ==
    /\ scan' = "none" /\ pfd' = None /\ identity' = "unread" /\ found' = what
    /\ UNCHANGED <<fifo, began>>

Passed == Ends("absent")
Undecided == Ends("error")

Look(from, to) ==
    /\ scan = from /\ scan' = to
    /\ UNCHANGED <<fifo, pfd, identity, found, began>>

(* The lock keeps the next manager out until the child has closed its copy *)
(* of it (Service.NoChildUnseen).                                          *)
Discover ==
    /\ site = "idle" /\ scan = "none" /\ found # "absent"
    /\ exec # "forked"
    /\ scan' = "exe" /\ fifo' = path /\ found' = "none" /\ began' = exec
    /\ UNCHANGED <<pfd, identity>>

Shows == holder = Game /\ game \in {"alive", "changed"}

ReadExe ==
    \/ Look("exe", "cmdline") /\ Shows
    \/ scan = "exe" /\ (~Shows \/ game = "changed") /\ Passed
    \/ scan = "exe" /\ Undecided

(* The command line is empty until the exec is over.                       *)
ReadCmdline ==
    \/ /\ scan = "cmdline" /\ Shows /\ exec = "done"
       /\ IF fifo = "none" THEN Undecided ELSE Look("cmdline", "pidfd")
    \/ /\ scan = "cmdline"
       /\ ~Shows \/ game = "changed" \/ exec = "loading"
       /\ Passed

OpenPidfd ==
    \/ scan = "pidfd" /\ holder = None /\ Passed
    \/ scan = "pidfd" /\ Undecided
    \/ /\ scan = "pidfd" /\ holder # None
       /\ scan' = "read" /\ pfd' = holder /\ UNCHANGED <<fifo, identity, found, began>>

ReadAll ==
    /\ scan = "read" /\ scan' = "poll"
    /\ identity' = IF SameIdentity /\ fifo = "own" THEN "same" ELSE "other"
    /\ UNCHANGED <<fifo, pfd, found, began>>

HasExited(p) == (p = Game /\ GameExited) \/ p \in dead

(* Mutant: what cannot be read is passed over.                             *)
PollPasses ==
    /\ scan = "poll"
    /\ IF HasExited(pfd) \/ identity # "same" THEN Passed ELSE Look("poll", "time")

(* Only an exit excuses what does not agree.                               *)
PollExit ==
    /\ scan = "poll"
    /\ IF HasExited(pfd) THEN Passed
       ELSE IF identity # "same" THEN Undecided
       ELSE Look("poll", "time")

(* The start by the boot clock against the time of the intent.             *)
CompareStart ==
    \/ Look("time", "verify")
    \/ scan = "time" /\ clock = "back" /\ (Passed \/ Undecided)

(* Open and Alive once more, by a pidfd of their own.                      *)
Verify ==
    /\ scan = "verify"
    /\ \/ SameIdentity /\ Ends("game")
       \/ (holder = None \/ HasExited(holder)) /\ Passed
       \/ ~SameIdentity /\ Undecided

Search ==
    /\ ReadExe \/ ReadCmdline \/ OpenPidfd \/ ReadAll \/ PollExit \/ CompareStart \/ Verify
    /\ UNCHANGED <<vars, surround>>

BeginSearch == Discover /\ UNCHANGED <<vars, surround>>

----------------------------------------------------------------------------
(* The child's exec and the clock. *)

ExecGoesOn ==
    /\ game = "alive"
    /\ \/ exec = "forked" /\ exec' = "loading"
       \/ exec = "loading" /\ exec' = "done"
    /\ UNCHANGED <<vars, discovery, clock>>

SetBack ==
    /\ clock' = "back"
    /\ UNCHANGED <<vars, discovery, exec>>

(* EngineStop, once the game was found; the game changes after its exec.   *)
Known == found = "game" /\ scan = "none"

StopStep ==
    /\ \/ (Stop \/ CleanupInput) /\ Known
       \/ CallStep \/ Overdue
       \/ WorldStep /\ (game' # "changed" \/ exec = "done")
    /\ UNCHANGED <<discovery, surround>>

DiscoveryNext == BeginSearch \/ Search \/ ExecGoesOn \/ SetBack \/ StopStep

DiscoverySpec ==
    /\ DiscoveryInit /\ [][DiscoveryNext]_allVars
    /\ WF_allVars(CallStep /\ UNCHANGED <<discovery, surround>>)
    /\ SF_allVars(Overdue /\ UNCHANGED <<discovery, surround>>)

----------------------------------------------------------------------------
(* Properties. *)

(* A game that runs as it was started is not passed over, whatever happens *)
(* around it: the manager records an exit only of a game that has changed  *)
(* or ended, unless the clock was set back or the search began in its exec.*)
SettledIsFound ==
    found = "absent" /\ began = "done" /\ clock = "kept" => game # "alive"

(* docs/validation/m2.md:22 says that a possible target that cannot be     *)
(* inspected keeps the process unknown, and recovery takes an empty result *)
(* for a proof (recovery.go:54): no running game is ever passed over.      *)
AbsentIsGone == found = "absent" => game \notin {"alive", "changed"}
=============================================================================
