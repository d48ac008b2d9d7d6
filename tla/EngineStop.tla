----------------------------- MODULE EngineStop -----------------------------
(***************************************************************************)
(* How the engine stops a game process on Linux (engine.Stop) and removes  *)
(* its FIFO (CleanupInput).  All that is known of the process is a saved   *)
(* identity: a process identifier, which the kernel gives to another       *)
(* process once the game is reaped, and what /proc said of the process     *)
(* when it started.  A pidfd names one process for good; /proc goes by the *)
(* identifier, and an exiting process leaves it before its pidfd says so.  *)
(* The module shows what Manager takes for granted of engine.Stop          *)
(* (MayConfirm) and of CleanupInput (MayUnlinkInput).                      *)
(***************************************************************************)
EXTENDS Naturals

CONSTANTS
    Game,     \* the process the identity was read from
    Others,   \* bound: the processes that may get its identifier later
    None

ASSUME ProcessAssumption == Game # None /\ Game \notin Others /\ None \notin Others

VARIABLES
    game,     \* what has become of the game
    holder,   \* the process that has the identifier, or None
    dead,     \* the others that had it and have exited
    path,     \* what lies at stdin.fifo: the game's own, foreign or none
    call,     \* the engine function that runs
    site,     \* where it is
    step,     \* where it is within Handle.alive
    fd,       \* the process of the open pidfd, or None
    input,    \* the file that Quit has opened
    result,   \* what the last call of Stop returned
    killed,   \* the processes SIGKILL was sent to
    written   \* the files "quit" was written to

world == <<game, holder, dead, path>>
sent  == <<killed, written>>
vars  == <<world, call, site, step, fd, input, result, sent>>

(* changed: the game runs, but /proc shows it otherwise than at its start. *)
(* exiting: /proc has lost it, its pidfd is not readable yet.              *)
GameStates == {"alive", "changed", "exiting", "exited", "reaped"}

(* The sites at which alive is called, those of Stop, and all of them.     *)
AliveSites == {"opened", "quit", "again", "watch", "after", "kill", "force", "recheck"}
Sites      == AliveSites \cup {"idle", "open", "fifo", "match", "write",
                               "signal", "lstat", "unlink"}

TypeOK ==
    /\ game \in GameStates
    /\ holder \in Others \cup {Game, None} /\ dead \subseteq Others
    /\ path \in {"own", "foreign", "none"}
    /\ call \in {"none", "stop", "cleanup"}
    /\ site \in Sites /\ step \in {"poll", "read", "await", "pause"}
    /\ fd \in Others \cup {Game, None}
    /\ input \in {"own", "foreign", "none"}
    /\ result \in {"none", "confirmed", "error", "deadline"}
    /\ killed \subseteq Others \cup {Game}
    /\ written \subseteq {"own", "foreign"}

Init ==
    /\ game = "alive" /\ holder = Game /\ dead = {} /\ path = "own"
    /\ call = "none" /\ site = "idle" /\ step = "poll"
    /\ fd = None /\ input = "none" /\ result = "none"
    /\ killed = {} /\ written = {}

----------------------------------------------------------------------------
(* Calls and returns. *)

Begin(c) ==
    /\ site = "idle"
    /\ call' = c /\ site' = "open" /\ result' = "none"
    /\ UNCHANGED <<world, step, fd, input, sent>>

Stop         == Begin("stop")
CleanupInput == Begin("cleanup")

Go(s) == site' = s /\ step' = "poll" /\ UNCHANGED <<call, fd, input, result>>

(* The call returns, and closes what it has opened.                        *)
Return(r) ==
    /\ site' = "idle" /\ step' = "poll" /\ call' = "none"
    /\ fd' = None /\ input' = "none" /\ result' = r

(* Open, to its pidfd: without a process of that identifier (ESRCH) the    *)
(* game is gone.                                                           *)
IsGone == IF call = "stop" THEN Return("confirmed") ELSE Go("lstat")

(* Mutant: any failure to open the pidfd is taken for an exit.             *)
PidfdOpenOrGone ==
    /\ site = "open"
    /\ IsGone
    /\ UNCHANGED <<world, sent>>

PidfdOpen ==
    /\ site = "open"
    /\ \/ Return("error")
       \/ holder = None /\ IsGone
       \/ /\ holder # None
          /\ fd' = holder /\ site' = "opened"
          /\ UNCHANGED <<call, step, input, result>>
    /\ UNCHANGED <<world, sent>>

----------------------------------------------------------------------------
(* Handle.alive, for each place that calls it. *)

GameExited == game \in {"exited", "reaped"}

PidfdExited == (fd = Game /\ GameExited) \/ fd \in dead

FoundAlive ==
    \/ site = "opened" /\ Go(IF call = "stop" THEN "quit" ELSE "recheck")
    \/ site = "quit" /\ Go("fifo")
    \/ site = "again" /\ Go("write")
    \/ site = "after" /\ Go("kill")
    \/ site = "kill" /\ Go("signal")
    \/ site = "recheck" /\ Return("error")
    \/ site \in {"watch", "force"} /\ step' = "pause"
       /\ UNCHANGED <<call, site, fd, input, result>>

FoundGone ==
    \/ site = "opened" /\ IsGone
    \/ site \in {"quit", "again", "watch"} /\ Go("after")
    \/ site = "kill" /\ Go("force")
    \/ site \in {"after", "force"} /\ Return("confirmed")
    \/ site = "recheck" /\ Go("lstat")

(* Mutant: what cannot be read is taken for gone.                          *)
FoundUnknownGone == FoundGone

(* An error of Quit's is only noted; every other one ends the call.        *)
FoundUnknown ==
    \/ site \in {"quit", "again", "watch"} /\ Go("after")
    \/ site \in AliveSites \ {"quit", "again", "watch"} /\ Return("error")

Poll ==
    /\ site \in AliveSites /\ step = "poll"
    /\ \/ PidfdExited /\ FoundGone
       \/ ~PidfdExited /\ step' = "read" /\ UNCHANGED <<call, site, fd, input, result>>
       \/ FoundUnknown                                    \* ppoll fails
    /\ UNCHANGED <<world, sent>>

(* Mutant: whatever process has the identifier is taken for the game.      *)
AnyIdentity == holder # None

(* readIdentity reads several files.  The last one is the game's standard  *)
(* input, so all of them agree with the saved identity exactly if the game *)
(* still is as it was when that one is read.                               *)
SameIdentity == holder = Game /\ game = "alive"

ReadIdentity ==
    /\ site \in AliveSites /\ step = "read"
    /\ \/ SameIdentity /\ FoundAlive
       \/ ~SameIdentity /\ FoundUnknown                   \* another identity
       \/ step' = "await" /\ UNCHANGED <<call, site, fd, input, result>>
    /\ UNCHANGED <<world, sent>>

(* A failed reading does not prove an exit: only the pidfd does, in time.  *)
Await ==
    /\ site \in AliveSites /\ step = "await"
    /\ IF PidfdExited THEN FoundGone ELSE FoundUnknown
    /\ UNCHANGED <<world, sent>>

----------------------------------------------------------------------------
(* Handle.Quit between its calls of alive. *)

OpenInput ==
    /\ site = "fifo"
    /\ \/ Go("after")
       \/ /\ path # "none" /\ input' = path
          /\ site' = "match" /\ UNCHANGED <<call, step, fd, result>>
    /\ UNCHANGED <<world, sent>>

(* The opened file against the standard input of the identifier's process, *)
(* whoever that is by now: only of the unchanged game is it known.         *)
MayBeItsInput ==
    /\ holder # None
    /\ holder = Game => \/ game = "alive" /\ input = "own"
                        \/ game = "changed"

(* Mutant: the process is not asked again after its input was compared. *)
MatchInputOnly ==
    /\ site = "match"
    /\ Go("after") \/ (MayBeItsInput /\ Go("write"))
    /\ UNCHANGED <<world, sent>>

MatchInput ==
    /\ site = "match"
    /\ Go("after") \/ (MayBeItsInput /\ Go("again"))
    /\ UNCHANGED <<world, sent>>

WriteQuit ==
    /\ site = "write"
    /\ \/ Go("after") /\ UNCHANGED written
       \/ Go("watch") /\ written' = written \cup {input}
    /\ UNCHANGED <<world, killed>>

(* A loop of Quit or Stop that found the game alive waits for a tick.      *)
Again ==
    /\ step = "pause" /\ step' = "poll"
    /\ UNCHANGED <<world, call, site, fd, input, result, sent>>

(* Mutant: the end of the graceful time ends the stop.                     *)
OverdueEnds ==
    /\ step = "pause" /\ Return("deadline")
    /\ UNCHANGED <<world, sent>>

(* Mutant: the loop that waits for the killed game has no deadline.        *)
OverdueInQuit ==
    /\ step = "pause" /\ site = "watch" /\ Go("after")
    /\ UNCHANGED <<world, sent>>

(* Or its time is over: that of Quit, or that of the force.                *)
Overdue ==
    /\ step = "pause"
    /\ IF site = "watch" THEN Go("after") ELSE Return("deadline")
    /\ UNCHANGED <<world, sent>>

----------------------------------------------------------------------------
(* Handle.Kill after its call of alive, and removeInput. *)

Signal ==
    /\ site = "signal"
    /\ \/ Return("error") /\ UNCHANGED killed
       \/ /\ Go("force")
          /\ killed' = IF PidfdExited THEN killed ELSE killed \cup {fd}
    /\ UNCHANGED <<world, written>>

(* removeInput: nothing there, another file there, or the FIFO.            *)
Lstat ==
    /\ site = "lstat"
    /\ Return("none") \/ (path = "own" /\ Go("unlink"))
    /\ UNCHANGED <<world, sent>>

Unlink ==
    /\ site = "unlink"
    /\ path' \in {path, "none"}
    /\ Return("none")
    /\ UNCHANGED <<game, holder, dead, sent>>

----------------------------------------------------------------------------
(* The game, the identifier and the run directory. *)

GameChanges ==
    /\ game = "alive" /\ game' = "changed"
    /\ UNCHANGED <<holder, dead, path, call, site, step, fd, input, result, sent>>

GameExits ==
    /\ \/ game \in {"alive", "changed"} /\ game' = "exiting"
       \/ game = "exiting" /\ game' = "exited"
    /\ UNCHANGED <<holder, dead, path, call, site, step, fd, input, result, sent>>

Reaped ==
    /\ game = "exited" /\ game' = "reaped" /\ holder' = None
    /\ UNCHANGED <<dead, path, call, site, step, fd, input, result, sent>>

Reused(p) ==
    /\ game = "reaped" /\ holder = None /\ p \notin dead /\ holder' = p
    /\ UNCHANGED <<game, dead, path, call, site, step, fd, input, result, sent>>

OtherExits ==
    /\ holder \in Others /\ dead' = dead \cup {holder} /\ holder' = None
    /\ UNCHANGED <<game, path, call, site, step, fd, input, result, sent>>

(* Somebody puts another file in the place of the FIFO, or removes that.   *)
Displace ==
    /\ path' \in IF path = "own" THEN {"foreign"} ELSE {"foreign", "none"} \ {path}
    /\ UNCHANGED <<game, holder, dead, call, site, step, fd, input, result, sent>>

----------------------------------------------------------------------------
CallStep ==
    \/ PidfdOpen \/ Poll \/ ReadIdentity \/ Await
    \/ OpenInput \/ MatchInput \/ WriteQuit \/ Again
    \/ Signal \/ Lstat \/ Unlink

WorldStep ==
    \/ GameChanges \/ GameExits \/ Reaped \/ OtherExits \/ Displace
    \/ \E p \in Others : Reused(p)

Next == Stop \/ CleanupInput \/ CallStep \/ Overdue \/ WorldStep

(* A call goes on, and its deadlines pass: a loop cannot pause for ever.   *)
Spec == Init /\ [][Next]_vars /\ WF_vars(CallStep) /\ SF_vars(Overdue)

----------------------------------------------------------------------------
(* Properties. *)

(* Stop reports a confirmed exit only of a game that has exited: neither a *)
(* reused identifier nor an identity that cannot be read is taken for one. *)
ConfirmedIsGone == result = "confirmed" => GameExited

(* SIGKILL reaches no process but the game, whoever has its identifier.    *)
OnlyGameKilled == killed \subseteq {Game}

(* "quit" is written to no file but the game's own FIFO, although the path *)
(* may be replaced and the identifier reused while Quit runs.              *)
QuitOnlyToGame == written \subseteq {"own"}

(* Stop gives up for lack of time only after the game was told to die.     *)
OverdueWasKilled == result = "deadline" => Game \in killed

(* The FIFO of a game stays in place until the game has exited.            *)
InputOutlivesGame ==
    [][path = "own" /\ path' = "none" => GameExited]_vars

(* Every call of Stop or CleanupInput returns, whatever the game does.     *)
CallsReturn == site # "idle" ~> site = "idle"
=============================================================================
