---------------------------- MODULE EngineProofs ----------------------------
(***************************************************************************)
(* Theorems about EngineStop and Discovery, for any set of processes that  *)
(* may get the identifier of the game.  What is proved of EngineStop, for  *)
(* an identity that was saved, still holds when the identity is found by a *)
(* search, and the search does not pass over a game that runs as it was    *)
(* started.                                                                *)
(***************************************************************************)
EXTENDS Discovery, TLAPS

(* The game loses its identifier only when it is reaped, and a process     *)
(* that got it later got it from a game already gone.                      *)
Identifier ==
    /\ holder = Game <=> game # "reaped"
    /\ fd \in Others => game = "reaped"

(* Past Open, and until an exit was found, the pidfd is the game's.        *)
Verified ==
    /\ site = "opened" => fd # None
    /\ site \in {"quit", "fifo", "match", "again", "write", "watch", "after",
                 "kill", "signal", "force", "recheck"} => fd = Game

(* What Quit has opened is the game's own FIFO, or the game is no longer   *)
(* what its identity says.                                                 *)
Matched ==
    /\ site = "again" /\ input # "own" => ~SameIdentity
    /\ site = "write" => input = "own"

(* removeInput is reached only when the game has exited.                   *)
Removing == site \in {"lstat", "unlink"} => GameExited


(* A loop pauses only in these two places, and the second one only after   *)
(* the kill: until then the game had not exited.                           *)
Pausing == step = "pause" => site \in {"watch", "force"}

Forced ==
    /\ site = "force" => Game \in killed \/ GameExited
    /\ site = "force" /\ step = "pause" => Game \in killed

IInv ==
    /\ TypeOK /\ Identifier /\ Verified /\ Matched /\ Removing /\ Pausing /\ Forced
    /\ ConfirmedIsGone /\ OnlyGameKilled /\ QuitOnlyToGame /\ OverdueWasKilled

USE DEF Sites, AliveSites, GameStates, GameExited, SameIdentity

----------------------------------------------------------------------------
(* The invariant holds in the state the engine starts from.                *)
LEMMA Initially == ASSUME Init PROVE IInv
  BY ProcessAssumption DEF Init, IInv, TypeOK, Identifier, Verified, Matched, Removing,
     Pausing, Forced, ConfirmedIsGone, OnlyGameKilled, QuitOnlyToGame, OverdueWasKilled

(* Beginning a call keeps the invariant: nothing is open yet.              *)
LEMMA Beginning == ASSUME IInv, NEW c \in {"stop", "cleanup"}, Begin(c) PROVE IInv'
  BY ProcessAssumption DEF Begin, world, sent, IInv, TypeOK, Identifier, Verified, Matched,
     Removing, Pausing, Forced, ConfirmedIsGone, OnlyGameKilled, QuitOnlyToGame, OverdueWasKilled

(* A readable pidfd, or no process at all, means that the game has exited. *)
LEMMA ExitIsTrue ==
    ASSUME IInv, PidfdExited
    PROVE  GameExited
  BY ProcessAssumption DEF IInv, TypeOK, Identifier, PidfdExited

(* A found exit keeps the invariant if the game has exited.                *)
LEMMA Gone ==
    ASSUME IInv, GameExited, site \in AliveSites, FoundGone, UNCHANGED <<world, sent>>
    PROVE  IInv'
  BY ProcessAssumption DEF FoundGone, IsGone, Go, Return, world, sent, IInv, TypeOK, Identifier,
     Verified, Matched, Removing, Pausing, Forced, ConfirmedIsGone, OnlyGameKilled,
     QuitOnlyToGame, OverdueWasKilled

(* A sign of life keeps the invariant if the game gave it.                 *)
LEMMA Living ==
    ASSUME IInv, SameIdentity, FoundAlive, UNCHANGED <<world, sent>>
    PROVE  IInv'
  BY ProcessAssumption DEF FoundAlive, Go, Return, world, sent, IInv, TypeOK, Identifier,
     Verified, Matched, Removing, Pausing, Forced, ConfirmedIsGone, OnlyGameKilled,
     QuitOnlyToGame, OverdueWasKilled

(* An error keeps the invariant: it ends the call or sends Quit back.      *)
LEMMA Unknown ==
    ASSUME IInv, FoundUnknown, UNCHANGED <<world, sent>>
    PROVE  IInv'
  BY ProcessAssumption DEF FoundUnknown, Go, Return, world, sent, IInv, TypeOK, Identifier,
     Verified, Matched, Removing, Pausing, Forced, ConfirmedIsGone, OnlyGameKilled,
     QuitOnlyToGame, OverdueWasKilled

(* Moving on inside alive keeps the invariant.                             *)
LEMMA Onward ==
    ASSUME IInv, site \in AliveSites, step' \in {"poll", "read", "await"},
           UNCHANGED <<call, site, fd, input, result, world, sent>>
    PROVE  IInv'
  BY DEF world, sent, IInv, TypeOK, Identifier, Verified, Matched, Removing, Pausing, Forced,
     ConfirmedIsGone, OnlyGameKilled, QuitOnlyToGame, OverdueWasKilled

(* Every step of a running call keeps the invariant.                       *)
LEMMA Calling == ASSUME IInv, CallStep \/ Overdue PROVE IInv'
<1> USE ProcessAssumption DEF Go, Return, world, sent, IInv, TypeOK, Identifier, Verified,
        Matched, Removing, Pausing, Forced, ConfirmedIsGone, OnlyGameKilled, QuitOnlyToGame,
        OverdueWasKilled
<1>1. CASE PidfdOpen
  BY <1>1 DEF PidfdOpen, IsGone
<1>2. CASE Poll
  <2>1. CASE PidfdExited /\ FoundGone
    BY <1>2, <2>1, ExitIsTrue, Gone DEF Poll
  <2>2. CASE step' = "read" /\ UNCHANGED <<call, site, fd, input, result>>
    BY <1>2, <2>2, Onward DEF Poll
  <2>3. CASE FoundUnknown
    BY <1>2, <2>3, Unknown DEF Poll
  <2> QED  BY <1>2, <2>1, <2>2, <2>3 DEF Poll
<1>3. CASE ReadIdentity
  <2>1. CASE SameIdentity /\ FoundAlive
    BY <1>3, <2>1, Living DEF ReadIdentity
  <2>2. CASE FoundUnknown
    BY <1>3, <2>2, Unknown DEF ReadIdentity
  <2>3. CASE step' = "await" /\ UNCHANGED <<call, site, fd, input, result>>
    BY <1>3, <2>3, Onward DEF ReadIdentity
  <2> QED  BY <1>3, <2>1, <2>2, <2>3 DEF ReadIdentity
<1>4. CASE Await
  BY <1>4, ExitIsTrue, Gone, Unknown DEF Await
<1>5. CASE OpenInput
  BY <1>5 DEF OpenInput
<1>6. CASE MatchInput
  BY <1>6 DEF MatchInput, MayBeItsInput
<1>7. CASE WriteQuit
  <2>1. written' \subseteq {"own"} /\ written' \subseteq {"own", "foreign"}
    BY <1>7 DEF WriteQuit
  <2> QED  BY <1>7, <2>1 DEF WriteQuit
<1>8. CASE Again
  BY <1>8 DEF Again
<1>9. CASE Signal
  BY <1>9 DEF Signal, PidfdExited
<1>10. CASE Lstat
  BY <1>10 DEF Lstat
<1>11. CASE Unlink
  BY <1>11 DEF Unlink
<1>12. CASE Overdue
  BY <1>12 DEF Overdue
<1> QED
  BY <1>1, <1>2, <1>3, <1>4, <1>5, <1>6, <1>7, <1>8, <1>9, <1>10, <1>11, <1>12 DEF CallStep

(* The world keeps the invariant: no exit is taken back, and a game that   *)
(* no longer shows its identity never shows it again.                      *)
LEMMA Surroundings == ASSUME IInv, WorldStep PROVE IInv'
<1> USE ProcessAssumption DEF IInv, TypeOK, Identifier, Verified, Matched, Removing, Pausing,
        Forced, ConfirmedIsGone, OnlyGameKilled, QuitOnlyToGame, OverdueWasKilled, sent
<1>1. CASE GameChanges
  BY <1>1 DEF GameChanges
<1>2. CASE GameExits
  BY <1>2 DEF GameExits
<1>3. CASE Reaped
  BY <1>3 DEF Reaped
<1>4. CASE OtherExits
  BY <1>4 DEF OtherExits
<1>5. CASE Displace
  BY <1>5 DEF Displace
<1>6. ASSUME NEW p \in Others, Reused(p) PROVE IInv'
  BY <1>6 DEF Reused
<1> QED
  BY <1>1, <1>2, <1>3, <1>4, <1>5, <1>6 DEF WorldStep

(* IInv holds in every state of every behaviour.                           *)
THEOREM StopInvariance == Spec => []IInv
<1>1. ASSUME IInv, [Next]_vars PROVE IInv'
  <2>1. CASE Stop \/ CleanupInput
    BY <1>1, <2>1, Beginning DEF Stop, CleanupInput
  <2>2. CASE CallStep \/ Overdue
    BY <1>1, <2>2, Calling
  <2>3. CASE WorldStep
    BY <1>1, <2>3, Surroundings
  <2>4. CASE UNCHANGED vars
    BY <1>1, <2>4 DEF vars, world, sent, IInv, TypeOK, Identifier, Verified, Matched, Removing,
       Pausing, Forced, ConfirmedIsGone, OnlyGameKilled, QuitOnlyToGame, OverdueWasKilled
  <2> QED  BY <1>1, <2>1, <2>2, <2>3, <2>4 DEF Next
<1> QED  BY Initially, <1>1, PTL DEF Spec

(* Stop never reports an exit that has not happened: what Manager assumes  *)
(* of it in MayConfirm.                                                    *)
THEOREM ConfirmedTruthful == Spec => []ConfirmedIsGone
<1>1. IInv => ConfirmedIsGone  BY DEF IInv
<1> QED  BY StopInvariance, <1>1, PTL

(* The engine kills no process but the game.                               *)
THEOREM KillsOnlyGame == Spec => []OnlyGameKilled
<1>1. IInv => OnlyGameKilled  BY DEF IInv
<1> QED  BY StopInvariance, <1>1, PTL

(* The engine writes "quit" to no file but the FIFO of the game.           *)
THEOREM QuitsOnlyGame == Spec => []QuitOnlyToGame
<1>1. IInv => QuitOnlyToGame  BY DEF IInv
<1> QED  BY StopInvariance, <1>1, PTL

(* A stop that ran out of time has sent the kill.                          *)
THEOREM OverdueKilled == Spec => []OverdueWasKilled
<1>1. IInv => OverdueWasKilled  BY DEF IInv
<1> QED  BY StopInvariance, <1>1, PTL

(* A step that removes the game's FIFO finds the game gone: what Manager   *)
(* assumes of CleanupInput in MayUnlinkInput.                              *)
THEOREM InputKept == Spec => InputOutlivesGame
<1>1. ASSUME IInv, [Next]_vars, path = "own", path' = "none" PROVE GameExited
  <2>1. CASE Stop \/ CleanupInput
    BY <1>1, <2>1 DEF Stop, CleanupInput, Begin, world
  <2>2. CASE Unlink
    BY <1>1, <2>2 DEF Unlink, IInv, Removing
  <2>3. CASE Displace
    BY <1>1, <2>3 DEF Displace
  <2>4. CASE \/ PidfdOpen \/ Poll \/ ReadIdentity \/ Await \/ OpenInput
             \/ MatchInput \/ WriteQuit \/ Again \/ Signal \/ Lstat \/ Overdue
    BY <1>1, <2>4 DEF PidfdOpen, Poll, ReadIdentity, Await, OpenInput, MatchInput, WriteQuit,
       Again, Signal, Lstat, Overdue, world
  <2>5. CASE GameChanges \/ GameExits \/ Reaped \/ OtherExits \/ \E p \in Others : Reused(p)
    BY <1>1, <2>5 DEF GameChanges, GameExits, Reaped, OtherExits, Reused
  <2>6. CASE UNCHANGED vars
    BY <1>1, <2>6 DEF vars, world
  <2> QED
    BY <1>1, <2>1, <2>2, <2>3, <2>4, <2>5, <2>6 DEF Next, CallStep, WorldStep
<1>2. IInv /\ [Next]_vars => [path = "own" /\ path' = "none" => GameExited]_vars
  BY <1>1
<1> QED  BY StopInvariance, <1>2, PTL DEF Spec, InputOutlivesGame

----------------------------------------------------------------------------
(* A search for the game before it is stopped. *)

(* The identifier was another's only after the game was reaped, and a      *)
(* search that began after the exec stays after it.                        *)
Searched ==
    /\ dead # {} => game = "reaped"
    /\ pfd \in Others => game = "reaped"
    /\ began = "done" => exec = "done"

DInv == DiscoveryTypeOK /\ IInv /\ Searched /\ SettledIsFound

USE DEF Sites, AliveSites, GameStates, GameExited, SameIdentity

----------------------------------------------------------------------------
(* Every step of the composition is a step of EngineStop, or leaves its    *)
(* variables alone.                                                        *)
LEMMA StopStepIsNext == ASSUME [DiscoveryNext]_allVars PROVE Next \/ UNCHANGED vars
<1>1. CASE Search \/ BeginSearch
  BY <1>1 DEF Search, BeginSearch
<1>2. CASE ExecGoesOn \/ SetBack
  BY <1>2 DEF ExecGoesOn, SetBack
<1>3. CASE StopStep
  BY <1>3 DEF StopStep, Next
<1>4. CASE UNCHANGED allVars
  BY <1>4 DEF allVars
<1> QED  BY <1>1, <1>2, <1>3, <1>4 DEF DiscoveryNext

(* What EngineStop keeps, the composition keeps.                           *)
LEMMA StopPart == ASSUME IInv, Next \/ UNCHANGED vars PROVE IInv'
<1>1. CASE Stop \/ CleanupInput
  BY <1>1, Beginning DEF Stop, CleanupInput
<1>2. CASE CallStep \/ Overdue
  BY <1>2, Calling
<1>3. CASE WorldStep
  BY <1>3, Surroundings
<1>4. CASE UNCHANGED vars
  BY <1>4 DEF vars, world, sent, IInv, TypeOK, Identifier, Verified, Matched, Removing,
     Pausing, Forced, ConfirmedIsGone, OnlyGameKilled, QuitOnlyToGame, OverdueWasKilled
<1> QED  BY <1>1, <1>2, <1>3, <1>4 DEF Next

(* A search that passes over the entry of the game finds it changed, gone, *)
(* in its exec, or older than the intent by the clock.                     *)
LEMMA PassedOver ==
    ASSUME DInv, Search, found' = "absent"
    PROVE  began = "done" /\ clock = "kept" => game # "alive"
<1> USE ProcessAssumption DEF DInv, IInv, DiscoveryTypeOK, TypeOK, Identifier, Searched,
        SettledIsFound, Ends, Look, Passed, Undecided, HasExited, Shows
<1>1. CASE ReadExe
  BY <1>1 DEF ReadExe
<1>2. CASE ReadCmdline
  BY <1>2 DEF ReadCmdline
<1>3. CASE OpenPidfd
  BY <1>3 DEF OpenPidfd
<1>4. CASE ReadAll
  BY <1>4 DEF ReadAll
<1>5. CASE PollExit
  BY <1>5 DEF PollExit
<1>6. CASE CompareStart
  BY <1>6 DEF CompareStart
<1>7. CASE Verify
  BY <1>7 DEF Verify
<1> QED  BY <1>1, <1>2, <1>3, <1>4, <1>5, <1>6, <1>7 DEF Search

(* The search keeps its types.                                             *)
LEMMA Searching ==
    ASSUME DInv, Search
    PROVE  DiscoveryTypeOK' /\ Searched'
<1> USE ProcessAssumption DEF DInv, IInv, DiscoveryTypeOK, TypeOK, Identifier, Searched, Ends,
        Look, Passed, Undecided, vars, world, sent, surround
<1>1. CASE ReadExe
  BY <1>1 DEF ReadExe, Search
<1>2. CASE ReadCmdline
  BY <1>2 DEF ReadCmdline, Search
<1>3. CASE OpenPidfd
  BY <1>3 DEF OpenPidfd, Search
<1>4. CASE ReadAll
  BY <1>4 DEF ReadAll, Search
<1>5. CASE PollExit
  BY <1>5 DEF PollExit, Search
<1>6. CASE CompareStart
  BY <1>6 DEF CompareStart, Search
<1>7. CASE Verify
  BY <1>7 DEF Verify, Search
<1> QED  BY <1>1, <1>2, <1>3, <1>4, <1>5, <1>6, <1>7 DEF Search

(* A process never comes back, and the identifier passes on after the game *)
(* only.                                                                   *)
LEMMA WorldGoesOn ==
    ASSUME DInv, Next \/ UNCHANGED vars
    PROVE  /\ game # "alive" => game' # "alive"
           /\ game = "reaped" => game' = "reaped"
           /\ dead' # {} => game' = "reaped"
<1> USE ProcessAssumption DEF DInv, IInv, TypeOK, Identifier, Searched
<1>1. CASE WorldStep
  BY <1>1 DEF WorldStep, GameChanges, GameExits, Reaped, Reused, OtherExits, Displace
<1>2. CASE Stop \/ CleanupInput \/ UNCHANGED vars
  BY <1>2 DEF Stop, CleanupInput, Begin, vars, world
<1>3. CASE CallStep \/ Overdue
  BY <1>3 DEF CallStep, PidfdOpen, Poll, ReadIdentity, Await, OpenInput, MatchInput, WriteQuit,
     Again, Signal, Lstat, Unlink, Overdue, world
<1> QED  BY <1>1, <1>2, <1>3 DEF Next

----------------------------------------------------------------------------
(* DInv holds in every state of the search and of the stop after it.       *)
THEOREM SearchInvariance == DiscoverySpec => []DInv
<1>1. DiscoveryInit => DInv
  BY Initially, ProcessAssumption DEF DiscoveryInit, DInv, DiscoveryTypeOK, Searched,
     SettledIsFound, Init, IInv
<1>2. ASSUME DInv, [DiscoveryNext]_allVars PROVE DInv'
  <2>1. Next \/ UNCHANGED vars  BY <1>2, StopStepIsNext
  <2>2. IInv' /\ TypeOK'  BY <1>2, <2>1, StopPart DEF DInv, IInv
  <2>3. /\ game # "alive" => game' # "alive"
        /\ game = "reaped" => game' = "reaped"
        /\ dead' # {} => game' = "reaped"
    BY <1>2, <2>1, WorldGoesOn
  <2>4. CASE Search
    BY <1>2, <2>2, <2>3, <2>4, Searching, PassedOver
       DEF DInv, SettledIsFound, Search, surround, vars, world, Searched, Ends, Look, Passed, Undecided,
           ReadExe, ReadCmdline, OpenPidfd, ReadAll, PollExit, CompareStart, Verify
  <2>5. CASE BeginSearch
    BY <1>2, <2>2, <2>3, <2>5
       DEF DInv, DiscoveryTypeOK, TypeOK, Searched, SettledIsFound, BeginSearch, Discover, vars, world, surround
  <2>6. CASE ExecGoesOn \/ SetBack
    BY <1>2, <2>2, <2>3, <2>6
       DEF DInv, DiscoveryTypeOK, Searched, SettledIsFound, ExecGoesOn, SetBack, discovery, vars, world
  <2>7. CASE StopStep \/ UNCHANGED allVars
    BY <1>2, <2>2, <2>3, <2>7
       DEF DInv, DiscoveryTypeOK, Searched, SettledIsFound, StopStep, discovery, surround, allVars
  <2> QED  BY <1>2, <2>4, <2>5, <2>6, <2>7 DEF DiscoveryNext
<1> QED  BY <1>1, <1>2, PTL DEF DiscoverySpec

(* The search and the stop after it keep their variables in their types.   *)
THEOREM SearchTypeCorrect == DiscoverySpec => []DiscoveryTypeOK
<1>1. DInv => DiscoveryTypeOK  BY DEF DInv
<1> QED  BY SearchInvariance, <1>1, PTL

(* Discover never reports a game as absent that still runs as it was       *)
(* started, unless the clock was set back or the search began in its exec. *)
THEOREM FindsTheGame == DiscoverySpec => []SettledIsFound
<1>1. DInv => SettledIsFound  BY DEF DInv
<1> QED  BY SearchInvariance, <1>1, PTL

(* What is stopped after a search by what it found is the game alone.      *)
THEOREM StopsWhatItFound ==
    DiscoverySpec => [](ConfirmedIsGone /\ OnlyGameKilled /\ QuitOnlyToGame)
<1>1. DInv => ConfirmedIsGone /\ OnlyGameKilled /\ QuitOnlyToGame  BY DEF DInv, IInv
<1> QED  BY SearchInvariance, <1>1, PTL
=============================================================================
