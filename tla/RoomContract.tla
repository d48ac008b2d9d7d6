---------------------------- MODULE RoomContract ----------------------------
(***************************************************************************)
(* What d2core promises of a room, seen from outside: the state file and   *)
(* the game processes.  A room is reserved with a port nobody else holds,  *)
(* plays one generation at a time, and is reclaimed, giving up its port,   *)
(* only when no process of it is left; its history then expires.           *)
(***************************************************************************)
EXTENDS Naturals

CONSTANTS Instances, Ports, NoPort

VARIABLES
    tenure,   \* "none", "held", "reclaimed" or "expired"
    port,     \* the port a held room reserves
    gen,      \* the newest generation
    procs     \* the generations with a game process

rooms == <<tenure, port, gen, procs>>

Init ==
    /\ tenure = [i \in Instances |-> "none"]
    /\ port = [i \in Instances |-> NoPort]
    /\ gen = [i \in Instances |-> 0]
    /\ procs = [i \in Instances |-> {}]

Reserve(i, p) ==
    /\ tenure[i] = "none"
    /\ \A j \in Instances : port[j] # p
    /\ tenure' = [tenure EXCEPT ![i] = "held"]
    /\ port' = [port EXCEPT ![i] = p]
    /\ UNCHANGED <<gen, procs>>

NextGeneration(i) ==
    /\ tenure[i] = "held" /\ procs[i] = {}
    /\ gen' = [gen EXCEPT ![i] = @ + 1]
    /\ UNCHANGED <<tenure, port, procs>>

Spawn(i) ==
    /\ tenure[i] = "held" /\ procs[i] = {} /\ gen[i] > 0
    /\ procs' = [procs EXCEPT ![i] = {gen[i]}]
    /\ UNCHANGED <<tenure, port, gen>>

Exit(i) ==
    /\ procs[i] # {}
    /\ procs' = [procs EXCEPT ![i] = {}]
    /\ UNCHANGED <<tenure, port, gen>>

Reclaim(i) ==
    /\ tenure[i] = "held" /\ procs[i] = {}
    /\ tenure' = [tenure EXCEPT ![i] = "reclaimed"]
    /\ port' = [port EXCEPT ![i] = NoPort]
    /\ UNCHANGED <<gen, procs>>

Expire(i) ==
    /\ tenure[i] = "reclaimed"
    /\ tenure' = [tenure EXCEPT ![i] = "expired"]
    /\ gen' = [gen EXCEPT ![i] = 0]
    /\ UNCHANGED <<port, procs>>

Next ==
    \E i \in Instances :
        \/ \E p \in Ports : Reserve(i, p)
        \/ NextGeneration(i) \/ Spawn(i) \/ Exit(i) \/ Reclaim(i) \/ Expire(i)

Spec == Init /\ [][Next]_rooms
=============================================================================
