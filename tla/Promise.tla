------------------------------ MODULE Promise ------------------------------
(***************************************************************************)
(* What a data directory promises its clients, whichever manager serves it *)
(* and however that one ends: the key of a creation names one room, a      *)
(* creation that was answered is there for good, and what was never        *)
(* answered may at worst be forgotten when the power is lost.              *)
(***************************************************************************)
CONSTANT Keys

VARIABLES rooms, answered

Init == rooms = {} /\ answered = {}

Make(k) ==
    /\ k \notin rooms
    /\ rooms' = rooms \cup {k} /\ UNCHANGED answered

Answer(k) ==
    /\ k \in rooms
    /\ answered' = answered \cup {k} /\ UNCHANGED rooms

Forget ==
    \E lost \in SUBSET (rooms \ answered) :
        rooms' = rooms \ lost /\ UNCHANGED answered

Next == Forget \/ \E k \in Keys : Make(k) \/ Answer(k)

Spec == Init /\ [][Next]_<<rooms, answered>>
=============================================================================
