------------------------------- MODULE MCA2S -------------------------------
(* Small instances of the gameinfo editor for TLC. *)
EXTENDS A2S

InGameInfo(body) == <<"GameInfo", "{">> \o body \o <<"}">>
InGMS(body)      == InGameInfo(<<"GMS", "{">> \o body \o <<"}">>)

Xs(k)           == [i \in 1..k |-> "x"]

Letters == {"{", "}", "GMS", "Advertise", "1", "x"}
AllTokens == Letters \cup {"GameInfo", "#", "!"}
Words   == UNION {[1..k -> Letters] : k \in 0..2}

(* A directive or condition is as long as many other tokens.               *)
TextBytes(text) == Len(text) + 19 * Len(SelectSeq(text, LAMBDA t : t = "#"))

(* The shapes that Merge tells apart, texts at its limits, and all short   *)
(* words where they can matter, well formed or not.                        *)
SomeTexts ==
    {InGameInfo(w) : w \in Words} \cup {InGMS(w) : w \in Words} \cup
    {InGameInfo(<<>>), InGameInfo(<<"x", "1">>), InGMS(<<>>), InGMS(<<"x", "x">>),
     InGMS(<<"Advertise", "1">>), InGMS(<<"Advertise", "x">>),
     InGMS(<<"Advertise", "1", "Advertise", "1">>), InGMS(<<"Advertise", "{", "}">>),
     InGameInfo(<<"GMS", "1">>), InGameInfo(<<"Advertise", "1">>),
     InGameInfo(<<"GMS", "{", "}", "GMS", "{", "Advertise", "1", "}">>),
     InGameInfo(<<"x", "{", "GMS", "{", "Advertise", "1", "}", "}">>),
     InGameInfo(<<"x", "{", "x", "{", "x", "{", "}", "}", "}">>),
     InGameInfo(Xs(8)), InGameInfo(Xs(10)), InGameInfo(Xs(8) \o <<"GMS", "{", "}">>),
     InGameInfo(Xs(12)), InGameInfo(<<"x", "#", "x", "#">>),
     InGameInfo(<<"#", "x">>), InGameInfo(<<"x", "#">>), <<"GameInfo", "{">>,
     InGameInfo(<<>>) \o <<"x", "1">>, <<"GameInfo", "1">>, <<"!">>, <<>>}

OtherTexts == {InGameInfo(<<"x", "x">>), InGMS(<<"Advertise", "x">>)}

Symmetry == Permutations(Runs)
=============================================================================
