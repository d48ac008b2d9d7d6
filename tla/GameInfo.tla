------------------------------ MODULE GameInfo ------------------------------
(***************************************************************************)
(* Merge (internal/a2s/merge.go): the one setting that d2core adds to a    *)
(* gameinfo.gi.  A text is the sequence of its tokens; blanks and comments *)
(* are no tokens, every spelling of a key is one token, "#" stands for any *)
(* directive or condition, and "!" for whatever the lexer does not accept. *)
(* Bytes(text) is what a text takes with the layout that it has.           *)
(***************************************************************************)
EXTENDS Naturals, SequencesExt

CONSTANTS
    Tokens,      \* what texts are made of
    Bytes(_),    \* the size of a text, blanks and comments included
    MaxBytes,    \* nobody reads a text of more than 4 MiB
    MaxTokens,   \* the lexer takes no word beyond 100000 tokens
    MaxDepth     \* the parser gives up beyond 64 blocks in each other

ASSUME LimitsAssumption ==
    /\ {"GameInfo", "GMS", "Advertise", "1", "{", "}", "!"} \subseteq Tokens
    /\ MaxBytes \in Nat /\ MaxTokens \in Nat /\ MaxDepth \in Nat \ {0, 1}

Bounded(text) == Bytes(text) <= MaxBytes

(* The tokens are counted where a word is added to them: braces may lie    *)
(* beyond the limit, any other token may not.                              *)
Fits(text) ==
    Bounded(text) /\ \A i \in 1..Len(text) : i > MaxTokens => text[i] \in {"{", "}"}

Lexed(text) == Fits(text) /\ ~Contains(text, "!")

(* The nodes of a block are the set of them, each with the place of its    *)
(* key; a block ends at its closing brace.                                 *)
Block(at, key, children, close) ==
    [at |-> at, key |-> key, block |-> TRUE, children |-> children, close |-> close]
Value(at, key, value) == [at |-> at, key |-> key, block |-> FALSE, value |-> value]

(* What parse returns: the nodes up to the end of the block, its closing   *)
(* brace, and where the parser goes on.                                    *)
Parsed(nodes, close, next) == [ok |-> TRUE, nodes |-> nodes, close |-> close, next |-> next]
Malformed == [ok |-> FALSE]

Before(node, rest) ==
    IF rest.ok THEN Parsed({node} \cup rest.nodes, rest.close, rest.next) ELSE Malformed

(* parse from each place in the text, for a block at each depth.           *)
Parse(ts) ==
    LET Nodes[pos \in 1..(Len(ts) + 1)] == [depth \in 0..(MaxDepth + 1) |->
        IF depth > MaxDepth THEN Malformed
        ELSE IF pos > Len(ts)
        THEN IF depth > 0 THEN Malformed ELSE Parsed({}, 0, pos)
        ELSE IF ts[pos] = "}"
        THEN IF depth = 0 THEN Malformed ELSE Parsed({}, pos, pos + 1)
        ELSE IF ts[pos] \in {"{", "#"} \/ pos = Len(ts) \/ ts[pos + 1] = "}" THEN Malformed
        ELSE IF ts[pos + 1] # "{"
        THEN Before(Value(pos, ts[pos], ts[pos + 1]), Nodes[pos + 2][depth])
        ELSE LET inner == Nodes[pos + 2][depth + 1]
             IN  IF ~inner.ok THEN Malformed
                 ELSE Before(Block(pos, ts[pos], inner.nodes, inner.close),
                             Nodes[inner.next][depth])]
    IN  Nodes

----------------------------------------------------------------------------
(* Merge. *)

With(nodes, key) == {n \in nodes : n.key = key}

Insert(text, at, tokens) ==
    [changed |-> TRUE, ok |-> TRUE,
     text |-> SubSeq(text, 1, at - 1) \o tokens \o SubSeq(text, at, Len(text))]

Kept(text)    == [changed |-> FALSE, ok |-> TRUE, text |-> text]
Refused(text) == [changed |-> FALSE, ok |-> FALSE, text |-> text]

TheSetting == <<"Advertise", "1">>
TheBlock   == <<"GMS", "{", "Advertise", "1", "}">>

IsSet(node) == ~node.block /\ node.value = "1"

(* Mutant: one entry that is right among others is enough.                 *)
SetInAny(text, gms) ==
    LET adv == With(gms.children, "Advertise") IN
    IF adv = {} THEN Insert(text, gms.close, TheSetting)
    ELSE IF \E n \in adv : IsSet(n) THEN Kept(text)
    ELSE Refused(text)

(* The setting within the block GMS, and within that of GameInfo: added,   *)
(* there, or refused.                                                      *)
SetIn(text, gms) ==
    LET adv == With(gms.children, "Advertise") IN
    IF adv = {} THEN Insert(text, gms.close, TheSetting)
    ELSE IF \E n \in adv : adv = {n} /\ IsSet(n) THEN Kept(text)
    ELSE Refused(text)

Setting(text, root) ==
    LET gms == With(root.children, "GMS") IN
    IF gms = {} THEN Insert(text, root.close, TheBlock)
    ELSE IF \E n \in gms : gms = {n} /\ n.block THEN SetIn(text, CHOOSE n \in gms : TRUE)
    ELSE Refused(text)

Merge(text) ==
    LET nodes == IF Lexed(text) /\ Parse(text)[1][0].ok THEN Parse(text)[1][0].nodes ELSE {} IN
    IF \E n \in nodes : nodes = {n} /\ n.key = "GameInfo" /\ n.block
    THEN Setting(text, CHOOSE n \in nodes : TRUE)
    ELSE Refused(text)

----------------------------------------------------------------------------
(* What a text says, read the way the game reads it: token by token, with  *)
(* the keys of the blocks that are open and a key that waits for its value *)
(* (or <<>>).                                                              *)

State(open, key, says) == [open |-> open, key |-> key, says |-> says]

Reading(s, t) ==
    IF s.key # <<>> /\ t = "{" THEN State(s.open \o s.key, <<>>, s.says)
    ELSE IF s.key # <<>> THEN State(s.open, <<>>, Append(s.says, <<s.open \o s.key, t>>))
    ELSE IF t = "}" THEN State(SubSeq(s.open, 1, Len(s.open) - 1), <<>>, s.says)
    ELSE State(s.open, <<t>>, s.says)

Reader(text) ==
    LET After[k \in 0..Len(text)] ==
        IF k = 0 THEN State(<<>>, <<>>, <<>>) ELSE Reading(After[k - 1], text[k])
    IN  After

Says(text) == Reader(text)[Len(text)].says

Advertised == <<<<"GameInfo", "GMS", "Advertise">>, "1">>

(* Merge leaves a text that says all it said before, in its order, and     *)
(* exactly once that the room is advertised, or it refuses the text.       *)
Faithful(text) ==
    LET merged == Merge(text)
        now    == Says(merged.text)
    IN
    merged.ok =>
        \E j \in 1..Len(now) :
            /\ now[j] = Advertised
            /\ \A k \in 1..Len(now) \ {j} : now[k][1] # Advertised[1]
            /\ Says(text) = IF merged.changed THEN RemoveAt(now, j) ELSE now

(* What Merge has written it does not write again: it finds its setting,   *)
(* unless the text outgrew a limit of the lexer by it (too many bytes, or  *)
(* a word beyond the last token allowed); then it refuses the text.        *)
Stable(text) ==
    LET merged == Merge(text)
    IN  merged.changed => Merge(merged.text) = IF Fits(merged.text) THEN Kept(merged.text)
                                                                    ELSE Refused(merged.text)
=============================================================================
