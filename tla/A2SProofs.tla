----------------------------- MODULE A2SProofs -----------------------------
(***************************************************************************)
(* Theorems about A2S, for any number of runs of the command, any texts    *)
(* and any number of edits and kills.  The first part is about Merge alone *)
(* and shows that it is faithful to every text: parse and a reader go      *)
(* through the text in the same way (ReadsLists), an insertion before a    *)
(* closing brace changes neither what is read around it (ReadsInserted)    *)
(* nor how it is parsed (ListsMoved, ListsKept, ListsFilled), and so Merge *)
(* adds the one setting (FaithfulText) and finds it again (StableText).    *)
(* Proofs about a list of nodes go by induction over the lists it consists *)
(* of (ListInduction), from the end of the text.  The second part is about *)
(* the runs of the command.                                                *)
(***************************************************************************)
EXTENDS A2S, WellFoundedInduction, SequenceTheorems, TLAPS

----------------------------------------------------------------------------
(* Numbers.                                                                *)

(* Any numbers at all have a least one.                                    *)
LEMMA LeastNumber ==
  ASSUME NEW S \in SUBSET Nat, S # {}
  PROVE  \E x \in S : \A y \in S : x <= y
<1> DEFINE R == OpToRel(<, Nat)
<1>1. IsWellFoundedOn(R, Nat)
  BY NatLessThanWellFounded
<1>2. \A x, y \in Nat : <<y, x>> \in R <=> y < x
  BY DEF OpToRel
<1> HIDE DEF R
<1>3. PICK x \in S : \A y \in S : ~(<<y, x>> \in R)
  BY <1>1, WFMin
<1>4. ASSUME NEW y \in S PROVE x <= y
  <2>1. x \in Nat /\ y \in Nat /\ ~(y < x)
    BY <1>2, <1>3
  <2> QED
    BY <2>1
<1> QED
  BY <1>4

(* Counting up: what holds at 0 and passes from each number to the next.   *)
LEMMA Upward ==
  ASSUME NEW b \in Nat, NEW S, 0 \in S, \A k \in 1..b : k - 1 \in S => k \in S
  PROVE  0..b \subseteq S
<1> DEFINE Bad == {k \in 0..b : k \notin S}
<1>1. SUFFICES ASSUME Bad # {} PROVE FALSE
  OBVIOUS
<1>2. Bad \in SUBSET Nat
  OBVIOUS
<1>3. PICK x \in Bad : \A y \in Bad : x <= y
  BY <1>1, <1>2, LeastNumber
<1>4. x \in 1..b /\ x - 1 \in 0..b /\ ~(x <= x - 1)
  BY <1>3
<1> QED
  BY <1>3, <1>4

(* Counting down: what passes to each place from all the places after it.  *)
LEMMA Downward ==
  ASSUME NEW b \in Nat, NEW S, \A p \in 1..b : (p + 1)..b \subseteq S => p \in S
  PROVE  1..b \subseteq S
<1> DEFINE Bad == {k \in Nat : b - k \in (1..b) \ S}
<1>1. SUFFICES ASSUME NEW p \in 1..b, p \notin S PROVE FALSE
  OBVIOUS
<1>2. b - p \in Bad
  <2>1. b - p \in Nat /\ b - (b - p) = p
    OBVIOUS
  <2> QED
    BY <1>1, <2>1
<1>3. PICK x \in Bad : \A y \in Bad : x <= y
  <2>1. Bad \in SUBSET Nat /\ Bad # {}
    BY <1>2
  <2> HIDE DEF Bad
  <2> QED
    BY <2>1, LeastNumber
<1>4. ASSUME NEW q \in (b - x + 1)..b PROVE q \in S
  <2>1. b - q \in Nat /\ b - (b - q) = q /\ q \in 1..b /\ ~(x <= b - q)
    BY <1>3
  <2> QED
    BY <1>3, <2>1
<1> QED
  BY <1>3, <1>4

----------------------------------------------------------------------------
(* The reader.                                                             *)

(* What a reader keeps, and what it finds.                                 *)
Found  == Seq(Tokens) \X Tokens
States == [open : Seq(Tokens), key : {<<>>} \cup {<<t>> : t \in Tokens}, says : Seq(Found)]

Start == State(<<>>, <<>>, <<>>)

(* The reader's recursion can be unfolded.                                 *)
LEMMA ReaderUnfolds ==
  ASSUME NEW text \in Seq(Tokens)
  PROVE  Reader(text) = [k \in 0..Len(text) |->
           IF k = 0 THEN Start ELSE Reading(Reader(text)[k - 1], text[k])]
<1> DEFINE Upto(f, b) == f = [k \in 0..b |-> IF k = 0 THEN Start ELSE Reading(f[k - 1], text[k])]
           Good == {b \in 0..Len(text) : \E f : Upto(f, b)}
           R == CHOOSE f : Upto(f, Len(text))
<1>1. 0 \in Good
  <2>1. Upto([k \in 0..0 |-> Start], 0)
    OBVIOUS
  <2>2. 0 \in 0..Len(text)
    OBVIOUS
  <2> HIDE DEF Upto
  <2> QED
    BY <2>1, <2>2
<1>2. ASSUME NEW k \in 1..Len(text), k - 1 \in Good PROVE k \in Good
  <2>1. PICK f : Upto(f, k - 1)
    BY <1>2
  <2> DEFINE g == [i \in 0..k |-> IF i < k THEN f[i] ELSE Reading(f[k - 1], text[k])]
  <2>2. ASSUME NEW i \in 0..k PROVE g[i] = IF i = 0 THEN Start ELSE Reading(g[i - 1], text[i])
    <3>1. CASE i < k
      <4>1. i \in 0..(k - 1) /\ g[i] = f[i]
        BY <3>1
      <4>2. f[i] = IF i = 0 THEN Start ELSE Reading(f[i - 1], text[i])
        BY <2>1, <4>1
      <4>3. i # 0 => g[i - 1] = f[i - 1]
        BY <3>1
      <4> HIDE DEF g
      <4> QED
        BY <4>1, <4>2, <4>3
    <3>2. CASE i = k
      <4>1. g[i] = Reading(f[k - 1], text[k]) /\ g[i - 1] = f[k - 1] /\ i # 0
        BY <3>2
      <4> HIDE DEF g
      <4> QED
        BY <3>2, <4>1
    <3> QED
      BY <3>1, <3>2
  <2>3. Upto(g, k)
    BY <2>2
  <2>4. k \in 0..Len(text)
    OBVIOUS
  <2> HIDE DEF Upto, g
  <2> QED
    BY <2>3, <2>4
<1>3. Len(text) \in Good
  <2>1. Len(text) \in Nat
    OBVIOUS
  <2> HIDE DEF Good
  <2>2. 0..Len(text) \subseteq Good
    BY <1>1, <1>2, <2>1, Upward
  <2> QED
    BY <2>1, <2>2
<1>4. Upto(R, Len(text))
  BY <1>3
<1>5. Reader(text) = R
  BY Zenon DEF Reader, Start
<1> QED
  BY <1>4, <1>5

(* Reading a token.                                                        *)
LEMMA ReadingStep ==
  ASSUME NEW s \in States, NEW t \in Tokens
  PROVE  Reading(s, t) \in States
<1>1. s.open \in Seq(Tokens) /\ s.says \in Seq(Found)
  BY DEF States
<1>2. ASSUME s.key # <<>> PROVE s.open \o s.key \in Seq(Tokens)
  <2>1. PICK k \in Tokens : s.key = <<k>>
    BY <1>2 DEF States
  <2>2. <<k>> \in Seq(Tokens)
    OBVIOUS
  <2> QED
    BY <1>1, <2>1, <2>2, ConcatProperties
<1>3. SubSeq(s.open, 1, Len(s.open) - 1) \in Seq(Tokens)
  BY <1>1, SubSeqProperties
<1>4. ASSUME s.key # <<>> PROVE Append(s.says, <<s.open \o s.key, t>>) \in Seq(Found)
  <2>1. <<s.open \o s.key, t>> \in Found
    BY <1>2, <1>4 DEF Found
  <2> QED
    BY <1>1, <2>1, AppendProperties
<1>5. \A o \in Seq(Tokens), k \in {<<>>} \cup {<<x>> : x \in Tokens}, y \in Seq(Found) :
        State(o, k, y) \in States
  BY DEF State, States
<1> QED
  BY <1>1, <1>2, <1>3, <1>4, <1>5 DEF Reading

(* The reader, step by step.                                               *)
LEMMA ReaderSteps ==
  ASSUME NEW text \in Seq(Tokens)
  PROVE  /\ Reader(text)[0] = Start
         /\ \A k \in 1..Len(text) : Reader(text)[k] = Reading(Reader(text)[k - 1], text[k])
         /\ \A k \in 0..Len(text) : Reader(text)[k] \in States
<1> DEFINE R == Reader(text)
           Good == {k \in 0..Len(text) : R[k] \in States}
<1>1. R = [k \in 0..Len(text) |-> IF k = 0 THEN Start ELSE Reading(R[k - 1], text[k])]
  BY ReaderUnfolds
<1> HIDE DEF R
<1>2. R[0] = Start /\ \A k \in 1..Len(text) : R[k] = Reading(R[k - 1], text[k])
  BY <1>1
<1>3. 0 \in Good
  <2>1. Start \in States
    BY DEF Start, State, States
  <2> QED
    BY <1>2, <2>1
<1>4. ASSUME NEW k \in 1..Len(text), k - 1 \in Good PROVE k \in Good
  BY <1>2, <1>4, ReadingStep
<1>5. 0..Len(text) \subseteq Good
  <2>1. Len(text) \in Nat
    OBVIOUS
  <2> HIDE DEF Good
  <2> QED
    BY <1>3, <1>4, <2>1, Upward
<1> QED
  BY <1>2, <1>5 DEF R

----------------------------------------------------------------------------
(* What parse returns at each place (merge.go:94-141).                     *)

Depths == 0..(MaxDepth + 1)
Places(ts) == 1..(Len(ts) + 1)

(* One list, as parse reads it when f is what it returns further on.       *)
ListOf(f, ts, pos, depth) ==
    IF depth > MaxDepth THEN Malformed
    ELSE IF pos > Len(ts)
    THEN IF depth > 0 THEN Malformed ELSE Parsed({}, 0, pos)
    ELSE IF ts[pos] = "}"
    THEN IF depth = 0 THEN Malformed ELSE Parsed({}, pos, pos + 1)
    ELSE IF ts[pos] \in {"{", "#"} \/ pos = Len(ts) \/ ts[pos + 1] = "}" THEN Malformed
    ELSE IF ts[pos + 1] # "{"
    THEN Before(Value(pos, ts[pos], ts[pos + 1]), f[pos + 2][depth])
    ELSE LET inner == f[pos + 2][depth + 1]
         IN  IF ~inner.ok THEN Malformed
             ELSE Before(Block(pos, ts[pos], inner.nodes, inner.close),
                         f[inner.next][depth])

(* A list that is read goes on after where it began.                       *)
Onward(f, ts, pos) ==
    \A q \in pos..(Len(ts) + 1), e \in Depths : f[q][e].ok => f[q][e].next \in q..(Len(ts) + 1)

(* The places and the depths are numbers within the bounds of the text.    *)
LEMMA PlaceTypes ==
  ASSUME NEW ts \in Seq(Tokens)
  PROVE  /\ Len(ts) \in Nat /\ MaxDepth \in Nat /\ MaxDepth >= 2
         /\ \A pos \in Places(ts) : pos \in Nat /\ 1 <= pos /\ pos <= Len(ts) + 1
         /\ \A d \in Depths : d \in Nat /\ d <= MaxDepth + 1
<1>1. MaxDepth \in Nat /\ MaxDepth >= 2
  <2>1. MaxDepth \in Nat /\ MaxDepth # 0 /\ MaxDepth # 1
    BY Zenon, LimitsAssumption
  <2> QED
    BY <2>1
<1>2. Len(ts) \in Nat
  OBVIOUS
<1> QED
  BY <1>1, <1>2 DEF Places, Depths

(* What a list is depends on what follows it, and it goes on after that.   *)
LEMMA ListLooksAhead ==
  ASSUME NEW ts \in Seq(Tokens), NEW f, NEW g, NEW pos \in Places(ts), NEW d \in Depths,
         Onward(f, ts, pos + 1), \A q \in (pos + 1)..(Len(ts) + 1) : g[q] = f[q]
  PROVE  /\ ListOf(g, ts, pos, d) = ListOf(f, ts, pos, d)
         /\ ListOf(f, ts, pos, d).ok => ListOf(f, ts, pos, d).next \in pos..(Len(ts) + 1)
<1>1. Len(ts) \in Nat /\ pos \in Nat /\ MaxDepth \in Nat /\ d \in Nat /\ pos <= Len(ts) + 1
  BY PlaceTypes
<1>2. ASSUME NEW q \in (pos + 1)..(Len(ts) + 1), NEW e \in Depths, NEW n
      PROVE  /\ Before(n, f[q][e]).ok => Before(n, f[q][e]).next \in pos..(Len(ts) + 1)
             /\ g[q][e] = f[q][e]
             /\ f[q][e].ok => f[q][e].next \in (pos + 1)..(Len(ts) + 1)
  <2>1. f[q][e].ok => f[q][e].next \in q..(Len(ts) + 1)
    BY DEF Onward
  <2>2. q..(Len(ts) + 1) \subseteq (pos + 1)..(Len(ts) + 1)
    BY <1>1
  <2>3. (pos + 1)..(Len(ts) + 1) \subseteq pos..(Len(ts) + 1)
    BY <1>1
  <2> QED
    BY <2>1, <2>2, <2>3 DEF Before, Parsed, Malformed
<1>3. CASE d > MaxDepth
  BY <1>3 DEF ListOf, Malformed
<1>4. CASE ~(d > MaxDepth) /\ pos > Len(ts)
  <2>1. pos \in pos..(Len(ts) + 1)
    BY <1>1
  <2>2. ListOf(g, ts, pos, d) = ListOf(f, ts, pos, d) /\ ListOf(f, ts, pos, d) \in {Malformed, Parsed({}, 0, pos)}
    BY <1>4 DEF ListOf
  <2> QED
    BY <2>1, <2>2 DEF Malformed, Parsed
<1>5. CASE ~(d > MaxDepth) /\ ~(pos > Len(ts)) /\ ts[pos] = "}"
  <2>1. pos + 1 \in pos..(Len(ts) + 1)
    <3>1. ~(pos > Len(ts))
      BY <1>5
    <3> QED
      BY <1>1, <3>1
  <2>2. ListOf(g, ts, pos, d) = ListOf(f, ts, pos, d) /\ ListOf(f, ts, pos, d) \in {Malformed, Parsed({}, pos, pos + 1)}
    BY <1>5 DEF ListOf
  <2> QED
    BY <2>1, <2>2 DEF Malformed, Parsed
<1>6. CASE /\ ~(d > MaxDepth) /\ ~(pos > Len(ts)) /\ ts[pos] # "}"
           /\ ts[pos] \in {"{", "#"} \/ pos = Len(ts) \/ ts[pos + 1] = "}"
  BY <1>6 DEF ListOf, Malformed
<1>7. CASE /\ ~(d > MaxDepth) /\ ~(pos > Len(ts)) /\ ts[pos] # "}"
           /\ ~(ts[pos] \in {"{", "#"} \/ pos = Len(ts) \/ ts[pos + 1] = "}")
  <2>1. pos + 2 \in (pos + 1)..(Len(ts) + 1) /\ d + 1 \in Depths
    <3>1. ~(d > MaxDepth) /\ ~(pos > Len(ts)) /\ pos # Len(ts)
      BY <1>7
    <3> QED
      BY <1>1, <3>1 DEF Depths
  <2>2. CASE ts[pos + 1] # "{"
    <3>1. /\ ListOf(f, ts, pos, d) = Before(Value(pos, ts[pos], ts[pos + 1]), f[pos + 2][d])
          /\ ListOf(g, ts, pos, d) = Before(Value(pos, ts[pos], ts[pos + 1]), g[pos + 2][d])
      BY <1>7, <2>2 DEF ListOf
    <3> QED
      BY <1>2, <2>1, <3>1
  <2>3. CASE ts[pos + 1] = "{"
    <3> DEFINE inner == f[pos + 2][d + 1]
    <3>1. /\ ListOf(f, ts, pos, d) = IF ~inner.ok THEN Malformed
               ELSE Before(Block(pos, ts[pos], inner.nodes, inner.close), f[inner.next][d])
          /\ g[pos + 2][d + 1] = inner =>
             ListOf(g, ts, pos, d) = IF ~inner.ok THEN Malformed
               ELSE Before(Block(pos, ts[pos], inner.nodes, inner.close), g[inner.next][d])
      BY <1>7, <2>3 DEF ListOf
    <3>2. g[pos + 2][d + 1] = inner /\ (inner.ok => inner.next \in (pos + 1)..(Len(ts) + 1))
      BY <1>2, <2>1
    <3> HIDE DEF inner
    <3>3. CASE inner.ok
      <4> DEFINE node == Block(pos, ts[pos], inner.nodes, inner.close)
      <4>1. /\ ListOf(f, ts, pos, d) = Before(node, f[inner.next][d])
            /\ ListOf(g, ts, pos, d) = Before(node, g[inner.next][d])
        BY <3>1, <3>2, <3>3
      <4> DEFINE q == inner.next
      <4>2. q \in (pos + 1)..(Len(ts) + 1)
        BY <3>2, <3>3
      <4> HIDE DEF node, q
      <4>3. /\ g[q][d] = f[q][d]
            /\ Before(node, f[q][d]).ok => Before(node, f[q][d]).next \in pos..(Len(ts) + 1)
        BY <1>2, <4>2
      <4>4. ListOf(f, ts, pos, d) = Before(node, f[q][d]) /\ ListOf(g, ts, pos, d) = Before(node, g[q][d])
        BY <4>1 DEF q
      <4> QED
        BY <4>3, <4>4
    <3>4. CASE ~inner.ok
      BY <3>1, <3>2, <3>4 DEF Malformed
    <3> QED
      BY <3>3, <3>4
  <2> QED
    BY <2>2, <2>3
<1> QED
  BY <1>3, <1>4, <1>5, <1>6, <1>7

(* The parser's recursion can be unfolded, and it goes on and on.          *)
LEMMA ParseUnfolds ==
  ASSUME NEW ts \in Seq(Tokens)
  PROVE  /\ \A pos \in Places(ts), d \in Depths :
              Parse(ts)[pos][d] = ListOf(Parse(ts), ts, pos, d)
         /\ Onward(Parse(ts), ts, 1)
<1> DEFINE Upto(f, k) == f = [pos \in k..(Len(ts) + 1) |->
                                [depth \in Depths |-> ListOf(f, ts, pos, depth)]]
           Good == {k \in Places(ts) : \E f : Upto(f, k) /\ Onward(f, ts, k)}
           N == CHOOSE f : Upto(f, 1)
<1>1. Len(ts) + 1 \in Nat
  OBVIOUS
<1>2. ASSUME NEW p \in Places(ts), (p + 1)..(Len(ts) + 1) \subseteq Good
      PROVE  p \in Good
  <2>1. PICK f : Upto(f, p + 1) /\ Onward(f, ts, p + 1)
    <3>1. CASE p = Len(ts) + 1
      <4>1. (p + 1)..(Len(ts) + 1) = {}
        BY <1>1, <3>1
      <4>2. Upto([q \in {} |-> 0], p + 1)
        BY <4>1
      <4>3. Onward([q \in {} |-> 0], ts, p + 1)
        BY <4>1 DEF Onward
      <4> HIDE DEF Upto
      <4> QED
        BY <4>2, <4>3
    <3>2. CASE p # Len(ts) + 1
      <4>1. p + 1 \in (p + 1)..(Len(ts) + 1)
        BY <1>1, <3>2 DEF Places
      <4>2. p + 1 \in Good
        BY <1>2, <4>1
      <4> HIDE DEF Upto
      <4> QED
        BY <4>2
    <3> QED
      BY <3>1, <3>2
  <2> DEFINE g == [pos \in p..(Len(ts) + 1) |->
                     IF pos = p THEN [depth \in Depths |-> ListOf(f, ts, p, depth)] ELSE f[pos]]
  <2>2. p \in Nat /\ p..(Len(ts) + 1) = {p} \cup (p + 1)..(Len(ts) + 1) /\ p \notin (p + 1)..(Len(ts) + 1)
    BY <1>1 DEF Places
  <2>3. \A pos \in (p + 1)..(Len(ts) + 1) : g[pos] = f[pos]
    BY <2>2
  <2>4. ASSUME NEW pos \in p..(Len(ts) + 1), NEW d \in Depths
        PROVE  /\ ListOf(g, ts, pos, d) = ListOf(f, ts, pos, d)
               /\ ListOf(f, ts, pos, d).ok => ListOf(f, ts, pos, d).next \in pos..(Len(ts) + 1)
    <3>1. pos \in Places(ts) /\ (pos + 1)..(Len(ts) + 1) \subseteq (p + 1)..(Len(ts) + 1)
      BY <1>1, <2>2 DEF Places
    <3>2. Onward(f, ts, pos + 1)
      BY <2>1, <3>1 DEF Onward
    <3>3. \A q \in (pos + 1)..(Len(ts) + 1) : g[q] = f[q]
      BY <2>3, <3>1
    <3> HIDE DEF g
    <3> QED
      BY <3>1, <3>2, <3>3, ListLooksAhead
  <2>5. ASSUME NEW pos \in p..(Len(ts) + 1)
        PROVE  g[pos] = [depth \in Depths |-> ListOf(f, ts, pos, depth)]
    <3>1. CASE pos = p
      BY <3>1
    <3>2. CASE pos # p
      <4>1. pos \in (p + 1)..(Len(ts) + 1)
        BY <2>2, <3>2
      <4> HIDE DEF g
      <4> QED
        BY <2>1, <2>3, <4>1
    <3> QED
      BY <3>1, <3>2
  <2>6. Onward(g, ts, p)
    <3> HIDE DEF g
    <3> QED
      BY <2>4, <2>5 DEF Onward
  <2>7. Upto(g, p)
    <3>1. g = [pos \in p..(Len(ts) + 1) |-> g[pos]]
      OBVIOUS
    <3>2. \A pos \in p..(Len(ts) + 1) : g[pos] = [depth \in Depths |-> ListOf(g, ts, pos, depth)]
      <4> HIDE DEF g
      <4> QED
        BY <2>4, <2>5
    <3> HIDE DEF g
    <3> QED
      BY <3>1, <3>2
  <2> HIDE DEF Upto, g
  <2> QED
    BY <2>6, <2>7
<1>3. 1 \in Good
  <2> HIDE DEF Good
  <2>1. 1..(Len(ts) + 1) \subseteq Good
    BY <1>1, <1>2, Downward DEF Places
  <2> QED
    BY <1>1, <2>1
<1>4. Upto(N, 1)
  <2> HIDE DEF Upto
  <2> QED
    BY <1>3
<1>5. Parse(ts) = N
  BY Zenon DEF Parse, ListOf, Depths
<1>6. \A pos \in Places(ts), d \in Depths : N[pos][d] = ListOf(N, ts, pos, d)
  <2> HIDE DEF N
  <2> QED
    BY <1>4 DEF Places
<1>7. Onward(N, ts, 1)
  <2> SUFFICES Onward(N, ts, 1)
    OBVIOUS
  <2> DEFINE Fine == {p \in Places(ts) : Onward(N, ts, p)}
  <2>1. ASSUME NEW p \in Places(ts), (p + 1)..(Len(ts) + 1) \subseteq Fine
        PROVE  p \in Fine
    <3>1. p \in Nat /\ p..(Len(ts) + 1) = {p} \cup (p + 1)..(Len(ts) + 1)
      BY <1>1 DEF Places
    <3>2. Onward(N, ts, p + 1)
      <4>1. CASE p + 1 \in (p + 1)..(Len(ts) + 1)
        BY <2>1, <4>1
      <4>2. CASE p + 1 \notin (p + 1)..(Len(ts) + 1)
        <5>1. (p + 1)..(Len(ts) + 1) = {}
          BY <1>1, <3>1, <4>2
        <5> QED
          BY <5>1 DEF Onward
      <4> QED
        BY <4>1, <4>2
    <3> HIDE DEF N
    <3>3. ASSUME NEW d \in Depths
          PROVE  N[p][d].ok => N[p][d].next \in p..(Len(ts) + 1)
      BY <1>6, <3>2, ListLooksAhead
    <3>4. Onward(N, ts, p)
      BY <3>1, <3>2, <3>3 DEF Onward
    <3> QED
      BY <3>4
  <2> HIDE DEF Fine, N
  <2>2. 1..(Len(ts) + 1) \subseteq Fine
    BY <1>1, <2>1, Downward DEF Places
  <2>3. 1 \in Fine
    BY <1>1, <2>2
  <2> QED
    BY <2>3 DEF Fine
<1> HIDE DEF N
<1> QED
  BY <1>5, <1>6, <1>7

(* What a list may begin with: the end of the text, its closing brace, a   *)
(* value, or a block.                                                      *)
Key(ts, pos) == pos < Len(ts) /\ ts[pos] \notin {"}", "{", "#"}

IsEnd(ts, pos, d)   == d = 0 /\ pos = Len(ts) + 1
IsClose(ts, pos, d) == d > 0 /\ pos <= Len(ts) /\ ts[pos] = "}"
IsValue(ts, pos, d) == Key(ts, pos) /\ ts[pos + 1] \notin {"}", "{"} /\ Parse(ts)[pos + 2][d].ok
IsBlock(ts, pos, d) ==
    LET inner == Parse(ts)[pos + 2][d + 1]
    IN  Key(ts, pos) /\ ts[pos + 1] = "{" /\ inner.ok /\ Parse(ts)[inner.next][d].ok

(* The node that begins at a place.                                        *)
ValueAt(ts, at) == Value(at, ts[at], ts[at + 1])
BlockAt(ts, at, d) ==
    Block(at, ts[at], Parse(ts)[at + 2][d + 1].nodes, Parse(ts)[at + 2][d + 1].close)

(* A node before a list that is well formed makes one.                     *)
LEMMA BeforeForm ==
  ASSUME NEW node, NEW rest
  PROVE  /\ rest.ok => Before(node, rest) = Parsed({node} \cup rest.nodes, rest.close, rest.next)
         /\ Before(node, rest).ok => rest.ok
  BY DEF Before, Malformed

(* A list is well formed in four ways.                                     *)
LEMMA Lists ==
  ASSUME NEW ts \in Seq(Tokens), NEW pos \in Places(ts), NEW d \in 0..MaxDepth
  PROVE  LET N == Parse(ts) IN
         /\ N[pos][d].ok => \/ IsEnd(ts, pos, d) \/ IsClose(ts, pos, d)
                            \/ IsValue(ts, pos, d) \/ IsBlock(ts, pos, d)
         /\ IsEnd(ts, pos, d) => N[pos][d] = Parsed({}, 0, pos)
         /\ IsClose(ts, pos, d) => N[pos][d] = Parsed({}, pos, pos + 1)
         /\ IsValue(ts, pos, d) =>
              LET rest == N[pos + 2][d]
              IN  N[pos][d] = Parsed({ValueAt(ts, pos)} \cup rest.nodes, rest.close, rest.next)
         /\ IsBlock(ts, pos, d) =>
              LET rest == N[N[pos + 2][d + 1].next][d]
              IN  N[pos][d] = Parsed({BlockAt(ts, pos, d)} \cup rest.nodes, rest.close, rest.next)
<1> DEFINE N == Parse(ts)
           inner == N[pos + 2][d + 1]
<1>1. Len(ts) \in Nat /\ pos \in Nat /\ pos <= Len(ts) + 1 /\ MaxDepth \in Nat
  BY PlaceTypes
<1>2. d \in Depths /\ d \in Nat /\ ~(d > MaxDepth)
  BY <1>1 DEF Depths
<1>3. N[pos][d] = ListOf(N, ts, pos, d)
  BY <1>2, ParseUnfolds
<1> HIDE DEF N
<1>4. CASE pos > Len(ts)
  <2>1. N[pos][d] = IF d > 0 THEN Malformed ELSE Parsed({}, 0, pos)
    BY <1>2, <1>3, <1>4 DEF ListOf
  <2>2. pos = Len(ts) + 1 /\ ~(pos < Len(ts)) /\ ~(pos <= Len(ts)) /\ (~(d > 0) <=> d = 0)
    BY <1>1, <1>2, <1>4
  <2>3. ~IsClose(ts, pos, d) /\ ~IsValue(ts, pos, d) /\ ~IsBlock(ts, pos, d)
    BY <2>2 DEF IsClose, IsValue, IsBlock, Key
  <2>4. IsEnd(ts, pos, d) <=> ~(d > 0)
    BY <2>2 DEF IsEnd
  <2>5. d > 0 => ~N[pos][d].ok
    BY <2>1 DEF Malformed
  <2> QED
    BY <2>1, <2>3, <2>4, <2>5 DEF N
<1>5. CASE ~(pos > Len(ts)) /\ ts[pos] = "}"
  <2>1. N[pos][d] = IF d = 0 THEN Malformed ELSE Parsed({}, pos, pos + 1)
    BY <1>2, <1>3, <1>5 DEF ListOf
  <2>2. pos # Len(ts) + 1 /\ pos <= Len(ts) /\ (d > 0 <=> d # 0)
    <3>1. ~(pos > Len(ts))
      BY <1>5
    <3> QED
      BY <1>1, <1>2, <3>1
  <2>3. ~IsEnd(ts, pos, d) /\ ~IsValue(ts, pos, d) /\ ~IsBlock(ts, pos, d)
    BY <1>5, <2>2 DEF IsEnd, IsValue, IsBlock, Key
  <2>4. IsClose(ts, pos, d) <=> d # 0
    BY <1>5, <2>2 DEF IsClose
  <2>5. d = 0 => ~N[pos][d].ok
    BY <2>1 DEF Malformed
  <2> QED
    BY <2>1, <2>3, <2>4, <2>5 DEF N
<1>6. CASE ~(pos > Len(ts)) /\ ts[pos] # "}"
  <2>1. pos # Len(ts) + 1 /\ (pos < Len(ts) <=> pos # Len(ts))
    <3>1. ~(pos > Len(ts))
      BY <1>6
    <3> QED
      BY <1>1, <3>1
  <2>2. ~IsEnd(ts, pos, d) /\ ~IsClose(ts, pos, d)
    BY <1>6, <2>1 DEF IsEnd, IsClose
  <2>3. CASE ts[pos] \in {"{", "#"} \/ pos = Len(ts) \/ ts[pos + 1] = "}"
    <3>1. N[pos][d] = Malformed
      BY <1>2, <1>3, <1>6, <2>3 DEF ListOf
    <3>2. ~IsValue(ts, pos, d)
      BY <2>1, <2>3 DEF IsValue, Key
    <3>3. ~IsBlock(ts, pos, d)
      BY <2>1, <2>3 DEF IsBlock, Key
    <3>4. ~N[pos][d].ok
      BY <3>1 DEF Malformed
    <3> QED
      BY <2>2, <3>2, <3>3, <3>4 DEF N
  <2>4. CASE ~(ts[pos] \in {"{", "#"} \/ pos = Len(ts) \/ ts[pos + 1] = "}") /\ ts[pos + 1] # "{"
    <3>1. N[pos][d] = Before(ValueAt(ts, pos), N[pos + 2][d])
      BY <1>2, <1>3, <1>6, <2>4 DEF ListOf, ValueAt
    <3>2. IsValue(ts, pos, d) <=> N[pos + 2][d].ok
      BY <1>6, <2>1, <2>4 DEF IsValue, Key, N
    <3>3. ~IsBlock(ts, pos, d)
      BY <2>4 DEF IsBlock
    <3> QED
      BY <2>2, <3>1, <3>2, <3>3, BeforeForm DEF N
  <2>5. CASE ~(ts[pos] \in {"{", "#"} \/ pos = Len(ts) \/ ts[pos + 1] = "}") /\ ts[pos + 1] = "{"
    <3>1. N[pos][d] = IF ~inner.ok THEN Malformed
                      ELSE Before(Block(pos, ts[pos], inner.nodes, inner.close), N[inner.next][d])
      BY <1>2, <1>3, <1>6, <2>5 DEF ListOf
    <3>2. IsBlock(ts, pos, d) <=> inner.ok /\ N[inner.next][d].ok
      BY <1>6, <2>1, <2>5 DEF IsBlock, Key, N
    <3>3. ~IsValue(ts, pos, d)
      BY <2>5 DEF IsValue
    <3>4. Block(pos, ts[pos], inner.nodes, inner.close) = BlockAt(ts, pos, d)
      BY DEF BlockAt, N
    <3> HIDE DEF inner
    <3>5. N[pos][d].ok => inner.ok /\ N[inner.next][d].ok
      <4>1. CASE inner.ok
        BY <3>1, <4>1, BeforeForm
      <4>2. CASE ~inner.ok
        BY <3>1, <4>2 DEF Malformed
      <4> QED
        BY <4>1, <4>2
    <3>6. inner.ok /\ N[inner.next][d].ok =>
            N[pos][d] = Parsed({BlockAt(ts, pos, d)} \cup N[inner.next][d].nodes,
                               N[inner.next][d].close, N[inner.next][d].next)
      BY <3>1, <3>4, BeforeForm
    <3> QED
      BY <2>2, <3>2, <3>3, <3>5, <3>6 DEF N, inner
  <2> QED
    BY <2>3, <2>4, <2>5
<1> QED
  BY <1>4, <1>5, <1>6

(* No list is too deep, and a place that goes on has another after it.     *)
LEMMA ListBounds ==
  ASSUME NEW ts \in Seq(Tokens), NEW pos \in Places(ts)
  PROVE  /\ \A d \in Depths : Parse(ts)[pos][d].ok =>
              d \in 0..MaxDepth /\ Parse(ts)[pos][d].next \in pos..(Len(ts) + 1)
         /\ Key(ts, pos) => pos + 2 \in Places(ts) /\ pos + 2 \in (pos + 1)..(Len(ts) + 1)
         /\ \A d \in 0..MaxDepth : d \in Depths /\ d + 1 \in Depths /\ d + 1 # 0 /\ d + 1 > 0
         /\ \A d \in 0..MaxDepth : IsBlock(ts, pos, d) =>
              /\ d + 1 \in 0..MaxDepth
              /\ Parse(ts)[pos + 2][d + 1].next \in (pos + 2)..(Len(ts) + 1)
              /\ Parse(ts)[pos + 2][d + 1].next \in Places(ts)
              /\ Parse(ts)[pos + 2][d + 1].next \in (pos + 1)..(Len(ts) + 1)
<1>1. Len(ts) \in Nat /\ pos \in Nat /\ 1 <= pos /\ pos <= Len(ts) + 1 /\ MaxDepth \in Nat
  BY PlaceTypes
<1>2. ASSUME NEW q \in Places(ts), NEW d \in Depths, Parse(ts)[q][d].ok
      PROVE  d \in 0..MaxDepth /\ Parse(ts)[q][d].next \in q..(Len(ts) + 1)
  <2>1. d > MaxDepth => Parse(ts)[q][d] = Malformed
    BY ParseUnfolds DEF ListOf
  <2>2. ~(d > MaxDepth)
    BY <1>2, <2>1 DEF Malformed
  <2>3. d \in 0..MaxDepth
    BY <1>1, <2>2 DEF Depths
  <2>4. q \in 1..(Len(ts) + 1)
    BY DEF Places
  <2> QED
    BY <1>2, <2>3, <2>4, ParseUnfolds DEF Onward
<1>3. Key(ts, pos) => pos + 2 \in Places(ts) /\ pos + 2 \in (pos + 1)..(Len(ts) + 1)
  <2>1. Key(ts, pos) => pos < Len(ts)
    BY DEF Key
  <2> QED
    BY <1>1, <2>1 DEF Places
<1>4. \A d \in 0..MaxDepth : d \in Depths /\ d + 1 \in Depths /\ d + 1 # 0 /\ d + 1 > 0
  BY <1>1 DEF Depths
<1>5. ASSUME NEW d \in 0..MaxDepth, IsBlock(ts, pos, d)
      PROVE  /\ d + 1 \in 0..MaxDepth
             /\ Parse(ts)[pos + 2][d + 1].next \in (pos + 2)..(Len(ts) + 1)
  BY <1>2, <1>3, <1>4, <1>5 DEF IsBlock
<1>6. \A n \in (pos + 2)..(Len(ts) + 1) : n \in Places(ts) /\ n \in (pos + 1)..(Len(ts) + 1)
  BY <1>1 DEF Places
<1> QED
  BY <1>2, <1>3, <1>4, <1>5, <1>6

(* The lists that the one at a place consists of are in S.                 *)
Passes(ts, S, pos, d) ==
    /\ IsValue(ts, pos, d) => <<pos + 2, d>> \in S
    /\ IsBlock(ts, pos, d) => /\ <<pos + 2, d + 1>> \in S
                              /\ <<Parse(ts)[pos + 2][d + 1].next, d>> \in S

(* What passes from the parts of every list to the list holds of all.      *)
LEMMA ListInduction ==
  ASSUME NEW ts \in Seq(Tokens), NEW S,
         \A pos \in Places(ts), d \in 0..MaxDepth :
           Parse(ts)[pos][d].ok /\ Passes(ts, S, pos, d) => <<pos, d>> \in S
  PROVE  \A pos \in Places(ts), d \in 0..MaxDepth :
           Parse(ts)[pos][d].ok => <<pos, d>> \in S
<1> DEFINE Good == {p \in Places(ts) : \A d \in 0..MaxDepth : Parse(ts)[p][d].ok => <<p, d>> \in S}
<1>1. ASSUME NEW p \in Places(ts), (p + 1)..(Len(ts) + 1) \subseteq Good
      PROVE  p \in Good
  <2>1. ASSUME NEW d \in 0..MaxDepth, Parse(ts)[p][d].ok PROVE <<p, d>> \in S
    <3>1. IsValue(ts, p, d) => <<p + 2, d>> \in S
      <4>1. IsValue(ts, p, d) => Key(ts, p) /\ Parse(ts)[p + 2][d].ok
        BY DEF IsValue
      <4> QED
        BY <1>1, <4>1, ListBounds
    <3>2. ASSUME IsBlock(ts, p, d)
          PROVE  <<p + 2, d + 1>> \in S /\ <<Parse(ts)[p + 2][d + 1].next, d>> \in S
      <4> DEFINE next == Parse(ts)[p + 2][d + 1].next
      <4>1. Key(ts, p) /\ Parse(ts)[p + 2][d + 1].ok /\ Parse(ts)[next][d].ok
        BY <3>2 DEF IsBlock
      <4>2. d + 1 \in 0..MaxDepth /\ p + 2 \in (p + 1)..(Len(ts) + 1) /\ next \in (p + 1)..(Len(ts) + 1)
        BY <3>2, <4>1, ListBounds
      <4> HIDE DEF next
      <4>3. p + 2 \in Good /\ next \in Good
        BY <1>1, <4>2
      <4> QED
        BY <4>1, <4>2, <4>3 DEF next
    <3> QED
      BY <2>1, <3>1, <3>2 DEF Passes
  <2> QED
    BY <2>1
<1>2. Len(ts) + 1 \in Nat
  OBVIOUS
<1> HIDE DEF Good
<1>3. Places(ts) \subseteq Good
  BY <1>1, <1>2, Downward DEF Places
<1> QED
  BY <1>3 DEF Good

(* A list ends at its brace, the outermost one with the text.              *)
EndsWell(ts, pos, d) ==
    LET list == Parse(ts)[pos][d]
    IN  IF d = 0 THEN list.next = Len(ts) + 1 /\ list.close = 0
        ELSE list.close \in pos..Len(ts) /\ ts[list.close] = "}" /\ list.next = list.close + 1

(* A node lies in its list, and from it on is a list that ends as that one.*)
Within(ts, pos, d, m) ==
    LET list == Parse(ts)[pos][d]
        rest == Parse(ts)[m.at][d]
    IN  /\ m.at \in Places(ts) /\ pos <= m.at
        /\ rest.ok /\ rest.next = list.next /\ rest.close = list.close
        /\ \/ IsValue(ts, m.at, d) /\ m = ValueAt(ts, m.at)
           \/ IsBlock(ts, m.at, d) /\ m = BlockAt(ts, m.at, d)

Shaped(ts, pos, d) ==
    EndsWell(ts, pos, d) /\ \A m \in Parse(ts)[pos][d].nodes : Within(ts, pos, d, m)

(* Every list that parse returns (merge.go:94-141) has this shape: it ends *)
(* where it says, and its nodes lie in it.                                 *)
LEMMA Shape ==
  ASSUME NEW ts \in Seq(Tokens)
  PROVE  \A pos \in Places(ts), d \in 0..MaxDepth : Parse(ts)[pos][d].ok => Shaped(ts, pos, d)
<1> DEFINE S == {l \in Places(ts) \X (0..MaxDepth) : Shaped(ts, l[1], l[2])}
           N == Parse(ts)
<1>1. ASSUME NEW pos \in Places(ts), NEW d \in 0..MaxDepth, N[pos][d].ok, Passes(ts, S, pos, d)
      PROVE  Shaped(ts, pos, d)
  <2>1. /\ Len(ts) \in Nat /\ pos \in Nat /\ pos <= Len(ts) + 1 /\ d \in Nat
        /\ \A q \in Places(ts) : q \in Nat
    BY PlaceTypes, ListBounds DEF Depths
  <2>2. ASSUME NEW next \in Places(ts), pos <= next, Shaped(ts, next, d), NEW node,
               N[pos][d] = Parsed({node} \cup N[next][d].nodes, N[next][d].close, N[next][d].next),
               node.at = pos,
               \/ IsValue(ts, pos, d) /\ node = ValueAt(ts, pos)
               \/ IsBlock(ts, pos, d) /\ node = BlockAt(ts, pos, d)
        PROVE  Shaped(ts, pos, d)
    <3>1. /\ N[pos][d].nodes = {node} \cup N[next][d].nodes
          /\ N[pos][d].close = N[next][d].close /\ N[pos][d].next = N[next][d].next
      BY <2>2 DEF Parsed
    <3>2. EndsWell(ts, pos, d)
      <4>1. EndsWell(ts, next, d)
        BY <2>2 DEF Shaped
      <4>2. next \in Nat /\ pos <= next
        BY <2>1, <2>2
      <4>3. \A c \in next..Len(ts) : c \in pos..Len(ts)
        BY <2>1, <4>2
      <4> QED
        BY <3>1, <4>1, <4>3 DEF EndsWell
    <3>3. Within(ts, pos, d, node)
      BY <1>1, <2>1, <2>2, <3>1 DEF Within
    <3>4. ASSUME NEW m \in N[next][d].nodes PROVE Within(ts, pos, d, m)
      <4>1. Within(ts, next, d, m)
        BY <2>2 DEF Shaped
      <4>2. m.at \in Places(ts) /\ next <= m.at => pos <= m.at
        <5>1. next \in Nat /\ pos <= next /\ \A q \in Places(ts) : q \in Nat
          BY <2>1, <2>2
        <5>2. \A q \in Nat : next <= q => pos <= q
          BY <2>1, <5>1
        <5> QED
          BY <5>1, <5>2
      <4> QED
        BY <3>1, <4>1, <4>2 DEF Within
    <3> QED
      BY <3>1, <3>2, <3>3, <3>4 DEF Shaped
  <2>3. CASE IsEnd(ts, pos, d)
    <3>1. N[pos][d] = Parsed({}, 0, pos)
      BY <2>3, Lists
    <3> QED
      BY <2>3, <3>1 DEF IsEnd, Shaped, EndsWell, Parsed
  <2>4. CASE IsClose(ts, pos, d)
    <3>1. N[pos][d] = Parsed({}, pos, pos + 1)
      BY <2>4, Lists
    <3>2. d > 0 /\ pos <= Len(ts)
      BY <2>4 DEF IsClose
    <3>3. d # 0 /\ pos \in pos..Len(ts)
      BY <2>1, <3>2
    <3>4. ts[pos] = "}"
      BY <2>4 DEF IsClose
    <3>5. N[pos][d].nodes = {} /\ N[pos][d].close = pos /\ N[pos][d].next = pos + 1
      BY <3>1 DEF Parsed
    <3>6. EndsWell(ts, pos, d)
      BY <3>3, <3>4, <3>5 DEF EndsWell
    <3> QED
      BY <3>5, <3>6 DEF Shaped
  <2>5. CASE IsValue(ts, pos, d)
    <3>1. pos + 2 \in Places(ts) /\ pos <= pos + 2
      <4>1. Key(ts, pos)
        BY <2>5 DEF IsValue
      <4>2. pos <= pos + 2
        BY <2>1
      <4> QED
        BY <4>1, <4>2, ListBounds
    <3>2. Shaped(ts, pos + 2, d)
      BY <1>1, <2>5 DEF Passes
    <3>3. ValueAt(ts, pos).at = pos
      BY DEF ValueAt, Value
    <3> QED
      BY <2>2, <2>5, <3>1, <3>2, <3>3, Lists
  <2>6. CASE IsBlock(ts, pos, d)
    <3> DEFINE next == N[pos + 2][d + 1].next
    <3>1. next \in Places(ts) /\ pos <= next
      <4>1. next \in Places(ts) /\ next \in (pos + 1)..(Len(ts) + 1)
        BY <2>6, ListBounds
      <4> HIDE DEF next
      <4> QED
        BY <2>1, <4>1
    <3>2. Shaped(ts, next, d)
      BY <1>1, <2>6 DEF Passes
    <3>3. BlockAt(ts, pos, d).at = pos
      BY DEF BlockAt, Block
    <3>4. N[pos][d] = Parsed({BlockAt(ts, pos, d)} \cup N[next][d].nodes, N[next][d].close, N[next][d].next)
      BY <2>6, Lists
    <3> HIDE DEF next
    <3> QED
      BY <2>2, <2>6, <3>1, <3>2, <3>3, <3>4
  <2> QED
    BY <1>1, <2>3, <2>4, <2>5, <2>6, Lists
<1>2. \A pos \in Places(ts), d \in 0..MaxDepth :
        N[pos][d].ok /\ Passes(ts, S, pos, d) => <<pos, d>> \in S
  BY <1>1
<1> HIDE DEF S
<1>3. \A pos \in Places(ts), d \in 0..MaxDepth : N[pos][d].ok => <<pos, d>> \in S
  BY <1>2, ListInduction
<1> QED
  BY <1>3 DEF S

(* How much a reader has found after k tokens.                             *)
Told(ts, k) == Len(Reader(ts)[k].says)

(* A reader keeps what it has found.                                       *)
LEMMA ReaderGrows ==
  ASSUME NEW ts \in Seq(Tokens), NEW i \in 0..Len(ts), NEW k \in 0..Len(ts), i <= k
  PROVE  /\ Told(ts, i) \in Nat /\ Told(ts, k) \in Nat /\ Told(ts, i) <= Told(ts, k)
         /\ \A j \in 1..Told(ts, i) : Reader(ts)[k].says[j] = Reader(ts)[i].says[j]
<1> DEFINE R == Reader(ts)
           Keeps(n) == /\ Told(ts, i) <= Told(ts, n)
                       /\ \A j \in 1..Told(ts, i) : R[n].says[j] = R[i].says[j]
           Good == {n \in 0..Len(ts) : i <= n => Keeps(n)}
<1>1. Len(ts) \in Nat /\ i \in Nat /\ i <= Len(ts)
  OBVIOUS
<1>2. \A n \in 0..Len(ts) : R[n] \in States /\ R[n].says \in Seq(Found) /\ Told(ts, n) \in Nat
  <2>1. \A n \in 0..Len(ts) : R[n] \in States
    BY ReaderSteps
  <2> HIDE DEF R
  <2>2. \A n \in 0..Len(ts) : R[n].says \in Seq(Found)
    BY <2>1 DEF States
  <2>3. \A n \in 0..Len(ts) : Len(R[n].says) \in Nat
    BY <2>2, LenProperties
  <2> QED
    BY <2>1, <2>2, <2>3 DEF Told, R
<1>3. Keeps(i)
  BY <1>2
<1>4. ASSUME NEW n \in 1..Len(ts), Keeps(n - 1) PROVE Keeps(n)
  <2>1. R[n] = Reading(R[n - 1], ts[n])
    BY ReaderSteps
  <2>2. n - 1 \in 0..Len(ts) /\ n \in 0..Len(ts)
    BY <1>1
  <2>3. R[n].says = R[n - 1].says \/ \E e : R[n].says = Append(R[n - 1].says, e)
    <3>1. ASSUME NEW s, NEW t
          PROVE  Reading(s, t).says = s.says \/ Reading(s, t).says = Append(s.says, <<s.open \o s.key, t>>)
      <4>1. CASE s.key # <<>> /\ t = "{"
        <5>1. Reading(s, t) = State(s.open \o s.key, <<>>, s.says)
          BY <4>1 DEF Reading
        <5> QED
          BY <5>1 DEF State
      <4>2. CASE s.key # <<>> /\ t # "{"
        <5> DEFINE more == Append(s.says, <<s.open \o s.key, t>>)
        <5>1. Reading(s, t) = State(s.open, <<>>, more)
          BY <4>2 DEF Reading
        <5> HIDE DEF more
        <5>2. Reading(s, t).says = more
          BY <5>1 DEF State
        <5> QED
          BY <5>2 DEF more
      <4>3. CASE s.key = <<>> /\ t = "}"
        <5>1. Reading(s, t) = State(SubSeq(s.open, 1, Len(s.open) - 1), <<>>, s.says)
          BY <4>3 DEF Reading
        <5> QED
          BY <5>1 DEF State
      <4>4. CASE s.key = <<>> /\ t # "}"
        <5>1. Reading(s, t) = State(s.open, <<t>>, s.says)
          BY <4>4 DEF Reading
        <5> QED
          BY <5>1 DEF State
      <4> QED
        BY <4>1, <4>2, <4>3, <4>4
    <3> HIDE DEF R
    <3>2. \/ R[n].says = R[n - 1].says
          \/ R[n].says = Append(R[n - 1].says, <<R[n - 1].open \o R[n - 1].key, ts[n]>>)
      BY <2>1, <3>1
    <3> QED
      BY <3>2
  <2>4. CASE R[n].says = R[n - 1].says
    BY <1>4, <2>4 DEF Told
  <2>5. CASE \E e : R[n].says = Append(R[n - 1].says, e)
    <3>1. PICK e : R[n].says = Append(R[n - 1].says, e)
      BY <2>5
    <3>2. R[n - 1].says \in Seq(Found) /\ R[n].says \in Seq(Found)
      BY <1>2, <2>2
    <3> HIDE DEF R
    <3>3. /\ Len(R[n].says) = Len(R[n - 1].says) + 1
          /\ \A j \in 1..Len(R[n - 1].says) : R[n].says[j] = R[n - 1].says[j]
      BY <3>1, <3>2
    <3>4. /\ Told(ts, n) = Told(ts, n - 1) + 1
          /\ \A j \in 1..Told(ts, n - 1) : R[n].says[j] = R[n - 1].says[j]
      BY <3>3 DEF Told, R
    <3>5. Told(ts, i) \in Nat /\ Told(ts, n - 1) \in Nat
      BY <1>2, <2>2
    <3>6. Told(ts, i) <= Told(ts, n)
      BY <1>4, <3>4, <3>5
    <3>7. \A j \in 1..Told(ts, i) : j \in 1..Told(ts, n - 1)
      BY <1>4, <3>5
    <3> QED
      BY <1>4, <3>4, <3>6, <3>7
  <2> QED
    BY <2>3, <2>4, <2>5
<1> HIDE DEF Keeps
<1>5. 0 \in Good
  <2>1. i <= 0 => i = 0
    BY <1>1
  <2>2. 0 \in 0..Len(ts)
    BY <1>1
  <2> QED
    BY <1>3, <2>1, <2>2
<1>6. ASSUME NEW n \in 1..Len(ts), n - 1 \in Good PROVE n \in Good
  <2>1. n \in 0..Len(ts) /\ (i <= n => i = n \/ i <= n - 1)
    BY <1>1
  <2> QED
    BY <1>3, <1>4, <1>6, <2>1
<1> HIDE DEF Good
<1>7. 0..Len(ts) \subseteq Good
  BY <1>1, <1>5, <1>6, Upward
<1>8. Keeps(k)
  BY <1>7 DEF Good
<1> QED
  BY <1>2, <1>8 DEF Keeps, R

(* What a reader says in the end.                                          *)
LEMMA SaysAll ==
  ASSUME NEW ts \in Seq(Tokens)
  PROVE  /\ Says(ts) \in Seq(Found) /\ Len(Says(ts)) = Told(ts, Len(ts))
         /\ \A k \in 0..Len(ts) :
              /\ Told(ts, k) \in Nat /\ Told(ts, k) <= Len(Says(ts))
              /\ \A j \in 1..Told(ts, k) : Says(ts)[j] = Reader(ts)[k].says[j]
<1>1. Len(ts) \in 0..Len(ts) /\ \A k \in 0..Len(ts) : k <= Len(ts)
  <2>1. Len(ts) \in Nat
    OBVIOUS
  <2> QED
    BY <2>1
<1>2. Says(ts) \in Seq(Found)
  <2>1. Reader(ts)[Len(ts)] \in States
    BY <1>1, ReaderSteps
  <2> QED
    BY <2>1 DEF States, Says
<1> QED
  BY <1>1, <1>2, ReaderGrows DEF Says, Told

(* Two tokens that begin a node, and one that ends a block.                *)
LEMMA ReadsNode ==
  ASSUME NEW ts \in Seq(Tokens), NEW at \in Places(ts), Key(ts, at), Reader(ts)[at - 1].key = <<>>
  PROVE  LET s == Reader(ts)[at - 1]
             path == s.open \o <<ts[at]>>
         IN  Reader(ts)[at + 1] =
               IF ts[at + 1] = "{" THEN State(path, <<>>, s.says)
               ELSE State(s.open, <<>>, Append(s.says, <<path, ts[at + 1]>>))
<1> DEFINE s == Reader(ts)[at - 1]
<1>1. at < Len(ts)
  BY DEF Key
<1>2. Len(ts) \in Nat /\ at \in Nat /\ 1 <= at
  BY PlaceTypes
<1>3. at \in 1..Len(ts) /\ at + 1 \in 1..Len(ts) /\ (at + 1) - 1 = at
  BY <1>1, <1>2
<1>4. Reader(ts)[at] = Reading(s, ts[at]) /\ Reader(ts)[at + 1] = Reading(Reader(ts)[at], ts[at + 1])
  BY <1>3, ReaderSteps
<1>5. s.key = <<>> /\ ts[at] # "}"
  BY DEF Key
<1> HIDE DEF s
<1>6. Reader(ts)[at] = State(s.open, <<ts[at]>>, s.says)
  BY <1>4, <1>5 DEF Reading
<1>7. <<ts[at]>> # <<>>
  OBVIOUS
<1>8. Reader(ts)[at].open = s.open /\ Reader(ts)[at].key = <<ts[at]>> /\ Reader(ts)[at].says = s.says
  BY <1>6 DEF State
<1>9. Reader(ts)[at + 1] =
        IF ts[at + 1] = "{" THEN State(s.open \o <<ts[at]>>, <<>>, s.says)
        ELSE State(s.open, <<>>, Append(s.says, <<s.open \o <<ts[at]>>, ts[at + 1]>>))
  BY <1>4, <1>7, <1>8 DEF Reading
<1> QED
  BY <1>9 DEF s

(* A reader that finds a closing brace leaves a block.                     *)
LEMMA ReadsClose ==
  ASSUME NEW ts \in Seq(Tokens), NEW at \in 1..Len(ts), ts[at] = "}", Reader(ts)[at - 1].key = <<>>
  PROVE  LET s == Reader(ts)[at - 1]
         IN  Reader(ts)[at] = State(SubSeq(s.open, 1, Len(s.open) - 1), <<>>, s.says)
<1>1. Reader(ts)[at] = Reading(Reader(ts)[at - 1], ts[at])
  BY ReaderSteps
<1> QED
  BY <1>1 DEF Reading

(* The last token that belongs to a list.                                  *)
EndOf(ts, pos, d) == IF d = 0 THEN Len(ts) ELSE Parse(ts)[pos][d].close - 1

(* The j-th thing that is said comes from a node of a list, in the blocks  *)
(* open: it is the value of the node, or it is said within its block.      *)
FromNode(ts, open, m, j) ==
    LET path == Says(ts)[j][1] IN
    /\ Len(path) > Len(open) /\ path[Len(open) + 1] = m.key
    /\ \A i \in 1..Len(open) : path[i] = open[i]
    /\ m.block => /\ Len(path) > Len(open) + 1
                  /\ j \in (Told(ts, m.at + 1) + 1)..Told(ts, m.close - 1)
    /\ ~m.block => /\ j = Told(ts, m.at - 1) + 1
                   /\ Says(ts)[j] = <<open \o <<m.key>>, m.value>>

(* A reader goes through a list node by node, and what it finds on the way *)
(* comes from the nodes.                                                   *)
ReadAs(ts, pos, d) ==
    LET before == Reader(ts)[pos - 1]
        end    == EndOf(ts, pos, d)
    IN
    before.key = <<>> =>
        /\ Reader(ts)[end].key = <<>> /\ Reader(ts)[end].open = before.open
        /\ \A m \in Parse(ts)[pos][d].nodes :
             Reader(ts)[m.at - 1].key = <<>> /\ Reader(ts)[m.at - 1].open = before.open
        /\ \A j \in (Told(ts, pos - 1) + 1)..Told(ts, end) :
             \E m \in Parse(ts)[pos][d].nodes : FromNode(ts, before.open, m, j)

(* A list that is well formed ends within the text.                        *)
EndsIn(ts, pos, d) ==
    LET close == Parse(ts)[pos][d].close
        next  == Parse(ts)[pos][d].next
        end   == EndOf(ts, pos, d)
    IN
    /\ end \in 0..Len(ts) /\ end + 1 \in Places(ts) /\ pos - 1 <= end
    /\ d # 0 => /\ close \in pos..Len(ts) /\ close \in 1..Len(ts) /\ ts[close] = "}"
                /\ end = close - 1 /\ next = close + 1 /\ next - 1 = close /\ next \in Places(ts)

(* The end of every list lies in the text.                                 *)
LEMMA EndInText ==
  ASSUME NEW ts \in Seq(Tokens), NEW pos \in Places(ts), NEW d \in 0..MaxDepth, Parse(ts)[pos][d].ok
  PROVE  EndsIn(ts, pos, d)
<1>1. Len(ts) \in Nat /\ pos \in Nat /\ 1 <= pos /\ pos <= Len(ts) + 1
  BY PlaceTypes
<1>2. EndsWell(ts, pos, d)
  BY Shape DEF Shaped
<1>3. CASE d = 0
  <2>1. EndOf(ts, pos, d) = Len(ts)
    BY <1>3 DEF EndOf
  <2>2. Len(ts) \in 0..Len(ts) /\ Len(ts) + 1 \in 1..(Len(ts) + 1) /\ pos - 1 <= Len(ts)
    BY <1>1
  <2> QED
    BY <1>3, <2>1, <2>2 DEF Places, EndsIn
<1>4. CASE d # 0
  <2> DEFINE c == Parse(ts)[pos][d].close
  <2>1. c \in pos..Len(ts) /\ ts[c] = "}" /\ Parse(ts)[pos][d].next = c + 1
    BY <1>2, <1>4 DEF EndsWell
  <2>2. EndOf(ts, pos, d) = c - 1
    BY <1>4 DEF EndOf
  <2> HIDE DEF c
  <2>3. c \in pos..Len(ts)
    BY <2>1
  <2>4. /\ c \in 1..Len(ts) /\ c - 1 \in 0..Len(ts) /\ (c - 1) + 1 \in 1..(Len(ts) + 1)
        /\ pos - 1 <= c - 1 /\ c + 1 \in 1..(Len(ts) + 1) /\ (c + 1) - 1 = c
    BY <1>1, <2>3
  <2> QED
    BY <1>4, <2>1, <2>2, <2>4 DEF Places, c, EndsIn
<1> QED
  BY <1>3, <1>4

(* The end of a block, and what a list consists of.                        *)
Closes(ts, pos, d) ==
    LET list == Parse(ts)[pos + 2][d + 1] IN
    /\ pos + 2 \in Places(ts) /\ d + 1 \in 0..MaxDepth /\ d + 1 # 0
    /\ list.ok /\ Parse(ts)[list.next][d].ok
    /\ list.close \in 1..Len(ts) /\ list.close \in (pos + 2)..Len(ts) /\ ts[list.close] = "}"
    /\ list.next = list.close + 1 /\ list.next \in Places(ts) /\ list.next - 1 = list.close
    /\ EndOf(ts, pos + 2, d + 1) = list.close - 1

(* A block ends at the closing brace of the list within it.                *)
LEMMA BlockEnds ==
  ASSUME NEW ts \in Seq(Tokens), NEW pos \in Places(ts), NEW d \in 0..MaxDepth, IsBlock(ts, pos, d)
  PROVE  Closes(ts, pos, d)
<1> DEFINE q == pos + 2
           e == d + 1
           list == Parse(ts)[q][e]
<1>1. Key(ts, pos) /\ list.ok /\ Parse(ts)[list.next][d].ok
  BY DEF IsBlock
<1>2. q \in Places(ts) /\ e \in 0..MaxDepth /\ e # 0
  BY <1>1, ListBounds
<1> HIDE DEF q, e
<1>3. EndsIn(ts, q, e)
  BY <1>1, <1>2, EndInText
<1>4. /\ list.close \in q..Len(ts) /\ list.close \in 1..Len(ts) /\ ts[list.close] = "}"
      /\ list.next = list.close + 1 /\ list.next \in Places(ts) /\ list.next - 1 = list.close
      /\ EndOf(ts, q, e) = list.close - 1
  BY <1>2, <1>3 DEF EndsIn
<1> QED
  BY <1>1, <1>2, <1>4 DEF q, e, Closes

(* What the fields of a list are, for each way in which it may begin.      *)
LEMMA ListParts ==
  ASSUME NEW ts \in Seq(Tokens), NEW pos \in Places(ts), NEW d \in 0..MaxDepth
  PROVE  LET N == Parse(ts)
             list == N[pos][d]
         IN
         /\ IsEnd(ts, pos, d) => list.ok /\ list.nodes = {} /\ list.close = 0 /\ list.next = pos
         /\ IsClose(ts, pos, d) => list.ok /\ list.nodes = {} /\ list.close = pos /\ list.next = pos + 1
         /\ IsValue(ts, pos, d) =>
              LET rest == N[pos + 2][d]
              IN  /\ list.ok /\ list.nodes = {ValueAt(ts, pos)} \cup rest.nodes
                  /\ list.close = rest.close /\ list.next = rest.next
         /\ IsBlock(ts, pos, d) =>
              LET rest == N[N[pos + 2][d + 1].next][d]
              IN  /\ list.ok /\ list.nodes = {BlockAt(ts, pos, d)} \cup rest.nodes
                  /\ list.close = rest.close /\ list.next = rest.next
<1> DEFINE list == Parse(ts)[pos][d]
           value == Parse(ts)[pos + 2][d]
           block == Parse(ts)[Parse(ts)[pos + 2][d + 1].next][d]
<1>1. \A n, c, x : Parsed(n, c, x).ok /\ Parsed(n, c, x).nodes = n /\ Parsed(n, c, x).close = c
                   /\ Parsed(n, c, x).next = x
  BY DEF Parsed
<1>2. IsEnd(ts, pos, d) => list = Parsed({}, 0, pos)
  BY Lists
<1>3. IsClose(ts, pos, d) => list = Parsed({}, pos, pos + 1)
  BY Lists
<1>4. IsValue(ts, pos, d) => list = Parsed({ValueAt(ts, pos)} \cup value.nodes, value.close, value.next)
  BY Lists
<1>5. IsBlock(ts, pos, d) => list = Parsed({BlockAt(ts, pos, d)} \cup block.nodes, block.close, block.next)
  BY Lists
<1> HIDE DEF list, value, block
<1>6. IsEnd(ts, pos, d) => list.ok /\ list.nodes = {} /\ list.close = 0 /\ list.next = pos
  BY <1>1, <1>2
<1>7. IsClose(ts, pos, d) => list.ok /\ list.nodes = {} /\ list.close = pos /\ list.next = pos + 1
  BY <1>1, <1>3
<1>8. IsValue(ts, pos, d) => /\ list.ok /\ list.nodes = {ValueAt(ts, pos)} \cup value.nodes
                             /\ list.close = value.close /\ list.next = value.next
  BY <1>1, <1>4
<1>9. IsBlock(ts, pos, d) => /\ list.ok /\ list.nodes = {BlockAt(ts, pos, d)} \cup block.nodes
                             /\ list.close = block.close /\ list.next = block.next
  BY <1>1, <1>5
<1> QED
  BY <1>6, <1>7, <1>8, <1>9 DEF list, value, block

(* A list that begins with a node and goes on with the rest of it.         *)
LEMMA ReadsOn ==
  ASSUME NEW ts \in Seq(Tokens), NEW pos \in Places(ts), NEW d \in 0..MaxDepth,
         NEW next \in Places(ts), NEW node,
         Parse(ts)[pos][d].ok, Parse(ts)[next][d].ok,
         Parse(ts)[pos][d].nodes = {node} \cup Parse(ts)[next][d].nodes,
         Parse(ts)[pos][d].close = Parse(ts)[next][d].close,
         node.at = pos, ReadAs(ts, next, d),
         Reader(ts)[next - 1].key = <<>>, Reader(ts)[next - 1].open = Reader(ts)[pos - 1].open,
         \A j \in (Told(ts, pos - 1) + 1)..Told(ts, next - 1) :
           FromNode(ts, Reader(ts)[pos - 1].open, node, j)
  PROVE  ReadAs(ts, pos, d)
<1> DEFINE o == Reader(ts)[pos - 1].open
           end == EndOf(ts, pos, d)
           nodes == Parse(ts)[next][d].nodes
<1>1. EndOf(ts, next, d) = end
  BY DEF EndOf
<1>2. /\ Reader(ts)[end].key = <<>> /\ Reader(ts)[end].open = o
      /\ \A m \in nodes : Reader(ts)[m.at - 1].key = <<>> /\ Reader(ts)[m.at - 1].open = o
      /\ \A j \in (Told(ts, next - 1) + 1)..Told(ts, end) : \E m \in nodes : FromNode(ts, o, m, j)
  BY <1>1 DEF ReadAs
<1>3. Told(ts, pos - 1) \in Nat /\ Told(ts, next - 1) \in Nat /\ Told(ts, end) \in Nat
  <2>1. \A p \in Places(ts) : p - 1 \in 0..Len(ts)
    <3>1. Len(ts) \in Nat
      OBVIOUS
    <3> QED
      BY <3>1 DEF Places
  <2>2. pos - 1 \in 0..Len(ts) /\ next - 1 \in 0..Len(ts) /\ end \in 0..Len(ts)
    BY <2>1, EndInText DEF EndsIn
  <2> QED
    BY <2>2, SaysAll
<1> HIDE DEF o, end, nodes
<1>4. ASSUME NEW j \in (Told(ts, pos - 1) + 1)..Told(ts, end)
      PROVE  j \in (Told(ts, pos - 1) + 1)..Told(ts, next - 1) \/ j \in (Told(ts, next - 1) + 1)..Told(ts, end)
  <2> DEFINE a == Told(ts, pos - 1)
             b == Told(ts, next - 1)
             c == Told(ts, end)
  <2>1. a \in Nat /\ b \in Nat /\ c \in Nat /\ j \in (a + 1)..c
    BY <1>3
  <2> HIDE DEF a, b, c
  <2>2. j \in (a + 1)..b \/ j \in (b + 1)..c
    BY <2>1
  <2> QED
    BY <2>2 DEF a, b, c
<1>5. ASSUME NEW j \in (Told(ts, pos - 1) + 1)..Told(ts, end)
      PROVE  \E m \in {node} \cup nodes : FromNode(ts, o, m, j)
  <2>1. CASE j \in (Told(ts, pos - 1) + 1)..Told(ts, next - 1)
    BY <2>1 DEF o
  <2>2. CASE j \in (Told(ts, next - 1) + 1)..Told(ts, end)
    BY <1>2, <2>2
  <2> QED
    BY <1>4, <2>1, <2>2
<1>6. ASSUME Reader(ts)[pos - 1].key = <<>>, NEW m \in {node} \cup nodes
      PROVE  Reader(ts)[m.at - 1].key = <<>> /\ Reader(ts)[m.at - 1].open = o
  BY <1>2, <1>6 DEF o
<1>7. Parse(ts)[pos][d].nodes = {node} \cup nodes
  BY DEF nodes
<1> QED
  BY <1>2, <1>5, <1>6, <1>7 DEF ReadAs, o, end

(* A block, or a value, that a reader reads.                               *)
LEMMA StateIs ==
  ASSUME NEW o, NEW k, NEW y
  PROVE  State(o, k, y).open = o /\ State(o, k, y).key = k /\ State(o, k, y).says = y
  BY DEF State

(* A path with one more key.                                               *)
LEMMA PathIs ==
  ASSUME NEW o \in Seq(Tokens), NEW k \in Tokens
  PROVE  /\ o \o <<k>> \in Seq(Tokens) /\ Len(o \o <<k>>) = Len(o) + 1
         /\ (o \o <<k>>)[Len(o) + 1] = k
         /\ \A i \in 1..Len(o) : (o \o <<k>>)[i] = o[i]
<1>1. <<k>> \in Seq(Tokens) /\ Len(<<k>>) = 1 /\ <<k>>[1] = k
  OBVIOUS
<1>2. Len(o) \in Nat
  OBVIOUS
<1>3. /\ o \o <<k>> \in Seq(Tokens) /\ Len(o \o <<k>>) = Len(o) + 1
      /\ \A i \in 1..(Len(o) + 1) : (o \o <<k>>)[i] = IF i <= Len(o) THEN o[i] ELSE <<k>>[i - Len(o)]
  BY <1>1, ConcatProperties
<1>4. Len(o) + 1 \in 1..(Len(o) + 1) /\ ~(Len(o) + 1 <= Len(o)) /\ (Len(o) + 1) - Len(o) = 1
  BY <1>2
<1>5. \A i \in 1..Len(o) : i \in 1..(Len(o) + 1) /\ i <= Len(o)
  BY <1>2
<1> QED
  BY <1>1, <1>3, <1>4, <1>5

(* A reader that reads a value says one thing more, and it is of that node.*)
LEMMA ReadsValue ==
  ASSUME NEW ts \in Seq(Tokens), NEW pos \in Places(ts), NEW d \in 0..MaxDepth,
         IsValue(ts, pos, d), Reader(ts)[pos - 1].key = <<>>
  PROVE  LET o == Reader(ts)[pos - 1].open IN
         /\ Reader(ts)[pos + 1].key = <<>> /\ Reader(ts)[pos + 1].open = o
         /\ Told(ts, pos - 1) \in Nat /\ Told(ts, pos + 1) = Told(ts, pos - 1) + 1
         /\ Told(ts, pos + 1) <= Len(Says(ts))
         /\ FromNode(ts, o, ValueAt(ts, pos), Told(ts, pos - 1) + 1)
<1> DEFINE s == Reader(ts)[pos - 1]
           e == <<s.open \o <<ts[pos]>>, ts[pos + 1]>>
<1>1. Key(ts, pos) /\ ts[pos + 1] # "{"
  BY DEF IsValue
<1>2. pos < Len(ts)
  BY <1>1 DEF Key
<1>3. Len(ts) \in Nat /\ pos \in Nat /\ 1 <= pos
  BY PlaceTypes
<1>4. pos - 1 \in 0..Len(ts) /\ pos + 1 \in 0..Len(ts) /\ pos \in 1..Len(ts) /\ pos + 1 \in 1..Len(ts)
  BY <1>2, <1>3
<1>5. Reader(ts)[pos + 1] = State(s.open, <<>>, Append(s.says, e))
  BY <1>1, ReadsNode
<1>6. s \in States /\ ts[pos] \in Tokens /\ ts[pos + 1] \in Tokens
  BY <1>4, ReaderSteps
<1>7. s.open \in Seq(Tokens) /\ s.says \in Seq(Found) /\ Told(ts, pos - 1) = Len(s.says)
  BY <1>6 DEF States, Told
<1>8. Len(s.says) \in Nat /\ Told(ts, pos + 1) \in Nat /\ Told(ts, pos + 1) <= Len(Says(ts))
  BY <1>4, <1>7, SaysAll
<1> HIDE DEF s
<1>9. e \in Found
  BY <1>6, <1>7, PathIs DEF Found
<1>10. e[1] = s.open \o <<ts[pos]>>
  OBVIOUS
<1> HIDE DEF e
<1>11. Reader(ts)[pos + 1].key = <<>> /\ Reader(ts)[pos + 1].open = s.open /\ Reader(ts)[pos + 1].says = Append(s.says, e)
  <2> DEFINE more == Append(s.says, e)
  <2>1. Reader(ts)[pos + 1] = State(s.open, <<>>, more)
    BY <1>5
  <2> HIDE DEF more
  <2>2. Reader(ts)[pos + 1].key = <<>> /\ Reader(ts)[pos + 1].open = s.open /\ Reader(ts)[pos + 1].says = more
    BY <2>1 DEF State
  <2> QED
    BY <2>2 DEF more
<1>12. Told(ts, pos + 1) = Len(s.says) + 1 /\ Append(s.says, e)[Len(s.says) + 1] = e
  BY <1>7, <1>9, <1>11, AppendProperties DEF Told
<1>13. Says(ts)[Len(s.says) + 1] = e
  <2>1. Len(s.says) + 1 \in 1..Told(ts, pos + 1)
    BY <1>8, <1>12
  <2>2. Says(ts)[Len(s.says) + 1] = Reader(ts)[pos + 1].says[Len(s.says) + 1]
    BY <1>4, <2>1, SaysAll
  <2> QED
    BY <1>11, <1>12, <2>2
<1>14. FromNode(ts, s.open, ValueAt(ts, pos), Len(s.says) + 1)
  <2> DEFINE m == ValueAt(ts, pos)
             j == Len(s.says) + 1
  <2>1. m.at = pos /\ m.key = ts[pos] /\ ~m.block /\ m.value = ts[pos + 1]
    BY DEF ValueAt, Value
  <2>2. Says(ts)[j] = <<s.open \o <<m.key>>, m.value>>
    BY <1>13, <2>1 DEF e
  <2>3. Says(ts)[j][1] = s.open \o <<ts[pos]>>
    BY <1>10, <1>13
  <2>4. Len(s.open) \in Nat
    BY <1>7
  <2>5. /\ Len(s.open \o <<ts[pos]>>) > Len(s.open)
        /\ (s.open \o <<ts[pos]>>)[Len(s.open) + 1] = ts[pos]
        /\ \A i \in 1..Len(s.open) : (s.open \o <<ts[pos]>>)[i] = s.open[i]
    BY <1>6, <1>7, <2>4, PathIs
  <2>6. j = Told(ts, m.at - 1) + 1
    BY <1>7, <2>1
  <2> HIDE DEF m, j
  <2> QED
    BY <2>1, <2>2, <2>3, <2>5, <2>6 DEF FromNode, m, j
<1> QED
  BY <1>7, <1>8, <1>11, <1>12, <1>14 DEF s

(* A reader that reads a block has it open within, and says nothing there  *)
(* that is not of that node.                                               *)
LEMMA ReadsBlock ==
  ASSUME NEW ts \in Seq(Tokens), NEW pos \in Places(ts), NEW d \in 0..MaxDepth,
         IsBlock(ts, pos, d), Reader(ts)[pos - 1].key = <<>>, ReadAs(ts, pos + 2, d + 1)
  PROVE  LET o     == Reader(ts)[pos - 1].open
             close == Parse(ts)[pos + 2][d + 1].close
         IN
         /\ Reader(ts)[pos + 1].key = <<>> /\ Reader(ts)[pos + 1].open = o \o <<ts[pos]>>
         /\ Reader(ts)[close].key = <<>> /\ Reader(ts)[close].open = o
         /\ \A j \in (Told(ts, pos - 1) + 1)..Told(ts, close) : FromNode(ts, o, BlockAt(ts, pos, d), j)
<1> DEFINE s == Reader(ts)[pos - 1]
           path == s.open \o <<ts[pos]>>
           list == Parse(ts)[pos + 2][d + 1]
           close == list.close
<1>1. Key(ts, pos) /\ ts[pos + 1] = "{" /\ list.ok
  BY DEF IsBlock
<1>2. pos < Len(ts)
  BY <1>1 DEF Key
<1>3. Len(ts) \in Nat /\ pos \in Nat /\ 1 <= pos
  BY PlaceTypes
<1>4. /\ pos - 1 \in 0..Len(ts) /\ pos + 1 \in 0..Len(ts) /\ pos \in 1..Len(ts) /\ pos + 1 \in 1..Len(ts)
      /\ (pos + 2) - 1 = pos + 1
  BY <1>2, <1>3
<1>5. Reader(ts)[pos + 1] = State(path, <<>>, s.says)
  BY <1>1, ReadsNode
<1>6. s \in States /\ ts[pos] \in Tokens
  BY <1>4, ReaderSteps
<1>7. s.open \in Seq(Tokens) /\ Told(ts, pos - 1) = Len(s.says)
  BY <1>6 DEF States, Told
<1> HIDE DEF s
<1>8. /\ path \in Seq(Tokens) /\ Len(path) = Len(s.open) + 1
      /\ path[Len(s.open) + 1] = ts[pos] /\ \A i \in 1..Len(s.open) : path[i] = s.open[i]
  BY <1>6, <1>7, PathIs
<1>9. Len(s.open) \in Nat
  BY <1>7
<1> HIDE DEF path
<1>10. /\ Reader(ts)[pos + 1].key = <<>> /\ Reader(ts)[pos + 1].open = path
       /\ Told(ts, pos + 1) = Told(ts, pos - 1)
  BY <1>5, <1>7, StateIs DEF Told
<1>11. /\ pos + 2 \in Places(ts) /\ d + 1 \in 0..MaxDepth /\ d + 1 # 0
  BY <1>1, ListBounds
<1>12. /\ close \in 1..Len(ts) /\ EndOf(ts, pos + 2, d + 1) = close - 1 /\ ts[close] = "}"
  BY BlockEnds DEF Closes
<1>13. /\ Reader(ts)[close - 1].key = <<>> /\ Reader(ts)[close - 1].open = path
       /\ \A j \in (Told(ts, pos + 1) + 1)..Told(ts, close - 1) :
            \E m \in list.nodes : FromNode(ts, path, m, j)
  BY <1>4, <1>10, <1>12 DEF ReadAs
<1> HIDE DEF list
<1>14. Reader(ts)[close] = State(SubSeq(path, 1, Len(path) - 1), <<>>, Reader(ts)[close - 1].says)
  BY <1>12, <1>13, ReadsClose
<1>15. SubSeq(path, 1, Len(path) - 1) = s.open
  <2>1. Len(path) - 1 = Len(s.open)
    BY <1>8, <1>9
  <2>2. /\ SubSeq(path, 1, Len(s.open)) \in Seq(Tokens)
        /\ Len(SubSeq(path, 1, Len(s.open))) = Len(s.open)
        /\ \A i \in 1..Len(s.open) : SubSeq(path, 1, Len(s.open))[i] = path[i]
    <3>1. \A i \in 1..Len(s.open) : path[i] \in Tokens
      BY <1>7, <1>8
    <3>2. /\ SubSeq(path, 1, Len(s.open)) \in Seq(Tokens)
          /\ Len(SubSeq(path, 1, Len(s.open))) = IF 1 <= Len(s.open) THEN Len(s.open) - 1 + 1 ELSE 0
          /\ \A i \in 1..(Len(s.open) - 1 + 1) : SubSeq(path, 1, Len(s.open))[i] = path[1 + i - 1]
      BY <1>9, <3>1, SubSeqProperties
    <3>3. Len(s.open) - 1 + 1 = Len(s.open) /\ (~(1 <= Len(s.open)) => Len(s.open) = 0)
      BY <1>9
    <3>4. \A i \in 1..Len(s.open) : 1 + i - 1 = i
      BY <1>9
    <3> QED
      BY <3>2, <3>3, <3>4
  <2>3. \A i \in 1..Len(s.open) : SubSeq(path, 1, Len(s.open))[i] = s.open[i]
    BY <1>8, <2>2
  <2> QED
    BY <1>7, <2>1, <2>2, <2>3, SeqEqual
<1>16. Reader(ts)[close].key = <<>> /\ Reader(ts)[close].open = s.open /\ Told(ts, close) = Told(ts, close - 1)
  <2>1. Reader(ts)[close] = State(s.open, <<>>, Reader(ts)[close - 1].says)
    BY <1>14, <1>15
  <2> HIDE DEF close
  <2>2. /\ Reader(ts)[close].key = <<>> /\ Reader(ts)[close].open = s.open
        /\ Reader(ts)[close].says = Reader(ts)[close - 1].says
    BY <2>1 DEF State
  <2> QED
    BY <2>2 DEF Told
<1>17. ASSUME NEW j \in (Told(ts, pos - 1) + 1)..Told(ts, close)
       PROVE  FromNode(ts, s.open, BlockAt(ts, pos, d), j)
  <2> DEFINE b == BlockAt(ts, pos, d)
             p == Says(ts)[j][1]
  <2>1. b.at = pos /\ b.key = ts[pos] /\ b.block /\ b.close = close
    BY DEF BlockAt, Block, list
  <2>2. j \in (Told(ts, pos + 1) + 1)..Told(ts, close - 1)
    BY <1>10, <1>16
  <2>3. PICK m : FromNode(ts, path, m, j)
    BY <1>13, <2>2
  <2>4. Len(p) > Len(path) /\ \A i \in 1..Len(path) : p[i] = path[i]
    BY <2>3 DEF FromNode
  <2>5. p \in Seq(Tokens) /\ Len(p) \in Nat
    <3>1. pos + 1 \in 0..Len(ts) /\ close - 1 \in 0..Len(ts)
      <4>1. close \in 1..Len(ts)
        BY <1>12
      <4> HIDE DEF close
      <4> QED
        BY <1>3, <1>4, <4>1
    <3>2. /\ Told(ts, pos + 1) \in Nat /\ Told(ts, close - 1) \in Nat
          /\ Told(ts, close - 1) <= Len(Says(ts)) /\ Says(ts) \in Seq(Found)
      BY <3>1, SaysAll
    <3>3. j \in 1..Len(Says(ts))
      BY <2>2, <3>2
    <3>4. Says(ts)[j] \in Found
      BY <3>2, <3>3, ElementOfSeq
    <3> QED
      BY <3>4 DEF Found
  <2> HIDE DEF p
  <2>6. Len(p) > Len(s.open) /\ Len(p) > Len(s.open) + 1
    BY <1>8, <1>9, <2>4, <2>5
  <2>7. Len(s.open) + 1 \in 1..Len(path) /\ \A i \in 1..Len(s.open) : i \in 1..Len(path)
    BY <1>8, <1>9
  <2>8. p[Len(s.open) + 1] = ts[pos] /\ \A i \in 1..Len(s.open) : p[i] = s.open[i]
    BY <1>8, <2>4, <2>7
  <2> HIDE DEF b
  <2>9. FromNode(ts, s.open, b, j)
    BY <2>1, <2>2, <2>6, <2>8 DEF FromNode, p
  <2> QED
    BY <2>9 DEF b
<1> QED
  BY <1>10, <1>16, <1>17 DEF s, path, list

(* What parse calls a list is what a reader reads as one.                  *)
LEMMA ReadsLists ==
  ASSUME NEW ts \in Seq(Tokens)
  PROVE  \A pos \in Places(ts), d \in 0..MaxDepth : Parse(ts)[pos][d].ok => ReadAs(ts, pos, d)
<1> DEFINE S == {l \in Places(ts) \X (0..MaxDepth) : ReadAs(ts, l[1], l[2])}
           N == Parse(ts)
<1>1. ASSUME NEW pos \in Places(ts), NEW d \in 0..MaxDepth, N[pos][d].ok, Passes(ts, S, pos, d)
      PROVE  ReadAs(ts, pos, d)
  <2> SUFFICES ASSUME Reader(ts)[pos - 1].key = <<>> PROVE ReadAs(ts, pos, d)
    BY DEF ReadAs
  <2>1. Len(ts) \in Nat /\ pos \in Nat /\ 1 <= pos /\ pos <= Len(ts) + 1
    BY PlaceTypes
  <2>2. (pos + 2) - 1 = pos + 1 /\ pos - 1 \in 0..Len(ts)
    BY <2>1
  <2>3. CASE N[pos][d].nodes = {} /\ EndOf(ts, pos, d) = pos - 1
    <3>1. Told(ts, pos - 1) \in Nat
      BY <2>2, SaysAll
    <3>2. (Told(ts, pos - 1) + 1)..Told(ts, pos - 1) = {}
      BY <3>1
    <3> QED
      BY <2>3, <3>2 DEF ReadAs
  <2>4. CASE IsEnd(ts, pos, d)
    <3>1. N[pos][d].nodes = {}
      BY <2>4, ListParts
    <3>2. EndOf(ts, pos, d) = Len(ts)
      BY <2>4 DEF EndOf, IsEnd
    <3>3. pos = Len(ts) + 1
      BY <2>4 DEF IsEnd
    <3>4. Len(ts) = pos - 1
      BY <2>1, <3>3
    <3> QED
      BY <2>3, <3>1, <3>2, <3>4
  <2>5. CASE IsClose(ts, pos, d)
    <3>1. N[pos][d].nodes = {} /\ N[pos][d].close = pos
      BY <2>5, ListParts
    <3>2. d > 0
      BY <2>5 DEF IsClose
    <3>3. d # 0
      BY <3>2
    <3>4. EndOf(ts, pos, d) = pos - 1
      BY <3>1, <3>3 DEF EndOf
    <3> QED
      BY <2>3, <3>1, <3>4
  <2>6. CASE IsValue(ts, pos, d)
    <3> DEFINE node == ValueAt(ts, pos)
               o == Reader(ts)[pos - 1].open
    <3>1. pos + 2 \in Places(ts)
      BY <2>6, ListBounds DEF IsValue
    <3>2. N[pos + 2][d].ok
      BY <2>6 DEF IsValue
    <3>3. N[pos][d].nodes = {node} \cup N[pos + 2][d].nodes /\ N[pos][d].close = N[pos + 2][d].close
      BY <2>6, ListParts
    <3>4. node.at = pos
      BY DEF ValueAt, Value
    <3>5. ReadAs(ts, pos + 2, d)
      BY <1>1, <2>6 DEF Passes
    <3>6. /\ Reader(ts)[pos + 1].key = <<>> /\ Reader(ts)[pos + 1].open = o
          /\ Told(ts, pos - 1) \in Nat /\ Told(ts, pos + 1) = Told(ts, pos - 1) + 1
          /\ FromNode(ts, o, node, Told(ts, pos - 1) + 1)
      BY <2>6, ReadsValue
    <3> HIDE DEF node, o
    <3>7. ASSUME NEW j \in (Told(ts, pos - 1) + 1)..Told(ts, pos + 1) PROVE FromNode(ts, o, node, j)
      <4>1. j = Told(ts, pos - 1) + 1
        BY <3>6
      <4> QED
        BY <3>6, <4>1
    <3> QED
      BY <1>1, <2>2, <3>1, <3>2, <3>3, <3>4, <3>5, <3>6, <3>7, ReadsOn DEF o
  <2>7. CASE IsBlock(ts, pos, d)
    <3> DEFINE node == BlockAt(ts, pos, d)
               o == Reader(ts)[pos - 1].open
               close == N[pos + 2][d + 1].close
               next == N[pos + 2][d + 1].next
    <3>1. /\ pos + 2 \in Places(ts) /\ next \in Places(ts) /\ d + 1 \in 0..MaxDepth /\ d + 1 # 0
      BY <2>7, ListBounds DEF IsBlock
    <3>2. N[next][d].ok /\ N[pos + 2][d + 1].ok
      BY <2>7 DEF IsBlock
    <3>3. N[pos][d].nodes = {node} \cup N[next][d].nodes /\ N[pos][d].close = N[next][d].close
      BY <2>7, ListParts
    <3>4. node.at = pos
      BY DEF BlockAt, Block
    <3>5. ReadAs(ts, pos + 2, d + 1) /\ ReadAs(ts, next, d)
      BY <1>1, <2>7 DEF Passes
    <3>6. /\ Reader(ts)[close].key = <<>> /\ Reader(ts)[close].open = o
          /\ \A j \in (Told(ts, pos - 1) + 1)..Told(ts, close) : FromNode(ts, o, node, j)
      BY <2>7, <3>5, ReadsBlock
    <3>7. next = close + 1 /\ close \in 1..Len(ts)
      BY <2>7, BlockEnds DEF Closes
    <3> HIDE DEF node, o, close, next
    <3>8. next - 1 = close
      BY <2>1, <3>7
    <3> QED
      BY <1>1, <3>1, <3>2, <3>3, <3>4, <3>5, <3>6, <3>8, ReadsOn DEF o
  <2> QED
    BY <1>1, <2>4, <2>5, <2>6, <2>7, Lists
<1>2. \A pos \in Places(ts), d \in 0..MaxDepth :
        N[pos][d].ok /\ Passes(ts, S, pos, d) => <<pos, d>> \in S
  BY <1>1
<1> HIDE DEF S
<1>3. \A pos \in Places(ts), d \in 0..MaxDepth : N[pos][d].ok => <<pos, d>> \in S
  BY <1>2, ListInduction
<1> QED
  BY <1>3 DEF S

----------------------------------------------------------------------------
(* What the text says within a block.                                      *)

(* Within a block of a list: the reader is in the list of its children.    *)
Entered(ts, open, d, m) ==
    LET p == m.at + 2
        e == d + 1
        end == m.close - 1
    IN
    /\ m.at \in Places(ts) /\ IsBlock(ts, m.at, d) /\ m = BlockAt(ts, m.at, d)
    /\ p \in Places(ts) /\ e \in 0..MaxDepth /\ e # 0 /\ Parse(ts)[p][e].ok
    /\ m.children = Parse(ts)[p][e].nodes /\ m.close = Parse(ts)[p][e].close
    /\ m.close \in 1..Len(ts) /\ ts[m.close] = "}"
    /\ Reader(ts)[p - 1].key = <<>> /\ Reader(ts)[p - 1].open = open \o <<m.key>>
    /\ Reader(ts)[end].key = <<>> /\ Reader(ts)[end].open = open \o <<m.key>>
    /\ \A j \in (Told(ts, m.at + 1) + 1)..Told(ts, end) :
         \E n \in m.children : FromNode(ts, open \o <<m.key>>, n, j)

(* The block of a list is entered by a reader with its key.                *)
LEMMA Enters ==
  ASSUME NEW ts \in Seq(Tokens), NEW pos \in Places(ts), NEW d \in 0..MaxDepth,
         Parse(ts)[pos][d].ok, Reader(ts)[pos - 1].key = <<>>,
         NEW m \in Parse(ts)[pos][d].nodes, m.block
  PROVE  Entered(ts, Reader(ts)[pos - 1].open, d, m)
<1> DEFINE o == Reader(ts)[pos - 1].open
           at == m.at
           p == at + 2
           e == d + 1
<1>1. at \in Places(ts) /\ IsBlock(ts, at, d) /\ m = BlockAt(ts, at, d)
  <2>1. Within(ts, pos, d, m)
    BY Shape DEF Shaped
  <2>2. ~ValueAt(ts, at).block
    BY DEF ValueAt, Value
  <2> QED
    BY <2>1, <2>2 DEF Within
<1>2. Reader(ts)[at - 1].key = <<>> /\ Reader(ts)[at - 1].open = o
  BY ReadsLists DEF ReadAs
<1> HIDE DEF at, o
<1>3. m.key = ts[at] /\ m.children = Parse(ts)[p][e].nodes /\ m.close = Parse(ts)[p][e].close
  BY <1>1 DEF BlockAt, Block
<1>4. Closes(ts, at, d)
  BY <1>1, BlockEnds
<1>5. /\ p \in Places(ts) /\ e \in 0..MaxDepth /\ e # 0 /\ Parse(ts)[p][e].ok
      /\ m.close \in 1..Len(ts) /\ ts[m.close] = "}" /\ EndOf(ts, p, e) = m.close - 1
  BY <1>3, <1>4 DEF Closes
<1>6. ReadAs(ts, p, e)
  BY <1>5, ReadsLists
<1>7. Reader(ts)[at + 1].key = <<>> /\ Reader(ts)[at + 1].open = o \o <<m.key>>
  BY <1>1, <1>2, <1>3, <1>6, ReadsBlock
<1>8. p - 1 = at + 1
  <2>1. at \in Nat
    BY <1>1, PlaceTypes
  <2> QED
    BY <2>1
<1>9. /\ Reader(ts)[m.close - 1].key = <<>> /\ Reader(ts)[m.close - 1].open = o \o <<m.key>>
      /\ \A j \in (Told(ts, at + 1) + 1)..Told(ts, m.close - 1) :
           \E n \in m.children : FromNode(ts, o \o <<m.key>>, n, j)
  <2> HIDE DEF p, e
  <2> QED
    BY <1>3, <1>5, <1>6, <1>7, <1>8 DEF ReadAs
<1>10. Reader(ts)[p - 1].key = <<>> /\ Reader(ts)[p - 1].open = o \o <<m.key>>
  BY <1>7, <1>8
<1> QED
  BY <1>1, <1>3, <1>5, <1>9, <1>10 DEF Entered, at, o

(* A value of a list is said.                                              *)
LEMMA SaysValue ==
  ASSUME NEW ts \in Seq(Tokens), NEW pos \in Places(ts), NEW d \in 0..MaxDepth,
         Parse(ts)[pos][d].ok, Reader(ts)[pos - 1].key = <<>>,
         NEW m \in Parse(ts)[pos][d].nodes, ~m.block
  PROVE  \E j \in 1..Len(Says(ts)) :
           j = Told(ts, m.at - 1) + 1 /\ FromNode(ts, Reader(ts)[pos - 1].open, m, j)
<1> DEFINE o == Reader(ts)[pos - 1].open
           at == m.at
           j == Told(ts, at - 1) + 1
<1>1. at \in Places(ts) /\ IsValue(ts, at, d) /\ m = ValueAt(ts, at)
  <2>1. Within(ts, pos, d, m)
    BY Shape DEF Shaped
  <2>2. BlockAt(ts, at, d).block
    BY DEF BlockAt, Block
  <2> QED
    BY <2>1, <2>2 DEF Within
<1>2. Reader(ts)[at - 1].key = <<>> /\ Reader(ts)[at - 1].open = o
  BY ReadsLists DEF ReadAs
<1> HIDE DEF at, o
<1>3. /\ Told(ts, at - 1) \in Nat /\ Told(ts, at + 1) = j /\ Told(ts, at + 1) <= Len(Says(ts))
      /\ FromNode(ts, o, m, j)
  BY <1>1, <1>2, ReadsValue
<1>4. j \in 1..Len(Says(ts))
  <2>1. Len(Says(ts)) \in Nat
    BY SaysAll, LenProperties
  <2> QED
    BY <1>3, <2>1
<1> QED
  BY <1>3, <1>4 DEF at, o

(* The tree that parse makes of a text with the one block of GameInfo.     *)
HasRoot(ts, root) ==
    /\ Parse(ts)[1][0].ok /\ Parse(ts)[1][0].nodes = {root}
    /\ root.key = "GameInfo" /\ root.block

AdvertisedAt(ts, j) == Says(ts)[j][1] = Advertised[1]

(* What such a text says, it says within the block of GameInfo.            *)
LEMMA InRoot ==
  ASSUME NEW ts \in Seq(Tokens), NEW root, HasRoot(ts, root)
  PROVE  /\ Entered(ts, <<>>, 0, root)
         /\ \A j \in 1..Len(Says(ts)) : FromNode(ts, <<>>, root, j)
<1>1. 1 \in Places(ts) /\ 0 \in 0..MaxDepth /\ 1 - 1 = 0 /\ Len(ts) \in Nat
  <2>1. Len(ts) \in Nat /\ MaxDepth \in Nat
    BY PlaceTypes
  <2> QED
    BY <2>1 DEF Places
<1>2. Reader(ts)[0].key = <<>> /\ Reader(ts)[0].open = <<>> /\ Told(ts, 0) = 0
  <2>1. Reader(ts)[0] = State(<<>>, <<>>, <<>>)
    BY ReaderSteps DEF Start
  <2>2. Reader(ts)[0].says = <<>>
    BY <2>1 DEF State
  <2>3. Len(<<>>) = 0
    OBVIOUS
  <2>4. Told(ts, 0) = 0
    BY <2>2, <2>3 DEF Told
  <2> QED
    BY <2>1, <2>4 DEF State
<1>3. Entered(ts, <<>>, 0, root)
  BY <1>1, <1>2, Enters DEF HasRoot
<1>4. ReadAs(ts, 1, 0)
  BY <1>1, ReadsLists DEF HasRoot
<1>5. EndOf(ts, 1, 0) = Len(ts)
  BY DEF EndOf
<1>6. Told(ts, Len(ts)) = Len(Says(ts))
  BY SaysAll
<1>7. ASSUME NEW j \in (Told(ts, 1 - 1) + 1)..Told(ts, Len(ts)) PROVE FromNode(ts, <<>>, root, j)
  BY <1>1, <1>2, <1>4, <1>5 DEF ReadAs, HasRoot
<1>8. Told(ts, 1 - 1) + 1 = 1
  BY <1>1, <1>2
<1> QED
  BY <1>3, <1>6, <1>7, <1>8

(* The keys of the blocks that are open, and the path of the setting.      *)
LEMMA Paths ==
  /\ <<>> \o <<"GameInfo">> = <<"GameInfo">>
  /\ <<"GameInfo">> \o <<"GMS">> = <<"GameInfo", "GMS">>
  /\ <<"GameInfo", "GMS">> \o <<"Advertise">> = <<"GameInfo", "GMS", "Advertise">>
  /\ Len(<<>>) + 1 = 1 /\ Len(<<"GameInfo">>) + 1 = 2 /\ Len(<<"GameInfo", "GMS">>) + 1 = 3
  /\ ~(Len(<<"GameInfo", "GMS", "Advertise">>) > 3)
<1> DEFINE Keys == {"GameInfo", "GMS", "Advertise"}
<1>1. /\ <<"GameInfo">> \in Seq(Keys) /\ <<"GMS">> \in Seq(Keys) /\ <<"Advertise">> \in Seq(Keys)
      /\ <<"GameInfo", "GMS">> \in Seq(Keys) /\ <<"GameInfo", "GMS", "Advertise">> \in Seq(Keys)
  OBVIOUS
<1>2. /\ Len(<<>>) = 0 /\ Len(<<"GameInfo">>) = 1 /\ Len(<<"GMS">>) = 1 /\ Len(<<"Advertise">>) = 1
      /\ Len(<<"GameInfo", "GMS">>) = 2 /\ Len(<<"GameInfo", "GMS", "Advertise">>) = 3
  OBVIOUS
<1>3. <<>> \o <<"GameInfo">> = <<"GameInfo">>
  BY <1>1, ConcatEmptySeq
<1>4. <<"GameInfo">> \o <<"GMS">> = <<"GameInfo", "GMS">>
  <2> DEFINE x == <<"GameInfo">> \o <<"GMS">>
             y == <<"GameInfo", "GMS">>
  <2>1. /\ x \in Seq(Keys) /\ Len(x) = 2
        /\ \A i \in 1..2 : x[i] = IF i <= 1 THEN <<"GameInfo">>[i] ELSE <<"GMS">>[i - 1]
    BY <1>1, <1>2, ConcatProperties
  <2>2. x[1] = "GameInfo" /\ x[2] = "GMS"
    <3> HIDE DEF x
    <3> QED
      BY <2>1
  <2>3. y \in Seq(Keys) /\ Len(y) = 2 /\ y[1] = "GameInfo" /\ y[2] = "GMS"
    BY <1>1, <1>2
  <2> HIDE DEF x, y
  <2>4. \A i \in 1..Len(x) : x[i] = y[i]
    BY <2>1, <2>2, <2>3
  <2>5. x = y
    BY <2>1, <2>3, <2>4, SeqEqual
  <2> QED
    BY <2>5 DEF x, y
<1>5. <<"GameInfo", "GMS">> \o <<"Advertise">> = <<"GameInfo", "GMS", "Advertise">>
  <2> DEFINE x == <<"GameInfo", "GMS">> \o <<"Advertise">>
             y == <<"GameInfo", "GMS", "Advertise">>
  <2>1. /\ x \in Seq(Keys) /\ Len(x) = 3
        /\ \A i \in 1..3 : x[i] = IF i <= 2 THEN <<"GameInfo", "GMS">>[i] ELSE <<"Advertise">>[i - 2]
    BY <1>1, <1>2, ConcatProperties
  <2>2. x[1] = "GameInfo" /\ x[2] = "GMS" /\ x[3] = "Advertise"
    <3> HIDE DEF x
    <3> QED
      BY <2>1
  <2>3. y \in Seq(Keys) /\ Len(y) = 3 /\ y[1] = "GameInfo" /\ y[2] = "GMS" /\ y[3] = "Advertise"
    BY <1>1, <1>2
  <2> HIDE DEF x, y
  <2>4. \A i \in 1..Len(x) : x[i] = y[i]
    BY <2>1, <2>2, <2>3
  <2>5. x = y
    BY <2>1, <2>3, <2>4, SeqEqual
  <2> QED
    BY <2>5 DEF x, y
<1>6. /\ Len(<<>>) + 1 = 1 /\ Len(<<"GameInfo">>) + 1 = 2 /\ Len(<<"GameInfo", "GMS">>) + 1 = 3
      /\ ~(Len(<<"GameInfo", "GMS", "Advertise">>) > 3)
  BY <1>2
<1> QED
  BY <1>3, <1>4, <1>5, <1>6

(* A block of that of GameInfo is read as one.                             *)
LEMMA EntersGMS ==
  ASSUME NEW ts \in Seq(Tokens), NEW root, HasRoot(ts, root), NEW m \in root.children, m.block
  PROVE  Entered(ts, <<"GameInfo">>, 1, m)
<1> DEFINE p == root.at + 2
<1>1. Entered(ts, <<>>, 0, root)
  BY InRoot
<1>2. /\ p \in Places(ts) /\ 0 + 1 = 1 /\ 1 \in 0..MaxDepth /\ Parse(ts)[p][1].ok
      /\ root.children = Parse(ts)[p][1].nodes
      /\ Reader(ts)[p - 1].key = <<>> /\ Reader(ts)[p - 1].open = <<>> \o <<root.key>>
  <2>1. 0 + 1 = 1
    OBVIOUS
  <2> QED
    BY <1>1, <2>1 DEF Entered
<1>3. Reader(ts)[p - 1].open = <<"GameInfo">>
  BY <1>2, Paths DEF HasRoot
<1> HIDE DEF p
<1> QED
  BY <1>2, <1>3, Enters

(* What is said under the path of the setting is said by an entry of GMS.  *)
LEMMA AdvertisedWithin ==
  ASSUME NEW ts \in Seq(Tokens), NEW root, HasRoot(ts, root),
         \A m \in With(root.children, "GMS") : m.block,
         NEW j \in 1..Len(Says(ts)), AdvertisedAt(ts, j)
  PROVE  \E m \in With(root.children, "GMS") : \E a \in With(m.children, "Advertise") :
           FromNode(ts, <<"GameInfo", "GMS">>, a, j) /\ ~a.block
<1> DEFINE path == Says(ts)[j][1]
<1>1. path = <<"GameInfo", "GMS", "Advertise">>
  BY DEF AdvertisedAt, Advertised
<1> HIDE DEF path
<1>2. path[2] = "GMS" /\ path[3] = "Advertise" /\ ~(Len(path) > 3)
  BY <1>1, Paths
<1>3. PICK m \in root.children : FromNode(ts, <<"GameInfo">>, m, j)
  <2>1. Entered(ts, <<>>, 0, root) /\ FromNode(ts, <<>>, root, j) /\ root.block
    BY InRoot DEF HasRoot
  <2>2. j \in (Told(ts, root.at + 1) + 1)..Told(ts, root.close - 1)
    BY <2>1 DEF FromNode
  <2>3. <<>> \o <<root.key>> = <<"GameInfo">>
    BY Paths DEF HasRoot
  <2> QED
    BY <2>1, <2>2, <2>3 DEF Entered
<1>4. m.key = "GMS"
  BY <1>2, <1>3, Paths DEF FromNode, path
<1>5. m \in With(root.children, "GMS") /\ m.block
  BY <1>4 DEF With
<1>6. PICK a \in m.children : FromNode(ts, <<"GameInfo", "GMS">>, a, j)
  <2>1. Entered(ts, <<"GameInfo">>, 1, m)
    BY <1>5, EntersGMS
  <2>2. j \in (Told(ts, m.at + 1) + 1)..Told(ts, m.close - 1)
    BY <1>3, <1>5 DEF FromNode
  <2>3. <<"GameInfo">> \o <<m.key>> = <<"GameInfo", "GMS">>
    BY <1>4, Paths
  <2> QED
    BY <2>1, <2>2, <2>3 DEF Entered
<1>7. a.key = "Advertise" /\ ~a.block
  BY <1>2, <1>6, Paths DEF FromNode, path
<1>8. a \in With(m.children, "Advertise")
  BY <1>7 DEF With
<1> QED
  BY <1>5, <1>6, <1>7, <1>8

(* The text says what the entry a of the block GMS says, once.             *)
OneEntry(ts, a) ==
    \E j \in 1..Len(Says(ts)) :
      /\ Says(ts)[j] = <<Advertised[1], a.value>>
      /\ \A k : FromNode(ts, <<"GameInfo", "GMS">>, a, k) => k = j

(* An entry of GMS is said, at a place of its own.                         *)
LEMMA EntryOfGMS ==
  ASSUME NEW ts \in Seq(Tokens), NEW root, HasRoot(ts, root),
         NEW m \in With(root.children, "GMS"), m.block,
         NEW a \in With(m.children, "Advertise"), ~a.block
  PROVE  OneEntry(ts, a)
<1> DEFINE p == m.at + 2
<1>1. Entered(ts, <<"GameInfo">>, 1, m)
  BY EntersGMS DEF With
<1>2. m.key = "GMS" /\ a \in m.children /\ a.key = "Advertise"
  BY DEF With
<1>3. /\ p \in Places(ts) /\ 1 + 1 = 2 /\ 2 \in 0..MaxDepth /\ Parse(ts)[p][2].ok
      /\ m.children = Parse(ts)[p][2].nodes
      /\ Reader(ts)[p - 1].key = <<>> /\ Reader(ts)[p - 1].open = <<"GameInfo">> \o <<m.key>>
  <2>1. 1 + 1 = 2
    OBVIOUS
  <2> QED
    BY <1>1, <2>1 DEF Entered
<1>4. Reader(ts)[p - 1].open = <<"GameInfo", "GMS">>
  BY <1>2, <1>3, Paths
<1> HIDE DEF p
<1>5. PICK j \in 1..Len(Says(ts)) :
        j = Told(ts, a.at - 1) + 1 /\ FromNode(ts, <<"GameInfo", "GMS">>, a, j)
  BY <1>2, <1>3, <1>4, SaysValue
<1>6. Says(ts)[j] = <<<<"GameInfo", "GMS">> \o <<a.key>>, a.value>>
  BY <1>5 DEF FromNode
<1>7. Says(ts)[j] = <<Advertised[1], a.value>>
  BY <1>2, <1>6, Paths DEF Advertised
<1>8. ASSUME NEW k, FromNode(ts, <<"GameInfo", "GMS">>, a, k) PROVE k = j
  BY <1>5, <1>8 DEF FromNode
<1> QED
  BY <1>7, <1>8 DEF OneEntry

----------------------------------------------------------------------------
(* A text after an insertion.                                              *)

(* A text after an insertion.                                              *)
IsInserted(ts, at, w, t2) ==
    /\ t2 \in Seq(Tokens) /\ at \in 1..Len(ts) /\ Len(t2) = Len(ts) + Len(w)
    /\ \A i \in 1..(at - 1) : t2[i] = ts[i]
    /\ \A i \in 1..Len(w) : t2[(at - 1) + i] = w[i]
    /\ \A i \in at..Len(ts) : t2[i + Len(w)] = ts[i]

(* The text that Insert makes has the tokens in their places, and its own  *)
(* before and behind them.                                                 *)
LEMMA Inserts ==
  ASSUME NEW ts \in Seq(Tokens), NEW at \in 1..Len(ts), NEW w \in Seq(Tokens)
  PROVE  IsInserted(ts, at, w, Insert(ts, at, w).text)
<1> DEFINE a == SubSeq(ts, 1, at - 1)
           b == SubSeq(ts, at, Len(ts))
           n == Len(w)
           ab == a \o w
           t2 == ab \o b
<1>1. Len(ts) \in Nat /\ at \in Nat /\ 1 <= at /\ at <= Len(ts) /\ n \in Nat
  <2>1. Len(ts) \in Nat /\ n \in Nat
    OBVIOUS
  <2> QED
    BY <2>1
<1>2. a \in Seq(Tokens) /\ Len(a) = at - 1 /\ \A i \in 1..(at - 1) : a[i] = ts[i]
  <2>1. \A i \in 1..(at - 1) : ts[i] \in Tokens
    BY <1>1
  <2>2. /\ a \in Seq(Tokens) /\ Len(a) = IF 1 <= at - 1 THEN (at - 1) - 1 + 1 ELSE 0
        /\ \A i \in 1..((at - 1) - 1 + 1) : a[i] = ts[1 + i - 1]
    BY <1>1, <2>1, SubSeqProperties
  <2> HIDE DEF a
  <2>3. (at - 1) - 1 + 1 = at - 1 /\ (~(1 <= at - 1) => at - 1 = 0) /\ \A i \in 1..(at - 1) : 1 + i - 1 = i
    BY <1>1
  <2> QED
    BY <2>2, <2>3
<1>3. b \in Seq(Tokens) /\ Len(b) = Len(ts) - at + 1 /\ \A i \in 1..(Len(ts) - at + 1) : b[i] = ts[at + i - 1]
  <2>1. \A i \in at..Len(ts) : ts[i] \in Tokens
    BY <1>1
  <2>2. /\ b \in Seq(Tokens) /\ Len(b) = IF at <= Len(ts) THEN Len(ts) - at + 1 ELSE 0
        /\ \A i \in 1..(Len(ts) - at + 1) : b[i] = ts[at + i - 1]
    BY <1>1, <2>1, SubSeqProperties
  <2> QED
    BY <1>1, <2>2
<1> HIDE DEF a, b
<1>4. /\ ab \in Seq(Tokens) /\ Len(ab) = (at - 1) + n
      /\ \A i \in 1..((at - 1) + n) : ab[i] = IF i <= at - 1 THEN a[i] ELSE w[i - (at - 1)]
  <2>1. a \in Seq(Tokens)
    BY <1>2
  <2>2. /\ ab \in Seq(Tokens) /\ Len(ab) = Len(a) + Len(w)
        /\ \A i \in 1..(Len(a) + Len(w)) : ab[i] = IF i <= Len(a) THEN a[i] ELSE w[i - Len(a)]
    BY <2>1, ConcatProperties
  <2>3. Len(a) = at - 1
    BY <1>2
  <2> HIDE DEF ab
  <2> QED
    BY <2>2, <2>3
<1> HIDE DEF ab
<1>5. /\ t2 \in Seq(Tokens) /\ Len(t2) = (at - 1) + n + (Len(ts) - at + 1)
      /\ \A i \in 1..((at - 1) + n + (Len(ts) - at + 1)) :
           t2[i] = IF i <= (at - 1) + n THEN ab[i] ELSE b[i - ((at - 1) + n)]
  <2>1. /\ t2 \in Seq(Tokens) /\ Len(t2) = Len(ab) + Len(b)
        /\ \A i \in 1..(Len(ab) + Len(b)) : t2[i] = IF i <= Len(ab) THEN ab[i] ELSE b[i - Len(ab)]
    BY <1>3, <1>4, ConcatProperties
  <2>2. Len(ab) = (at - 1) + n /\ Len(b) = Len(ts) - at + 1
    BY <1>3, <1>4
  <2> HIDE DEF t2, n
  <2> QED
    BY <2>1, <2>2
<1> HIDE DEF t2, n
<1>6. Len(t2) = Len(ts) + n
  BY <1>1, <1>5
<1>7. ASSUME NEW i \in 1..(at - 1) PROVE t2[i] = ts[i]
  <2>1. i \in 1..((at - 1) + n) /\ i <= at - 1 /\ i <= (at - 1) + n /\ i \in 1..((at - 1) + n + (Len(ts) - at + 1))
    BY <1>1
  <2> QED
    BY <1>2, <1>4, <1>5, <2>1
<1>8. ASSUME NEW i \in 1..n PROVE t2[(at - 1) + i] = w[i]
  <2> DEFINE k == (at - 1) + i
  <2>1. k \in 1..((at - 1) + n) /\ ~(k <= at - 1) /\ k - (at - 1) = i
        /\ k <= (at - 1) + n /\ k \in 1..((at - 1) + n + (Len(ts) - at + 1))
    BY <1>1
  <2> HIDE DEF k
  <2> QED
    BY <1>4, <1>5, <2>1 DEF k
<1>9. ASSUME NEW i \in at..Len(ts) PROVE t2[i + n] = ts[i]
  <2> DEFINE k == i + n
             h == k - ((at - 1) + n)
  <2>1. /\ k \in 1..((at - 1) + n + (Len(ts) - at + 1)) /\ ~(k <= (at - 1) + n)
        /\ h \in 1..(Len(ts) - at + 1) /\ at + h - 1 = i
    BY <1>1
  <2>2. t2[k] = b[h]
    BY <1>5, <2>1
  <2> HIDE DEF k, h
  <2> QED
    BY <1>3, <2>1, <2>2 DEF k
<1>10. Insert(ts, at, w).text = t2
  BY DEF Insert, t2, ab, a, b
<1> QED
  BY <1>5, <1>6, <1>7, <1>8, <1>9, <1>10 DEF IsInserted, n

(* A sequence after one thing has been put into it.                        *)
PutAt(x, j, e, y) ==
    /\ y \in Seq(Found) /\ j \in 1..(Len(x) + 1) /\ Len(y) = Len(x) + 1 /\ y[j] = e
    /\ \A i \in 1..(j - 1) : y[i] = x[i]
    /\ \A i \in j..Len(x) : y[i + 1] = x[i]

(* To append is to put at the end.                                         *)
LEMMA PutAppend ==
  ASSUME NEW x \in Seq(Found), NEW e \in Found
  PROVE  PutAt(x, Len(x) + 1, e, Append(x, e))
<1>1. Len(x) \in Nat
  OBVIOUS
<1>2. /\ Append(x, e) \in Seq(Found) /\ Len(Append(x, e)) = Len(x) + 1
      /\ \A i \in 1..Len(x) : Append(x, e)[i] = x[i]
      /\ Append(x, e)[Len(x) + 1] = e
  BY AppendProperties
<1>3. (Len(x) + 1) - 1 = Len(x) /\ (Len(x) + 1)..Len(x) = {} /\ Len(x) + 1 \in 1..(Len(x) + 1)
  BY <1>1
<1> QED
  BY <1>2, <1>3 DEF PutAt

(* What is put into a sequence stays there when both are appended to.      *)
LEMMA PutKept ==
  ASSUME NEW x \in Seq(Found), NEW j, NEW e, NEW y, PutAt(x, j, e, y), NEW f \in Found
  PROVE  PutAt(Append(x, f), j, e, Append(y, f))
<1> DEFINE x2 == Append(x, f)
           y2 == Append(y, f)
<1>1. /\ x2 \in Seq(Found) /\ Len(x2) = Len(x) + 1
      /\ \A i \in 1..Len(x) : x2[i] = x[i]
      /\ x2[Len(x) + 1] = f
  BY AppendProperties
<1>2. y \in Seq(Found)
  BY DEF PutAt
<1>3. /\ y2 \in Seq(Found) /\ Len(y2) = Len(y) + 1
      /\ \A i \in 1..Len(y) : y2[i] = y[i]
      /\ y2[Len(y) + 1] = f
  BY <1>2, AppendProperties
<1> HIDE DEF x2, y2
<1>4. Len(x) \in Nat
  OBVIOUS
<1>5. /\ j \in 1..(Len(x) + 1) /\ Len(y) = Len(x) + 1 /\ y[j] = e
      /\ \A i \in 1..(j - 1) : y[i] = x[i]
      /\ \A i \in j..Len(x) : y[i + 1] = x[i]
  BY DEF PutAt
<1>6. j \in 1..(Len(x2) + 1) /\ Len(y2) = Len(x2) + 1 /\ y2[j] = e
  BY <1>1, <1>3, <1>4, <1>5
<1>7. ASSUME NEW i \in 1..(j - 1) PROVE y2[i] = x2[i]
  <2>1. i \in 1..Len(x) /\ i \in 1..Len(y)
    BY <1>4, <1>5
  <2> QED
    BY <1>1, <1>3, <1>5, <2>1
<1>8. ASSUME NEW i \in j..Len(x2) PROVE y2[i + 1] = x2[i]
  <2>1. CASE i = Len(x) + 1
    <3>1. i + 1 = Len(y) + 1
      BY <1>4, <1>5, <2>1
    <3> QED
      BY <1>1, <1>3, <2>1, <3>1
  <2>2. CASE i # Len(x) + 1
    <3>1. i \in j..Len(x) /\ i \in 1..Len(x) /\ i + 1 \in 1..Len(y)
      BY <1>1, <1>4, <1>5, <2>2
    <3> QED
      BY <1>1, <1>3, <1>5, <3>1
  <2> QED
    BY <2>1, <2>2
<1>9. PutAt(x2, j, e, y2)
  BY <1>3, <1>6, <1>7, <1>8 DEF PutAt
<1> QED
  BY <1>9 DEF x2, y2

(* What was put into a sequence can be taken out of it.                    *)
LEMMA PutAndRemoved ==
  ASSUME NEW x \in Seq(Found), NEW j, NEW e, NEW y, PutAt(x, j, e, y)
  PROVE  /\ RemoveAt(y, j) = x /\ j \in 1..Len(y) /\ y[j] = e
         /\ \A k \in 1..Len(y) : k # j => \E i \in 1..Len(x) : y[k] = x[i]
<1>1. Len(x) \in Nat
  OBVIOUS
<1>2. /\ y \in Seq(Found) /\ j \in 1..(Len(x) + 1) /\ Len(y) = Len(x) + 1 /\ y[j] = e
      /\ \A i \in 1..(j - 1) : y[i] = x[i]
      /\ \A i \in j..Len(x) : y[i + 1] = x[i]
  BY DEF PutAt
<1> DEFINE a == SubSeq(y, 1, j - 1)
           b == SubSeq(y, j + 1, Len(y))
           z == a \o b
<1>3. j \in Nat /\ 1 <= j /\ j <= Len(x) + 1 /\ Len(y) \in Nat
  BY <1>1, <1>2
<1>4. a \in Seq(Found) /\ Len(a) = j - 1 /\ \A i \in 1..(j - 1) : a[i] = y[i]
  <2>1. \A i \in 1..(j - 1) : y[i] \in Found
    BY <1>1, <1>2, <1>3
  <2>2. /\ a \in Seq(Found) /\ Len(a) = IF 1 <= j - 1 THEN (j - 1) - 1 + 1 ELSE 0
        /\ \A i \in 1..((j - 1) - 1 + 1) : a[i] = y[1 + i - 1]
    BY <1>3, <2>1, SubSeqProperties
  <2> HIDE DEF a
  <2>3. (j - 1) - 1 + 1 = j - 1 /\ (~(1 <= j - 1) => j - 1 = 0) /\ \A i \in 1..(j - 1) : 1 + i - 1 = i
    BY <1>3
  <2> QED
    BY <2>2, <2>3
<1>5. b \in Seq(Found) /\ Len(b) = Len(y) - j /\ \A i \in 1..(Len(y) - j) : b[i] = y[j + i]
  <2>1. \A i \in (j + 1)..Len(y) : y[i] \in Found
    BY <1>2, <1>3
  <2>2. /\ b \in Seq(Found) /\ Len(b) = IF j + 1 <= Len(y) THEN Len(y) - (j + 1) + 1 ELSE 0
        /\ \A i \in 1..(Len(y) - (j + 1) + 1) : b[i] = y[(j + 1) + i - 1]
    BY <1>3, <2>1, SubSeqProperties
  <2> HIDE DEF b
  <2>3. /\ Len(y) - (j + 1) + 1 = Len(y) - j /\ (~(j + 1 <= Len(y)) => Len(y) - j = 0)
        /\ \A i \in 1..(Len(y) - j) : (j + 1) + i - 1 = j + i
    BY <1>2, <1>3
  <2> QED
    BY <2>2, <2>3
<1> HIDE DEF a, b
<1>6. /\ z \in Seq(Found) /\ Len(z) = (j - 1) + (Len(y) - j)
      /\ \A i \in 1..((j - 1) + (Len(y) - j)) : z[i] = IF i <= j - 1 THEN a[i] ELSE b[i - (j - 1)]
  <2>1. /\ z \in Seq(Found) /\ Len(z) = Len(a) + Len(b)
        /\ \A i \in 1..(Len(a) + Len(b)) : z[i] = IF i <= Len(a) THEN a[i] ELSE b[i - Len(a)]
    BY <1>4, <1>5, ConcatProperties
  <2>2. Len(a) = j - 1 /\ Len(b) = Len(y) - j
    BY <1>4, <1>5
  <2> HIDE DEF z
  <2> QED
    BY <2>1, <2>2
<1> HIDE DEF z
<1>7. Len(z) = Len(x)
  BY <1>1, <1>2, <1>3, <1>6
<1>8. ASSUME NEW i \in 1..Len(z) PROVE z[i] = x[i]
  <2>1. CASE i <= j - 1
    <3>1. i \in 1..(j - 1)
      BY <1>3, <2>1
    <3> QED
      BY <1>2, <1>4, <1>6, <2>1, <3>1
  <2>2. CASE ~(i <= j - 1)
    <3>1. i \in j..Len(x) /\ i - (j - 1) \in 1..(Len(y) - j) /\ j + (i - (j - 1)) = i + 1
      BY <1>1, <1>2, <1>3, <1>7, <2>2
    <3>2. z[i] = b[i - (j - 1)]
      BY <1>6, <2>2
    <3>3. z[i] = y[i + 1]
      BY <1>5, <3>1, <3>2
    <3> QED
      BY <1>2, <3>1, <3>3
  <2> QED
    BY <2>1, <2>2
<1>9. z = x
  BY <1>6, <1>7, <1>8, SeqEqual
<1>10. RemoveAt(y, j) = x
  BY <1>9 DEF RemoveAt, z, a, b
<1>11. ASSUME NEW k \in 1..Len(y), k # j PROVE \E i \in 1..Len(x) : y[k] = x[i]
  <2>1. CASE k < j
    <3>1. k \in 1..(j - 1) /\ k \in 1..Len(x)
      BY <1>1, <1>3, <2>1
    <3> QED
      BY <1>2, <3>1
  <2>2. CASE ~(k < j)
    <3>1. k - 1 \in j..Len(x) /\ (k - 1) + 1 = k /\ k - 1 \in 1..Len(x)
      BY <1>1, <1>2, <1>3, <1>11, <2>2
    <3>2. y[(k - 1) + 1] = x[k - 1]
      BY <1>2, <3>1
    <3> QED
      BY <3>1, <3>2
  <2> QED
    BY <2>1, <2>2
<1>12. j \in 1..Len(y)
  BY <1>1, <1>2
<1> QED
  BY <1>2, <1>10, <1>11, <1>12

(* The bounds of a text after an insertion.                                *)
LEMMA InsertedPlaces ==
  ASSUME NEW ts \in Seq(Tokens), NEW at, NEW w \in Seq(Tokens), NEW t2, IsInserted(ts, at, w, t2)
  PROVE  /\ t2 \in Seq(Tokens) /\ Len(ts) \in Nat /\ Len(w) \in Nat /\ Len(t2) = Len(ts) + Len(w)
         /\ at \in Nat /\ 1 <= at /\ at <= Len(ts)
<1>1. /\ t2 \in Seq(Tokens) /\ at \in 1..Len(ts) /\ Len(t2) = Len(ts) + Len(w)
  BY DEF IsInserted
<1>2. Len(ts) \in Nat /\ Len(w) \in Nat
  OBVIOUS
<1> QED
  BY <1>1, <1>2

(* Up to the insertion a reader reads the same.                            *)
LEMMA ReadsSame ==
  ASSUME NEW ts \in Seq(Tokens), NEW at, NEW w \in Seq(Tokens), NEW t2, IsInserted(ts, at, w, t2)
  PROVE  \A i \in 0..(at - 1) : Reader(t2)[i] = Reader(ts)[i]
<1> DEFINE Good == {i \in 0..(at - 1) : Reader(t2)[i] = Reader(ts)[i]}
<1>1. /\ t2 \in Seq(Tokens) /\ Len(ts) \in Nat /\ Len(w) \in Nat /\ Len(t2) = Len(ts) + Len(w)
      /\ at \in Nat /\ 1 <= at /\ at <= Len(ts) /\ at - 1 \in Nat
  <2>1. /\ t2 \in Seq(Tokens) /\ Len(ts) \in Nat /\ Len(w) \in Nat /\ Len(t2) = Len(ts) + Len(w)
        /\ at \in Nat /\ 1 <= at /\ at <= Len(ts)
    BY InsertedPlaces
  <2> QED
    BY <2>1
<1>2. 0 \in Good
  <2>1. 0 \in 0..(at - 1)
    BY <1>1
  <2> QED
    BY <1>1, <2>1, ReaderSteps
<1>3. ASSUME NEW i \in 1..(at - 1), i - 1 \in Good PROVE i \in Good
  <2>1. i \in 1..Len(ts) /\ i \in 1..Len(t2) /\ i \in 0..(at - 1)
    BY <1>1
  <2>2. Reader(t2)[i] = Reading(Reader(t2)[i - 1], t2[i]) /\ Reader(ts)[i] = Reading(Reader(ts)[i - 1], ts[i])
    BY <1>1, <2>1, ReaderSteps
  <2>3. t2[i] = ts[i]
    BY DEF IsInserted
  <2> QED
    BY <1>3, <2>1, <2>2, <2>3
<1> HIDE DEF Good
<1>4. 0..(at - 1) \subseteq Good
  BY <1>1, <1>2, <1>3, Upward
<1> QED
  BY <1>4 DEF Good

(* Two readers in the same place, of which one has found one thing more.   *)
OneMore(s, j, e, s2) == s2.open = s.open /\ s2.key = s.key /\ PutAt(s.says, j, e, s2.says)

(* Two such readers stay so when both read the same token.                 *)
LEMMA OneMoreOn ==
  ASSUME NEW s \in States, NEW j, NEW e, NEW s2 \in States, OneMore(s, j, e, s2), NEW t \in Tokens
  PROVE  OneMore(Reading(s, t), j, e, Reading(s2, t))
<1>1. s2.open = s.open /\ s2.key = s.key /\ PutAt(s.says, j, e, s2.says)
  BY DEF OneMore
<1>2. ASSUME NEW o, NEW k PROVE OneMore(State(o, k, s.says), j, e, State(o, k, s2.says))
  BY <1>1, StateIs DEF OneMore
<1>3. CASE s.key # <<>> /\ t = "{"
  <2>1. /\ Reading(s, t) = State(s.open \o s.key, <<>>, s.says)
        /\ Reading(s2, t) = State(s.open \o s.key, <<>>, s2.says)
    BY <1>1, <1>3 DEF Reading
  <2> QED
    BY <1>2, <2>1
<1>4. CASE s.key = <<>> /\ t = "}"
  <2>1. /\ Reading(s, t) = State(SubSeq(s.open, 1, Len(s.open) - 1), <<>>, s.says)
        /\ Reading(s2, t) = State(SubSeq(s.open, 1, Len(s.open) - 1), <<>>, s2.says)
    BY <1>1, <1>4 DEF Reading
  <2> QED
    BY <1>2, <2>1
<1>5. CASE s.key = <<>> /\ t # "}"
  <2>1. Reading(s, t) = State(s.open, <<t>>, s.says) /\ Reading(s2, t) = State(s.open, <<t>>, s2.says)
    BY <1>1, <1>5 DEF Reading
  <2> QED
    BY <1>2, <2>1
<1>6. CASE s.key # <<>> /\ t # "{"
  <2> DEFINE f == <<s.open \o s.key, t>>
             x == Append(s.says, f)
             y == Append(s2.says, f)
  <2>1. Reading(s, t) = State(s.open, <<>>, x) /\ Reading(s2, t) = State(s.open, <<>>, y)
    BY <1>1, <1>6 DEF Reading
  <2>2. f \in Found
    <3>1. s.open \in Seq(Tokens) /\ s.key \in {<<>>} \cup {<<k>> : k \in Tokens}
      BY DEF States
    <3>2. PICK k \in Tokens : s.key = <<k>>
      BY <1>6, <3>1
    <3>3. s.open \o s.key \in Seq(Tokens)
      BY <3>1, <3>2, PathIs
    <3> QED
      BY <3>3 DEF Found
  <2> HIDE DEF f
  <2>3. PutAt(x, j, e, y)
    BY <1>1, <2>2, PutKept DEF States
  <2> HIDE DEF x, y
  <2>4. /\ State(s.open, <<>>, x).open = s.open /\ State(s.open, <<>>, y).open = s.open
        /\ State(s.open, <<>>, x).key = <<>> /\ State(s.open, <<>>, y).key = <<>>
        /\ State(s.open, <<>>, x).says = x /\ State(s.open, <<>>, y).says = y
    BY StateIs
  <2> QED
    BY <2>1, <2>3, <2>4 DEF OneMore
<1> QED
  BY <1>3, <1>4, <1>5, <1>6

(* The text says what it said, and e once more.                            *)
SaysOneMore(ts, t2, e) ==
    \E j \in 1..Len(Says(t2)) :
      /\ Says(t2)[j] = e /\ RemoveAt(Says(t2), j) = Says(ts)
      /\ \A k \in 1..Len(Says(t2)) : k # j => \E i \in 1..Len(Says(ts)) : Says(t2)[k] = Says(ts)[i]

(* A text into which one entry was put says that, and all it said before.  *)
LEMMA ReadsInserted ==
  ASSUME NEW ts \in Seq(Tokens), NEW at, NEW w \in Seq(Tokens), NEW t2, IsInserted(ts, at, w, t2),
         NEW e \in Found, Reader(ts)[at - 1].key = <<>>,
         Reader(t2)[(at - 1) + Len(w)] =
           State(Reader(ts)[at - 1].open, <<>>, Append(Reader(ts)[at - 1].says, e))
  PROVE  SaysOneMore(ts, t2, e)
<1> DEFINE n == Len(w)
           s == Reader(ts)[at - 1]
           j == Len(s.says) + 1
           Good == {i \in 0..Len(ts) : at - 1 <= i => OneMore(Reader(ts)[i], j, e, Reader(t2)[i + n])}
<1>1. /\ t2 \in Seq(Tokens) /\ Len(ts) \in Nat /\ n \in Nat /\ Len(t2) = Len(ts) + n
      /\ at \in Nat /\ 1 <= at /\ at <= Len(ts)
  BY InsertedPlaces
<1> HIDE DEF n
<1>2. at - 1 \in 0..Len(ts) /\ Len(ts) \in 0..Len(ts) /\ at - 1 <= Len(ts)
  BY <1>1
<1>3. s \in States
  BY <1>2, ReaderSteps
<1>4. OneMore(s, j, e, Reader(t2)[(at - 1) + n])
  <2>1. PutAt(s.says, j, e, Append(s.says, e))
    BY <1>3, PutAppend DEF States
  <2> DEFINE y == Append(s.says, e)
  <2>2. Reader(t2)[(at - 1) + n] = State(s.open, <<>>, y)
    BY DEF n
  <2>3. s.key = <<>>
    OBVIOUS
  <2> HIDE DEF y, s, j
  <2>4. State(s.open, <<>>, y).open = s.open /\ State(s.open, <<>>, y).key = <<>> /\ State(s.open, <<>>, y).says = y
    BY StateIs
  <2> QED
    BY <2>1, <2>2, <2>3, <2>4 DEF OneMore, y
<1> HIDE DEF j
<1>5. 0 \in Good
  <2>1. at - 1 <= 0 => at - 1 = 0
    BY <1>1
  <2>2. 0 \in 0..Len(ts)
    BY <1>1
  <2> QED
    BY <1>4, <2>1, <2>2
<1>6. ASSUME NEW i \in 1..Len(ts), i - 1 \in Good PROVE i \in Good
  <2>1. /\ i \in 0..Len(ts) /\ i - 1 \in 0..Len(ts) /\ i + n \in 1..Len(t2) /\ (i - 1) + n \in 0..Len(t2)
        /\ (i + n) - 1 = (i - 1) + n
    BY <1>1
  <2>2. CASE at - 1 <= i - 1
    <3>1. OneMore(Reader(ts)[i - 1], j, e, Reader(t2)[(i - 1) + n])
      BY <1>6, <2>2
    <3>2. Reader(ts)[i - 1] \in States /\ Reader(t2)[(i - 1) + n] \in States
      BY <1>1, <2>1, ReaderSteps
    <3>3. Reader(ts)[i] = Reading(Reader(ts)[i - 1], ts[i])
      BY ReaderSteps
    <3>4. Reader(t2)[i + n] = Reading(Reader(t2)[(i - 1) + n], t2[i + n])
      BY <1>1, <2>1, ReaderSteps
    <3>5. t2[i + n] = ts[i] /\ ts[i] \in Tokens
      <4>1. i \in at..Len(ts)
        BY <1>1, <2>2
      <4> QED
        BY <4>1 DEF IsInserted, n
    <3> QED
      BY <2>1, <3>1, <3>2, <3>3, <3>4, <3>5, OneMoreOn
  <2>3. CASE at - 1 = i
    BY <1>4, <2>1, <2>3
  <2>4. CASE ~(at - 1 <= i)
    BY <2>1, <2>4
  <2>5. at - 1 <= i - 1 \/ at - 1 = i \/ ~(at - 1 <= i)
    BY <1>1
  <2> QED
    BY <2>2, <2>3, <2>4, <2>5
<1> HIDE DEF Good
<1>7. 0..Len(ts) \subseteq Good
  BY <1>1, <1>5, <1>6, Upward
<1>8. OneMore(Reader(ts)[Len(ts)], j, e, Reader(t2)[Len(t2)])
  BY <1>1, <1>2, <1>7 DEF Good
<1>9. PutAt(Says(ts), j, e, Says(t2)) /\ Says(ts) \in Seq(Found)
  BY <1>8, SaysAll DEF OneMore, Says
<1>10. /\ j \in 1..Len(Says(t2)) /\ Says(t2)[j] = e /\ RemoveAt(Says(t2), j) = Says(ts)
       /\ \A k \in 1..Len(Says(t2)) : k # j => \E i \in 1..Len(Says(ts)) : Says(t2)[k] = Says(ts)[i]
  BY <1>9, PutAndRemoved
<1> QED
  BY <1>10 DEF SaysOneMore

(* The words that Merge looks for and writes are tokens.                   *)
LEMMA Words ==
  /\ "GameInfo" \in Tokens /\ "GMS" \in Tokens /\ "Advertise" \in Tokens /\ "1" \in Tokens
  /\ "{" \in Tokens /\ "}" \in Tokens
  BY Zenon, LimitsAssumption

(* The two texts that Merge inserts (merge.go:182-205), token by token.    *)
LEMMA TheTexts ==
  /\ TheSetting \in Seq(Tokens) /\ Len(TheSetting) = 2
  /\ TheSetting[1] = "Advertise" /\ TheSetting[2] = "1"
  /\ TheBlock \in Seq(Tokens) /\ Len(TheBlock) = 5
  /\ TheBlock[1] = "GMS" /\ TheBlock[2] = "{" /\ TheBlock[3] = "Advertise"
  /\ TheBlock[4] = "1" /\ TheBlock[5] = "}"
  /\ Advertised \in Found
<1> DEFINE K == {"GameInfo", "GMS", "Advertise", "1", "{", "}"}
<1>0. K \subseteq Tokens
  BY Zenon, Words
<1>1. Advertised \in Found
  <2>1. <<"GameInfo", "GMS", "Advertise">> \in Seq(K) /\ "1" \in K
    OBVIOUS
  <2> HIDE DEF K
  <2>2. <<"GameInfo", "GMS", "Advertise">> \in Seq(Tokens) /\ "1" \in Tokens
    BY <1>0, <2>1, SeqMonotonic
  <2> QED
    BY <2>2 DEF Advertised, Found
<1>2. TheSetting \in Seq(Tokens) /\ TheBlock \in Seq(Tokens)
  <2>1. TheSetting \in Seq(K) /\ TheBlock \in Seq(K)
    BY DEF TheSetting, TheBlock
  <2> HIDE DEF K
  <2> QED
    BY <1>0, <2>1, SeqMonotonic
<1>3. Len(TheSetting) = 2 /\ TheSetting[1] = "Advertise" /\ TheSetting[2] = "1"
  BY DEF TheSetting
<1>4. /\ Len(TheBlock) = 5
      /\ TheBlock[1] = "GMS" /\ TheBlock[2] = "{" /\ TheBlock[3] = "Advertise"
      /\ TheBlock[4] = "1" /\ TheBlock[5] = "}"
  BY DEF TheBlock
<1> QED
  BY <1>1, <1>2, <1>3, <1>4

(* The places in them.                                                     *)
LEMMA TheLengths ==
  /\ TheSetting \in Seq(Tokens) /\ 1 \in 1..Len(TheSetting) /\ 2 \in 1..Len(TheSetting)
  /\ TheBlock \in Seq(Tokens) /\ 1 \in 1..Len(TheBlock) /\ 2 \in 1..Len(TheBlock)
  /\ 3 \in 1..Len(TheBlock) /\ 4 \in 1..Len(TheBlock) /\ 5 \in 1..Len(TheBlock)
<1>1. Len(TheSetting) = 2 /\ Len(TheBlock) = 5
  BY TheTexts
<1>2. 1 \in 1..Len(TheSetting) /\ 2 \in 1..Len(TheSetting)
  BY <1>1
<1>3. /\ 1 \in 1..Len(TheBlock) /\ 2 \in 1..Len(TheBlock)
      /\ 3 \in 1..Len(TheBlock) /\ 4 \in 1..Len(TheBlock) /\ 5 \in 1..Len(TheBlock)
  BY <1>1
<1> QED
  BY <1>2, <1>3, TheTexts

(* The tokens of an insertion, in their places.                            *)
LEMMA SettingTokens ==
  ASSUME NEW ts \in Seq(Tokens), NEW at, NEW t2, IsInserted(ts, at, TheSetting, t2)
  PROVE  /\ t2[at] = "Advertise" /\ t2[at + 1] = "1" /\ at + 1 < Len(t2)
         /\ at \in Nat /\ 1 <= at /\ at <= Len(ts) /\ Len(t2) = Len(ts) + 2 /\ t2 \in Seq(Tokens) /\ Len(t2) \in Nat
         /\ (at - 1) + Len(TheSetting) = at + 1
<1>1. /\ t2 \in Seq(Tokens) /\ Len(ts) \in Nat /\ Len(t2) = Len(ts) + 2
      /\ at \in Nat /\ 1 <= at /\ at <= Len(ts)
  BY TheTexts, InsertedPlaces
<1>2. (at - 1) + 1 = at /\ (at - 1) + 2 = at + 1 /\ at + 1 < Len(t2) /\ Len(t2) \in Nat
  BY <1>1
<1>3. t2[(at - 1) + 1] = TheSetting[1] /\ t2[(at - 1) + 2] = TheSetting[2]
  BY TheLengths DEF IsInserted
<1> QED
  BY <1>1, <1>2, <1>3, TheTexts

(* The tokens of the block GMS, in their places.                           *)
HasBlock(ts, at, t2) ==
    /\ t2[at] = "GMS" /\ t2[at + 1] = "{" /\ t2[at + 2] = "Advertise" /\ t2[at + 3] = "1"
    /\ t2[at + 4] = "}" /\ at + 4 < Len(t2)
    /\ at \in Nat /\ 1 <= at /\ at <= Len(ts) /\ Len(t2) = Len(ts) + 5
    /\ t2 \in Seq(Tokens) /\ Len(t2) \in Nat /\ (at - 1) + Len(TheBlock) = at + 4

(* They are there once the block has been inserted.                        *)
LEMMA BlockTokens ==
  ASSUME NEW ts \in Seq(Tokens), NEW at, NEW t2, IsInserted(ts, at, TheBlock, t2)
  PROVE  HasBlock(ts, at, t2)
<1>1. /\ t2 \in Seq(Tokens) /\ Len(ts) \in Nat /\ Len(t2) = Len(ts) + 5
      /\ at \in Nat /\ 1 <= at /\ at <= Len(ts)
  BY TheTexts, InsertedPlaces
<1>2. /\ (at - 1) + 1 = at /\ (at - 1) + 2 = at + 1 /\ (at - 1) + 3 = at + 2 /\ (at - 1) + 4 = at + 3
      /\ (at - 1) + 5 = at + 4 /\ at + 4 < Len(t2) /\ Len(t2) \in Nat
  BY <1>1
<1>3. /\ t2[(at - 1) + 1] = TheBlock[1] /\ t2[(at - 1) + 2] = TheBlock[2] /\ t2[(at - 1) + 3] = TheBlock[3]
      /\ t2[(at - 1) + 4] = TheBlock[4] /\ t2[(at - 1) + 5] = TheBlock[5]
  BY TheLengths DEF IsInserted
<1> QED
  BY <1>1, <1>2, <1>3, TheTexts DEF HasBlock

(* A reader in the block GMS finds the setting.                            *)
LEMMA ReadsSetting ==
  ASSUME NEW ts \in Seq(Tokens), NEW at, NEW t2, IsInserted(ts, at, TheSetting, t2),
         Reader(ts)[at - 1].key = <<>>, Reader(ts)[at - 1].open = <<"GameInfo", "GMS">>
  PROVE  Reader(t2)[(at - 1) + Len(TheSetting)] =
           State(Reader(ts)[at - 1].open, <<>>, Append(Reader(ts)[at - 1].says, Advertised))
<1>1. /\ t2[at] = "Advertise" /\ t2[at + 1] = "1" /\ at + 1 < Len(t2) /\ at \in Nat /\ 1 <= at
      /\ Len(t2) \in Nat /\ t2 \in Seq(Tokens) /\ (at - 1) + Len(TheSetting) = at + 1
  BY SettingTokens
<1>2. at < Len(t2) /\ at \in Places(t2) /\ at - 1 \in 0..(at - 1)
  <2>1. at + 1 < Len(t2) /\ at \in Nat /\ 1 <= at /\ Len(t2) \in Nat
    BY <1>1
  <2> QED
    BY <2>1 DEF Places
<1>3. Key(t2, at)
  BY <1>1, <1>2 DEF Key
<1>4. Reader(t2)[at - 1] = Reader(ts)[at - 1]
  <2>1. at - 1 \in 0..(at - 1)
    BY <1>2
  <2> QED
    BY <2>1, ReadsSame, TheLengths
<1>5. Reader(t2)[at + 1] = State(Reader(t2)[at - 1].open, <<>>,
        Append(Reader(t2)[at - 1].says, <<Reader(t2)[at - 1].open \o <<t2[at]>>, t2[at + 1]>>))
  BY <1>1, <1>2, <1>3, <1>4, ReadsNode
<1>6. <<Reader(t2)[at - 1].open \o <<t2[at]>>, t2[at + 1]>> = Advertised
  BY <1>1, <1>4, Paths DEF Advertised
<1> QED
  BY <1>1, <1>4, <1>5, <1>6

(* A reader in the block of GameInfo finds the block GMS and the setting.  *)
LEMMA ReadsTheBlock ==
  ASSUME NEW ts \in Seq(Tokens), NEW at, NEW t2, IsInserted(ts, at, TheBlock, t2),
         Reader(ts)[at - 1].key = <<>>, Reader(ts)[at - 1].open = <<"GameInfo">>
  PROVE  Reader(t2)[(at - 1) + Len(TheBlock)] =
           State(Reader(ts)[at - 1].open, <<>>, Append(Reader(ts)[at - 1].says, Advertised))
<1>1. /\ t2[at] = "GMS" /\ t2[at + 1] = "{" /\ t2[at + 2] = "Advertise" /\ t2[at + 3] = "1"
      /\ t2[at + 4] = "}" /\ at + 4 < Len(t2) /\ at \in Nat /\ 1 <= at
      /\ Len(t2) \in Nat /\ t2 \in Seq(Tokens) /\ (at - 1) + Len(TheBlock) = at + 4
  <2>1. HasBlock(ts, at, t2)
    BY BlockTokens
  <2> QED
    BY <2>1 DEF HasBlock
<1>2. /\ at < Len(t2) /\ at \in Places(t2) /\ at - 1 \in 0..(at - 1)
      /\ at + 2 < Len(t2) /\ at + 2 \in Places(t2) /\ (at + 2) - 1 = at + 1 /\ (at + 2) + 1 = at + 3
      /\ at + 4 \in 1..Len(t2) /\ (at + 4) - 1 = at + 3
  <2>1. at + 4 < Len(t2) /\ at \in Nat /\ 1 <= at /\ Len(t2) \in Nat
    BY <1>1
  <2> QED
    BY <2>1 DEF Places
<1> DEFINE y == Reader(ts)[at - 1].says
           z == Append(y, Advertised)
<1>3. Key(t2, at) /\ Key(t2, at + 2)
  BY <1>1, <1>2 DEF Key
<1>4. Reader(t2)[at - 1] = Reader(ts)[at - 1]
  <2>1. at - 1 \in 0..(at - 1)
    BY <1>2
  <2> QED
    BY <2>1, ReadsSame, TheLengths
<1>5. Reader(t2)[at + 1] = State(Reader(t2)[at - 1].open \o <<t2[at]>>, <<>>, Reader(t2)[at - 1].says)
  BY <1>1, <1>2, <1>3, <1>4, ReadsNode
<1> HIDE DEF y
<1>6. Reader(t2)[at + 1] = State(<<"GameInfo", "GMS">>, <<>>, y)
  BY <1>1, <1>4, <1>5, Paths DEF y
<1>7. Reader(t2)[at + 1].open = <<"GameInfo", "GMS">> /\ Reader(t2)[at + 1].key = <<>> /\ Reader(t2)[at + 1].says = y
  BY <1>6, StateIs
<1>8. Reader(t2)[at + 3] = State(Reader(t2)[at + 1].open, <<>>,
        Append(Reader(t2)[at + 1].says, <<Reader(t2)[at + 1].open \o <<t2[at + 2]>>, t2[at + 3]>>))
  <2> DEFINE p == at + 2
  <2>1. p \in Places(t2) /\ Key(t2, p) /\ p - 1 = at + 1 /\ p + 1 = at + 3
    BY <1>2, <1>3
  <2> HIDE DEF p
  <2>2. Reader(t2)[p - 1].key = <<>>
    BY <1>7, <2>1
  <2>3. Reader(t2)[p + 1] = IF t2[p + 1] = "{" THEN State(Reader(t2)[p - 1].open \o <<t2[p]>>, <<>>, Reader(t2)[p - 1].says)
               ELSE State(Reader(t2)[p - 1].open, <<>>, Append(Reader(t2)[p - 1].says, <<Reader(t2)[p - 1].open \o <<t2[p]>>, t2[p + 1]>>))
    BY <1>1, <2>1, <2>2, ReadsNode
  <2>4. t2[p] = "Advertise" /\ t2[p + 1] # "{"
    BY <1>1, <2>1 DEF p
  <2> QED
    BY <1>1, <2>1, <2>3, <2>4
<1>9. Reader(t2)[at + 3] = State(<<"GameInfo", "GMS">>, <<>>, z)
  <2>1. <<Reader(t2)[at + 1].open \o <<t2[at + 2]>>, t2[at + 3]>> = Advertised
    BY <1>1, <1>7, Paths DEF Advertised
  <2> QED
    BY <1>7, <1>8, <2>1
<1> HIDE DEF z
<1>10. Reader(t2)[at + 3].open = <<"GameInfo", "GMS">> /\ Reader(t2)[at + 3].key = <<>> /\ Reader(t2)[at + 3].says = z
  BY <1>9, StateIs
<1>11. Reader(t2)[at + 4] = State(SubSeq(Reader(t2)[at + 3].open, 1, Len(Reader(t2)[at + 3].open) - 1), <<>>,
                                  Reader(t2)[at + 3].says)
  <2> DEFINE p == at + 4
  <2>1. p \in 1..Len(t2) /\ t2[p] = "}" /\ p - 1 = at + 3
    BY <1>1, <1>2
  <2> HIDE DEF p
  <2>2. Reader(t2)[p - 1].key = <<>>
    BY <1>10, <2>1
  <2>3. Reader(t2)[p] = State(SubSeq(Reader(t2)[p - 1].open, 1, Len(Reader(t2)[p - 1].open) - 1), <<>>, Reader(t2)[p - 1].says)
    BY <1>1, <2>1, <2>2, ReadsClose
  <2> QED
    BY <2>1, <2>3 DEF p
<1>12. SubSeq(<<"GameInfo", "GMS">>, 1, Len(<<"GameInfo", "GMS">>) - 1) = <<"GameInfo">>
  <2> DEFINE x == <<"GameInfo", "GMS">>
  <2>1. Len(x) - 1 = 1 /\ x[1] = "GameInfo"
    BY Paths
  <2>2. \A i \in 1..1 : x[i] \in {"GameInfo"}
    BY <2>1
  <2> HIDE DEF x
  <2>3. /\ SubSeq(x, 1, 1) \in Seq({"GameInfo"}) /\ Len(SubSeq(x, 1, 1)) = IF 1 <= 1 THEN 1 - 1 + 1 ELSE 0
        /\ \A i \in 1..(1 - 1 + 1) : SubSeq(x, 1, 1)[i] = x[1 + i - 1]
    BY <2>2, SubSeqProperties
  <2>4. SubSeq(x, 1, 1) \in Seq({"GameInfo"}) /\ Len(SubSeq(x, 1, 1)) = 1 /\ SubSeq(x, 1, 1)[1] = "GameInfo"
    BY <2>1, <2>3
  <2>5. <<"GameInfo">> \in Seq({"GameInfo"}) /\ Len(<<"GameInfo">>) = 1 /\ <<"GameInfo">>[1] = "GameInfo"
    OBVIOUS
  <2>6. SubSeq(x, 1, 1) = <<"GameInfo">>
    <3>1. \A i \in 1..1 : SubSeq(x, 1, 1)[i] = <<"GameInfo">>[i]
      BY <2>4, <2>5
    <3> QED
      BY <2>4, <2>5, <3>1, SeqEqual
  <2> QED
    BY <2>1, <2>6 DEF x
<1>13. Reader(t2)[at + 4] = State(<<"GameInfo">>, <<>>, z)
  BY <1>10, <1>11, <1>12
<1> QED
  BY <1>1, <1>13 DEF z, y

----------------------------------------------------------------------------
(* What Merge answers.                                                     *)

(* What Merge does within the block GMS, and within that of GameInfo.      *)
SetsIn(text, m, merged) ==
    LET adv == With(m.children, "Advertise") IN
    \/ adv = {} /\ merged = Insert(text, m.close, TheSetting)
    \/ merged = Kept(text) /\ \E a \in adv : adv = {a} /\ IsSet(a)

Settles(text, root, merged) ==
    LET gms == With(root.children, "GMS") IN
    \/ gms = {} /\ merged = Insert(text, root.close, TheBlock)
    \/ \E m \in gms : gms = {m} /\ m.block /\ SetsIn(text, m, merged)

(* The one member of a set is the one that is chosen from it.              *)
LEMMA TheOne ==
  ASSUME NEW S, NEW x, S = {x}
  PROVE  (CHOOSE n \in S : TRUE) = x
  OBVIOUS

(* What an insertion, a text that is kept, and one that is refused answer. *)
LEMMA Answers ==
  ASSUME NEW text, NEW at, NEW w
  PROVE  /\ Insert(text, at, w).ok /\ Insert(text, at, w).changed
         /\ Kept(text).ok /\ ~Kept(text).changed /\ Kept(text).text = text
         /\ ~Refused(text).ok /\ ~Refused(text).changed /\ Refused(text).text = text
  BY DEF Insert, Kept, Refused

(* Within the block GMS Merge adds the setting, finds it, or refuses.      *)
LEMMA SetInForm ==
  ASSUME NEW text, NEW m
  PROVE  SetIn(text, m) = Refused(text) \/ SetsIn(text, m, SetIn(text, m))
  BY DEF SetIn, SetsIn

(* Within the block of GameInfo it adds a block GMS, finds one, or refuses.*)
LEMMA SettingForm ==
  ASSUME NEW text, NEW root
  PROVE  Setting(text, root) = Refused(text) \/ Settles(text, root, Setting(text, root))
<1> DEFINE gms == With(root.children, "GMS")
<1>1. CASE gms = {}
  BY <1>1 DEF Setting, Settles
<1>2. CASE gms # {} /\ \E n \in gms : gms = {n} /\ n.block
  <2>1. PICK n \in gms : gms = {n} /\ n.block
    BY <1>2
  <2>2. (CHOOSE x \in gms : TRUE) = n
    BY <2>1, TheOne
  <2>3. Setting(text, root) = SetIn(text, n)
    BY <1>2, <2>2 DEF Setting
  <2> QED
    BY <2>1, <2>3, SetInForm DEF Settles
<1>3. CASE gms # {} /\ ~\E n \in gms : gms = {n} /\ n.block
  BY <1>3 DEF Setting
<1> QED
  BY <1>1, <1>2, <1>3

(* Merge refuses a text, or has found the one block of GameInfo.           *)
LEMMA MergeForm ==
  ASSUME NEW text
  PROVE  \/ Merge(text) = Refused(text)
         \/ Lexed(text) /\ \E root : HasRoot(text, root) /\ Settles(text, root, Merge(text))
<1> DEFINE nodes == IF Lexed(text) /\ Parse(text)[1][0].ok THEN Parse(text)[1][0].nodes ELSE {}
           One   == \E n \in nodes : nodes = {n} /\ n.key = "GameInfo" /\ n.block
<1>1. CASE ~One
  BY <1>1 DEF Merge
<1>2. CASE One
  <2>1. PICK n \in nodes : nodes = {n} /\ n.key = "GameInfo" /\ n.block
    BY <1>2
  <2>2. (CHOOSE x \in nodes : TRUE) = n
    <3> HIDE DEF nodes
    <3> QED
      BY <2>1, TheOne
  <2>3. Merge(text) = Setting(text, n)
    BY <1>2, <2>2 DEF Merge
  <2>4. Lexed(text) /\ HasRoot(text, n)
    BY <2>1 DEF HasRoot
  <2> HIDE DEF nodes, One
  <2> QED
    BY <2>3, <2>4, SettingForm
<1> QED
  BY <1>1, <1>2

(* A text that has the setting is kept.                                    *)
LEMMA MergeKeeps ==
  ASSUME NEW text, NEW root, NEW m, NEW a, Lexed(text), HasRoot(text, root),
         With(root.children, "GMS") = {m}, m.block,
         With(m.children, "Advertise") = {a}, IsSet(a)
  PROVE  Merge(text) = Kept(text)
<1> DEFINE nodes == IF Lexed(text) /\ Parse(text)[1][0].ok THEN Parse(text)[1][0].nodes ELSE {}
<1>1. nodes = {root} /\ root.key = "GameInfo" /\ root.block
  BY DEF HasRoot
<1>2. (CHOOSE x \in nodes : TRUE) = root
  <2> HIDE DEF nodes
  <2> QED
    BY <1>1, TheOne
<1>3. \E n \in nodes : nodes = {n} /\ n.key = "GameInfo" /\ n.block
  <2> HIDE DEF nodes
  <2> QED
    BY <1>1
<1>4. Merge(text) = Setting(text, root)
  BY <1>2, <1>3 DEF Merge
<1>5. Setting(text, root) = SetIn(text, m)
  <2>1. (CHOOSE x \in With(root.children, "GMS") : TRUE) = m
    BY TheOne
  <2> QED
    BY <2>1 DEF Setting
<1>6. SetIn(text, m) = Kept(text)
  BY DEF SetIn
<1> QED
  BY <1>4, <1>5, <1>6

(* Where Merge inserts it, the reader finds the setting, and everything    *)
(* else as it was.                                                         *)
LEMMA FaithfulInsert ==
  ASSUME NEW text \in Seq(Tokens), NEW at \in 1..Len(text), NEW w \in Seq(Tokens),
         Merge(text) = Insert(text, at, w), Reader(text)[at - 1].key = <<>>,
         \A t2 : IsInserted(text, at, w, t2) =>
           Reader(t2)[(at - 1) + Len(w)] =
             State(Reader(text)[at - 1].open, <<>>, Append(Reader(text)[at - 1].says, Advertised)),
         \A j \in 1..Len(Says(text)) : ~AdvertisedAt(text, j)
  PROVE  Faithful(text)
<1> DEFINE t2 == Insert(text, at, w).text
<1>1. IsInserted(text, at, w, t2)
  BY Inserts
<1> HIDE DEF t2
<1>2. PICK j \in 1..Len(Says(t2)) :
        /\ Says(t2)[j] = Advertised /\ RemoveAt(Says(t2), j) = Says(text)
        /\ \A k \in 1..Len(Says(t2)) : k # j => \E i \in 1..Len(Says(text)) : Says(t2)[k] = Says(text)[i]
  <2>1. Advertised \in Found
    BY TheTexts
  <2>2. Reader(t2)[(at - 1) + Len(w)] =
          State(Reader(text)[at - 1].open, <<>>, Append(Reader(text)[at - 1].says, Advertised))
    BY <1>1
  <2>3. SaysOneMore(text, t2, Advertised)
    BY <1>1, <2>1, <2>2, ReadsInserted
  <2> QED
    BY <2>3 DEF SaysOneMore
<1>3. \A k \in 1..Len(Says(t2)) \ {j} : Says(t2)[k][1] # Advertised[1]
  BY <1>2 DEF AdvertisedAt
<1>4. Merge(text).changed /\ Merge(text).text = t2
  BY Answers DEF t2
<1> QED
  BY <1>2, <1>3, <1>4 DEF Faithful

(* A text that Merge keeps has the setting once.                           *)
LEMMA FaithfulKept ==
  ASSUME NEW text \in Seq(Tokens), NEW root, HasRoot(text, root), NEW m,
         With(root.children, "GMS") = {m}, m.block,
         NEW a, With(m.children, "Advertise") = {a}, IsSet(a), Merge(text) = Kept(text)
  PROVE  Faithful(text)
<1>1. ~a.block /\ a.value = "1" /\ m \in With(root.children, "GMS") /\ a \in With(m.children, "Advertise")
  BY DEF IsSet
<1>2. PICK j \in 1..Len(Says(text)) :
        /\ Says(text)[j] = <<Advertised[1], a.value>>
        /\ \A k : FromNode(text, <<"GameInfo", "GMS">>, a, k) => k = j
  <2>1. OneEntry(text, a)
    BY <1>1, EntryOfGMS
  <2> QED
    BY <2>1 DEF OneEntry
<1>3. Says(text)[j] = Advertised
  BY <1>1, <1>2 DEF Advertised
<1>4. \A k \in 1..Len(Says(text)) \ {j} : Says(text)[k][1] # Advertised[1]
  <2>1. SUFFICES ASSUME NEW k \in 1..Len(Says(text)), AdvertisedAt(text, k)
                 PROVE  k = j
    BY DEF AdvertisedAt
  <2>2. FromNode(text, <<"GameInfo", "GMS">>, a, k)
    BY <2>1, AdvertisedWithin
  <2> QED
    BY <2>2, <1>2
<1>5. Merge(text).text = text /\ ~Merge(text).changed
  BY Answers
<1> QED
  BY <1>3, <1>4, <1>5 DEF Faithful

(* Merge is faithful to every text.                                        *)
LEMMA FaithfulText ==
  ASSUME NEW text \in Seq(Tokens)
  PROVE  Faithful(text)
<1>1. CASE Merge(text) = Refused(text)
  BY <1>1, Answers DEF Faithful
<1>2. CASE Lexed(text) /\ \E root : HasRoot(text, root) /\ Settles(text, root, Merge(text))
  <2>1. PICK root : HasRoot(text, root) /\ Settles(text, root, Merge(text))
    BY <1>2
  <2>2. CASE With(root.children, "GMS") = {} /\ Merge(text) = Insert(text, root.close, TheBlock)
    <3>1. Entered(text, <<>>, 0, root)
      BY <2>1, InRoot
    <3> DEFINE at == root.close
    <3>2. at \in 1..Len(text) /\ Reader(text)[at - 1].key = <<>>
          /\ Reader(text)[at - 1].open = <<"GameInfo">>
      BY <2>1, <3>1, Paths DEF Entered, HasRoot
    <3>3. Merge(text) = Insert(text, at, TheBlock)
      BY <2>2
    <3> HIDE DEF at
    <3>4. \A j \in 1..Len(Says(text)) : ~AdvertisedAt(text, j)
      BY <2>1, <2>2, AdvertisedWithin
    <3>5. \A t2 : IsInserted(text, at, TheBlock, t2) =>
            Reader(t2)[(at - 1) + Len(TheBlock)] =
              State(Reader(text)[at - 1].open, <<>>, Append(Reader(text)[at - 1].says, Advertised))
      BY <3>2, ReadsTheBlock
    <3> QED
      BY <3>2, <3>3, <3>4, <3>5, TheTexts, FaithfulInsert
  <2>3. ASSUME NEW m, With(root.children, "GMS") = {m}, m.block, SetsIn(text, m, Merge(text))
        PROVE  Faithful(text)
    <3>0. m \in root.children
      BY <2>3 DEF With
    <3>1. Entered(text, <<"GameInfo">>, 1, m) /\ m.key = "GMS"
      BY <2>1, <2>3, <3>0, EntersGMS DEF With
    <3>2. CASE With(m.children, "Advertise") = {} /\ Merge(text) = Insert(text, m.close, TheSetting)
      <4> DEFINE at == m.close
      <4>2. at \in 1..Len(text) /\ Reader(text)[at - 1].key = <<>>
            /\ Reader(text)[at - 1].open = <<"GameInfo", "GMS">>
        BY <3>1, Paths DEF Entered
      <4>3. Merge(text) = Insert(text, at, TheSetting)
        BY <3>2
      <4> HIDE DEF at
      <4>4. \A j \in 1..Len(Says(text)) : ~AdvertisedAt(text, j)
        BY <2>1, <2>3, <3>2, AdvertisedWithin
      <4>5. \A t2 : IsInserted(text, at, TheSetting, t2) =>
              Reader(t2)[(at - 1) + Len(TheSetting)] =
                State(Reader(text)[at - 1].open, <<>>, Append(Reader(text)[at - 1].says, Advertised))
        BY <4>2, ReadsSetting
      <4> QED
        BY <4>2, <4>3, <4>4, <4>5, TheTexts, FaithfulInsert
    <3>3. ASSUME Merge(text) = Kept(text), NEW a, With(m.children, "Advertise") = {a}, IsSet(a)
          PROVE  Faithful(text)
      BY <2>1, <2>3, <3>3, FaithfulKept
    <3> QED
      BY <2>3, <3>2, <3>3 DEF SetsIn
  <2> QED
    BY <2>1, <2>2, <2>3 DEF Settles
<1> QED
  BY <1>1, <1>2, MergeForm

----------------------------------------------------------------------------
(* A text is parsed as before around an insertion.                         *)

(* The tokens before an insertion are where they were.                     *)
Same(ts, t2, pos) ==
    /\ pos \in Places(t2) /\ t2[pos] = ts[pos] /\ t2[pos + 1] = ts[pos + 1]
    /\ Key(t2, pos) <=> Key(ts, pos)

(* So a key there is one still.                                            *)
LEMMA TokensKept ==
  ASSUME NEW ts \in Seq(Tokens), NEW at, NEW w \in Seq(Tokens), NEW t2, IsInserted(ts, at, w, t2),
         NEW pos \in Places(ts), pos + 2 <= at
  PROVE  Same(ts, t2, pos)
<1>1. /\ t2 \in Seq(Tokens) /\ Len(ts) \in Nat /\ Len(w) \in Nat /\ Len(t2) = Len(ts) + Len(w)
      /\ at \in Nat /\ 1 <= at /\ at <= Len(ts)
  BY InsertedPlaces
<1>2. pos \in Nat /\ 1 <= pos
  BY PlaceTypes
<1>3. /\ pos \in 1..(at - 1) /\ pos + 1 \in 1..(at - 1) /\ pos < Len(ts) /\ pos < Len(t2)
      /\ pos \in 1..(Len(t2) + 1)
  BY <1>1, <1>2
<1>4. t2[pos] = ts[pos] /\ t2[pos + 1] = ts[pos + 1]
  BY <1>3 DEF IsInserted
<1> QED
  BY <1>3, <1>4 DEF Same, Key, Places

(* Those behind it have moved by its length.                               *)
MovedTokens(ts, t2, pos, n) ==
    /\ pos + n \in Places(t2) /\ (pos + n) + 2 = (pos + 2) + n /\ (pos + n) + 1 = (pos + 1) + n
    /\ Key(ts, pos) => Key(t2, pos + n) /\ t2[(pos + n) + 1] = ts[pos + 1]
    /\ pos <= Len(ts) => pos + n <= Len(t2) /\ t2[pos + n] = ts[pos]
    /\ pos = Len(ts) + 1 => pos + n = Len(t2) + 1

(* They are the same tokens.                                               *)
LEMMA TokensMoved ==
  ASSUME NEW ts \in Seq(Tokens), NEW at, NEW w \in Seq(Tokens), NEW t2, IsInserted(ts, at, w, t2),
         NEW pos \in Places(ts), at <= pos
  PROVE  MovedTokens(ts, t2, pos, Len(w))
<1> DEFINE n == Len(w)
<1>1. /\ t2 \in Seq(Tokens) /\ Len(ts) \in Nat /\ n \in Nat /\ Len(t2) = Len(ts) + n
      /\ at \in Nat /\ 1 <= at /\ at <= Len(ts)
  BY InsertedPlaces
<1>0. \A i \in at..Len(ts) : t2[i + n] = ts[i]
  BY DEF IsInserted
<1> HIDE DEF n
<1>2. pos \in Nat /\ 1 <= pos /\ pos <= Len(ts) + 1
  BY PlaceTypes
<1>3. /\ pos + n \in 1..(Len(t2) + 1) /\ (pos + n) + 2 = (pos + 2) + n /\ (pos + n) + 1 = (pos + 1) + n
      /\ pos <= Len(ts) => pos \in at..Len(ts) /\ pos + n <= Len(t2)
      /\ pos < Len(ts) => pos + n < Len(t2) /\ pos \in at..Len(ts) /\ pos + 1 \in at..Len(ts)
      /\ pos = Len(ts) + 1 => pos + n = Len(t2) + 1
  BY <1>1, <1>2
<1>4. pos < Len(ts) => t2[pos + n] = ts[pos] /\ t2[(pos + n) + 1] = ts[pos + 1]
  BY <1>0, <1>3
<1>5. pos <= Len(ts) => t2[pos + n] = ts[pos]
  BY <1>0, <1>3
<1>6. Key(ts, pos) => Key(t2, pos + n) /\ t2[(pos + n) + 1] = ts[pos + 1]
  BY <1>3, <1>4 DEF Key
<1> QED
  BY <1>3, <1>5, <1>6 DEF MovedTokens, Places, n

(* A list behind an insertion is read as before, with nodes of its keys.   *)
Moved(ts, t2, pos, d, n) ==
    LET a == Parse(ts)[pos][d]
        b == Parse(t2)[pos + n][d]
    IN  b.ok /\ b.next = a.next + n /\ \A x \in b.nodes : \E y \in a.nodes : y.key = x.key

(* By induction over the lists.                                            *)
LEMMA ListsMoved ==
  ASSUME NEW ts \in Seq(Tokens), NEW at, NEW w \in Seq(Tokens), NEW t2, IsInserted(ts, at, w, t2)
  PROVE  \A pos \in Places(ts), d \in 0..MaxDepth :
           at <= pos /\ Parse(ts)[pos][d].ok => Moved(ts, t2, pos, d, Len(w))
<1> DEFINE n == Len(w)
           S == {l \in Places(ts) \X (0..MaxDepth) : at <= l[1] => Moved(ts, t2, l[1], l[2], n)}
           N == Parse(ts)
           M == Parse(t2)
<1>0. /\ t2 \in Seq(Tokens) /\ Len(ts) \in Nat /\ n \in Nat /\ Len(t2) = Len(ts) + n
      /\ at \in Nat /\ 1 <= at /\ at <= Len(ts)
  BY InsertedPlaces
<1>1. ASSUME NEW pos \in Places(ts), NEW d \in 0..MaxDepth, N[pos][d].ok, Passes(ts, S, pos, d), at <= pos
      PROVE  Moved(ts, t2, pos, d, n)
  <2> DEFINE p == pos + n
  <2>1. /\ p \in Places(t2) /\ p + 2 = (pos + 2) + n /\ p + 1 = (pos + 1) + n
        /\ Key(ts, pos) => Key(t2, p) /\ t2[p + 1] = ts[pos + 1]
        /\ pos <= Len(ts) => p <= Len(t2) /\ t2[p] = ts[pos]
        /\ pos = Len(ts) + 1 => p = Len(t2) + 1
    <3>1. MovedTokens(ts, t2, pos, n)
      BY <1>1, TokensMoved
    <3> HIDE DEF n
    <3> QED
      BY <3>1 DEF MovedTokens
  <2>2. pos \in Nat /\ 1 <= pos /\ pos <= Len(ts) + 1 /\ d + 1 \in 0..(MaxDepth + 1)
    BY PlaceTypes
  <2>3. Key(ts, pos) => t2[p] = ts[pos] /\ pos + 2 \in Places(ts) /\ at <= pos + 2
    <3>1. Key(ts, pos) => pos < Len(ts)
      BY DEF Key
    <3>2. (pos < Len(ts) => pos <= Len(ts)) /\ at <= pos + 2
      BY <1>0, <1>1, <2>2
    <3> QED
      BY <2>1, <3>1, <3>2, ListBounds
  <2> HIDE DEF p, n
  <2>4. CASE IsEnd(ts, pos, d)
    <3>1. IsEnd(t2, p, d)
      BY <2>1, <2>4 DEF IsEnd
    <3>2. N[pos][d].next = pos
      BY <2>4, ListParts
    <3>3. M[p][d].ok /\ M[p][d].nodes = {} /\ M[p][d].next = p
      BY <1>0, <2>1, <3>1, ListParts
    <3> QED
      BY <3>2, <3>3 DEF Moved, p
  <2>5. CASE IsClose(ts, pos, d)
    <3>1. IsClose(t2, p, d)
      BY <2>1, <2>5 DEF IsClose
    <3>2. N[pos][d].next = pos + 1
      BY <2>5, ListParts
    <3>3. M[p][d].ok /\ M[p][d].nodes = {} /\ M[p][d].next = (pos + 1) + n
      BY <1>0, <2>1, <3>1, ListParts
    <3> QED
      BY <3>2, <3>3 DEF Moved, p
  <2>6. CASE IsValue(ts, pos, d)
    <3>1. Key(ts, pos) /\ ts[pos + 1] \notin {"}", "{"} /\ N[pos + 2][d].ok
      BY <2>6 DEF IsValue
    <3>2. Moved(ts, t2, pos + 2, d, n)
      BY <1>1, <2>3, <2>6, <3>1 DEF Passes
    <3>3. M[p + 2][d].ok /\ M[p + 2][d].next = N[pos + 2][d].next + n
          /\ \A x \in M[p + 2][d].nodes : \E y \in N[pos + 2][d].nodes : y.key = x.key
      BY <2>1, <3>2 DEF Moved
    <3>4. IsValue(t2, p, d)
      BY <2>1, <3>1, <3>3 DEF IsValue
    <3>5. M[p][d].ok /\ M[p][d].nodes = {ValueAt(t2, p)} \cup M[p + 2][d].nodes /\ M[p][d].next = M[p + 2][d].next
      BY <1>0, <2>1, <3>4, ListParts
    <3>6. N[pos][d].nodes = {ValueAt(ts, pos)} \cup N[pos + 2][d].nodes /\ N[pos][d].next = N[pos + 2][d].next
      BY <2>6, ListParts
    <3>7. ValueAt(t2, p).key = ValueAt(ts, pos).key
      BY <2>3, <3>1 DEF ValueAt, Value
    <3>8. \A x \in M[p][d].nodes : \E y \in N[pos][d].nodes : y.key = x.key
      BY <3>3, <3>5, <3>6, <3>7
    <3> QED
      BY <3>3, <3>5, <3>6, <3>8 DEF Moved, p
  <2>7. CASE IsBlock(ts, pos, d)
    <3> DEFINE e == d + 1
               next == N[pos + 2][e].next
    <3>1. Key(ts, pos) /\ ts[pos + 1] = "{" /\ N[pos + 2][e].ok /\ N[next][d].ok
      BY <2>7 DEF IsBlock
    <3>2. e \in 0..MaxDepth /\ next \in Places(ts) /\ next \in (pos + 1)..(Len(ts) + 1)
      BY <2>7, ListBounds
    <3>3. at <= next
      <4> HIDE DEF next
      <4> QED
        BY <1>0, <1>1, <2>2, <3>2
    <3>4. Moved(ts, t2, pos + 2, e, n) /\ Moved(ts, t2, next, d, n)
      BY <1>1, <2>3, <2>7, <3>1, <3>2, <3>3 DEF Passes
    <3> HIDE DEF e
    <3>5. M[p + 2][e].ok /\ M[p + 2][e].next = next + n
      BY <2>1, <3>4 DEF Moved
    <3> HIDE DEF next
    <3>6. M[next + n][d].ok /\ M[next + n][d].next = N[next][d].next + n
          /\ \A x \in M[next + n][d].nodes : \E y \in N[next][d].nodes : y.key = x.key
      BY <3>4 DEF Moved
    <3>7. IsBlock(t2, p, d)
      BY <2>1, <3>1, <3>5, <3>6 DEF IsBlock, e
    <3>8. M[p][d].ok /\ M[p][d].nodes = {BlockAt(t2, p, d)} \cup M[next + n][d].nodes
          /\ M[p][d].next = M[next + n][d].next
      BY <1>0, <2>1, <3>5, <3>7, ListParts DEF e
    <3>9. N[pos][d].nodes = {BlockAt(ts, pos, d)} \cup N[next][d].nodes /\ N[pos][d].next = N[next][d].next
      BY <2>7, ListParts DEF e, next
    <3>10. BlockAt(t2, p, d).key = BlockAt(ts, pos, d).key
      BY <2>3, <3>1 DEF BlockAt, Block
    <3>11. \A x \in M[p][d].nodes : \E y \in N[pos][d].nodes : y.key = x.key
      BY <3>6, <3>8, <3>9, <3>10
    <3> QED
      BY <3>6, <3>8, <3>9, <3>11 DEF Moved, p
  <2> QED
    BY <1>1, <2>4, <2>5, <2>6, <2>7, Lists
<1>2. \A pos \in Places(ts), d \in 0..MaxDepth : N[pos][d].ok /\ Passes(ts, S, pos, d) => <<pos, d>> \in S
  BY <1>1
<1> HIDE DEF S
<1>3. \A pos \in Places(ts), d \in 0..MaxDepth : N[pos][d].ok => <<pos, d>> \in S
  BY <1>2, ListInduction
<1> QED
  BY <1>3 DEF S

(* A list that ends before an insertion is read as before.                 *)
KeepsLists(ts, at, t2) ==
    \A pos \in Places(ts), d \in 0..MaxDepth :
      Parse(ts)[pos][d].ok /\ Parse(ts)[pos][d].next <= at => Parse(t2)[pos][d] = Parse(ts)[pos][d]

(* By induction over the lists.                                            *)
LEMMA ListsKept ==
  ASSUME NEW ts \in Seq(Tokens), NEW at, NEW w \in Seq(Tokens), NEW t2, IsInserted(ts, at, w, t2)
  PROVE  KeepsLists(ts, at, t2)
<1> DEFINE S == {l \in Places(ts) \X (0..MaxDepth) :
                   Parse(ts)[l[1]][l[2]].next <= at => Parse(t2)[l[1]][l[2]] = Parse(ts)[l[1]][l[2]]}
           N == Parse(ts)
           M == Parse(t2)
<1>0. /\ t2 \in Seq(Tokens) /\ Len(ts) \in Nat /\ Len(t2) \in Nat /\ at \in Nat /\ 1 <= at /\ at <= Len(ts)
      /\ at <= Len(t2)
  <2>1. /\ t2 \in Seq(Tokens) /\ Len(ts) \in Nat /\ Len(w) \in Nat /\ Len(t2) = Len(ts) + Len(w)
        /\ at \in Nat /\ 1 <= at /\ at <= Len(ts)
    BY InsertedPlaces
  <2> QED
    BY <2>1
<1>1. ASSUME NEW pos \in Places(ts), NEW d \in 0..MaxDepth, N[pos][d].ok, Passes(ts, S, pos, d),
             N[pos][d].next <= at
      PROVE  M[pos][d] = N[pos][d]
  <2>2. pos \in Nat /\ 1 <= pos /\ pos <= Len(ts) + 1
    BY PlaceTypes
  <2>4. ~IsEnd(ts, pos, d)
    <3>1. IsEnd(ts, pos, d) => pos = Len(ts) + 1 /\ N[pos][d].next = pos
      BY ListParts DEF IsEnd
    <3> QED
      BY <1>0, <1>1, <3>1
  <2>5. CASE IsClose(ts, pos, d)
    <3>1. N[pos][d] = Parsed({}, pos, pos + 1) /\ N[pos][d].next = pos + 1
      <4>1. N[pos][d] = Parsed({}, pos, pos + 1)
        BY <2>5, Lists
      <4> QED
        BY <4>1 DEF Parsed
    <3>2. pos \in 1..(at - 1) /\ pos <= Len(t2) /\ pos \in 1..(Len(t2) + 1)
      BY <1>0, <1>1, <2>2, <3>1
    <3>3. t2[pos] = ts[pos]
      BY <3>2 DEF IsInserted
    <3>4. IsClose(t2, pos, d) /\ pos \in Places(t2)
      BY <2>5, <3>2, <3>3 DEF IsClose, Places
    <3> QED
      BY <1>0, <3>1, <3>4, Lists
  <2>6. CASE IsValue(ts, pos, d)
    <3> DEFINE q == pos + 2
    <3>1. Key(ts, pos) /\ ts[pos + 1] \notin {"}", "{"} /\ N[q][d].ok
      BY <2>6 DEF IsValue
    <3>2. N[pos][d] = Parsed({ValueAt(ts, pos)} \cup N[q][d].nodes, N[q][d].close, N[q][d].next)
          /\ N[pos][d].next = N[q][d].next
      <4>1. N[pos][d] = Parsed({ValueAt(ts, pos)} \cup N[q][d].nodes, N[q][d].close, N[q][d].next)
        BY <2>6, Lists
      <4> QED
        BY <4>1 DEF Parsed
    <3>3. q \in Places(ts)
      BY <3>1, ListBounds
    <3>4. M[q][d] = N[q][d]
      BY <1>1, <2>6, <3>2 DEF Passes
    <3>5. N[q][d].next \in q..(Len(ts) + 1)
      BY <3>1, <3>3, ListBounds
    <3>6. pos + 2 <= at
      BY <1>0, <1>1, <2>2, <3>2, <3>5
    <3>7. Same(ts, t2, pos)
      BY <3>6, TokensKept
    <3>8. IsValue(t2, pos, d) /\ pos \in Places(t2) /\ ValueAt(t2, pos) = ValueAt(ts, pos)
      BY <3>1, <3>4, <3>7 DEF IsValue, Same, ValueAt
    <3>9. M[pos][d] = Parsed({ValueAt(t2, pos)} \cup M[q][d].nodes, M[q][d].close, M[q][d].next)
      BY <1>0, <3>8, Lists
    <3> QED
      BY <3>2, <3>4, <3>8, <3>9
  <2>7. CASE IsBlock(ts, pos, d)
    <3> DEFINE q == pos + 2
               e == d + 1
               next == N[q][e].next
    <3>1. Key(ts, pos) /\ ts[pos + 1] = "{" /\ N[q][e].ok /\ N[next][d].ok
      BY <2>7 DEF IsBlock
    <3>2. N[pos][d] = Parsed({BlockAt(ts, pos, d)} \cup N[next][d].nodes, N[next][d].close, N[next][d].next)
          /\ N[pos][d].next = N[next][d].next
      <4>1. N[pos][d] = Parsed({BlockAt(ts, pos, d)} \cup N[next][d].nodes, N[next][d].close, N[next][d].next)
        BY <2>7, Lists
      <4> QED
        BY <4>1 DEF Parsed
    <3>3. e \in 0..MaxDepth /\ next \in Places(ts) /\ next \in q..(Len(ts) + 1)
      BY <2>7, ListBounds
    <3>4. N[next][d].next \in next..(Len(ts) + 1)
      BY <3>1, <3>3, ListBounds
    <3> HIDE DEF next
    <3>5. next <= at /\ pos + 2 <= at
      BY <1>0, <1>1, <2>2, <3>2, <3>3, <3>4
    <3>6. M[q][e] = N[q][e] /\ M[next][d] = N[next][d]
      BY <1>1, <2>7, <3>2, <3>5 DEF Passes, next
    <3>7. Same(ts, t2, pos)
      BY <3>5, TokensKept
    <3>8. IsBlock(t2, pos, d) /\ pos \in Places(t2) /\ BlockAt(t2, pos, d) = BlockAt(ts, pos, d)
      BY <3>1, <3>6, <3>7 DEF IsBlock, Same, BlockAt, next
    <3>9. M[pos][d] = Parsed({BlockAt(t2, pos, d)} \cup M[next][d].nodes, M[next][d].close, M[next][d].next)
      <4>1. t2 \in Seq(Tokens) /\ IsBlock(t2, pos, d) /\ pos \in Places(t2)
        BY <1>0, <3>8
      <4>2. M[pos][d] = Parsed({BlockAt(t2, pos, d)} \cup M[M[q][e].next][d].nodes, M[M[q][e].next][d].close,
                               M[M[q][e].next][d].next)
        BY <4>1, Lists
      <4>3. M[q][e].next = next
        BY <3>6 DEF next
      <4> QED
        BY <4>2, <4>3
    <3> QED
      BY <3>2, <3>6, <3>8, <3>9
  <2> QED
    BY <1>1, <2>4, <2>5, <2>6, <2>7, Lists
<1>2. \A pos \in Places(ts), d \in 0..MaxDepth : N[pos][d].ok /\ Passes(ts, S, pos, d) => <<pos, d>> \in S
  BY <1>1
<1> HIDE DEF S
<1>3. \A pos \in Places(ts), d \in 0..MaxDepth : N[pos][d].ok => <<pos, d>> \in S
  BY <1>2, ListInduction
<1> QED
  BY <1>3 DEF S, KeepsLists

(* A list with nodes that were inserted at its end.                        *)
Grown(ts, t2, pos, d, new, n) ==
    LET a == Parse(ts)[pos][d]
        b == Parse(t2)[pos][d]
    IN  b.ok /\ b.nodes = a.nodes \cup new /\ b.next = a.next + n

(* By induction over the lists before the one that is added to.            *)
LEMMA ListsGrown ==
  ASSUME NEW ts \in Seq(Tokens), NEW at, NEW w \in Seq(Tokens), NEW t2, IsInserted(ts, at, w, t2),
         NEW depth \in 0..MaxDepth, depth # 0, NEW new,
         Parse(t2)[at][depth].ok, Parse(t2)[at][depth].nodes = new,
         Parse(t2)[at][depth].next = (at + 1) + Len(w)
  PROVE  \A pos \in Places(ts) :
           Parse(ts)[pos][depth].ok /\ Parse(ts)[pos][depth].close = at => Grown(ts, t2, pos, depth, new, Len(w))
<1> DEFINE n == Len(w)
           S == {l \in Places(ts) \X (0..MaxDepth) :
                   l[2] = depth /\ Parse(ts)[l[1]][l[2]].close = at => Grown(ts, t2, l[1], l[2], new, n)}
           N == Parse(ts)
           M == Parse(t2)
<1>0. /\ t2 \in Seq(Tokens) /\ Len(ts) \in Nat /\ Len(t2) \in Nat /\ at \in Nat /\ 1 <= at /\ at <= Len(ts)
      /\ at <= Len(t2)
  <2>1. /\ t2 \in Seq(Tokens) /\ Len(ts) \in Nat /\ Len(w) \in Nat /\ Len(t2) = Len(ts) + Len(w)
        /\ at \in Nat /\ 1 <= at /\ at <= Len(ts)
    BY InsertedPlaces
  <2> QED
    BY <2>1
<1> HIDE DEF n
<1>kept. \A pos \in Places(ts), d \in 0..MaxDepth : N[pos][d].ok /\ N[pos][d].next <= at => M[pos][d] = N[pos][d]
  <2>1. KeepsLists(ts, at, t2)
    BY ListsKept
  <2> QED
    BY <2>1 DEF KeepsLists
<1>1. ASSUME NEW pos \in Places(ts), NEW d \in 0..MaxDepth, N[pos][d].ok, Passes(ts, S, pos, d),
             d = depth, N[pos][d].close = at
      PROVE  Grown(ts, t2, pos, d, new, n)
  <2>2. pos \in Nat /\ 1 <= pos /\ pos <= Len(ts) + 1
    BY PlaceTypes
  <2>4. ~IsEnd(ts, pos, d)
    BY <1>1 DEF IsEnd
  <2>5. CASE IsClose(ts, pos, d)
    <3>1. N[pos][d].nodes = {} /\ N[pos][d].close = pos /\ N[pos][d].next = pos + 1
      BY <2>5, ListParts
    <3> QED
      BY <1>1, <3>1 DEF Grown, n
  <2>6. CASE IsValue(ts, pos, d)
    <3> DEFINE q == pos + 2
    <3>1. Key(ts, pos) /\ ts[pos + 1] \notin {"}", "{"} /\ N[q][d].ok
      BY <2>6 DEF IsValue
    <3>2. N[pos][d].nodes = {ValueAt(ts, pos)} \cup N[q][d].nodes /\ N[pos][d].close = N[q][d].close
          /\ N[pos][d].next = N[q][d].next
      BY <2>6, ListParts
    <3>3. q \in Places(ts)
      BY <3>1, ListBounds
    <3>4. Grown(ts, t2, q, d, new, n)
      BY <1>1, <2>6, <3>2 DEF Passes
    <3>5. pos + 2 <= at
      <4>1. EndsWell(ts, q, d)
        BY <3>1, <3>3, Shape DEF Shaped
      <4>2. at \in q..Len(ts)
        BY <1>1, <3>2, <4>1 DEF EndsWell
      <4> QED
        BY <1>0, <2>2, <4>2
    <3>7. Same(ts, t2, pos)
      BY <3>5, TokensKept
    <3>8. IsValue(t2, pos, d) /\ pos \in Places(t2) /\ ValueAt(t2, pos) = ValueAt(ts, pos)
      BY <3>1, <3>4, <3>7 DEF IsValue, Same, ValueAt, Grown
    <3>9. M[pos][d].ok /\ M[pos][d].nodes = {ValueAt(t2, pos)} \cup M[q][d].nodes /\ M[pos][d].next = M[q][d].next
      BY <1>0, <3>8, ListParts
    <3>10. M[q][d].nodes = N[q][d].nodes \cup new /\ M[q][d].next = N[q][d].next + n
      BY <3>4 DEF Grown
    <3>11. M[pos][d].nodes = N[pos][d].nodes \cup new
      BY <3>2, <3>8, <3>9, <3>10
    <3> QED
      BY <3>2, <3>9, <3>10, <3>11 DEF Grown
  <2>7. CASE IsBlock(ts, pos, d)
    <3> DEFINE q == pos + 2
               e == d + 1
               next == N[q][e].next
    <3>1. Key(ts, pos) /\ ts[pos + 1] = "{" /\ N[q][e].ok /\ N[next][d].ok
      BY <2>7 DEF IsBlock
    <3>2. N[pos][d].nodes = {BlockAt(ts, pos, d)} \cup N[next][d].nodes /\ N[pos][d].close = N[next][d].close
          /\ N[pos][d].next = N[next][d].next
      BY <2>7, ListParts
    <3>3. e \in 0..MaxDepth /\ q \in Places(ts) /\ next \in Places(ts) /\ next \in q..(Len(ts) + 1)
      BY <2>7, <3>1, ListBounds
    <3> HIDE DEF next
    <3>5. next <= at /\ pos + 2 <= at
      <4>1. EndsWell(ts, next, d)
        BY <3>1, <3>3, Shape DEF Shaped
      <4>2. at \in next..Len(ts)
        BY <1>1, <3>2, <4>1 DEF EndsWell
      <4> QED
        BY <1>0, <2>2, <3>3, <4>2
    <3>6. M[q][e] = N[q][e]
      <4>1. N[q][e].next <= at
        BY <3>5 DEF next
      <4>2. N[q][e].ok
        BY <3>1
      <4> HIDE DEF q, e
      <4> QED
        BY <1>kept, <3>3, <4>1, <4>2
    <3>7. Grown(ts, t2, next, d, new, n)
      BY <1>1, <2>7, <3>2 DEF Passes, next
    <3>8. Same(ts, t2, pos)
      BY <3>5, TokensKept
    <3>9. M[next][d].ok /\ M[next][d].nodes = N[next][d].nodes \cup new /\ M[next][d].next = N[next][d].next + n
      BY <3>7 DEF Grown
    <3>10. M[q][e].ok /\ M[q][e].next = next
      BY <3>1, <3>6 DEF next
    <3>11. IsBlock(t2, pos, d) /\ pos \in Places(t2) /\ BlockAt(t2, pos, d) = BlockAt(ts, pos, d)
      BY <3>1, <3>6, <3>8, <3>9, <3>10 DEF IsBlock, Same, BlockAt
    <3>12. M[pos][d].ok /\ M[pos][d].nodes = {BlockAt(t2, pos, d)} \cup M[next][d].nodes
           /\ M[pos][d].next = M[next][d].next
      BY <1>0, <3>10, <3>11, ListParts
    <3>13. M[pos][d].nodes = N[pos][d].nodes \cup new
      BY <3>2, <3>9, <3>11, <3>12
    <3> QED
      BY <3>2, <3>9, <3>12, <3>13 DEF Grown
  <2> QED
    BY <1>1, <2>4, <2>5, <2>6, <2>7, Lists
<1>2. \A pos \in Places(ts), d \in 0..MaxDepth : N[pos][d].ok /\ Passes(ts, S, pos, d) => <<pos, d>> \in S
  BY <1>1
<1> HIDE DEF S
<1>3. \A pos \in Places(ts), d \in 0..MaxDepth : N[pos][d].ok => <<pos, d>> \in S
  BY <1>2, ListInduction
<1> QED
  BY <1>3 DEF S, n

(* A list with the block m after nodes were inserted at its end.           *)
Filled(ts, t2, pos, d, m, new, n) ==
    LET a == Parse(ts)[pos][d]
        b == Parse(t2)[pos][d]
    IN  /\ b.ok /\ b.next = a.next + n
        /\ \E m2 \in b.nodes :
             /\ m2.key = m.key /\ m2.block /\ m2.children = m.children \cup new
             /\ \A x \in b.nodes : x = m2 \/ \E y \in a.nodes : y # m /\ y.key = x.key

(* By induction over the lists with the block.                             *)
LEMMA ListsFilled ==
  ASSUME NEW ts \in Seq(Tokens), NEW at, NEW w \in Seq(Tokens), NEW t2, IsInserted(ts, at, w, t2),
         NEW depth \in 0..MaxDepth, depth + 1 \in 0..MaxDepth, NEW new,
         Parse(t2)[at][depth + 1].ok, Parse(t2)[at][depth + 1].nodes = new,
         Parse(t2)[at][depth + 1].next = (at + 1) + Len(w),
         NEW m, m.block, m.close = at
  PROVE  \A pos \in Places(ts) :
           Parse(ts)[pos][depth].ok /\ m \in Parse(ts)[pos][depth].nodes =>
             Filled(ts, t2, pos, depth, m, new, Len(w))
<1> DEFINE n == Len(w)
           inside == depth + 1
           S == {l \in Places(ts) \X (0..MaxDepth) :
                   l[2] = depth /\ m \in Parse(ts)[l[1]][l[2]].nodes => Filled(ts, t2, l[1], l[2], m, new, n)}
           N == Parse(ts)
           M == Parse(t2)
<1>0. /\ t2 \in Seq(Tokens) /\ Len(ts) \in Nat /\ Len(t2) \in Nat /\ at \in Nat /\ 1 <= at /\ at <= Len(ts)
      /\ at <= Len(t2) /\ n \in Nat
  <2>1. /\ t2 \in Seq(Tokens) /\ Len(ts) \in Nat /\ Len(w) \in Nat /\ Len(t2) = Len(ts) + Len(w)
        /\ at \in Nat /\ 1 <= at /\ at <= Len(ts)
    BY InsertedPlaces
  <2> QED
    BY <2>1
<1>kept. \A pos \in Places(ts), d \in 0..MaxDepth : N[pos][d].ok /\ N[pos][d].next <= at => M[pos][d] = N[pos][d]
  <2>1. KeepsLists(ts, at, t2)
    BY ListsKept
  <2> QED
    BY <2>1 DEF KeepsLists
<1>moved. \A pos \in Places(ts), d \in 0..MaxDepth : at <= pos /\ N[pos][d].ok => Moved(ts, t2, pos, d, n)
  BY ListsMoved
<1>inside. inside \in 0..MaxDepth /\ inside # 0
  BY ListBounds, PlaceTypes
<1>grown. \A pos \in Places(ts) :
            N[pos][inside].ok /\ N[pos][inside].close = at => Grown(ts, t2, pos, inside, new, n)
  <2> HIDE DEF inside
  <2>1. M[at][inside].ok /\ M[at][inside].nodes = new /\ M[at][inside].next = (at + 1) + n
    BY DEF inside
  <2> QED
    BY <1>inside, <2>1, ListsGrown
<1>place. ASSUME NEW q \in Places(ts), N[q][depth].ok, m \in N[q][depth].nodes
          PROVE  m.at \in Nat /\ q <= m.at /\ m.at + 2 <= at
  <2>1. Within(ts, q, depth, m)
    BY <1>place, Shape DEF Shaped
  <2>2. m.at \in Places(ts) /\ q <= m.at /\ IsBlock(ts, m.at, depth) /\ m = BlockAt(ts, m.at, depth)
    BY <2>1 DEF Within, ValueAt, Value
  <2>3. Closes(ts, m.at, depth)
    BY <2>2, BlockEnds
  <2>4. m.close = N[m.at + 2][depth + 1].close
    BY <2>2 DEF BlockAt, Block
  <2>5. at \in (m.at + 2)..Len(ts)
    BY <2>3, <2>4 DEF Closes
  <2>6. m.at \in Nat
    BY <2>2, PlaceTypes
  <2> QED
    BY <1>0, <2>2, <2>5, <2>6
<1> HIDE DEF n
<1>1. ASSUME NEW pos \in Places(ts), NEW d \in 0..MaxDepth, N[pos][d].ok, Passes(ts, S, pos, d),
             d = depth, m \in N[pos][d].nodes
      PROVE  Filled(ts, t2, pos, d, m, new, n)
  <2>2. pos \in Nat /\ 1 <= pos /\ pos <= Len(ts) + 1
    BY PlaceTypes
  <2>4. ~IsEnd(ts, pos, d) /\ ~IsClose(ts, pos, d)
    BY <1>1, ListParts
  <2>5. pos + 2 <= at
    <3>1. m.at \in Nat /\ pos <= m.at /\ m.at + 2 <= at
      BY <1>1, <1>place
    <3> QED
      BY <1>0, <2>2, <3>1
  <2>6. Same(ts, t2, pos)
    BY <2>5, TokensKept
  <2>7. ASSUME NEW node, NEW next \in Places(ts), node # m,
               N[pos][d].nodes = {node} \cup N[next][d].nodes, N[pos][d].next = N[next][d].next,
               M[pos][d].ok, M[pos][d].nodes = {node} \cup M[next][d].nodes, M[pos][d].next = M[next][d].next,
               Filled(ts, t2, next, d, m, new, n)
        PROVE  Filled(ts, t2, pos, d, m, new, n)
    <3>1. M[next][d].next = N[next][d].next + n
      BY <2>7 DEF Filled
    <3>2. PICK m2 \in M[next][d].nodes :
             /\ m2.key = m.key /\ m2.block /\ m2.children = m.children \cup new
             /\ \A x \in M[next][d].nodes : x = m2 \/ \E y \in N[next][d].nodes : y # m /\ y.key = x.key
      BY <2>7 DEF Filled
    <3>3. m2 \in M[pos][d].nodes
      BY <2>7
    <3>4. \A x \in M[pos][d].nodes : x = m2 \/ \E y \in N[pos][d].nodes : y # m /\ y.key = x.key
      BY <2>7, <3>2
    <3> QED
      BY <2>7, <3>1, <3>2, <3>3, <3>4 DEF Filled
  <2>8. CASE IsValue(ts, pos, d)
    <3> DEFINE q == pos + 2
    <3>1. Key(ts, pos) /\ ts[pos + 1] \notin {"}", "{"} /\ N[q][d].ok
      BY <2>8 DEF IsValue
    <3>2. N[pos][d].nodes = {ValueAt(ts, pos)} \cup N[q][d].nodes /\ N[pos][d].next = N[q][d].next
      BY <2>8, ListParts
    <3>3. q \in Places(ts)
      BY <3>1, ListBounds
    <3>4. ValueAt(ts, pos) # m
      BY DEF ValueAt, Value
    <3>5. Filled(ts, t2, q, d, m, new, n)
      BY <1>1, <2>8, <3>2, <3>4 DEF Passes
    <3>6. M[q][d].ok
      BY <3>5 DEF Filled
    <3>7. IsValue(t2, pos, d) /\ pos \in Places(t2) /\ ValueAt(t2, pos) = ValueAt(ts, pos)
      BY <2>6, <3>1, <3>6 DEF IsValue, Same, ValueAt
    <3>8. M[pos][d].ok /\ M[pos][d].nodes = {ValueAt(ts, pos)} \cup M[q][d].nodes /\ M[pos][d].next = M[q][d].next
      BY <1>0, <3>7, ListParts
    <3> HIDE DEF q
    <3> QED
      BY <2>7, <3>2, <3>3, <3>4, <3>5, <3>8
  <2>9. CASE IsBlock(ts, pos, d)
    <3> DEFINE q == pos + 2
               next == N[q][inside].next
    <3>0. inside = d + 1
      BY <1>1
    <3> HIDE DEF inside
    <3>1. Key(ts, pos) /\ ts[pos + 1] = "{" /\ N[q][inside].ok /\ N[next][d].ok
      BY <2>9, <3>0 DEF IsBlock
    <3>2. N[pos][d].nodes = {BlockAt(ts, pos, d)} \cup N[next][d].nodes /\ N[pos][d].next = N[next][d].next
      BY <2>9, <3>0, ListParts
    <3>3. q \in Places(ts) /\ next \in Places(ts) /\ next \in q..(Len(ts) + 1)
      BY <2>9, <3>0, <3>1, ListBounds
    <3>4. BlockAt(ts, pos, d) = Block(pos, ts[pos], N[q][inside].nodes, N[q][inside].close)
      BY <3>0 DEF BlockAt
    <3>5. BlockAt(t2, pos, d) = Block(pos, t2[pos], M[q][inside].nodes, M[q][inside].close)
      BY <3>0 DEF BlockAt
    <3>6. N[q][inside].close + 1 = next
      <4>1. Closes(ts, pos, d)
        BY <2>9, BlockEnds
      <4> QED
        BY <3>0, <4>1 DEF Closes
    <3> HIDE DEF next
    <3>7. CASE BlockAt(ts, pos, d) = m
      <4>1. m.close = N[q][inside].close /\ m.children = N[q][inside].nodes /\ m.key = ts[pos] /\ m.at = pos
        BY <3>4, <3>7 DEF Block
      <4>2. next = at + 1 /\ N[q][inside].close = at
        BY <3>6, <4>1
      <4>3. Grown(ts, t2, q, inside, new, n)
        BY <1>grown, <3>1, <3>3, <4>2
      <4>4. M[q][inside].ok /\ M[q][inside].nodes = m.children \cup new /\ M[q][inside].next = next + n
        BY <4>1, <4>3 DEF Grown, next
      <4>5. Moved(ts, t2, next, d, n)
        <5>1. at <= next
          BY <1>0, <4>2
        <5> QED
          BY <1>moved, <3>1, <3>3, <5>1 DEF next
      <4>6. /\ M[next + n][d].ok /\ M[next + n][d].next = N[next][d].next + n
            /\ \A x \in M[next + n][d].nodes : \E y \in N[next][d].nodes : y.key = x.key
        BY <4>5 DEF Moved
      <4>7. IsBlock(t2, pos, d) /\ pos \in Places(t2) /\ t2[pos] = ts[pos]
        BY <2>6, <3>0, <3>1, <4>4, <4>6 DEF IsBlock, Same
      <4> DEFINE m2 == BlockAt(t2, pos, d)
      <4>8. M[pos][d].ok /\ M[pos][d].nodes = {m2} \cup M[next + n][d].nodes /\ M[pos][d].next = M[next + n][d].next
        <5>1. LET rest == M[M[pos + 2][d + 1].next][d] IN
              M[pos][d].ok /\ M[pos][d].nodes = {m2} \cup rest.nodes /\ M[pos][d].next = rest.next
          <6>1. t2 \in Seq(Tokens) /\ pos \in Places(t2) /\ IsBlock(t2, pos, d)
            BY <1>0, <4>7
          <6> QED
            BY <6>1, ListParts
        <5>2. M[pos + 2][d + 1].next = next + n
          BY <3>0, <4>4
        <5> QED
          BY <5>1, <5>2
      <4>9. m2.key = m.key /\ m2.block /\ m2.children = m.children \cup new
        BY <3>5, <4>1, <4>4, <4>7 DEF Block
      <4> HIDE DEF m2
      <4>10. ASSUME NEW y \in N[next][d].nodes PROVE y # m /\ y \in N[pos][d].nodes
        <5>1. Within(ts, next, d, y)
          BY <3>1, <3>3, Shape DEF Shaped, next
        <5>2. y.at \in Nat /\ next <= y.at
          BY <5>1, PlaceTypes DEF Within
        <5>3. y.at # m.at
          BY <1>0, <2>2, <2>5, <4>1, <4>2, <5>2
        <5> QED
          BY <3>2, <5>3
      <4>11. \A x \in M[pos][d].nodes : x = m2 \/ \E y \in N[pos][d].nodes : y # m /\ y.key = x.key
        BY <4>6, <4>8, <4>10
      <4>12. m2 \in M[pos][d].nodes /\ M[pos][d].next = N[pos][d].next + n
        BY <3>2, <4>6, <4>8
      <4> QED
        BY <4>8, <4>9, <4>11, <4>12 DEF Filled
    <3>8. CASE BlockAt(ts, pos, d) # m
      <4>1. m \in N[next][d].nodes
        BY <1>1, <3>2, <3>8
      <4>2. m.at \in Nat /\ next <= m.at /\ m.at + 2 <= at
        BY <1>1, <1>place, <3>1, <3>3, <4>1 DEF next
      <4>3. next <= at
        <5>1. next \in Nat
          BY <3>3, PlaceTypes
        <5> QED
          BY <1>0, <4>2, <5>1
      <4>4. M[q][inside] = N[q][inside]
        BY <1>inside, <1>kept, <3>1, <3>3, <4>3 DEF next
      <4>5. Filled(ts, t2, next, d, m, new, n)
        BY <1>1, <2>9, <3>0, <4>1 DEF Passes, next
      <4>6. M[next][d].ok
        BY <4>5 DEF Filled
      <4>7. M[q][inside].ok /\ M[q][inside].next = next
        BY <3>1, <4>4 DEF next
      <4>8. IsBlock(t2, pos, d) /\ pos \in Places(t2) /\ BlockAt(t2, pos, d) = BlockAt(ts, pos, d)
        BY <2>6, <3>0, <3>1, <3>4, <3>5, <4>4, <4>6, <4>7 DEF IsBlock, Same
      <4>9. M[pos][d].ok /\ M[pos][d].nodes = {BlockAt(ts, pos, d)} \cup M[next][d].nodes
            /\ M[pos][d].next = M[next][d].next
        BY <1>0, <3>0, <4>7, <4>8, ListParts
      <4> QED
        BY <2>7, <3>2, <3>3, <3>8, <4>5, <4>9
    <3> QED
      BY <3>7, <3>8
  <2> QED
    BY <1>1, <2>4, <2>8, <2>9, Lists
<1>2. \A pos \in Places(ts), d \in 0..MaxDepth : N[pos][d].ok /\ Passes(ts, S, pos, d) => <<pos, d>> \in S
  BY <1>1
<1> HIDE DEF S
<1>3. \A pos \in Places(ts), d \in 0..MaxDepth : N[pos][d].ok => <<pos, d>> \in S
  BY <1>2, ListInduction
<1> QED
  BY <1>3 DEF S, n

----------------------------------------------------------------------------
(* What Merge has added it finds again.                                    *)

(* The one block of a text begins with it, and nothing is behind it.       *)
RootAt(ts, root) ==
    LET inner == Parse(ts)[3][1] IN
    /\ IsBlock(ts, 1, 0) /\ root = BlockAt(ts, 1, 0) /\ Key(ts, 1) /\ ts[2] = "{"
    /\ 3 \in Places(ts) /\ inner.ok /\ root.children = inner.nodes /\ root.close = inner.close
    /\ root.close \in 3..Len(ts) /\ ts[root.close] = "}"
    /\ inner.next = root.close + 1 /\ inner.next \in Places(ts)
    /\ Parse(ts)[inner.next][0].ok /\ Parse(ts)[inner.next][0].nodes = {}

(* The depths of the blocks that Merge looks into are allowed.             *)
LEMMA Numbers ==
  /\ 1 + 2 = 3 /\ 1 + 1 = 2 /\ 0 + 1 = 1 /\ 2 + 1 = 3
  /\ 0 \in 0..MaxDepth /\ 1 \in 0..MaxDepth /\ 2 \in 0..MaxDepth /\ 1 \in 1..MaxDepth /\ 2 \in 1..MaxDepth
<1>1. MaxDepth \in Nat /\ MaxDepth # 0 /\ MaxDepth # 1
  BY Zenon, LimitsAssumption
<1> QED
  BY <1>1

(* The block of GameInfo is there.                                         *)
LEMMA RootsPlace ==
  ASSUME NEW ts \in Seq(Tokens), NEW root, HasRoot(ts, root)
  PROVE  RootAt(ts, root)
<1> DEFINE N == Parse(ts)
           inner == N[3][1]
<1>1. 1 \in Places(ts) /\ 0 \in 0..MaxDepth
  <2>1. Len(ts) \in Nat /\ MaxDepth \in Nat
    BY PlaceTypes
  <2> QED
    BY <2>1 DEF Places
<1>2. N[1][0].ok /\ N[1][0].nodes = {root} /\ root.block
  BY DEF HasRoot
<1>3. ~IsEnd(ts, 1, 0) /\ ~IsClose(ts, 1, 0)
  <2>1. IsEnd(ts, 1, 0) => N[1][0].nodes = {}
    BY <1>1, ListParts
  <2>2. IsClose(ts, 1, 0) => N[1][0].nodes = {}
    BY <1>1, ListParts
  <2> QED
    BY <1>2, <2>1, <2>2
<1>4. ~IsValue(ts, 1, 0)
  <2>1. IsValue(ts, 1, 0) => ValueAt(ts, 1) \in N[1][0].nodes
    BY <1>1, ListParts
  <2>2. ~ValueAt(ts, 1).block
    BY DEF ValueAt, Value
  <2> QED
    BY <1>2, <2>1, <2>2
<1>5. IsBlock(ts, 1, 0)
  BY <1>1, <1>2, <1>3, <1>4, Lists
<1>6. Closes(ts, 1, 0)
  BY <1>1, <1>5, BlockEnds
<1>7. /\ Key(ts, 1) /\ ts[2] = "{" /\ 3 \in Places(ts) /\ inner.ok
      /\ inner.close \in 3..Len(ts) /\ ts[inner.close] = "}"
      /\ inner.next = inner.close + 1 /\ inner.next \in Places(ts) /\ N[inner.next][0].ok
  BY <1>5, <1>6, Numbers DEF Closes, IsBlock
<1>8. N[1][0].nodes = {BlockAt(ts, 1, 0)} \cup N[inner.next][0].nodes
  <2>1. N[1][0].nodes = {BlockAt(ts, 1, 0)} \cup N[N[1 + 2][0 + 1].next][0].nodes
    BY <1>1, <1>5, ListParts
  <2> QED
    BY <2>1, Numbers
<1>9. root = BlockAt(ts, 1, 0) /\ N[inner.next][0].nodes \subseteq {root}
  BY <1>2, <1>8
<1>10. BlockAt(ts, 1, 0) = Block(1, ts[1], inner.nodes, inner.close)
  BY Numbers DEF BlockAt
<1>11. root.at = 1 /\ root.children = inner.nodes /\ root.close = inner.close
  BY <1>9, <1>10 DEF Block
<1>12. root \notin N[inner.next][0].nodes
  <2> DEFINE next == inner.next
  <2>1. next \in Places(ts) /\ N[next][0].ok
    BY <1>7
  <2>2. Len(ts) \in Nat /\ inner.close \in 3..Len(ts) /\ next = inner.close + 1
    BY <1>7, PlaceTypes
  <2>3. 1 < next /\ next \in Nat
    BY <2>2
  <2> HIDE DEF next
  <2>4. SUFFICES ASSUME root \in N[next][0].nodes PROVE FALSE
    BY DEF next
  <2>5. Within(ts, next, 0, root)
    BY <1>1, <2>1, <2>4, Shape DEF Shaped
  <2>6. next <= 1
    BY <1>11, <2>5 DEF Within
  <2> QED
    BY <2>3, <2>6
<1> QED
  BY <1>5, <1>7, <1>9, <1>11, <1>12 DEF RootAt

(* Its block is still the only one after an insertion within it.           *)
OneRoot(t2) == \E root2 : HasRoot(t2, root2) /\ root2.children = Parse(t2)[3][1].nodes

(* It is read from the first token to the last, as before.                 *)
LEMMA RootGrows ==
  ASSUME NEW ts \in Seq(Tokens), NEW at, NEW w \in Seq(Tokens), NEW t2, IsInserted(ts, at, w, t2),
         NEW root, HasRoot(ts, root), 3 <= at, at <= root.close,
         Parse(t2)[3][1].ok, Parse(t2)[3][1].next = Parse(ts)[3][1].next + Len(w)
  PROVE  OneRoot(t2)
<1> DEFINE N == Parse(ts)
           M == Parse(t2)
           n == Len(w)
           next == N[3][1].next
<1>0. /\ t2 \in Seq(Tokens) /\ Len(ts) \in Nat /\ n \in Nat /\ at \in Nat /\ 1 <= at /\ at <= Len(ts)
  BY InsertedPlaces
<1>1. RootAt(ts, root)
  BY RootsPlace
<1>2. /\ next \in Places(ts) /\ next = root.close + 1 /\ root.close \in 3..Len(ts)
      /\ N[next][0].ok /\ N[next][0].nodes = {} /\ Key(ts, 1) /\ ts[2] = "{"
      /\ root = BlockAt(ts, 1, 0)
  BY <1>1 DEF RootAt
<1>3. M[3][1].ok /\ M[3][1].next = next + n
  OBVIOUS
<1> HIDE DEF next, n
<1>4. at <= next /\ 1 \in Places(ts)
  <2>1. next = root.close + 1 /\ root.close \in 3..Len(ts) /\ Len(ts) \in Nat /\ at \in Nat
    BY <1>0, <1>2
  <2> DEFINE c == root.close
  <2>2. next = c + 1 /\ c \in 3..Len(ts) /\ at <= c
    BY <2>1
  <2> HIDE DEF c
  <2> QED
    BY <2>1, <2>2 DEF Places
<1>5. Moved(ts, t2, next, 0, n)
  BY <1>2, <1>4, Numbers, ListsMoved DEF n
<1>6. M[next + n][0].ok /\ M[next + n][0].nodes = {}
  BY <1>2, <1>5 DEF Moved
<1>7. Same(ts, t2, 1)
  <2>1. 1 + 2 <= at
    BY Numbers
  <2> QED
    BY <1>4, <2>1, TokensKept
<1>8. 1 \in Places(t2) /\ Key(t2, 1) /\ t2[1] = ts[1] /\ t2[2] = "{"
  BY <1>2, <1>7, Numbers DEF Same
<1>9. IsBlock(t2, 1, 0)
  BY <1>3, <1>6, <1>8, Numbers DEF IsBlock
<1> DEFINE root2 == BlockAt(t2, 1, 0)
<1>10. M[1][0].ok /\ M[1][0].nodes = {root2}
  <2>1. M[1][0].ok /\ M[1][0].nodes = {root2} \cup M[M[1 + 2][0 + 1].next][0].nodes
    <3>1. t2 \in Seq(Tokens) /\ 1 \in Places(t2) /\ 0 \in 0..MaxDepth
      BY <1>0, <1>8, Numbers
    <3> QED
      BY <1>9, <3>1, ListParts
  <2>2. M[M[1 + 2][0 + 1].next][0].nodes = {}
    BY <1>3, <1>6, Numbers
  <2> QED
    BY <2>1, <2>2
<1>11. root2 = Block(1, ts[1], M[3][1].nodes, M[3][1].close)
  BY <1>8, Numbers DEF BlockAt
<1>12. root2.block /\ root2.key = ts[1] /\ root2.children = M[3][1].nodes
  BY <1>11 DEF Block
<1>13. root.key = ts[1] /\ root.key = "GameInfo"
  BY <1>2 DEF BlockAt, Block, HasRoot
<1> HIDE DEF root2
<1>14. HasRoot(t2, root2)
  BY <1>10, <1>12, <1>13 DEF HasRoot
<1> QED
  BY <1>12, <1>14 DEF OneRoot

(* The tokens that Merge inserts, read as the end of a list.               *)
AddsTo(t2, at, d, new, n) ==
    Parse(t2)[at][d].ok /\ Parse(t2)[at][d].nodes = new /\ Parse(t2)[at][d].next = (at + 1) + n

(* The braces of a text that close a block.                                *)
Brace(ts, pos) == pos \in 1..Len(ts) /\ ts[pos] = "}"

(* A closing brace ends a list.                                            *)
LEMMA AtClose ==
  ASSUME NEW ts \in Seq(Tokens), NEW pos, Brace(ts, pos), NEW d \in 1..MaxDepth
  PROVE  /\ Parse(ts)[pos][d].ok /\ Parse(ts)[pos][d].nodes = {} /\ Parse(ts)[pos][d].close = pos
         /\ Parse(ts)[pos][d].next = pos + 1
<1>1. Len(ts) \in Nat /\ MaxDepth \in Nat
  BY PlaceTypes
<1>2. pos \in Places(ts) /\ pos <= Len(ts) /\ d \in 0..MaxDepth /\ d > 0
  <2>1. pos \in 1..Len(ts)
    BY DEF Brace
  <2> QED
    BY <1>1, <2>1 DEF Places
<1>3. IsClose(ts, pos, d)
  BY <1>2 DEF IsClose, Brace
<1> QED
  BY <1>2, <1>3, ListParts

(* The setting, before the closing brace of GMS, is one more node there.   *)
LEMMA AddsSetting ==
  ASSUME NEW ts \in Seq(Tokens), NEW at, NEW t2, IsInserted(ts, at, TheSetting, t2), Brace(ts, at)
  PROVE  AddsTo(t2, at, 2, {Value(at, "Advertise", "1")}, 2)
<1>1. /\ t2[at] = "Advertise" /\ t2[at + 1] = "1" /\ at + 1 < Len(t2) /\ at \in Nat /\ 1 <= at
      /\ at <= Len(ts) /\ Len(t2) = Len(ts) + 2 /\ Len(t2) \in Nat /\ t2 \in Seq(Tokens) /\ Len(ts) \in Nat
  <2>1. Len(ts) \in Nat
    OBVIOUS
  <2> QED
    BY <2>1, SettingTokens
<1>2. /\ at < Len(t2) /\ at \in 1..(Len(t2) + 1) /\ at + 2 \in 1..Len(t2) /\ at \in at..Len(ts)
      /\ (at + 2) + 1 = (at + 1) + 2
  BY <1>1
<1>3. t2[at + 2] = "}"
  <2>1. t2[at + Len(TheSetting)] = ts[at]
    BY <1>2 DEF IsInserted
  <2> QED
    BY <2>1, TheTexts DEF Brace
<1>4. 2 \in 1..MaxDepth /\ 2 \in 0..MaxDepth
  BY Numbers
<1>5. Parse(t2)[at + 2][2].ok /\ Parse(t2)[at + 2][2].nodes = {} /\ Parse(t2)[at + 2][2].next = (at + 1) + 2
  <2> DEFINE q == at + 2
  <2>1. q \in 1..Len(t2) /\ t2[q] = "}" /\ q + 1 = (at + 1) + 2
    BY <1>2, <1>3
  <2>a. Brace(t2, q)
    BY <2>1 DEF Brace
  <2> HIDE DEF q
  <2>2. Parse(t2)[q][2].ok /\ Parse(t2)[q][2].nodes = {} /\ Parse(t2)[q][2].next = q + 1
    BY <1>1, <1>4, <2>a, AtClose
  <2> QED
    BY <2>1, <2>2 DEF q
<1>6. IsValue(t2, at, 2) /\ at \in Places(t2)
  BY <1>1, <1>2, <1>5 DEF IsValue, Key, Places
<1>7. /\ Parse(t2)[at][2].ok /\ Parse(t2)[at][2].nodes = {ValueAt(t2, at)} \cup Parse(t2)[at + 2][2].nodes
      /\ Parse(t2)[at][2].next = Parse(t2)[at + 2][2].next
  BY <1>1, <1>4, <1>6, ListParts
<1>8. ValueAt(t2, at) = Value(at, "Advertise", "1")
  BY <1>1 DEF ValueAt
<1> QED
  BY <1>5, <1>7, <1>8 DEF AddsTo

(* The places of five tokens that are inserted.                            *)
LEMMA BlockPlaces ==
  ASSUME NEW n \in Nat, NEW l \in Nat, NEW at \in Nat, 1 <= at, at <= n, l = n + 5
  PROVE  /\ at < l /\ at \in 1..(l + 1) /\ at \in at..n /\ at + 2 < l /\ at + 2 \in 1..(l + 1)
         /\ (at + 2) + 1 = at + 3 /\ (at + 2) + 2 = at + 4 /\ at + 4 \in 1..l /\ (at + 4) + 1 = at + 5
         /\ at + 5 \in 1..l /\ (at + 5) + 1 = (at + 1) + 5
  OBVIOUS

(* The block GMS, before the closing brace of GameInfo, is one more node   *)
(* there.                                                                  *)
LEMMA AddsTheBlock ==
  ASSUME NEW ts \in Seq(Tokens), NEW at, NEW t2, IsInserted(ts, at, TheBlock, t2), Brace(ts, at)
  PROVE  AddsTo(t2, at, 1, {Block(at, "GMS", {Value(at + 2, "Advertise", "1")}, at + 4)}, 5)
<1> DEFINE M == Parse(t2)
           p == at + 2
           q == at + 4
           r == at + 5
<1>1. /\ t2[at] = "GMS" /\ t2[at + 1] = "{" /\ t2[at + 2] = "Advertise" /\ t2[at + 3] = "1"
      /\ t2[at + 4] = "}" /\ at + 4 < Len(t2) /\ at \in Nat /\ 1 <= at
      /\ at <= Len(ts) /\ Len(t2) = Len(ts) + 5 /\ Len(t2) \in Nat /\ t2 \in Seq(Tokens) /\ Len(ts) \in Nat
  <2>1. Len(ts) \in Nat
    BY PlaceTypes
  <2>2. HasBlock(ts, at, t2)
    BY BlockTokens
  <2> QED
    BY <2>1, <2>2 DEF HasBlock
<1>2. /\ at < Len(t2) /\ at \in 1..(Len(t2) + 1) /\ at \in at..Len(ts)
      /\ p < Len(t2) /\ p \in 1..(Len(t2) + 1) /\ p + 1 = at + 3 /\ p + 2 = q
      /\ q \in 1..Len(t2) /\ q + 1 = r /\ r \in 1..Len(t2) /\ r + 1 = (at + 1) + 5
  BY <1>1, BlockPlaces
<1>3. t2[r] = "}"
  <2>1. t2[at + Len(TheBlock)] = ts[at]
    BY <1>2 DEF IsInserted
  <2> QED
    BY <2>1, TheTexts DEF Brace
<1>4. 2 \in 1..MaxDepth /\ 2 \in 0..MaxDepth /\ 1 \in 1..MaxDepth /\ 1 \in 0..MaxDepth /\ 1 + 1 = 2
  BY Numbers
<1>5. t2[p] = "Advertise" /\ t2[p + 1] = "1" /\ t2[q] = "}"
  BY <1>1, <1>2
<1>6. at + 2 = p
  OBVIOUS
<1> HIDE DEF p, q, r
<1>7. M[r][1].ok /\ M[r][1].nodes = {} /\ M[r][1].next = (at + 1) + 5
  <2>1. t2 \in Seq(Tokens) /\ Brace(t2, r) /\ 1 \in 1..MaxDepth /\ r + 1 = (at + 1) + 5
    BY <1>1, <1>2, <1>3, <1>4 DEF Brace
  <2>2. M[r][1].ok /\ M[r][1].nodes = {} /\ M[r][1].next = r + 1
    BY <2>1, AtClose
  <2> QED
    BY <2>1, <2>2
<1>8. M[q][2].ok /\ M[q][2].nodes = {} /\ M[q][2].close = q /\ M[q][2].next = r
  <2>1. t2 \in Seq(Tokens) /\ Brace(t2, q) /\ 2 \in 1..MaxDepth /\ q + 1 = r
    BY <1>1, <1>2, <1>4, <1>5 DEF Brace
  <2>2. M[q][2].ok /\ M[q][2].nodes = {} /\ M[q][2].close = q /\ M[q][2].next = q + 1
    BY <2>1, AtClose
  <2> QED
    BY <2>1, <2>2
<1>9. IsValue(t2, p, 2) /\ p \in Places(t2)
  BY <1>2, <1>5, <1>8 DEF IsValue, Key, Places
<1>10. M[p][2].ok /\ M[p][2].nodes = {ValueAt(t2, p)} \cup M[p + 2][2].nodes
       /\ M[p][2].close = M[p + 2][2].close /\ M[p][2].next = M[p + 2][2].next
  BY <1>1, <1>4, <1>9, ListParts
<1>11. ValueAt(t2, p) = Value(p, "Advertise", "1")
  BY <1>5 DEF ValueAt
<1>12. M[p][2].ok /\ M[p][2].nodes = {Value(p, "Advertise", "1")} /\ M[p][2].close = q /\ M[p][2].next = r
  BY <1>2, <1>8, <1>10, <1>11
<1>13. IsBlock(t2, at, 1) /\ at \in Places(t2)
  BY <1>1, <1>2, <1>4, <1>6, <1>7, <1>12 DEF IsBlock, Key, Places
<1>14. M[at][1].ok /\ M[at][1].nodes = {BlockAt(t2, at, 1)} \cup M[r][1].nodes /\ M[at][1].next = M[r][1].next
  <2>1. LET rest == M[M[at + 2][1 + 1].next][1] IN
        M[at][1].ok /\ M[at][1].nodes = {BlockAt(t2, at, 1)} \cup rest.nodes /\ M[at][1].next = rest.next
    <3>1. t2 \in Seq(Tokens) /\ 1 \in 0..MaxDepth /\ at \in Places(t2) /\ IsBlock(t2, at, 1)
      BY <1>1, <1>4, <1>13
    <3> QED
      BY <3>1, ListParts
  <2>2. M[at + 2][1 + 1].next = r
    BY <1>4, <1>6, <1>12
  <2> QED
    BY <2>1, <2>2
<1>15. BlockAt(t2, at, 1) = Block(at, "GMS", {Value(p, "Advertise", "1")}, q)
  BY <1>1, <1>4, <1>6, <1>12 DEF BlockAt
<1> QED
  BY <1>7, <1>14, <1>15 DEF AddsTo, p, q

(* A block ends before the list that it belongs to.                        *)
LEMMA BlockWithin ==
  ASSUME NEW ts \in Seq(Tokens), NEW pos \in Places(ts), NEW d \in 0..MaxDepth, d # 0,
         Parse(ts)[pos][d].ok, NEW m \in Parse(ts)[pos][d].nodes, m.block
  PROVE  /\ Brace(ts, m.close)
         /\ pos <= m.close /\ m.close <= Parse(ts)[pos][d].close
<1> DEFINE N == Parse(ts)
           next == N[m.at + 2][d + 1].next
<1>1. Within(ts, pos, d, m)
  BY Shape DEF Shaped
<1>2. /\ m.at \in Places(ts) /\ pos <= m.at /\ N[m.at][d].close = N[pos][d].close
      /\ IsBlock(ts, m.at, d) /\ m = BlockAt(ts, m.at, d)
  BY <1>1 DEF Within, ValueAt, Value
<1>3. Closes(ts, m.at, d)
  BY <1>2, BlockEnds
<1>4. m.close = N[m.at + 2][d + 1].close
  BY <1>2 DEF BlockAt, Block
<1>5. /\ m.close \in 1..Len(ts) /\ m.close \in (m.at + 2)..Len(ts) /\ ts[m.close] = "}"
      /\ next = m.close + 1 /\ next \in Places(ts) /\ N[next][d].ok
  BY <1>3, <1>4 DEF Closes
<1>6. N[m.at][d].close = N[next][d].close
  BY <1>2, ListParts
<1> HIDE DEF next
<1>7. EndsWell(ts, next, d)
  BY <1>5, Shape DEF Shaped
<1>8. N[next][d].close \in next..Len(ts)
  BY <1>7 DEF EndsWell
<1>9. Len(ts) \in Nat /\ pos \in Nat /\ m.at \in Nat
  BY <1>2, PlaceTypes
<1> DEFINE a == m.at
           c == m.close
           e == N[pos][d].close
<1>10. /\ a \in Nat /\ pos <= a /\ c \in (a + 2)..Len(ts) /\ next = c + 1 /\ e \in next..Len(ts)
  BY <1>2, <1>5, <1>6, <1>8, <1>9
<1> HIDE DEF a, c, e
<1>11. pos <= c /\ c <= e
  BY <1>9, <1>10
<1> QED
  BY <1>5, <1>11 DEF c, e, Brace

(* The lexer accepts a text to which Merge added something, unless it      *)
(* outgrew a limit.                                                        *)
LEMMA InsertedLexed ==
  ASSUME NEW ts \in Seq(Tokens), NEW at, NEW w \in Seq(Tokens), NEW t2, IsInserted(ts, at, w, t2),
         Lexed(ts), ~Contains(w, "!"), Fits(t2)
  PROVE  Lexed(t2)
<1> DEFINE n == Len(w)
<1>1. /\ t2 \in Seq(Tokens) /\ Len(ts) \in Nat /\ n \in Nat /\ Len(t2) = Len(ts) + n
      /\ at \in Nat /\ 1 <= at /\ at <= Len(ts)
  BY InsertedPlaces
<1>2. /\ \A i \in 1..(at - 1) : t2[i] = ts[i]
      /\ \A i \in 1..n : t2[(at - 1) + i] = w[i]
      /\ \A i \in at..Len(ts) : t2[i + n] = ts[i]
  BY DEF IsInserted
<1>3. (\A i \in 1..Len(ts) : ts[i] # "!") /\ (\A i \in 1..n : w[i] # "!")
  BY DEF Lexed, Contains
<1> HIDE DEF n
<1>4. ASSUME NEW k \in 1..Len(t2) PROVE t2[k] # "!"
  <2>1. CASE k \in 1..(at - 1)
    <3>1. k \in 1..Len(ts)
      BY <1>1, <2>1
    <3> QED
      BY <1>2, <1>3, <2>1, <3>1
  <2>2. CASE k - (at - 1) \in 1..n
    <3>1. (at - 1) + (k - (at - 1)) = k
      BY <1>1
    <3> QED
      BY <1>2, <1>3, <2>2, <3>1
  <2>3. CASE k - n \in at..Len(ts)
    <3>1. (k - n) + n = k /\ k - n \in 1..Len(ts)
      BY <1>1, <2>3
    <3> QED
      BY <1>2, <1>3, <2>3, <3>1
  <2>4. k \in 1..(at - 1) \/ k - (at - 1) \in 1..n \/ k - n \in at..Len(ts)
    BY <1>1
  <2> QED
    BY <2>1, <2>2, <2>3, <2>4
<1> QED
  BY <1>4 DEF Lexed, Contains

(* The lexer accepts what Merge adds.                                      *)
LEMMA WordsLexed ==
  ~Contains(TheSetting, "!") /\ ~Contains(TheBlock, "!")
<1>1. \A i \in 1..2 : TheSetting[i] # "!"
  <2>1. \A i \in 1..2 : i = 1 \/ i = 2
    OBVIOUS
  <2> QED
    BY <2>1, TheTexts
<1>2. \A i \in 1..5 : TheBlock[i] # "!"
  <2>1. \A i \in 1..5 : i = 1 \/ i = 2 \/ i = 3 \/ i = 4 \/ i = 5
    OBVIOUS
  <2> QED
    BY <2>1, TheTexts
<1> QED
  BY <1>1, <1>2, TheTexts DEF Contains

(* The block of GameInfo has the block GMS that Merge added to it.         *)
LEMMA KeepsTheBlock ==
  ASSUME NEW ts \in Seq(Tokens), NEW root, HasRoot(ts, root), With(root.children, "GMS") = {},
         NEW t2, IsInserted(ts, root.close, TheBlock, t2), Lexed(t2)
  PROVE  Merge(t2) = Kept(t2)
<1> DEFINE at == root.close
           v  == Value(at + 2, "Advertise", "1")
           m  == Block(at, "GMS", {v}, at + 4)
           N  == Parse(ts)
           M  == Parse(t2)
<1>1. RootAt(ts, root)
  BY RootsPlace
<1>2. /\ at \in 3..Len(ts) /\ Brace(ts, at) /\ 3 \in Places(ts)
      /\ N[3][1].ok /\ root.children = N[3][1].nodes /\ at = N[3][1].close
  <2>1. /\ at \in 3..Len(ts) /\ ts[at] = "}" /\ 3 \in Places(ts)
        /\ N[3][1].ok /\ root.children = N[3][1].nodes /\ at = N[3][1].close
    BY <1>1 DEF RootAt
  <2>2. at \in 1..Len(ts) /\ at \in Nat /\ 3 <= at
    <3>1. at \in 3..Len(ts) /\ Len(ts) \in Nat
      BY <2>1, PlaceTypes
    <3> HIDE DEF at
    <3> QED
      BY <3>1
  <2> QED
    BY <2>1, <2>2 DEF Brace
<1>3. IsInserted(ts, at, TheBlock, t2)
  OBVIOUS
<1>4. v.key = "Advertise" /\ IsSet(v) /\ m.key = "GMS" /\ m.block /\ m.children = {v}
  BY DEF Value, Block, IsSet
<1>5. AddsTo(t2, at, 1, {m}, 5)
  BY <1>2, <1>3, AddsTheBlock
<1>6. at \in Nat /\ 3 <= at
  BY <1>2, PlaceTypes
<1> HIDE DEF at, v, m
<1>7. Grown(ts, t2, 3, 1, {m}, Len(TheBlock))
  <2>1. M[at][1].ok /\ M[at][1].nodes = {m} /\ M[at][1].next = (at + 1) + Len(TheBlock)
    BY <1>5, TheTexts DEF AddsTo
  <2>2. TheBlock \in Seq(Tokens) /\ 1 \in 0..MaxDepth /\ 1 # 0
    BY TheTexts, Numbers
  <2> QED
    BY <1>2, <1>3, <2>1, <2>2, ListsGrown
<1>8. M[3][1].ok /\ M[3][1].nodes = root.children \cup {m} /\ M[3][1].next = N[3][1].next + Len(TheBlock)
  BY <1>2, <1>7 DEF Grown
<1>9. PICK root2 : HasRoot(t2, root2) /\ root2.children = M[3][1].nodes
  <2>1. at <= root.close
    BY <1>6 DEF at
  <2>2. OneRoot(t2)
    <3>1. M[3][1].ok /\ M[3][1].next = N[3][1].next + Len(TheBlock)
      BY <1>8
    <3>2. TheBlock \in Seq(Tokens)
      BY TheTexts
    <3> QED
      BY <1>3, <1>6, <2>1, <3>1, <3>2, RootGrows
  <2> QED
    BY <2>2 DEF OneRoot
<1>10. With(root2.children, "GMS") = {m}
  BY <1>4, <1>8, <1>9 DEF With
<1>11. With(m.children, "Advertise") = {v}
  BY <1>4 DEF With
<1> QED
  BY <1>4, <1>9, <1>10, <1>11, MergeKeeps

(* The block GMS has the setting that Merge added to it.                   *)
LEMMA KeepsTheSetting ==
  ASSUME NEW ts \in Seq(Tokens), NEW root, HasRoot(ts, root),
         NEW m, With(root.children, "GMS") = {m}, m.block, With(m.children, "Advertise") = {},
         NEW t2, IsInserted(ts, m.close, TheSetting, t2), Lexed(t2)
  PROVE  Merge(t2) = Kept(t2)
<1> DEFINE at == m.close
           v  == Value(at, "Advertise", "1")
           N  == Parse(ts)
           M  == Parse(t2)
<1>1. RootAt(ts, root)
  BY RootsPlace
<1>2. /\ 3 \in Places(ts) /\ N[3][1].ok /\ root.children = N[3][1].nodes /\ root.close = N[3][1].close
      /\ root.close \in 3..Len(ts)
  BY <1>1 DEF RootAt
<1>3. m \in N[3][1].nodes /\ m.key = "GMS" /\ \A y \in N[3][1].nodes : y.key = "GMS" => y = m
  BY <1>2 DEF With
<1>4. Brace(ts, at) /\ 3 <= at /\ at <= root.close
  BY <1>2, <1>3, Numbers, BlockWithin
<1>5. IsInserted(ts, at, TheSetting, t2)
  OBVIOUS
<1>6. v.key = "Advertise" /\ IsSet(v)
  BY DEF Value, IsSet
<1>7. AddsTo(t2, at, 2, {v}, 2)
  BY <1>4, <1>5, AddsSetting
<1>8. m.close = at
  OBVIOUS
<1> HIDE DEF at, v
<1>9. Filled(ts, t2, 3, 1, m, {v}, Len(TheSetting))
  <2>1. /\ M[at][1 + 1].ok /\ M[at][1 + 1].nodes = {v} /\ M[at][1 + 1].next = (at + 1) + Len(TheSetting)
    BY <1>7, TheTexts, Numbers DEF AddsTo
  <2>2. TheSetting \in Seq(Tokens) /\ 1 \in 0..MaxDepth /\ 1 + 1 \in 0..MaxDepth
    BY TheTexts, Numbers
  <2> QED
    BY <1>2, <1>3, <1>5, <1>8, <2>1, <2>2, ListsFilled
<1>10. M[3][1].ok /\ M[3][1].next = N[3][1].next + Len(TheSetting)
  BY <1>9 DEF Filled
<1>11. PICK m2 \in M[3][1].nodes :
         /\ m2.key = m.key /\ m2.block /\ m2.children = m.children \cup {v}
         /\ \A x \in M[3][1].nodes : x = m2 \/ \E y \in N[3][1].nodes : y # m /\ y.key = x.key
  BY <1>9 DEF Filled
<1>12. PICK root2 : HasRoot(t2, root2) /\ root2.children = M[3][1].nodes
  <2>1. TheSetting \in Seq(Tokens) /\ 3 <= at /\ at <= root.close
    BY <1>4, TheTexts
  <2>2. OneRoot(t2)
    BY <1>5, <1>10, <2>1, RootGrows
  <2> QED
    BY <2>2 DEF OneRoot
<1>13. With(root2.children, "GMS") = {m2}
  BY <1>3, <1>11, <1>12 DEF With
<1>14. With(m2.children, "Advertise") = {v}
  BY <1>6, <1>11 DEF With
<1> QED
  BY <1>6, <1>11, <1>12, <1>13, <1>14, MergeKeeps

(* What Merge has written it does not write again: it keeps the text or,   *)
(* where a limit is passed, refuses it.                                    *)
LEMMA StableText ==
  ASSUME NEW text \in Seq(Tokens)
  PROVE  Stable(text)
<1> DEFINE t2 == Merge(text).text
<1>0. ASSUME ~Fits(t2) PROVE Merge(t2) = Refused(t2)
  BY <1>0 DEF Merge, Lexed
<1>1. SUFFICES ASSUME Merge(text).changed, Fits(t2)
               PROVE  Merge(t2) = Kept(t2)
  BY <1>0 DEF Stable
<1>2. Lexed(text) /\ \E root : HasRoot(text, root) /\ Settles(text, root, Merge(text))
  BY <1>1, MergeForm, Answers
<1>3. PICK root : HasRoot(text, root) /\ Settles(text, root, Merge(text))
  BY <1>2
<1>4. ASSUME NEW at \in 1..Len(text), NEW w \in {TheSetting, TheBlock}, Merge(text) = Insert(text, at, w)
      PROVE  IsInserted(text, at, w, t2) /\ Lexed(t2)
  <2>1. w \in Seq(Tokens) /\ ~Contains(w, "!")
    BY TheTexts, WordsLexed
  <2>2. IsInserted(text, at, w, t2)
    BY <1>4, <2>1, Inserts
  <2> HIDE DEF t2
  <2> QED
    BY <1>1, <1>2, <2>1, <2>2, InsertedLexed
<1> HIDE DEF t2
<1>5. CASE With(root.children, "GMS") = {} /\ Merge(text) = Insert(text, root.close, TheBlock)
  <2>1. root.close \in 1..Len(text)
    <3>1. Entered(text, <<>>, 0, root)
      BY <1>3, InRoot
    <3> QED
      BY <3>1 DEF Entered
  <2>2. IsInserted(text, root.close, TheBlock, t2) /\ Lexed(t2)
    BY <1>4, <1>5, <2>1
  <2> QED
    BY <1>3, <1>5, <2>2, KeepsTheBlock
<1>6. ASSUME NEW m, With(root.children, "GMS") = {m}, m.block, SetsIn(text, m, Merge(text))
      PROVE  Merge(t2) = Kept(t2)
  <2>1. With(m.children, "Advertise") = {} /\ Merge(text) = Insert(text, m.close, TheSetting)
    BY <1>1, <1>6, Answers DEF SetsIn
  <2>2. m.close \in 1..Len(text)
    <3>1. m \in root.children
      BY <1>6 DEF With
    <3>2. Entered(text, <<"GameInfo">>, 1, m)
      BY <1>3, <1>6, <3>1, EntersGMS
    <3> QED
      BY <3>2 DEF Entered
  <2>3. IsInserted(text, m.close, TheSetting, t2) /\ Lexed(t2)
    BY <1>4, <2>1, <2>2
  <2> QED
    BY <1>3, <1>6, <2>1, <2>3, KeepsTheSetting
<1> QED
  BY <1>3, <1>5, <1>6 DEF Settles

----------------------------------------------------------------------------
(* The runs of the command.                                                *)

(* The places of a run that has read the file and has not replaced it.     *)
Editing == {"backup", "write", "sync", "temp", "compare", "replace"}

RunTypes ==
    /\ pc \in [Runs -> Pcs] /\ status \in [Runs -> Statuses] /\ DOMAIN source = Runs
    /\ {"text", "by"} \subseteq DOMAIN file

(* An active run has the lock.                                             *)
Locked == \A r \in Runs : Active(r) => lock = r

(* A run has no result before it has finished.                             *)
Unanswered(r) == pc[r] \notin {"leave", "done", "killed"} => status[r] = "none"

(* The backup of a run that is past writing it is whole.                   *)
BackedUp(r) ==
    /\ pc[r] \in Editing \ {"backup"} => Text(r) \in DOMAIN backups
    /\ pc[r] \in Editing \ {"backup", "write"} => backups[Text(r)] = Text(r)

(* A run that goes on after its look at the file has something to add, and *)
(* finds the text as it was unless others wrote it after its last look.    *)
Prepared(r) ==
    /\ pc[r] \in Editing \cup {"verify"} => Merge(Text(r)).changed
    /\ pc[r] = "replace" /\ r \notin late => file.text = Text(r)

(* What a run wrote is the file until others write it.                     *)
Wrote(r) ==
    file.by = r => /\ pc[r] \in {"verify", "leave", "done", "killed"}
                   /\ status[r] # "conflict"
                   /\ pc[r] = "verify" => file.text = After(r)

EditInv ==
    /\ RunTypes /\ Locked
    /\ \A r \in Runs : Unanswered(r) /\ BackedUp(r) /\ Prepared(r) /\ Wrote(r)

----------------------------------------------------------------------------
(* Nobody has edited anything yet.                                         *)
LEMMA EditInitially == ASSUME Init PROVE EditInv
  BY RunsAssumption DEF Init, EditInv, RunTypes, Locked, Active, Unanswered, BackedUp, Prepared, Wrote,
     Editing, Pcs, Statuses

(* A step of one run, which changes the file or a backup only while it is  *)
(* active.                                                                 *)
Alone(r) ==
    /\ RunTypes'
    /\ \A q \in Runs \ {r} :
         pc'[q] = pc[q] /\ status'[q] = status[q] /\ source'[q] = source[q]
    /\ file' = file \/ (Active(r) /\ file'.by = r)
    /\ backups' = backups \/ Active(r)
    /\ late' = late

(* It is enough that such a step keeps the invariant for its own run.      *)
LEMMA AloneInv ==
  ASSUME EditInv, NEW r \in Runs, Alone(r), Locked',
         Unanswered(r)', BackedUp(r)', Prepared(r)', Wrote(r)'
  PROVE  EditInv'
<1>1. ASSUME NEW q \in Runs, q # r
      PROVE  Unanswered(q)' /\ BackedUp(q)' /\ Prepared(q)' /\ Wrote(q)'
  <2>1. pc'[q] = pc[q] /\ status'[q] = status[q] /\ source'[q] = source[q] /\ late' = late
    BY <1>1 DEF Alone
  <2>2. Unanswered(q) /\ BackedUp(q) /\ Prepared(q) /\ Wrote(q)
    BY DEF EditInv
  <2>3. CASE file' = file /\ backups' = backups
    BY <2>1, <2>2, <2>3 DEF Unanswered, BackedUp, Prepared, Wrote, Text, After
  <2>4. CASE file' # file \/ backups' # backups
    <3>1. Active(r)
      BY <2>4 DEF Alone
    <3>2. ~Active(q)
      BY <1>1, <3>1 DEF EditInv, Locked
    <3>3. file'.by = q => file' = file
      BY <1>1 DEF Alone
    <3> QED
      BY <2>1, <2>2, <3>2, <3>3 DEF Active, Editing, Unanswered, BackedUp, Prepared, Wrote, Text, After
  <2> QED
    BY <2>3, <2>4
<1> QED
  BY <1>1 DEF EditInv, Alone

(* Going on, or leaving, as far as the program counter and the result.     *)
LEMMA GoType ==
  ASSUME RunTypes, NEW r \in Runs, NEW to \in Pcs, Go(r, to)
  PROVE  /\ pc' \in [Runs -> Pcs] /\ status' = status /\ pc'[r] = to
         /\ \A q \in Runs \ {r} : pc'[q] = pc[q]
  BY DEF RunTypes, Go

(* A run that leaves moves to its end, with its result, and no other moves.*)
LEMMA LeaveType ==
  ASSUME RunTypes, NEW r \in Runs, NEW result \in Statuses, Leave(r, result)
  PROVE  /\ pc' \in [Runs -> Pcs] /\ status' \in [Runs -> Statuses]
         /\ pc'[r] \in {"leave", "done"} /\ status'[r] = result
         /\ Active(r) => pc'[r] = "leave"
         /\ \A q \in Runs \ {r} : pc'[q] = pc[q] /\ status'[q] = status[q]
  BY DEF RunTypes, Leave, Pcs, Active

(* A run that fails or meets a conflict, before it wrote anything that is  *)
(* still there.                                                            *)
LEMMA GivesUp ==
  ASSUME EditInv, NEW r \in Runs, pc[r] \notin {"leave", "done", "killed"},
         DOMAIN source' = Runs, \A q \in Runs \ {r} : source'[q] = source[q],
         history' = history,
         \/ Fail(r)
         \/ Conflict(r) /\ file.by # r
         \/ Leave(r, "already_configured") /\ UNCHANGED disk
         \/ Leave(r, "inserted") /\ UNCHANGED disk
  PROVE  EditInv'
<1>1. PICK result \in {"error", "conflict", "already_configured", "inserted"} :
        Leave(r, result) /\ UNCHANGED disk /\ (result = "conflict" => file.by # r)
  BY DEF Fail, Conflict
<1>2. /\ RunTypes'
      /\ pc'[r] \in {"leave", "done"} /\ status'[r] = result
      /\ Active(r) => pc'[r] = "leave"
      /\ \A q \in Runs \ {r} : pc'[q] = pc[q] /\ status'[q] = status[q]
  BY <1>1, LeaveType DEF EditInv, RunTypes, Statuses, disk
<1>3. file' = file /\ backups' = backups /\ lock' = lock /\ late' = late
  BY <1>1 DEF disk, history
<1>4. Alone(r)
  BY <1>2, <1>3 DEF Alone
<1>5. Locked'
  <2>1. pc'[r] = "done" \/ Active(r) \/ pc[r] = "start"
    BY DEF Active
  <2>2. pc[r] = "start" => pc'[r] = "done"
    BY <1>1 DEF Leave, EditInv, RunTypes
  <2> QED
    BY <1>2, <1>3, <2>1, <2>2 DEF EditInv, Locked, Active
<1>6. Unanswered(r)' /\ BackedUp(r)' /\ Prepared(r)'
  BY <1>2 DEF Unanswered, BackedUp, Prepared, Editing
<1>7. Wrote(r)'
  BY <1>1, <1>2, <1>3 DEF Wrote
<1> QED
  BY <1>4, <1>5, <1>6, <1>7, AloneInv

(* A run that goes on, having kept its own part of the invariant.          *)
LEMMA GoesOn ==
  ASSUME EditInv, NEW r \in Runs, Active(r), NEW to \in Pcs, Go(r, to),
         DOMAIN source' = Runs, \A q \in Runs \ {r} : source'[q] = source[q],
         history' = history, lock' = lock,
         file' = file \/ (file'.by = r /\ {"text", "by"} \subseteq DOMAIN file'),
         status[r] = "none", BackedUp(r)', Prepared(r)', Wrote(r)'
  PROVE  EditInv'
<1>1. /\ RunTypes' /\ pc'[r] = to /\ status' = status
      /\ \A q \in Runs \ {r} : pc'[q] = pc[q]
  BY GoType DEF EditInv, RunTypes
<1>2. Alone(r)
  BY <1>1 DEF Alone, history
<1>3. Locked'
  BY <1>1 DEF EditInv, Locked, Active
<1>4. Unanswered(r)'
  BY <1>1 DEF Unanswered
<1> QED
  BY <1>2, <1>3, <1>4, AloneInv

(* Taking the lock, and reading the file.                                  *)
LEMMA ReadingInv ==
  ASSUME EditInv, NEW r \in Runs, Lock(r) \/ Read(r) PROVE EditInv'
<1>1. CASE Lock(r)
  <2>1. source' = source /\ history' = history /\ pc[r] = "start" /\ DOMAIN source = Runs
        /\ file.by # r
    BY <1>1 DEF Lock, EditInv, RunTypes, Wrote
  <2>2. CASE Fail(r) \/ Conflict(r)
    BY <2>1, <2>2, GivesUp
  <2>4. CASE /\ lock = None /\ lock' = r
             /\ Leave(r, "error") /\ UNCHANGED <<file, inodes, backups>>
    <3>1. /\ RunTypes' /\ pc'[r] = "done" /\ status'[r] = "error"
          /\ \A q \in Runs \ {r} : pc'[q] = pc[q] /\ status'[q] = status[q]
      BY <2>1, <2>4, LeaveType DEF EditInv, RunTypes, Statuses, Leave
    <3>2. Alone(r)
      BY <2>1, <2>4, <3>1 DEF Alone, history
    <3>3. \A q \in Runs : ~Active(q)
      BY <2>4, RunsAssumption DEF EditInv, Locked
    <3>4. Locked'
      BY <2>4, <3>1, <3>3 DEF Locked, Active
    <3>5. Unanswered(r)' /\ BackedUp(r)' /\ Prepared(r)' /\ Wrote(r)'
      BY <2>1, <2>4, <3>1 DEF Unanswered, BackedUp, Prepared, Wrote, Editing
    <3> QED
      BY <3>2, <3>4, <3>5, AloneInv
  <2>3. CASE /\ lock = None /\ lock' = r
             /\ Go(r, "read") /\ UNCHANGED <<file, inodes, backups>>
    <3>1. /\ RunTypes' /\ pc'[r] = "read" /\ status' = status
          /\ \A q \in Runs \ {r} : pc'[q] = pc[q]
      BY <2>1, <2>3, GoType DEF EditInv, RunTypes, Pcs
    <3>2. Alone(r)
      BY <2>1, <2>3, <3>1 DEF Alone, history
    <3>3. \A q \in Runs : ~Active(q)
      BY <2>3, RunsAssumption DEF EditInv, Locked
    <3>4. Locked'
      BY <2>3, <3>1, <3>3 DEF Locked, Active
    <3>5. Unanswered(r)' /\ BackedUp(r)' /\ Prepared(r)' /\ Wrote(r)'
      BY <2>1, <2>3, <3>1 DEF EditInv, Unanswered, BackedUp, Prepared, Wrote, Editing
    <3> QED
      BY <3>2, <3>4, <3>5, AloneInv
  <2> QED
    BY <1>1, <2>2, <2>3, <2>4 DEF Lock
<1>2. CASE Read(r)
  <2>1. /\ source' = [source EXCEPT ![r] = file] /\ history' = history /\ pc[r] = "read"
        /\ DOMAIN source' = Runs /\ \A q \in Runs \ {r} : source'[q] = source[q]
        /\ source'[r] = file /\ file.by # r /\ status[r] = "none" /\ Active(r)
    BY <1>2 DEF Read, EditInv, RunTypes, Wrote, Unanswered, Active
  <2>2. CASE \/ Fail(r) \/ Conflict(r)
             \/ Leave(r, "already_configured") /\ UNCHANGED disk
    BY <2>1, <2>2, GivesUp
  <2>3. CASE Merge(file.text).changed /\ Go(r, "backup") /\ UNCHANGED disk
    <3>1. pc'[r] = "backup" /\ file' = file /\ lock' = lock
      BY <2>3, GoType DEF EditInv, RunTypes, Pcs, disk
    <3>2. BackedUp(r)' /\ Prepared(r)' /\ Wrote(r)'
      BY <2>1, <2>3, <3>1 DEF BackedUp, Prepared, Wrote, Text, Editing
    <3> QED
      BY <2>1, <2>3, <3>1, <3>2, GoesOn DEF Pcs
  <2> QED
    BY <1>2, <2>2, <2>3 DEF Read
<1> QED
  BY <1>1, <1>2

(* Making the backup keeps the invariant: until it is complete the original*)
(* is in place.                                                            *)
LEMMA BackingUpInv ==
  ASSUME EditInv, NEW r \in Runs, OpenBackup(r) \/ WriteBackup(r) \/ SyncBackup(r)
  PROVE  EditInv'
<1>1. /\ source' = source /\ history' = history /\ pc[r] \in {"backup", "write", "sync"}
      /\ DOMAIN source = Runs /\ Active(r) /\ status[r] = "none" /\ file.by # r
      /\ Merge(Text(r)).changed /\ BackedUp(r)
      /\ Fail(r) => EditInv'
  <2>1. /\ source' = source /\ history' = history /\ pc[r] \in {"backup", "write", "sync"}
    BY DEF OpenBackup, WriteBackup, SyncBackup
  <2>2. /\ DOMAIN source = Runs /\ Active(r) /\ status[r] = "none" /\ file.by # r
        /\ Merge(Text(r)).changed /\ BackedUp(r)
    BY <2>1 DEF EditInv, RunTypes, Active, Unanswered, Wrote, Prepared, Editing
  <2> QED
    BY <2>1, <2>2, GivesUp
<1>2. ASSUME NEW to \in {"write", "sync", "temp"}, Go(r, to),
             file' = file, lock' = lock, BackedUp(r)'
      PROVE  EditInv'
  <2>1. pc'[r] = to /\ to \in Pcs
    BY <1>2, GoType DEF EditInv, Pcs
  <2>2. Prepared(r)' /\ Wrote(r)'
    BY <1>1, <1>2, <2>1 DEF Prepared, Wrote, Text, Editing
  <2> QED
    BY <1>1, <1>2, <2>1, <2>2, GoesOn
<1>3. \A to \in {"write", "sync", "temp"} : Go(r, to) => pc'[r] = to
  BY GoType DEF EditInv, Pcs
<1>4. CASE OpenBackup(r)
  <2>1. CASE Conflict(r)
    BY <1>1, <2>1, GivesUp
  <2>2. CASE /\ Text(r) \in DOMAIN backups /\ backups[Text(r)] = Text(r)
             /\ Go(r, "temp") /\ UNCHANGED disk
    <3>1. BackedUp(r)'
      BY <1>1, <2>2 DEF BackedUp, Text, disk
    <3> QED
      BY <1>2, <2>2, <3>1 DEF disk
  <2>3. CASE /\ Text(r) \in DOMAIN backups'
             /\ Go(r, "write") /\ UNCHANGED <<file, inodes, lock>>
    <3>1. BackedUp(r)'
      BY <1>1, <1>3, <2>3 DEF BackedUp, Text, Editing
    <3> QED
      BY <1>2, <2>3, <3>1
  <2> QED
    BY <1>1, <1>4, <2>1, <2>2, <2>3 DEF OpenBackup
<1>5. CASE WriteBackup(r)
  <2>1. CASE /\ pc[r] = "write" /\ backups' = [backups EXCEPT ![Text(r)] = Text(r)]
             /\ Go(r, "sync") /\ UNCHANGED <<file, inodes, lock>>
    <3>1. Text(r) \in DOMAIN backups
      BY <1>1, <2>1 DEF BackedUp, Editing
    <3>2. Text(r) \in DOMAIN backups' /\ backups'[Text(r)] = Text(r)
      BY <2>1, <3>1
    <3>3. BackedUp(r)'
      BY <1>1, <3>2 DEF BackedUp, Text
    <3> QED
      BY <1>2, <2>1, <3>3
  <2> QED
    BY <1>1, <1>5, <2>1 DEF WriteBackup
<1>6. CASE SyncBackup(r)
  <2>1. CASE pc[r] = "sync" /\ Go(r, "temp") /\ UNCHANGED disk
    <3>1. BackedUp(r)'
      BY <1>1, <1>3, <2>1 DEF BackedUp, Text, disk, Editing
    <3> QED
      BY <1>2, <2>1, <3>1 DEF disk
  <2> QED
    BY <1>1, <1>6, <2>1 DEF SyncBackup
<1> QED
  BY <1>4, <1>5, <1>6

(* Writing the new text and putting it in place keeps it: the file that is *)
(* replaced is the one that was read.                                      *)
LEMMA ReplacingInv ==
  ASSUME EditInv, NEW r \in Runs, WriteTemp(r) \/ Compare(r) \/ Replace(r) PROVE EditInv'
<1>1. /\ source' = source /\ history' = history /\ pc[r] \in {"temp", "compare", "replace"}
      /\ DOMAIN source = Runs /\ Active(r) /\ status[r] = "none" /\ file.by # r
      /\ Merge(Text(r)).changed /\ Text(r) \in DOMAIN backups /\ backups[Text(r)] = Text(r)
      /\ Fail(r) \/ Conflict(r) => EditInv'
  <2>1. /\ source' = source /\ history' = history /\ pc[r] \in {"temp", "compare", "replace"}
    BY DEF WriteTemp, Compare, Replace
  <2>2. /\ DOMAIN source = Runs /\ Active(r) /\ status[r] = "none" /\ file.by # r
        /\ Merge(Text(r)).changed /\ Text(r) \in DOMAIN backups /\ backups[Text(r)] = Text(r)
    BY <2>1 DEF EditInv, RunTypes, Active, Unanswered, Wrote, Prepared, BackedUp, Editing
  <2> QED
    BY <2>1, <2>2, GivesUp
<1>2. ASSUME NEW to \in {"compare", "replace"}, Go(r, to), UNCHANGED disk,
             to = "replace" => file.text = Text(r)
      PROVE  EditInv'
  <2>1. pc'[r] = to /\ to \in Pcs /\ file' = file /\ lock' = lock /\ backups' = backups
    BY <1>2, GoType DEF EditInv, Pcs, disk
  <2>2. BackedUp(r)' /\ Prepared(r)' /\ Wrote(r)'
    BY <1>1, <1>2, <2>1 DEF BackedUp, Prepared, Wrote, Text, Editing
  <2> QED
    BY <1>1, <1>2, <2>1, <2>2, GoesOn
<1>3. CASE WriteTemp(r)
  BY <1>1, <1>2, <1>3 DEF WriteTemp
<1>4. CASE Compare(r)
  BY <1>1, <1>2, <1>4 DEF Compare
<1>5. CASE Replace(r) /\ ~Fail(r)
  <2>1. /\ Put(After(r), r) /\ UNCHANGED <<backups, lock>>
        /\ Go(r, "verify") \/ Leave(r, "error")
    BY <1>5 DEF Replace
  <2>2. file'.by = r /\ file'.text = After(r) /\ {"text", "by"} \subseteq DOMAIN file'
    BY <2>1 DEF Put
  <2>3. CASE Go(r, "verify")
    <3>1. pc'[r] = "verify" /\ status' = status
      BY <2>3, GoType DEF EditInv, Pcs
    <3>2. BackedUp(r)' /\ Prepared(r)' /\ Wrote(r)'
      BY <1>1, <2>2, <3>1 DEF BackedUp, Prepared, Wrote, Text, After, Editing
    <3> QED
      BY <1>1, <2>1, <2>2, <2>3, <3>2, GoesOn DEF Pcs
  <2>4. CASE Leave(r, "error")
    <3>1. /\ RunTypes' /\ pc'[r] = "leave" /\ status'[r] = "error"
          /\ \A q \in Runs \ {r} : pc'[q] = pc[q] /\ status'[q] = status[q]
      BY <1>1, <2>2, <2>4, LeaveType DEF EditInv, RunTypes, Statuses
    <3>2. Alone(r)
      BY <1>1, <2>2, <3>1 DEF Alone, history
    <3>3. Locked'
      BY <1>1, <2>1, <3>1 DEF EditInv, Locked, Active
    <3>4. Unanswered(r)' /\ BackedUp(r)' /\ Prepared(r)' /\ Wrote(r)'
      BY <3>1 DEF Unanswered, BackedUp, Prepared, Wrote, Editing
    <3> QED
      BY <3>2, <3>3, <3>4, AloneInv
  <2> QED
    BY <2>1, <2>3, <2>4
<1> QED
  BY <1>1, <1>3, <1>4, <1>5 DEF Replace

(* So do the last steps of a run, and its death at any time.               *)
LEMMA LeavingInv ==
  ASSUME EditInv, NEW r \in Runs, Verify(r) \/ Unlock(r) \/ Kill(r) PROVE EditInv'
<1>1. RunTypes /\ Locked /\ Unanswered(r) /\ Wrote(r) /\ DOMAIN source = Runs
  BY DEF EditInv, RunTypes
<1>2. CASE Verify(r)
  <2>1. /\ pc[r] = "verify" /\ source' = source /\ history' = history
        /\ \/ Fail(r)
           \/ file.text = After(r) /\ Leave(r, "inserted") /\ UNCHANGED disk
           \/ file.text # After(r) /\ Conflict(r)
    BY <1>2 DEF Verify
  <2>2. file.text # After(r) => file.by # r
    BY <1>1, <2>1 DEF Wrote
  <2> QED
    BY <1>1, <2>1, <2>2, GivesUp
<1>3. CASE Unlock(r) \/ Kill(r)
  <2>1. PICK to \in {"done", "killed"} : Go(r, to)
    BY <1>3 DEF Unlock, Kill
  <2>2. /\ pc' \in [Runs -> Pcs] /\ status' = status /\ pc'[r] = to
        /\ \A q \in Runs \ {r} : pc'[q] = pc[q]
    BY <1>1, <2>1, GoType DEF Pcs
  <2>3. /\ source' = source /\ file' = file /\ backups' = backups /\ late' = late
        /\ Active(r) /\ (lock' = lock \/ lock' = None)
    BY <1>3 DEF Unlock, Kill, disk, history, Active
  <2>4. Alone(r)
    BY <1>1, <2>2, <2>3 DEF Alone, RunTypes
  <2>5. Locked'
    BY <1>1, <2>2, <2>3 DEF Locked, Active
  <2>6. Unanswered(r)' /\ BackedUp(r)' /\ Prepared(r)' /\ Wrote(r)'
    <3>1. status[r] = "conflict" => file.by # r
      BY <1>1 DEF Wrote
    <3> QED
      BY <2>2, <2>3, <3>1 DEF Unanswered, BackedUp, Prepared, Wrote, Editing
  <2> QED
    BY <2>4, <2>5, <2>6, AloneInv
<1> QED
  BY <1>2, <1>3

(* Nothing that others do to the file makes it the work of a run, or one   *)
(* that a run was about to replace unnoticed.                              *)
LEMMA OthersInv ==
  ASSUME EditInv, RemoveLock \/ \E t \in Edits : Edit(t) PROVE EditInv'
<1>1. CASE RemoveLock
  <2>1. /\ \A r \in Runs : ~Active(r)
        /\ UNCHANGED <<file, backups, pc, source, status, late>>
    BY <1>1 DEF RemoveLock, history
  <2> QED
    BY <2>1 DEF EditInv, RunTypes, Locked, Active, Unanswered, BackedUp, Prepared, Wrote, Text, After
<1>2. ASSUME NEW t \in Edits, Edit(t) PROVE EditInv'
  <2>1. /\ file'.by \notin Runs /\ {"text", "by"} \subseteq DOMAIN file'
        /\ UNCHANGED <<backups, lock, pc, source, status>>
        /\ late' = late \cup {r \in Runs : pc[r] = "replace"}
    <3>1. \/ file' = [text |-> t, inode |-> inodes', by |-> None]
          \/ file' = [file EXCEPT !.text = t, !.by = None]
      BY <1>2 DEF Edit, Put
    <3>2. UNCHANGED <<backups, lock, pc, source, status>>
          /\ late' = late \cup {r \in Runs : pc[r] = "replace"}
      BY <1>2 DEF Edit
    <3>3. file'.by = None /\ {"text", "by"} \subseteq DOMAIN file'
      <4>1. CASE file' = [text |-> t, inode |-> inodes', by |-> None]
        BY <4>1
      <4>2. CASE file' = [file EXCEPT !.text = t, !.by = None]
        BY <4>2 DEF EditInv, RunTypes
      <4> QED
        BY <3>1, <4>1, <4>2
    <3> QED
      BY <3>2, <3>3, RunsAssumption
  <2> QED
    BY <2>1 DEF EditInv, RunTypes, Locked, Active, Unanswered, BackedUp, Prepared, Wrote, Text, After
<1> QED
  BY <1>1, <1>2

(* Every step of a run and of an editor keeps it.                          *)
LEMMA EditNext == ASSUME EditInv, [Next]_vars PROVE EditInv'
<1>1. CASE UNCHANGED vars
  BY <1>1 DEF vars, disk, history, EditInv, RunTypes, Locked, Active, Unanswered, BackedUp, Prepared,
     Wrote, Text, After
<1> QED
  BY <1>1, ReadingInv, BackingUpInv, ReplacingInv, LeavingInv, OthersInv DEF Next, Step

(* The invariant of the edit always holds.                                 *)
LEMMA EditInvariance == Spec => []EditInv
  BY EditInitially, EditNext, PTL DEF Spec

----------------------------------------------------------------------------
(* A run changes the file only when it replaces it, by what Merge makes of *)
(* the text it read.                                                       *)
LEMMA RunFile ==
  ASSUME NEW r \in Runs, Step(r) \/ Kill(r)
  PROVE  file' = file \/ (Replace(r) /\ file'.by = r /\ file'.text = After(r))
<1>1. CASE Replace(r)
  BY <1>1 DEF Replace, Fail, Put, disk
<1>2. CASE ~Replace(r)
  BY <1>2 DEF Step, Kill, Lock, Read, OpenBackup, WriteBackup, SyncBackup, WriteTemp, Compare, Verify,
     Unlock, Fail, Conflict, disk
<1> QED
  BY <1>1, <1>2

(* What others write is theirs, and a text they may write.                 *)
LEMMA EditFile ==
  ASSUME EditInv, NEW t \in Edits, Edit(t)
  PROVE  file'.by = None /\ file'.text = t
<1>1. CASE file' = [text |-> t, inode |-> inodes', by |-> None]
  BY <1>1
<1>2. CASE file' = [file EXCEPT !.text = t, !.by = None]
  BY <1>2 DEF EditInv, RunTypes
<1> QED
  BY <1>1, <1>2 DEF Edit, Put

(* OriginalIsKept, for any number of runs, edits and kills: no run         *)
(* replaces a text by anything but what Merge makes of it, and none before *)
(* a whole backup of that text lies there (file.go:60-151).                *)
THEOREM OriginalKept == Spec => OriginalIsKept
<1>1. ASSUME EditInv, [Next]_vars, NEW r \in Runs \ late, file' # file, file'.by = r
      PROVE  /\ file'.text = Merge(file.text).text
             /\ file.text \in DOMAIN backups /\ backups[file.text] = file.text
  <2>1. Replace(r) /\ file'.text = After(r)
    <3>1. ~\E t \in Edits : Edit(t)
      BY <1>1, EditFile, RunsAssumption
    <3>2. PICK q \in Runs : Step(q) \/ Kill(q)
      BY <1>1, <3>1 DEF Next, vars, disk, RemoveLock
    <3> QED
      BY <1>1, <3>2, RunFile
  <2>2. pc[r] = "replace"
    BY <2>1 DEF Replace
  <2>3. Prepared(r) /\ BackedUp(r)
    BY <1>1 DEF EditInv
  <2> QED
    BY <1>1, <2>1, <2>2, <2>3 DEF Prepared, BackedUp, After, Editing
<1>2. EditInv /\ [Next]_vars =>
        [\A r \in Runs \ late : file' # file /\ file'.by = r =>
           /\ file'.text = Merge(file.text).text
           /\ file.text \in DOMAIN backups /\ backups[file.text] = file.text]_vars
  BY <1>1
<1> QED
  BY <1>2, EditInvariance, PTL DEF Spec, OriginalIsKept

----------------------------------------------------------------------------
(* Merge refuses a text or accepts it; a text it changes is accepted, and  *)
(* one it does not change it returns as it is (merge.go:158-207).          *)
LEMMA MergeAnswers ==
  ASSUME NEW t
  PROVE  /\ Merge(t).changed => Merge(t).ok
         /\ ~Merge(t).changed => Merge(t).text = t
<1>1. CASE Merge(t) = Refused(t)
  BY <1>1, Answers
<1>2. ASSUME NEW root, Settles(t, root, Merge(t))
      PROVE  Merge(t) = Kept(t) \/ \E at, w : Merge(t) = Insert(t, at, w)
  BY <1>2 DEF Settles, SetsIn
<1> QED
  BY <1>1, <1>2, MergeForm, Answers

(* A text that Merge accepts has the setting afterwards.                   *)
LEMMA MergeUnderstood ==
  ASSUME NEW t \in Seq(Tokens)
  PROVE  /\ Merge(t).text \in Seq(Tokens)
         /\ Merge(t).ok => Contains(Says(Merge(t).text), Advertised)
<1>1. Merge(t).text \in Seq(Tokens)
  <2>1. ASSUME Merge(t).changed PROVE Merge(t).text \in Seq(Tokens)
    <3>1. PICK root : HasRoot(t, root) /\ Settles(t, root, Merge(t))
      BY <2>1, MergeForm, Answers
    <3>2. CASE Merge(t) = Insert(t, root.close, TheBlock)
      <4>1. Entered(t, <<>>, 0, root)
        BY <3>1, InRoot
      <4>2. root.close \in 1..Len(t) /\ TheBlock \in Seq(Tokens)
        BY <4>1, TheTexts DEF Entered
      <4>3. IsInserted(t, root.close, TheBlock, Merge(t).text)
        BY <3>2, <4>2, Inserts
      <4> QED
        BY <4>3 DEF IsInserted
    <3>3. ASSUME NEW m \in With(root.children, "GMS"), m.block, Merge(t) = Insert(t, m.close, TheSetting)
          PROVE  Merge(t).text \in Seq(Tokens)
      <4>1. m \in root.children
        BY DEF With
      <4>2. Entered(t, <<"GameInfo">>, 1, m)
        BY <3>1, <3>3, <4>1, EntersGMS
      <4>3. m.close \in 1..Len(t) /\ TheSetting \in Seq(Tokens)
        BY <4>2, TheTexts DEF Entered
      <4>4. IsInserted(t, m.close, TheSetting, Merge(t).text)
        BY <3>3, <4>3, Inserts
      <4> QED
        BY <4>4 DEF IsInserted
    <3>4. Merge(t) # Kept(t)
      BY <2>1, Answers
    <3> QED
      BY <3>1, <3>2, <3>3, <3>4 DEF Settles, SetsIn
  <2> QED
    BY <2>1, MergeAnswers
<1>2. ASSUME Merge(t).ok PROVE Contains(Says(Merge(t).text), Advertised)
  BY <1>2, FaithfulText DEF Faithful, Contains
<1> QED
  BY <1>1, <1>2

(* The result of a run that added the setting or found it.                 *)
Answered(r) ==
    status[r] \in {"inserted", "already_configured"} /\ r \notin touched
        => Contains(Says(file.text), Advertised)

AnswerInv ==
    /\ file.text \in Seq(Tokens)
    /\ \A r \in Runs :
         /\ pc[r] \in Editing \cup {"verify"} => Text(r) \in Seq(Tokens)
         /\ Answered(r)

(* What a run that has no answer yet does.                                 *)
LEMMA AnswerStep ==
  ASSUME EditInv, AnswerInv, NEW r \in Runs, Step(r) \/ Kill(r)
  PROVE  AnswerInv'
<1>1. /\ touched' = touched
      /\ \A q \in Runs \ {r} : pc'[q] = pc[q] /\ status'[q] = status[q] /\ source'[q] = source[q]
  <2>1. touched' = touched
    BY DEF Step, Kill, Lock, Read, OpenBackup, WriteBackup, SyncBackup, WriteTemp, Compare, Replace,
       Verify, Unlock, history
  <2>2. \A q \in Runs \ {r} : pc'[q] = pc[q] /\ status'[q] = status[q]
    <3>1. (\E to \in Pcs : Go(r, to)) \/ \E result \in Statuses : Leave(r, result)
      BY DEF Step, Kill, Lock, Read, OpenBackup, WriteBackup, SyncBackup, WriteTemp, Compare, Replace,
         Verify, Unlock, Fail, Conflict, Pcs, Statuses
    <3> QED
      BY <3>1, GoType, LeaveType DEF EditInv
  <2>3. \A q \in Runs \ {r} : source'[q] = source[q]
    BY DEF Step, Kill, Lock, Read, OpenBackup, WriteBackup, SyncBackup, WriteTemp, Compare, Replace,
       Verify, Unlock, EditInv, RunTypes
  <2> QED
    BY <2>1, <2>2, <2>3
<1>2. /\ file'.text \in Seq(Tokens)
      /\ file'.text = file.text \/ Contains(Says(file'.text), Advertised)
  <2>1. CASE file' = file
    BY <2>1 DEF AnswerInv
  <2>2. CASE file' # file
    <3>1. Replace(r) /\ file'.text = After(r)
      BY <2>2, RunFile
    <3>2. pc[r] = "replace" /\ Prepared(r) /\ Text(r) \in Seq(Tokens)
      BY <3>1 DEF Replace, EditInv, AnswerInv, Editing
    <3>3. Merge(Text(r)).ok
      BY <3>2, MergeAnswers DEF Prepared, Editing
    <3> QED
      BY <3>1, <3>2, <3>3, MergeUnderstood DEF After
  <2> QED
    BY <2>1, <2>2
<1>3. pc'[r] \in Editing \cup {"verify"} => Text(r)' \in Seq(Tokens)
  <2>1. CASE Read(r)
    BY <2>1 DEF Read, EditInv, RunTypes, AnswerInv, Text
  <2>2. CASE ~Read(r)
    <3>1. source' = source
      BY <2>2 DEF Step, Kill, Lock, OpenBackup, WriteBackup, SyncBackup, WriteTemp, Compare, Replace,
         Verify, Unlock
    <3>2. pc'[r] \in Editing \cup {"verify"} => pc[r] \in Editing \cup {"verify"}
      <4>1. CASE Lock(r) \/ Unlock(r) \/ Kill(r)
        BY <4>1, GoType, LeaveType DEF EditInv, Lock, Unlock, Kill, Fail, Conflict, Pcs, Statuses, Editing
      <4> QED
        BY <2>2, <4>1 DEF Step, OpenBackup, WriteBackup, SyncBackup, WriteTemp, Compare, Replace, Verify,
           Editing
    <3> QED
      BY <3>1, <3>2 DEF AnswerInv, Text
  <2> QED
    BY <2>1, <2>2
<1>4. Answered(r)'
  <2>1. CASE file' = file /\ status'[r] = status[r]
    BY <1>1, <2>1 DEF AnswerInv, Answered
  <2>2. CASE Replace(r)
    <3>1. status'[r] \notin {"inserted", "already_configured"}
      <4>1. status[r] = "none"
        BY <2>2 DEF Replace, EditInv, Unanswered
      <4>2. (\E to \in Pcs : Go(r, to)) \/ Leave(r, "error")
        BY <2>2 DEF Replace, Fail, Pcs
      <4> QED
        BY <4>1, <4>2, GoType, LeaveType DEF EditInv, Statuses
    <3> QED
      BY <3>1 DEF Answered
  <2>3. CASE Read(r)
    <3>1. CASE Merge(file.text).ok /\ ~Merge(file.text).changed /\ UNCHANGED disk
      <4>1. Contains(Says(file.text), Advertised)
        BY <3>1, MergeAnswers, MergeUnderstood DEF AnswerInv
      <4> QED
        BY <3>1, <4>1 DEF Answered, disk
    <3>2. CASE Fail(r) \/ Conflict(r) \/ Go(r, "backup")
      <4>1. status'[r] \notin {"inserted", "already_configured"}
        BY <2>3, <3>2, GoType, LeaveType DEF Read, EditInv, Unanswered, Fail, Conflict, Statuses, Pcs
      <4> QED
        BY <4>1 DEF Answered
    <3> QED
      BY <2>3, <3>1, <3>2 DEF Read
  <2>4. CASE Verify(r)
    <3>1. CASE file.text = After(r) /\ UNCHANGED disk
      <4>1. Merge(Text(r)).ok /\ Text(r) \in Seq(Tokens)
        BY <2>4, MergeAnswers DEF Verify, EditInv, Prepared, AnswerInv
      <4> QED
        BY <3>1, <4>1, MergeUnderstood DEF After, Answered, disk
    <3>2. CASE Fail(r) \/ Conflict(r)
      BY <3>2, LeaveType DEF EditInv, Fail, Conflict, Statuses, Answered
    <3> QED
      BY <2>4, <3>1, <3>2 DEF Verify
  <2>5. CASE ~Replace(r) /\ ~Read(r) /\ ~Verify(r)
    <3>1. file' = file
      BY <2>5, RunFile
    <3>2. status'[r] = status[r] \/ status'[r] \in {"error", "conflict"}
      <4>1. \/ \E to \in Pcs : Go(r, to)
            \/ \E result \in {"error", "conflict"} : Leave(r, result)
        BY <2>5 DEF Step, Kill, Lock, OpenBackup, WriteBackup, SyncBackup, WriteTemp, Compare, Unlock,
           Fail, Conflict, Pcs
      <4> QED
        BY <4>1, GoType, LeaveType DEF EditInv, Statuses
    <3> QED
      BY <1>1, <3>1, <3>2 DEF AnswerInv, Answered
  <2> QED
    BY <2>2, <2>3, <2>4, <2>5
<1>5. ASSUME NEW q \in Runs \ {r}
      PROVE  (pc'[q] \in Editing \cup {"verify"} => Text(q)' \in Seq(Tokens)) /\ Answered(q)'
  BY <1>1, <1>2 DEF AnswerInv, Answered, Text
<1> QED
  BY <1>2, <1>3, <1>4, <1>5 DEF AnswerInv

(* Every step keeps the results true.                                      *)
LEMMA AnswerNext ==
  ASSUME EditInv, AnswerInv, [Next]_vars
  PROVE  AnswerInv'
<1>1. CASE RemoveLock \/ UNCHANGED vars
  BY <1>1 DEF RemoveLock, vars, disk, history, AnswerInv, Answered, Text
<1>2. ASSUME NEW t \in Edits, Edit(t) PROVE AnswerInv'
  <2>1. file'.text \in Seq(Tokens)
    BY <1>2, EditFile, RunsAssumption
  <2>2. pc' = pc /\ source' = source /\ status' = status /\ touched' = {r \in Runs : pc[r] # "start"}
    BY <1>2 DEF Edit
  <2>3. \A r \in Runs : r \notin touched' => status[r] = "none"
    BY <2>2 DEF EditInv, Unanswered
  <2> QED
    BY <2>1, <2>2, <2>3 DEF AnswerInv, Answered, Text
<1> QED
  BY <1>1, <1>2, AnswerStep DEF Next

(* What a run reports stays true, and the file is a text.                  *)
LEMMA AnswerInvariance == Spec => [](EditInv /\ AnswerInv)
<1>1. Init => AnswerInv
  BY RunsAssumption DEF Init, AnswerInv, Answered, Editing
<1>2. EditInv /\ AnswerInv /\ [Next]_vars => AnswerInv'
  BY AnswerNext
<1> QED
  BY <1>1, <1>2, EditInvariance, PTL DEF Spec

(* ResultIsTrue, for any number of runs, any texts and any number of edits *)
(* and kills: what a run reports is true of the file until others write to *)
(* it (file.go:56-151).                                                    *)
THEOREM ResultTrue == Spec => []ResultIsTrue
<1>1. EditInv /\ AnswerInv => ResultIsTrue
  BY DEF EditInv, Wrote, AnswerInv, Answered, ResultIsTrue
<1> QED
  BY <1>1, AnswerInvariance, PTL

(* MergeIsFaithful, for every text that ever lies there: Merge adds the    *)
(* one setting, changes nothing else that the text says, and adds it only  *)
(* once, or it refuses the text (merge.go:158-207).                        *)
THEOREM MergeFaithful == Spec => []MergeIsFaithful
<1>1. AnswerInv => MergeIsFaithful
  BY FaithfulText, StableText DEF AnswerInv, MergeIsFaithful
<1> QED
  BY <1>1, AnswerInvariance, PTL
=============================================================================
