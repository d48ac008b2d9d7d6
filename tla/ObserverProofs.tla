--------------------------- MODULE ObserverProofs ---------------------------
(***************************************************************************)
(* Theorems about Observer, for any rules, any length of a read and of the *)
(* kept suffix (as long as it is no shorter than the longest rule but one  *)
(* character), any logs and any number of files.                           *)
(***************************************************************************)
EXTENDS Observer, TLAPS

(* s is the beginning of t.                                                *)
Begins(s, t) == Len(s) <= Len(t) /\ \A j \in 1..Len(s) : s[j] = t[j]

(* The observer keeps the end of what it has read, and knows how much that *)
(* was; before its first scan it has read nothing.                         *)
Remembered ==
    /\ suffix = Last(seen) /\ Len(seen) = offset
    /\ previous = 0 => offset = 0

(* The files it knows were made, and a running scan is of the file that    *)
(* the observer is set to.                                                 *)
Known ==
    /\ path <= made /\ previous <= made
    /\ opened # 0 => previous = opened

(* What it has read is the beginning of the file, unless the file was      *)
(* emptied or is not the one a scan will read.                             *)
Followed ==
    previous # 0 /\ ~torn /\ (opened # 0 \/ previous = path) => Begins(seen, logs[previous])

IInv == TypeOK /\ FoundIsRead /\ Remembered /\ Known /\ Followed

----------------------------------------------------------------------------
(* Texts. *)

(* The bounds are numbers.                                                 *)
LEMMA Numbers == Keep \in Nat /\ Chunk \in Nat /\ MaxLog \in Nat
  BY RulesAssumption

(* A log is a sequence of at most MaxLog characters.                       *)
LEMMA TextsAreBounded ==
  ASSUME NEW t
  PROVE  t \in Texts <=> t \in Seq(Char) /\ Len(t) <= MaxLog
<1>1. ASSUME t \in Texts PROVE t \in Seq(Char) /\ Len(t) <= MaxLog
  <2>1. PICK n \in 0..MaxLog : t \in [1..n -> Char]
    BY <1>1 DEF Texts
  <2> QED
    BY <2>1, RulesAssumption
<1>2. ASSUME t \in Seq(Char), Len(t) <= MaxLog PROVE t \in Texts
  <2>1. Len(t) \in 0..MaxLog /\ t \in [1..Len(t) -> Char]
    BY <1>2, RulesAssumption
  <2> QED
    BY <2>1 DEF Texts
<1> QED
  BY <1>1, <1>2

(* The empty text is a text.                                               *)
LEMMA EmptyText == <<>> \in Texts /\ <<>> \in Seq(Char)
<1>1. <<>> \in Seq(Char) /\ Len(<<>>) <= MaxLog
  BY Numbers
<1> QED
  BY <1>1, TextsAreBounded

(* A part of a text, character by character.                               *)
LEMMA PartOf ==
  ASSUME NEW t \in Seq(Char), NEW k \in Nat, NEW n \in Nat, k + n <= Len(t)
  PROVE  /\ SubSeq(t, k + 1, k + n) \in Seq(Char)
         /\ Len(SubSeq(t, k + 1, k + n)) = n
         /\ \A j \in 1..n : SubSeq(t, k + 1, k + n)[j] = t[k + j]
  OBVIOUS

(* Two texts joined, character by character.                               *)
LEMMA Joined ==
  ASSUME NEW s \in Seq(Char), NEW t \in Seq(Char)
  PROVE  /\ s \o t \in Seq(Char) /\ Len(s \o t) = Len(s) + Len(t)
         /\ \A j \in 1..Len(s) : (s \o t)[j] = s[j]
         /\ \A j \in 1..Len(t) : (s \o t)[Len(s) + j] = t[j]
  OBVIOUS

(* Two texts with the same characters are one.                             *)
LEMMA SameText ==
  ASSUME NEW s \in Seq(Char), NEW t \in Seq(Char), Len(s) = Len(t),
         \A j \in 1..Len(s) : s[j] = t[j]
  PROVE  s = t
  OBVIOUS

(* r stands in t after the first k characters.                             *)
StandsAt(r, t, k) ==
    k \in Nat /\ k + Len(r) <= Len(t) /\ \A j \in 1..Len(r) : t[k + j] = r[j]

(* A rule occurs in a text where its characters stand.                     *)
LEMMA OccursWhere ==
  ASSUME NEW r \in Seq(Char), NEW t \in Seq(Char)
  PROVE  Occurs(r, t) <=> \E k \in Nat : StandsAt(r, t, k)
<1>1. ASSUME Occurs(r, t) PROVE \E k \in Nat : StandsAt(r, t, k)
  <2>1. PICK k \in 0..(Len(t) - Len(r)) : SubSeq(t, k + 1, k + Len(r)) = r
    BY <1>1 DEF Occurs
  <2>2. k \in Nat /\ k + Len(r) <= Len(t)
    BY <2>1
  <2>3. \A j \in 1..Len(r) : t[k + j] = r[j]
    BY <2>1, <2>2, PartOf
  <2> QED
    BY <2>2, <2>3 DEF StandsAt
<1>2. ASSUME NEW k \in Nat, StandsAt(r, t, k) PROVE Occurs(r, t)
  <2>1. k \in 0..(Len(t) - Len(r)) /\ k + Len(r) <= Len(t)
    BY <1>2 DEF StandsAt
  <2>2. SubSeq(t, k + 1, k + Len(r)) = r
    BY <1>2, <2>1, PartOf, SameText DEF StandsAt
  <2> QED
    BY <2>1, <2>2 DEF Occurs
<1> QED
  BY <1>1, <1>2

(* The kept end of a text.                                                 *)
LEMMA LastOf ==
  ASSUME NEW t \in Seq(Char)
  PROVE  /\ Last(t) \in Seq(Char)
         /\ Len(Last(t)) <= Keep /\ Len(Last(t)) <= Len(t)
         /\ Len(t) > Keep => Len(Last(t)) = Keep
         /\ Len(t) <= Keep => Len(Last(t)) = Len(t)
         /\ \A j \in 1..Len(Last(t)) : Last(t)[j] = t[Len(t) - Len(Last(t)) + j]
<1>1. CASE Len(t) > Keep
  <2>1. Len(t) - Keep \in Nat /\ (Len(t) - Keep) + Keep <= Len(t) /\ Keep \in Nat
    BY <1>1, Numbers
  <2>2. Last(t) = SubSeq(t, (Len(t) - Keep) + 1, (Len(t) - Keep) + Keep)
    BY <1>1, <2>1 DEF Last
  <2> QED
    BY <1>1, <2>1, <2>2, PartOf
<1>2. CASE Len(t) <= Keep
  <2>1. Last(t) = t /\ Len(t) \in Nat
    BY <1>2, Numbers DEF Last
  <2>2. \A j \in 1..Len(t) : Len(t) - Len(t) + j = j
    BY <2>1
  <2> QED
    BY <1>2, <2>1, <2>2, Numbers
<1> QED
  BY <1>1, <1>2, Numbers

(* A rule occurs in a longer text of which the end was kept when it occurs *)
(* in the text before, or in the end of that and what was added: Keep is   *)
(* long enough for a rule that is cut apart.                               *)
LEMMA OccursAcross ==
  ASSUME NEW s \in Seq(Char), NEW c \in Seq(Char), NEW r \in Seq(Char),
         Len(r) \in 1..(Keep + 1)
  PROVE  Occurs(r, s \o c) <=> Occurs(r, s) \/ Occurs(r, Last(s) \o c)
<1> DEFINE d == Len(s) - Len(Last(s))
<1>1. /\ s \o c \in Seq(Char) /\ Len(s \o c) = Len(s) + Len(c)
      /\ \A j \in 1..Len(s) : (s \o c)[j] = s[j]
      /\ \A j \in 1..Len(c) : (s \o c)[Len(s) + j] = c[j]
  BY Joined
<1>2. /\ Last(s) \in Seq(Char) /\ d \in Nat
      /\ d > 0 => Len(Last(s)) = Keep
      /\ \A j \in 1..Len(Last(s)) : Last(s)[j] = s[d + j]
  BY LastOf, Numbers
<1>3. /\ Last(s) \o c \in Seq(Char) /\ Len(Last(s) \o c) = Len(s) - d + Len(c)
      /\ \A j \in 1..(Len(s) - d) : (Last(s) \o c)[j] = Last(s)[j]
      /\ \A j \in 1..Len(c) : (Last(s) \o c)[Len(s) - d + j] = c[j]
  <2>1. Len(Last(s)) = Len(s) - d
    BY <1>2
  <2>2. /\ Last(s) \o c \in Seq(Char) /\ Len(Last(s) \o c) = Len(Last(s)) + Len(c)
        /\ \A j \in 1..Len(Last(s)) : (Last(s) \o c)[j] = Last(s)[j]
        /\ \A j \in 1..Len(c) : (Last(s) \o c)[Len(Last(s)) + j] = c[j]
    BY <1>2, Joined
  <2> HIDE DEF d
  <2> QED
    BY <2>1, <2>2
<1>4. Len(s) \in Nat /\ Len(c) \in Nat /\ Len(r) \in Nat /\ Keep \in Nat
  BY Numbers
<1>5. Len(Last(s)) = Len(s) - d
  BY <1>2, <1>4
<1> HIDE DEF d
<1>6. \A j \in 1..(Len(s) - d + Len(c)) : (Last(s) \o c)[j] = (s \o c)[d + j]
  <2>1. TAKE j \in 1..(Len(s) - d + Len(c))
  <2>4. j \in Nat \ {0} /\ (j <= Len(s) - d \/ j > Len(s) - d)
    BY <1>2, <1>4
  <2>2. CASE j <= Len(s) - d
    BY <1>1, <1>2, <1>3, <1>4, <1>5, <2>2
  <2>3. CASE j > Len(s) - d
    <3>1. j - (Len(s) - d) \in 1..Len(c) /\ d + j = Len(s) + (j - (Len(s) - d))
          /\ j = Len(s) - d + (j - (Len(s) - d))
      BY <1>2, <1>4, <2>3
    <3> QED
      BY <1>1, <1>3, <3>1
  <2> QED
    BY <2>2, <2>3, <2>4
<1>7. ASSUME NEW k \in Nat, StandsAt(r, s, k) PROVE StandsAt(r, s \o c, k)
  BY <1>1, <1>4, <1>7 DEF StandsAt
<1>8. ASSUME NEW k \in Nat, StandsAt(r, Last(s) \o c, k) PROVE StandsAt(r, s \o c, d + k)
  <2>1. d + k \in Nat /\ (d + k) + Len(r) <= Len(s \o c)
    BY <1>1, <1>2, <1>3, <1>4, <1>8 DEF StandsAt
  <2>2. \A j \in 1..Len(r) : (s \o c)[(d + k) + j] = r[j]
    <3>1. TAKE j \in 1..Len(r)
    <3>2. k + j \in 1..(Len(s) - d + Len(c)) /\ d + (k + j) = (d + k) + j
      BY <1>2, <1>3, <1>4, <1>8 DEF StandsAt
    <3> QED
      BY <1>6, <1>8, <3>2 DEF StandsAt
  <2> QED
    BY <2>1, <2>2 DEF StandsAt
<1>9. ASSUME NEW k \in Nat, StandsAt(r, s \o c, k)
      PROVE  StandsAt(r, s, k) \/ StandsAt(r, Last(s) \o c, k - d)
  <2>1. CASE k + Len(r) <= Len(s)
    BY <1>1, <1>4, <1>9, <2>1 DEF StandsAt
  <2>2. CASE k + Len(r) > Len(s)
    <3>1. k - d \in Nat
      BY <1>2, <1>4, <1>5, <1>9, <2>2
    <3>2. (k - d) + Len(r) <= Len(Last(s) \o c)
      BY <1>1, <1>2, <1>3, <1>4, <1>9 DEF StandsAt
    <3>3. \A j \in 1..Len(r) : (Last(s) \o c)[(k - d) + j] = r[j]
      <4>1. TAKE j \in 1..Len(r)
      <4>2. (k - d) + j \in 1..(Len(s) - d + Len(c)) /\ d + ((k - d) + j) = k + j
        BY <1>2, <1>3, <1>4, <1>9, <3>1, <3>2
      <4> QED
        BY <1>6, <1>9, <4>2 DEF StandsAt
    <3> QED
      BY <3>1, <3>2, <3>3 DEF StandsAt
  <2> QED
    BY <1>4, <1>9, <2>1, <2>2
<1> QED
  <2>1. \A k \in Nat : d + k \in Nat
    BY <1>2
  <2>2. \A k : StandsAt(r, Last(s) \o c, k) => k \in Nat
    BY DEF StandsAt
  <2> QED
    BY <1>1, <1>2, <1>3, <1>7, <1>8, <1>9, <2>1, <2>2, OccursWhere

(* The kept end of a text is all that is needed to know the kept end of a  *)
(* longer one.                                                             *)
LEMMA LastAcross ==
  ASSUME NEW s \in Seq(Char), NEW c \in Seq(Char)
  PROVE  Last(Last(s) \o c) = Last(s \o c)
<1> DEFINE u == Last(s) \o c
           v == s \o c
<1>1. /\ v \in Seq(Char) /\ Len(v) = Len(s) + Len(c)
      /\ \A j \in 1..Len(s) : v[j] = s[j]
      /\ \A j \in 1..Len(c) : v[Len(s) + j] = c[j]
  BY Joined
<1>2. /\ Last(s) \in Seq(Char) /\ Len(Last(s)) <= Keep /\ Len(Last(s)) <= Len(s)
      /\ Len(s) > Keep => Len(Last(s)) = Keep
      /\ Len(s) <= Keep => Len(Last(s)) = Len(s)
      /\ \A j \in 1..Len(Last(s)) : Last(s)[j] = s[Len(s) - Len(Last(s)) + j]
  BY LastOf
<1>3. /\ u \in Seq(Char) /\ Len(u) = Len(Last(s)) + Len(c)
      /\ \A j \in 1..Len(Last(s)) : u[j] = Last(s)[j]
      /\ \A j \in 1..Len(c) : u[Len(Last(s)) + j] = c[j]
  BY <1>2, Joined
<1>4. /\ Len(s) \in Nat /\ Len(c) \in Nat /\ Len(Last(s)) \in Nat /\ Keep \in Nat
  BY <1>2, Numbers
<1>5. /\ Last(u) \in Seq(Char)
      /\ Len(u) > Keep => Len(Last(u)) = Keep
      /\ Len(u) <= Keep => Len(Last(u)) = Len(u)
      /\ \A j \in 1..Len(Last(u)) : Last(u)[j] = u[Len(u) - Len(Last(u)) + j]
  <2> HIDE DEF u
  <2> QED
    BY <1>3, LastOf
<1>6. /\ Last(v) \in Seq(Char)
      /\ Len(v) > Keep => Len(Last(v)) = Keep
      /\ Len(v) <= Keep => Len(Last(v)) = Len(v)
      /\ \A j \in 1..Len(Last(v)) : Last(v)[j] = v[Len(v) - Len(Last(v)) + j]
  <2> HIDE DEF v
  <2> QED
    BY <1>1, LastOf
<1> HIDE DEF u, v
<1>11. /\ Len(u) = Len(Last(s)) + Len(c) /\ Len(v) = Len(s) + Len(c)
       /\ Len(u) \in Nat /\ Len(v) \in Nat /\ Len(u) <= Len(v)
  BY <1>1, <1>2, <1>3, <1>4
<1>12. Len(Last(s)) = Len(s) \/ (Len(Last(s)) = Keep /\ Len(s) > Keep)
  BY <1>2, <1>4
<1>7. Len(Last(u)) = Len(Last(v)) /\ Len(Last(u)) \in Nat
  <2>1. CASE Len(u) = Len(v)
    BY <1>4, <1>5, <1>6, <1>11, <2>1
  <2>2. CASE Len(Last(s)) = Keep /\ Len(s) > Keep
    <3>1. Len(u) >= Keep /\ Len(v) > Keep
      BY <1>4, <1>11, <2>2
    <3>2. Len(Last(u)) = Keep
      BY <1>4, <1>5, <1>11, <3>1
    <3> QED
      BY <1>4, <1>6, <3>1, <3>2
  <2> QED
    BY <1>11, <1>12, <2>1, <2>2
<1>8. \A j \in 1..Len(u) : u[j] = v[Len(s) - Len(Last(s)) + j]
  <2>1. TAKE j \in 1..Len(u)
  <2>4. j \in Nat \ {0} /\ (j <= Len(Last(s)) \/ j > Len(Last(s)))
    BY <1>3, <1>4
  <2>2. CASE j <= Len(Last(s))
    <3>1. j \in 1..Len(Last(s)) /\ Len(s) - Len(Last(s)) + j \in 1..Len(s)
      BY <1>2, <1>4, <2>2, <2>4
    <3> QED
      BY <1>1, <1>2, <1>3, <3>1
  <2>3. CASE j > Len(Last(s))
    <3>1. /\ j - Len(Last(s)) \in 1..Len(c) /\ j = Len(Last(s)) + (j - Len(Last(s)))
          /\ Len(s) - Len(Last(s)) + j = Len(s) + (j - Len(Last(s)))
      BY <1>3, <1>4, <2>3
    <3> QED
      BY <1>1, <1>3, <3>1
  <2> QED
    BY <2>2, <2>3, <2>4
<1>9. \A j \in 1..Len(Last(u)) : Last(u)[j] = Last(v)[j]
  <2>1. TAKE j \in 1..Len(Last(u))
  <2>2. /\ Len(u) - Len(Last(u)) + j \in 1..Len(u)
        /\ Len(s) - Len(Last(s)) + (Len(u) - Len(Last(u)) + j) = Len(v) - Len(Last(v)) + j
    <3>1. Len(Last(u)) \in Nat /\ Len(Last(u)) <= Len(u)
      BY <1>4, <1>5, <1>7, <1>11
    <3>2. j \in Nat \ {0} /\ j <= Len(Last(u))
      BY <3>1
    <3> QED
      BY <1>4, <1>7, <1>11, <3>1, <3>2
  <2>3. j \in 1..Len(Last(v))
    BY <1>7
  <2>4. Last(u)[j] = u[Len(u) - Len(Last(u)) + j]
    BY <1>5
  <2>5. Last(v)[j] = v[Len(v) - Len(Last(v)) + j]
    BY <1>6, <2>3
  <2> QED
    BY <1>8, <2>2, <2>4, <2>5
<1>10. Last(u) = Last(v)
  <2>1. Last(u) \in Seq(Char) /\ Last(v) \in Seq(Char)
    BY <1>5, <1>6
  <2> QED
    BY <1>7, <1>9, <2>1, SameText
<1> QED
  BY <1>10 DEF u, v

----------------------------------------------------------------------------
(* Beginnings. *)

(* A text that grows, or that is read on, still begins with what was read. *)
LEMMA BeginsLonger ==
  ASSUME NEW s \in Seq(Char), NEW t \in Seq(Char), NEW c \in Seq(Char), Begins(s, t)
  PROVE  Begins(s, t \o c)
<1>1. /\ Len(t \o c) = Len(t) + Len(c) /\ \A j \in 1..Len(t) : (t \o c)[j] = t[j]
      /\ Len(s) \in Nat /\ Len(t) \in Nat /\ Len(c) \in Nat
  BY Joined
<1> QED
  BY <1>1 DEF Begins

(* A beginning of a text, continued with what follows in it, begins the    *)
(* text still.                                                             *)
LEMMA BeginsFurther ==
  ASSUME NEW s \in Seq(Char), NEW t \in Seq(Char), Begins(s, t),
         NEW n \in Nat, Len(s) + n <= Len(t)
  PROVE  Begins(s \o SubSeq(t, Len(s) + 1, Len(s) + n), t)
<1> DEFINE c == SubSeq(t, Len(s) + 1, Len(s) + n)
<1>1. Len(s) \in Nat /\ Len(t) \in Nat
  OBVIOUS
<1>2. c \in Seq(Char) /\ Len(c) = n /\ \A j \in 1..n : c[j] = t[Len(s) + j]
  BY <1>1, PartOf
<1> HIDE DEF c
<1>3. /\ Len(s \o c) = Len(s) + n
      /\ \A j \in 1..Len(s) : (s \o c)[j] = s[j]
      /\ \A j \in 1..n : (s \o c)[Len(s) + j] = c[j]
  BY <1>2, Joined
<1>4. ASSUME NEW j \in 1..(Len(s) + n) PROVE (s \o c)[j] = t[j]
  <2>1. CASE j <= Len(s)
    BY <1>1, <1>3, <2>1 DEF Begins
  <2>2. CASE j > Len(s)
    <3>1. j - Len(s) \in 1..n /\ j = Len(s) + (j - Len(s))
      BY <1>1, <2>2
    <3> QED
      BY <1>2, <1>3, <3>1
  <2>3. j <= Len(s) \/ j > Len(s)
    BY <1>1
  <2> QED
    BY <2>1, <2>2, <2>3
<1> QED
  BY <1>3, <1>4 DEF Begins, c

(* What begins a text is the part of it that is as long.                   *)
LEMMA BeginningIsPart ==
  ASSUME NEW s \in Seq(Char), NEW t \in Seq(Char), Begins(s, t)
  PROVE  SubSeq(t, 1, Len(s)) = s
<1>1. Len(s) \in Nat /\ Len(s) <= Len(t) /\ Len(t) \in Nat
  BY DEF Begins
<1>2. /\ SubSeq(t, 0 + 1, 0 + Len(s)) \in Seq(Char)
      /\ Len(SubSeq(t, 0 + 1, 0 + Len(s))) = Len(s)
      /\ \A j \in 1..Len(s) : SubSeq(t, 0 + 1, 0 + Len(s))[j] = t[0 + j]
  BY <1>1, PartOf
<1>3. /\ SubSeq(t, 1, Len(s)) \in Seq(Char) /\ Len(SubSeq(t, 1, Len(s))) = Len(s)
      /\ \A j \in 1..Len(s) : SubSeq(t, 1, Len(s))[j] = t[j]
  BY <1>1, <1>2
<1> QED
  BY <1>3, SameText DEF Begins

(* A rule that occurs in the first n characters of a text occurs in any    *)
(* longer beginning of it.                                                 *)
LEMMA OccursLonger ==
  ASSUME NEW r \in Seq(Char), NEW s \in Seq(Char), NEW t \in Seq(Char), Begins(s, t),
         NEW n \in Nat, n <= Len(s), Occurs(r, SubSeq(t, 1, n))
  PROVE  Occurs(r, s)
<1>1. Len(s) \in Nat /\ Len(s) <= Len(t) /\ Len(t) \in Nat /\ Len(r) \in Nat
  BY DEF Begins
<1>2. /\ SubSeq(t, 1, n) \in Seq(Char) /\ Len(SubSeq(t, 1, n)) = n
      /\ \A j \in 1..n : SubSeq(t, 1, n)[j] = t[j]
  BY <1>1
<1>3. PICK k \in Nat : StandsAt(r, SubSeq(t, 1, n), k)
  BY <1>2, OccursWhere
<1>4. k + Len(r) <= n /\ \A j \in 1..Len(r) : SubSeq(t, 1, n)[k + j] = r[j]
  BY <1>2, <1>3 DEF StandsAt
<1>5. ASSUME NEW j \in 1..Len(r) PROVE s[k + j] = r[j]
  <2>1. k + j \in 1..n /\ k + j \in 1..Len(s)
    BY <1>1, <1>4
  <2> QED
    BY <1>2, <1>4, <2>1 DEF Begins
<1>6. StandsAt(r, s, k)
  BY <1>1, <1>4, <1>5 DEF StandsAt
<1> QED
  BY <1>6, OccursWhere

(* No rule occurs in an empty text.                                        *)
LEMMA NothingOccurs ==
  ASSUME NEW r \in SuccessAll \cup FailureAny
  PROVE  ~Occurs(r, <<>>)
<1>1. r \in Seq(Char) /\ Len(r) \in 1..(Keep + 1) /\ <<>> \in Seq(Char)
  BY RulesAssumption
<1>2. ASSUME NEW k \in Nat PROVE ~StandsAt(r, <<>>, k)
  BY <1>1, Numbers DEF StandsAt
<1> QED
  BY <1>1, <1>2, OccursWhere

----------------------------------------------------------------------------
(* The invariant. *)

(* The invariant holds before the first scan.                              *)
LEMMA Initially == ASSUME Init PROVE IInv
<1>1. <<>> \in Texts /\ <<>> \in Seq(Char) /\ Last(<<>>) = <<>>
  <2>1. <<>> \in Seq(Char) /\ <<>> \in Texts
    BY EmptyText
  <2> QED
    BY <2>1, Numbers DEF Last
<1>2. TypeOK
  <2>1. /\ path \in 0..MaxFiles /\ made \in Files /\ opened \in 0..MaxFiles
        /\ previous \in 0..MaxFiles /\ size \in 0..MaxLog /\ offset \in 0..MaxLog
        /\ Len(suffix) <= Keep
    BY RulesAssumption DEF Init, Files
  <2>2. failed \in BOOLEAN /\ ready \in BOOLEAN /\ torn \in BOOLEAN
    BY DEF Init
  <2>3. logs \in [Files -> Texts] /\ suffix \in Seq(Char) /\ seen \in Seq(Char)
        /\ matched \subseteq SuccessAll
    BY <1>1 DEF Init
  <2> QED
    BY <2>1, <2>2, <2>3 DEF TypeOK
<1>3. FoundIsRead
  BY NothingOccurs DEF Init, FoundIsRead
<1>4. Remembered /\ Known /\ Followed
  BY <1>1 DEF Init, Remembered, Known, Followed
<1> QED
  BY <1>2, <1>3, <1>4 DEF IInv

(* What the world does to the logs, as the invariant needs it: the logs of *)
(* the file the observer follows go on as they began.                      *)
LEMMA WorldKeeps ==
  ASSUME IInv, UNCHANGED <<scan, observer, ready>>, logs' \in [Files -> Texts],
         path' \in 0..MaxFiles, made' \in Files, path' <= made', made <= made',
         torn' \in BOOLEAN,
         previous # 0 /\ ~torn' /\ (opened # 0 \/ previous = path') => Begins(seen, logs'[previous])
  PROVE  IInv'
<1>1. TypeOK'
  BY DEF IInv, TypeOK, scan, observer
<1>2. FoundIsRead'
  BY DEF IInv, FoundIsRead, observer
<1>3. Remembered'
  BY DEF IInv, Remembered, observer
<1>4. Known'
  BY DEF IInv, TypeOK, Known, scan, observer, Files
<1>5. Followed'
  BY DEF Followed, scan, observer
<1> QED
  BY <1>1, <1>2, <1>3, <1>4, <1>5 DEF IInv

(* The log of a file, as the observer sees it.                             *)
LEMMA LogType ==
  ASSUME TypeOK, NEW f \in Files
  PROVE  logs[f] \in Seq(Char) /\ Len(logs[f]) \in 0..MaxLog
  BY TextsAreBounded, Numbers DEF TypeOK

(* The game and whoever replaces its logs keep the invariant.              *)
LEMMA WorldInv == ASSUME IInv, World PROVE IInv'
<1>1. TypeOK /\ Known /\ Followed /\ Len(seen) = offset /\ seen \in Seq(Char)
  BY DEF IInv, TypeOK, Remembered
<1>2. /\ path \in 0..MaxFiles /\ made \in Files /\ path <= made /\ previous <= made
      /\ previous \in 0..MaxFiles /\ MaxFiles \in Nat
      /\ logs \in [Files -> Texts] /\ torn \in BOOLEAN
  BY <1>1, RulesAssumption DEF TypeOK, Known
<1>3. <<>> \in Texts /\ Begins(<<>>, <<>>)
  BY EmptyText DEF Begins
<1>4. ASSUME NEW c \in Char, Write(c) PROVE IInv'
  <2>1. /\ path \in Files /\ logs' = [logs EXCEPT ![path] = logs[path] \o <<c>>]
        /\ Len(logs[path]) < MaxLog /\ torn' = torn /\ path' = path /\ made' = made
        /\ UNCHANGED <<scan, observer, ready>>
    BY <1>2, <1>4 DEF Write, Files
  <2>2. logs[path] \in Seq(Char) /\ <<c>> \in Seq(Char) /\ Len(<<c>>) = 1
    BY <1>1, <2>1, LogType
  <2>3. logs[path] \o <<c>> \in Seq(Char) /\ Len(logs[path] \o <<c>>) = Len(logs[path]) + 1
    BY <2>2, Joined
  <2>4. logs[path] \o <<c>> \in Texts
    <3>1. Len(logs[path]) + 1 <= MaxLog
      BY <2>1, <2>2, Numbers
    <3> QED
      BY <2>3, <3>1, TextsAreBounded
  <2>5. logs' \in [Files -> Texts]
    BY <1>2, <2>1, <2>4
  <2>6. \A f \in Files : Begins(seen, logs[f]) => Begins(seen, logs'[f])
    <3>1. Begins(seen, logs[path]) => Begins(seen, logs[path] \o <<c>>)
      BY <1>1, <2>2, BeginsLonger
    <3> QED
      BY <1>2, <2>1, <3>1
  <2>7. previous # 0 => previous \in Files
    BY <1>2 DEF Files
  <2> QED
    BY <1>1, <1>2, <2>1, <2>5, <2>6, <2>7, WorldKeeps DEF Followed, Files
<1>5. CASE Cut
  <2>1. /\ path \in Files /\ logs' = [logs EXCEPT ![path] = <<>>]
        /\ torn' = (torn \/ (path = previous /\ offset > 0)) /\ path' = path /\ made' = made
        /\ UNCHANGED <<scan, observer, ready>>
    BY <1>2, <1>5 DEF Cut, Files
  <2>2. logs' \in [Files -> Texts] /\ torn' \in BOOLEAN
    BY <1>2, <1>3, <2>1
  <2>3. ASSUME previous # 0, ~torn', opened # 0 \/ previous = path'
        PROVE  Begins(seen, logs'[previous])
    <3>1. ~torn /\ (path = previous => offset = 0)
      <4>1. ~torn /\ ~(path = previous /\ offset > 0)
        BY <2>1, <2>3
      <4>2. offset \in Nat
        BY <1>1, Numbers DEF TypeOK
      <4> QED
        BY <4>1, <4>2
    <3>2. previous \in Files
      BY <1>2, <2>3 DEF Files
    <3>3. CASE path = previous
      <4>1. seen = <<>> /\ logs'[previous] = <<>>
        BY <1>1, <1>2, <2>1, <3>1, <3>2, <3>3
      <4> QED
        BY <1>3, <4>1
    <3>4. CASE path # previous
      BY <1>1, <1>2, <2>1, <2>3, <3>1, <3>2, <3>4 DEF Followed
    <3> QED
      BY <3>3, <3>4
  <2> QED
    BY <1>2, <2>1, <2>2, <2>3, WorldKeeps
<1>6. CASE Unlink
  <2>1. /\ path \in Files /\ path' = 0 /\ made' = made /\ torn' = torn
        /\ logs' = IF opened = path THEN logs ELSE [logs EXCEPT ![path] = <<>>]
        /\ UNCHANGED <<scan, observer, ready>>
    BY <1>2, <1>6 DEF Unlink, Files
  <2>2. logs' \in [Files -> Texts]
    BY <1>2, <1>3, <2>1
  <2>3. opened # 0 => logs'[previous] = logs[previous]
    BY <1>1, <1>2, <2>1 DEF Known
  <2>4. previous # 0 /\ ~torn' /\ (opened # 0 \/ previous = path')
          => Begins(seen, logs'[previous])
    BY <1>1, <2>1, <2>3 DEF Followed
  <2>5. path' \in 0..MaxFiles /\ path' <= made'
    BY <1>2, <2>1 DEF Files
  <2> QED
    BY <1>2, <2>1, <2>2, <2>4, <2>5, WorldKeeps DEF Files
<1>7. CASE Remake
  <2>1. /\ path' = made + 1 /\ made' = made + 1 /\ made + 1 \in Files /\ torn' = torn
        /\ logs' = logs /\ UNCHANGED <<scan, observer, ready>>
    BY <1>2, <1>7 DEF Remake, log, Files
  <2>2. previous # path'
    BY <1>2, <2>1 DEF Files
  <2>3. previous # 0 /\ ~torn' /\ (opened # 0 \/ previous = path')
          => Begins(seen, logs'[previous])
    BY <1>1, <2>1, <2>2 DEF Followed
  <2> QED
    BY <1>2, <2>1, <2>3, WorldKeeps DEF Files
<1> QED
  BY <1>4, <1>5, <1>6, <1>7 DEF World

(* A scan opens the file at the path; unless it is the one followed, all   *)
(* that was found before is forgotten.                                     *)
LEMMA StatInv == ASSUME IInv, Stat PROVE IInv'
<1>1. /\ TypeOK /\ FoundIsRead /\ Remembered /\ Known /\ Followed
      /\ path \in Files /\ opened' = path /\ previous' = path
      /\ size' = Len(logs[path]) /\ log' = log /\ ready' = ready
  BY DEF IInv, Stat, TypeOK, Files
<1>2. /\ logs[path] \in Seq(Char) /\ size' \in 0..MaxLog
      /\ logs' = logs /\ path' = path /\ made' = made /\ opened' # 0
      /\ <<>> \in Seq(Char) /\ Last(<<>>) = <<>> /\ Begins(<<>>, logs[path])
  <2>1. /\ logs' = logs /\ path' = path /\ made' = made /\ opened' # 0
    BY <1>1 DEF log, Files
  <2>2. logs[path] \in Seq(Char) /\ size' \in 0..MaxLog
    BY <1>1, LogType
  <2>3. <<>> \in Seq(Char) /\ Last(<<>>) = <<>>
    BY EmptyText, Numbers DEF Last
  <2>4. Begins(<<>>, logs[path])
    BY <2>2 DEF Begins
  <2> QED
    BY <2>1, <2>2, <2>3, <2>4
<1>3. Known'
  BY <1>1, <1>2 DEF Known
<1>4. CASE Reset
  <2>1. /\ offset' = 0 /\ suffix' = <<>> /\ matched' = {} /\ failed' = FALSE
        /\ seen' = <<>> /\ torn' = FALSE
    BY <1>4 DEF Reset
  <2>2. Len(suffix') <= Keep /\ offset' \in 0..MaxLog
    BY <2>1, Numbers
  <2>3. TypeOK'
    BY <1>1, <1>2, <2>1, <2>2 DEF TypeOK, Files
  <2>4. FoundIsRead'
    BY <2>1, NothingOccurs DEF FoundIsRead
  <2>5. Remembered'
    BY <1>2, <2>1 DEF Remembered
  <2>6. Followed'
    BY <1>1, <1>2, <2>1 DEF Followed
  <2> QED
    BY <1>3, <2>3, <2>4, <2>5, <2>6 DEF IInv
<1>5. CASE /\ ~IsAnother(path)
           /\ UNCHANGED <<offset, suffix, matched, failed, seen, torn>>
  <2>1. previous = 0 \/ previous = path
    BY <1>5 DEF IsAnother
  <2>2. TypeOK'
    BY <1>1, <1>2, <1>5 DEF TypeOK, Files
  <2>3. FoundIsRead'
    BY <1>1, <1>5 DEF FoundIsRead
  <2>4. Remembered'
    BY <1>1, <1>2, <1>5 DEF Remembered, Files
  <2>5. Followed'
    <3>1. CASE previous = path
      BY <1>1, <1>2, <1>5, <3>1 DEF Followed, Files
    <3>2. CASE previous = 0
      <4>1. seen = <<>>
        BY <1>1, <3>2 DEF Remembered, TypeOK
      <4> QED
        BY <1>1, <1>2, <1>5, <4>1 DEF Followed
    <3> QED
      BY <2>1, <3>1, <3>2
  <2> QED
    BY <1>3, <2>2, <2>3, <2>4, <2>5 DEF IInv
<1> QED
  BY <1>4, <1>5 DEF Stat

(* What one scan reads, and what it then has read.                         *)
Rest == Len(logs[opened]) - offset
Count == IF Rest <= 0 THEN 0 ELSE IF Rest < Chunk THEN Rest ELSE Chunk
Part == SubSeq(logs[opened], offset + 1, offset + Count)

(* What one read returns of the opened log.                                *)
LEMMA PartType ==
  ASSUME TypeOK, opened # 0
  PROVE  /\ opened \in Files /\ logs[opened] \in Seq(Char)
         /\ Count \in Nat /\ offset \in Nat
         /\ Count = 0 \/ offset + Count <= Len(logs[opened])
         /\ offset + Count \in 0..MaxLog
         /\ Part \in Seq(Char) /\ Len(Part) = Count
<1>1. opened \in Files /\ logs[opened] \in Seq(Char) /\ offset \in Nat
      /\ Len(logs[opened]) \in 0..MaxLog /\ offset <= MaxLog
  <2>1. opened \in Files
    BY RulesAssumption DEF TypeOK, Files
  <2> QED
    BY <2>1, LogType, Numbers DEF TypeOK
<1>2. Count \in Nat /\ (Count = 0 \/ offset + Count <= Len(logs[opened]))
  BY <1>1, Numbers DEF Count, Rest
<1>3. offset + Count \in 0..MaxLog
  BY <1>1, <1>2, Numbers
<1>4. Part \in Seq(Char) /\ Len(Part) = Count
  <2>1. CASE Count = 0
    BY <1>1, <2>1 DEF Part
  <2>2. CASE offset + Count <= Len(logs[opened])
    BY <1>1, <1>2, <2>2, PartOf DEF Part
  <2> QED
    BY <1>2, <2>1, <2>2
<1> QED
  BY <1>1, <1>2, <1>3, <1>4

(* Reading on: the rules found are those in all that was read.             *)
LEMMA ReadFinds ==
  ASSUME IInv, Read
  PROVE  /\ seen' = seen \o Part /\ seen' \in Seq(Char) /\ Len(seen') = offset'
         /\ suffix' = Last(seen') /\ offset' = offset + Count
         /\ matched' = {r \in SuccessAll : Occurs(r, seen')}
         /\ failed' <=> \E r \in FailureAny : Occurs(r, seen')
         /\ ready' <=> AllFound(matched', failed', offset')
<1> DEFINE text == suffix \o Part
<1>1. /\ seen \in Seq(Char) /\ suffix = Last(seen) /\ Len(seen) = offset
      /\ matched = {r \in SuccessAll : Occurs(r, seen)}
      /\ failed <=> \E r \in FailureAny : Occurs(r, seen)
      /\ TypeOK /\ opened # 0
  BY DEF IInv, TypeOK, Remembered, FoundIsRead, Read
<1>2. /\ Part \in Seq(Char) /\ Len(Part) = Count /\ Count \in Nat /\ offset \in Nat
  BY <1>1, PartType
<1>3. /\ offset' = offset + Count /\ suffix' = Last(text) /\ seen' = seen \o Part
      /\ matched' = matched \cup {r \in SuccessAll : Occurs(r, text)}
      /\ failed' = (failed \/ \E r \in FailureAny : Occurs(r, text))
      /\ ready' = AllFound(matched', failed', offset')
  BY DEF Read, Part, Count, Rest
<1>4. seen' \in Seq(Char) /\ Len(seen') = offset'
  BY <1>1, <1>2, <1>3, Joined
<1>5. suffix' = Last(seen')
  BY <1>1, <1>2, <1>3, LastAcross
<1>6. \A r \in SuccessAll \cup FailureAny :
        Occurs(r, seen') <=> Occurs(r, seen) \/ Occurs(r, text)
  <2>1. TAKE r \in SuccessAll \cup FailureAny
  <2>2. r \in Seq(Char) /\ Len(r) \in 1..(Keep + 1)
    BY RulesAssumption
  <2> QED
    BY <1>1, <1>2, <1>3, <2>2, OccursAcross
<1> HIDE DEF text
<1>7. matched' = {r \in SuccessAll : Occurs(r, seen')}
  BY <1>1, <1>3, <1>6
<1>8. failed' <=> \E r \in FailureAny : Occurs(r, seen')
  BY <1>1, <1>3, <1>6
<1> QED
  BY <1>3, <1>4, <1>5, <1>7, <1>8

(* And what was read is still the beginning of the file.                   *)
LEMMA ReadFollows ==
  ASSUME IInv, Read, ~torn
  PROVE  Begins(seen', logs[opened]) /\ offset' <= Len(logs[opened])
<1>1. /\ TypeOK /\ opened # 0 /\ previous = opened /\ previous # 0
      /\ seen \in Seq(Char) /\ Len(seen) = offset
  BY DEF IInv, TypeOK, Known, Remembered, Read
<1>2. Begins(seen, logs[opened])
  BY <1>1 DEF IInv, Followed
<1>3. /\ logs[opened] \in Seq(Char) /\ Count \in Nat /\ Part \in Seq(Char) /\ offset \in Nat
      /\ Count = 0 \/ (offset + Count <= Len(logs[opened]) /\ Len(Part) = Count)
  BY <1>1, PartType
<1>4. offset <= Len(logs[opened]) /\ Len(logs[opened]) \in Nat
  BY <1>1, <1>2, <1>3 DEF Begins
<1>5. offset + Count <= Len(logs[opened])
  BY <1>3, <1>4
<1>6. Begins(seen \o Part, logs[opened])
  BY <1>1, <1>2, <1>3, <1>5, BeginsFurther DEF Part
<1> QED
  BY <1>5, <1>6, ReadFinds

(* A read keeps the invariant: what is remembered ends where the offset is.*)
LEMMA ReadInv == ASSUME IInv, Read PROVE IInv'
<1>1. /\ TypeOK /\ Known /\ opened # 0 /\ opened' = 0 /\ size' = 0
      /\ logs' = IF opened = path THEN logs ELSE [logs EXCEPT ![opened] = <<>>]
      /\ path' = path /\ made' = made /\ previous' = previous /\ torn' = torn
  BY DEF IInv, Read
<1>2. /\ opened \in Files /\ offset + Count \in 0..MaxLog
  BY <1>1, PartType
<1>3. /\ seen' \in Seq(Char) /\ Len(seen') = offset' /\ suffix' = Last(seen')
      /\ offset' = offset + Count
      /\ matched' = {r \in SuccessAll : Occurs(r, seen')}
      /\ failed' <=> \E r \in FailureAny : Occurs(r, seen')
  BY ReadFinds
<1>4. TypeOK'
  <2>1. logs' \in [Files -> Texts]
    BY <1>1, <1>2, EmptyText DEF TypeOK
  <2>2. suffix' \in Seq(Char) /\ Len(suffix') <= Keep
    BY <1>3, LastOf
  <2>3. size' \in 0..MaxLog
    BY <1>1, Numbers
  <2>4. failed' \in BOOLEAN /\ ready' \in BOOLEAN
    BY DEF Read, AllFound
  <2>5. opened' \in 0..MaxFiles /\ matched' \subseteq SuccessAll
    BY <1>1, <1>3, RulesAssumption
  <2> QED
    BY <1>1, <1>2, <1>3, <2>1, <2>2, <2>3, <2>4, <2>5 DEF TypeOK, Files
<1>5. FoundIsRead'
  BY <1>3 DEF FoundIsRead
<1>6. Remembered'
  BY <1>1, <1>3 DEF Remembered, Known
<1>7. Known'
  BY <1>1 DEF Known
<1>8. Followed'
  <2>1. ASSUME previous' # 0, ~torn', previous' = path' PROVE Begins(seen', logs'[previous'])
    <3>1. opened = path /\ logs' = logs /\ ~torn /\ previous' = opened
      BY <1>1, <2>1 DEF Known
    <3> QED
      BY <3>1, ReadFollows
  <2> QED
    BY <1>1, <2>1 DEF Followed
<1> QED
  BY <1>4, <1>5, <1>6, <1>7, <1>8 DEF IInv

(* Every step keeps the invariant.                                         *)
LEMMA NextInv == ASSUME IInv, [Next]_vars PROVE IInv'
<1>1. CASE World
  BY <1>1, WorldInv
<1>2. CASE Stat
  BY <1>2, StatInv
<1>3. CASE Read
  BY <1>3, ReadInv
<1>4. CASE NoLog \/ UNCHANGED vars
  <2>1. UNCHANGED <<log, scan, observer, torn>> /\ ready' \in BOOLEAN
    BY <1>4 DEF NoLog, vars, IInv, TypeOK
  <2> QED
    BY <2>1 DEF log, scan, observer, IInv, TypeOK, FoundIsRead, Remembered, Known, Followed
<1> QED
  BY <1>1, <1>2, <1>3, <1>4 DEF Next

(* IInv holds in every state of every behaviour.                           *)
THEOREM ScanInvariance == Spec => []IInv
  BY Initially, NextInv, PTL DEF Spec

(* A rule counts as found exactly when it occurs in what was read since    *)
(* the last reset, wherever the reads cut it apart (Scan).                 *)
THEOREM FoundWasRead == Spec => []FoundIsRead
<1>1. IInv => FoundIsRead
  BY DEF IInv
<1> QED
  BY <1>1, ScanInvariance, PTL

(* A room becomes ready only on a log that holds every success rule and,   *)
(* as it stood when the scan looked, no failure rule (Scan).               *)
THEOREM ReadyEarned == Spec => ReadyIsEarned
<1>1. ASSUME IInv, [Next]_vars, opened # 0, opened' = 0, ready', ~torn
      PROVE  LET text == SubSeq(logs[opened], 1, size)
             IN  /\ \A r \in FailureAny : ~Occurs(r, text)
                 /\ \A r \in SuccessAll : Occurs(r, SubSeq(logs[opened], 1, offset'))
  <2>1. Read
    <3>1. ~World /\ ~NoLog /\ ~Stat /\ ~UNCHANGED vars
      BY <1>1 DEF World, Write, Cut, Unlink, Remake, NoLog, Stat, scan, vars
    <3> QED
      BY <1>1, <3>1 DEF Next
  <2>2. /\ seen' \in Seq(Char) /\ Len(seen') = offset'
        /\ matched' = {r \in SuccessAll : Occurs(r, seen')}
        /\ failed' <=> \E r \in FailureAny : Occurs(r, seen')
        /\ AllFound(matched', failed', offset')
    BY <1>1, <2>1, ReadFinds
  <2>3. /\ Begins(seen', logs[opened]) /\ logs[opened] \in Seq(Char)
        /\ size \in Nat /\ size <= Len(seen')
    <3>1. TypeOK
      BY <1>1 DEF IInv
    <3>2. size \in Nat /\ size <= offset'
      BY <2>2, <3>1, Numbers DEF AllFound, TypeOK
    <3> QED
      BY <1>1, <2>1, <2>2, <3>1, <3>2, ReadFollows, PartType
  <2>4. SubSeq(logs[opened], 1, offset') = seen'
    BY <2>2, <2>3, BeginningIsPart
  <2>5. \A r \in SuccessAll : Occurs(r, seen')
    BY <2>2 DEF AllFound
  <2>6. ASSUME NEW r \in FailureAny PROVE ~Occurs(r, SubSeq(logs[opened], 1, size))
    <3>1. r \in Seq(Char)
      BY RulesAssumption
    <3>2. ~Occurs(r, seen')
      BY <2>2 DEF AllFound
    <3> QED
      BY <2>2, <2>3, <3>1, <3>2, OccursLonger
  <2> QED
    BY <2>4, <2>5, <2>6
<1>2. IInv /\ [Next]_vars =>
        [opened # 0 /\ opened' = 0 /\ ready' /\ ~torn =>
           LET text == SubSeq(logs[opened], 1, size)
           IN  /\ \A r \in FailureAny : ~Occurs(r, text)
               /\ \A r \in SuccessAll : Occurs(r, SubSeq(logs[opened], 1, offset'))]_vars
  BY <1>1
<1> QED
  BY ScanInvariance, <1>2, PTL DEF Spec, ReadyIsEarned
=============================================================================
