--------------------------- MODULE RetrievalProofs ---------------------------
(***************************************************************************)
(* The knowledge corpus, for every allow-list, content and query, and any   *)
(* number of threads that retrieve while an ingestion goes on.              *)
(***************************************************************************)
EXTENDS Retrieval, FiniteSetTheorems, SequenceTheorems, WellFoundedInduction, TLAPS

\* A set of numbers has a least.
LEMMA MinIn ==
  ASSUME NEW S, S \subseteq Nat, S # {}
  PROVE  Min(S) \in S /\ \A y \in S : Min(S) <= y
<1>1. PICK x \in S : \A y \in S : ~(<<y, x>> \in OpToRel(<, Nat))
  BY WFMin, NatLessThanWellFounded
<1>2. \A y \in S : y \in Nat
  OBVIOUS
<1>3. \A y \in S : ~(y < x)
  BY <1>1, <1>2 DEF OpToRel
<1>4. \A y \in S : x <= y
  BY <1>2, <1>3
<1> QED  BY <1>4 DEF Min

\* A set of numbers within bounds has a greatest.
LEMMA MaxIn ==
  ASSUME NEW N \in Nat, NEW S, S \subseteq 0..N, S # {}
  PROVE  Max(S) \in S /\ \A y \in S : y <= Max(S)
<1> DEFINE T == {N - i : i \in S}
<1>1. T \subseteq Nat /\ T # {}
  <2>1. PICK i : i \in S
    OBVIOUS
  <2>2. N - i \in T
    BY <2>1
  <2>3. \A j \in S : N - j \in Nat
    OBVIOUS
  <2> QED  BY <2>2, <2>3
<1>2. Min(T) \in T /\ \A y \in T : Min(T) <= y
  <2> HIDE DEF T
  <2> QED  BY <1>1, MinIn
<1>3. PICK m \in S : Min(T) = N - m
  BY <1>2
<1>4. m \in S /\ \A y \in S : m >= y
  <2>1. \A y \in S : N - y \in T
    OBVIOUS
  <2> HIDE DEF T
  <2>2. \A y \in S : N - m <= N - y
    BY <1>2, <1>3, <2>1
  <2> QED  BY <2>2
<1> QED  BY <1>4 DEF Max

-----------------------------------------------------------------------------
(* Lists                                                                   *)

\* A list, whatever its elements.
IsSeq(s) == s \in Seq(ToSet(s))

\* Induction over the numbers, for a set of them.
LEMMA NatInSet ==
  ASSUME NEW S, 0 \in S, \A n \in Nat : n \in S => n + 1 \in S
  PROVE  Nat \subseteq S
<1> SUFFICES ASSUME Nat \ S # {}  PROVE FALSE
  OBVIOUS
<1>1. PICK x \in Nat \ S : \A y \in Nat \ S : ~(<<y, x>> \in OpToRel(<, Nat))
  BY WFMin, NatLessThanWellFounded
<1>2. \A y \in Nat \ S : ~(y < x)
  BY <1>1 DEF OpToRel
<1>3. x \in Nat /\ x \notin S /\ x # 0
  OBVIOUS
<1>4. x - 1 \in Nat /\ x - 1 < x /\ (x - 1) + 1 = x
  BY <1>3
<1>5. x - 1 \in S
  BY <1>2, <1>4
<1> QED  BY <1>3, <1>4, <1>5

\* g joins the first sequences of ss, for each number of them up to n.
IsJoin(g, n, ss) == g = [i \in 1..n |-> IF i = 1 THEN ss[i] ELSE g[i-1] \o ss[i]]

LEMMA JoinExists ==
  ASSUME NEW ss, NEW m \in Nat
  PROVE  \E g : IsJoin(g, m, ss)
<1> DEFINE S == {n \in Nat : \E g : IsJoin(g, n, ss)}
<1>1. 0 \in S
  <2>1. IsJoin(<<>>, 0, ss)
    BY DEF IsJoin
  <2> QED  BY <2>1
<1>2. ASSUME NEW n \in Nat, n \in S  PROVE n + 1 \in S
  <2>1. PICK g : IsJoin(g, n, ss)
    BY <1>2
  <2> DEFINE h == [i \in 1..(n + 1) |-> IF i \in 1..n THEN g[i]
                                       ELSE IF i = 1 THEN ss[i] ELSE g[i - 1] \o ss[i]]
             k == [i \in 1..(n + 1) |-> IF i = 1 THEN ss[i] ELSE h[i - 1] \o ss[i]]
  <2>2. ASSUME NEW i \in 1..(n + 1)  PROVE h[i] = k[i]
    <3>1. CASE i \in 1..n
      <4>1. i # 1 => i - 1 \in 1..n /\ i - 1 \in 1..(n + 1)
        BY <3>1
      <4>2. g[i] = IF i = 1 THEN ss[i] ELSE g[i - 1] \o ss[i]
        BY <2>1, <3>1 DEF IsJoin
      <4> QED  BY <3>1, <4>1, <4>2
    <3>2. CASE i \notin 1..n
      <4>1. i # 1 => i - 1 \in 1..n /\ i - 1 \in 1..(n + 1)
        BY <3>2
      <4> QED  BY <3>2, <4>1
    <3> QED  BY <3>1, <3>2
  <2>3. h = k
    <3>1. h = [i \in 1..(n + 1) |-> h[i]] /\ k = [i \in 1..(n + 1) |-> k[i]]
      OBVIOUS
    <3> HIDE DEF h, k
    <3> QED  BY <2>2, <3>1
  <2>4. IsJoin(h, n + 1, ss)
    BY <2>3 DEF IsJoin
  <2> HIDE DEF h
  <2> QED  BY <2>4
<1> HIDE DEF S
<1>3. m \in S
  BY <1>1, <1>2, NatInSet
<1> QED  BY <1>3 DEF S

\* What joining sequences gives: a sequence of the elements of all of them.
LEMMA Joined ==
  ASSUME NEW X, NEW ss \in Seq(Seq(X))
  PROVE  /\ FlattenSeq(ss) \in Seq(X)
         /\ \A x : x \in ToSet(FlattenSeq(ss)) <=> \E i \in DOMAIN ss : x \in ToSet(ss[i])
<1>1. DOMAIN ss = 1..Len(ss) /\ Len(ss) \in Nat /\ \A i \in 1..Len(ss) : ss[i] \in Seq(X)
  OBVIOUS
<1>2. CASE Len(ss) = 0
  <2>1. FlattenSeq(ss) = ss /\ ss = <<>>
    BY <1>2 DEF FlattenSeq
  <2> QED  BY <2>1 DEF ToSet
<1>3. CASE Len(ss) # 0
  <2> DEFINE Q(g) == g = [i \in 1..Len(ss) |-> IF i = 1 THEN ss[i] ELSE g[i-1] \o ss[i]]
  <2>1. FlattenSeq(ss) = (CHOOSE g : Q(g))[Len(ss)]
    BY <1>3 DEF FlattenSeq
  <2>2. \E g : Q(g)
    BY <1>1, JoinExists DEF IsJoin
  <2>3. PICK g : g = CHOOSE h : Q(h)
    OBVIOUS
  <2>4. Q(g)
    <3> HIDE DEF Q
    <3> QED  BY <2>2, <2>3
  <2> DEFINE P(n) == n \in 1..Len(ss) =>
                       g[n] \in Seq(X) /\ \A x : x \in ToSet(g[n]) <=> \E i \in 1..n : x \in ToSet(ss[i])
             S    == {n \in Nat : P(n)}
  <2>5. 0 \in S
    OBVIOUS
  <2>6. ASSUME NEW n \in Nat, P(n), n + 1 \in 1..Len(ss)
        PROVE  g[n + 1] \in Seq(X) /\ \A x : x \in ToSet(g[n + 1]) <=> \E i \in 1..(n + 1) : x \in ToSet(ss[i])
    <3>1. CASE n = 0
      <4>1. g[n + 1] = ss[1] /\ 1..(n + 1) = {1} /\ ss[1] \in Seq(X)
        BY <1>1, <2>4, <2>6, <3>1
      <4> HIDE DEF Q, P
      <4> QED  BY <4>1
    <3>2. CASE n # 0
      <4>1. n \in 1..Len(ss) /\ (n + 1) - 1 = n /\ n + 1 # 1
        BY <2>6, <3>2
      <4>2. PICK a, b : a = g[n] /\ b = ss[n + 1]
        OBVIOUS
      <4>3. g[n + 1] = a \o b
        BY <2>4, <2>6, <4>1, <4>2
      <4>4. a \in Seq(X) /\ b \in Seq(X) /\ \A x : x \in ToSet(a) <=> \E i \in 1..n : x \in ToSet(ss[i])
        BY <1>1, <2>6, <4>1, <4>2
      <4>5. a \o b \in Seq(X) /\ ToSet(a \o b) = ToSet(a) \cup ToSet(b)
        <5>1. /\ a \o b \in Seq(X) /\ Len(a \o b) = Len(a) + Len(b)
              /\ \A i \in 1..Len(a \o b) : (a \o b)[i] = IF i <= Len(a) THEN a[i] ELSE b[i - Len(a)]
          BY <4>4, ConcatProperties
        <5>2. DOMAIN a = 1..Len(a) /\ DOMAIN b = 1..Len(b) /\ DOMAIN (a \o b) = 1..Len(a \o b) /\ Len(a) \in Nat /\ Len(b) \in Nat
          BY <4>4, <5>1
        <5>3. \A i \in 1..Len(b) : i + Len(a) \in 1..Len(a \o b) /\ (a \o b)[i + Len(a)] = b[i]
          BY <5>1, <5>2
        <5>4. \A i \in 1..Len(a) : i \in 1..Len(a \o b) /\ (a \o b)[i] = a[i]
          BY <5>1, <5>2
        <5>5. \A i \in 1..Len(a \o b) : i \in 1..Len(a) \/ i - Len(a) \in 1..Len(b)
          BY <5>1, <5>2
        <5>6. ToSet(a \o b) \subseteq ToSet(a) \cup ToSet(b)
          BY <5>1, <5>2, <5>5 DEF ToSet
        <5>7. ToSet(a) \cup ToSet(b) \subseteq ToSet(a \o b)
          BY <5>2, <5>3, <5>4 DEF ToSet
        <5> QED  BY <5>1, <5>6, <5>7
      <4>6. 1..(n + 1) = 1..n \cup {n + 1}
        OBVIOUS
      <4> HIDE DEF Q
      <4>7. \A x : x \in ToSet(a \o b) <=> \E i \in 1..(n + 1) : x \in ToSet(ss[i])
        BY <4>2, <4>4, <4>5, <4>6
      <4> QED  BY <4>3, <4>5, <4>7
    <3> QED  BY <3>1, <3>2
  <2>7. Len(ss) \in S
    <3>0. ASSUME NEW n \in Nat, P(n)  PROVE P(n + 1)
      BY <2>6, <3>0
    <3>1. \A n \in Nat : n \in S => n + 1 \in S
      <4> HIDE DEF P
      <4> QED  BY <3>0
    <3> HIDE DEF S
    <3> QED  BY <1>1, <2>5, <3>1, NatInSet
  <2>8. P(Len(ss)) /\ Len(ss) \in 1..Len(ss)
    BY <1>1, <1>3, <2>7
  <2> QED  BY <1>1, <2>1, <2>3, <2>8
<1> QED  BY <1>2, <1>3

\* A function on the first numbers is a list.
LEMMA ListOf ==
  ASSUME NEW n \in Nat, NEW s, s = [i \in 1..n |-> s[i]]
  PROVE  IsSeq(s) /\ Len(s) = n
<1>1. \A i \in 1..n : s[i] \in ToSet(s)
  BY DEF ToSet
<1>2. s \in [1..n -> ToSet(s)]
  BY <1>1
<1> QED  BY <1>2 DEF IsSeq

\* Lists joined are a list of the elements of each.
LEMMA JoinedLists ==
  ASSUME NEW ss, IsSeq(ss), \A i \in DOMAIN ss : IsSeq(ss[i])
  PROVE  /\ IsSeq(FlattenSeq(ss))
         /\ \A x : x \in ToSet(FlattenSeq(ss)) <=> \E i \in DOMAIN ss : x \in ToSet(ss[i])
<1>1. PICK X : X = UNION {ToSet(ss[i]) : i \in DOMAIN ss}
  OBVIOUS
<1>2. \A i \in DOMAIN ss : ToSet(ss[i]) \subseteq X
  BY <1>1
<1>3. \A i \in DOMAIN ss : ss[i] \in Seq(X)
  <2> SUFFICES ASSUME NEW i \in DOMAIN ss  PROVE ss[i] \in Seq(X)
    OBVIOUS
  <2>1. ss[i] \in Seq(ToSet(ss[i])) /\ ToSet(ss[i]) \subseteq X
    BY <1>2 DEF IsSeq
  <2>2. PICK s : s = ss[i]
    OBVIOUS
  <2>3. s \in [1..Len(s) -> X] /\ Len(s) \in Nat
    BY <2>1, <2>2
  <2> QED  BY <2>2, <2>3
<1>4. ss \in Seq(Seq(X))
  <2>1. ss = [i \in DOMAIN ss |-> ss[i]] /\ DOMAIN ss = 1..Len(ss) /\ Len(ss) \in Nat
    BY DEF IsSeq
  <2>2. ss \in [1..Len(ss) -> Seq(X)]
    BY <1>3, <2>1
  <2> QED  BY <2>1, <2>2
<1>5. PICK j : j = FlattenSeq(ss)
  OBVIOUS
<1>6. j \in Seq(X) /\ \A x : x \in ToSet(j) <=> \E i \in DOMAIN ss : x \in ToSet(ss[i])
  BY <1>4, <1>5, Joined
<1>7. IsSeq(j)
  <2>1. j = [i \in 1..Len(j) |-> j[i]] /\ Len(j) \in Nat
    BY <1>6
  <2> QED  BY <2>1, ListOf
<1> QED  BY <1>5, <1>6, <1>7

\* The empty list, and one with one element.
LEMMA SmallLists ==
  /\ IsSeq(<<>>) /\ ToSet(<<>>) = {}
  /\ \A x : IsSeq(<<x>>) /\ ToSet(<<x>>) = {x}
BY DEF IsSeq, ToSet

\* Joining lists some of which are left out.
LEMMA FilteredList ==
  ASSUME NEW n \in Nat, NEW ss, ss = [i \in 1..n |-> ss[i]], \A i \in 1..n : IsSeq(ss[i])
  PROVE  /\ IsSeq(FlattenSeq(ss))
         /\ \A x : x \in ToSet(FlattenSeq(ss)) <=> \E i \in 1..n : x \in ToSet(ss[i])
<1>1. IsSeq(ss) /\ DOMAIN ss = 1..n
  <2>1. DOMAIN ss = 1..n
    OBVIOUS
  <2> QED  BY <2>1, ListOf
<1> QED  BY <1>1, JoinedLists

-----------------------------------------------------------------------------
(* Chunking                                                                *)

\* Sections have a length.
Measured(X) == \A x \in X : x.len \in Nat

\* Adding up lengths is a definition by recursion.
LEMMA LengthsAdd ==
  ASSUME NEW m \in Nat, NEW b
  PROVE  \E g : g = [n \in 0..m |-> IF n = 0 THEN 0 ELSE g[n - 1] + b[n].len]
<1> DEFINE Q(g, n) == g = [i \in 0..n |-> IF i = 0 THEN 0 ELSE g[i - 1] + b[i].len]
           S == {n \in Nat : \E g : Q(g, n)}
<1>1. 0 \in S
  <2>1. Q([i \in 0..0 |-> 0], 0)
    OBVIOUS
  <2> QED  BY <2>1
<1>2. ASSUME NEW n \in Nat, n \in S  PROVE n + 1 \in S
  <2>1. PICK g : Q(g, n)
    BY <1>2
  <2> DEFINE h == [i \in 0..(n + 1) |-> IF i \in 0..n THEN g[i] ELSE g[i - 1] + b[i].len]
             k == [i \in 0..(n + 1) |-> IF i = 0 THEN 0 ELSE h[i - 1] + b[i].len]
  <2>2. ASSUME NEW i \in 0..(n + 1)  PROVE h[i] = k[i]
    <3>1. i # 0 => i - 1 \in 0..n /\ i - 1 \in 0..(n + 1)
      OBVIOUS
    <3>2. CASE i \in 0..n
      <4>1. g[i] = IF i = 0 THEN 0 ELSE g[i - 1] + b[i].len
        BY <2>1, <3>2
      <4> QED  BY <3>1, <3>2, <4>1
    <3>3. CASE i \notin 0..n
      BY <3>1, <3>3
    <3> QED  BY <3>2, <3>3
  <2>3. h = k
    <3>1. h = [i \in 0..(n + 1) |-> h[i]] /\ k = [i \in 0..(n + 1) |-> k[i]]
      OBVIOUS
    <3> HIDE DEF h, k
    <3> QED  BY <2>2, <3>1
  <2>4. Q(h, n + 1)
    BY <2>3
  <2> HIDE DEF h, Q
  <2> QED  BY <2>4
<1>3. m \in S
  <2> HIDE DEF S
  <2> QED  BY <1>1, <1>2, NatInSet
<1> QED  BY <1>3

\* A buffer is as long as any of its sections at least, and one section is as long as it is.
LEMMA TotalFacts ==
  ASSUME NEW X, Measured(X), NEW b \in Seq(X), b # <<>>
  PROVE  /\ Total(b) \in Nat /\ \A i \in DOMAIN b : b[i].len <= Total(b)
         /\ Len(b) = 1 => Total(b) = b[1].len
<1>0. PICK m : m = Len(b)
  OBVIOUS
<1>1. m \in Nat \ {0} /\ DOMAIN b = 1..m /\ \A i \in 1..m : b[i] \in X /\ b[i].len \in Nat
  BY <1>0 DEF Measured
<1> DEFINE Q(g) == g = [n \in 0..m |-> IF n = 0 THEN 0 ELSE g[n - 1] + b[n].len]
<1>2. Total(b) = (CHOOSE g : Q(g))[m] + 2 * (m - 1)
  BY <1>0 DEF Total
<1>3. \E g : Q(g)
  BY <1>1, LengthsAdd
<1>4. PICK g : g = CHOOSE h : Q(h)
  OBVIOUS
<1>5. Q(g)
  <2> HIDE DEF Q
  <2> QED  BY <1>3, <1>4
<1>6. Total(b) = g[m] + 2 * (m - 1)
  BY <1>2, <1>4
<1>7. g[0] = 0 /\ \A n \in 1..m : g[n] = g[n - 1] + b[n].len
  BY <1>1, <1>5
<1> HIDE DEF Q
<1> DEFINE P(n) == n \in 0..m => g[n] \in Nat /\ \A i \in 1..n : b[i].len <= g[n]
           S == {n \in Nat : P(n)}
<1>8. 0 \in S
  BY <1>7
<1>9. ASSUME NEW n \in Nat, P(n)  PROVE P(n + 1)
  <2> SUFFICES ASSUME n + 1 \in 0..m  PROVE g[n + 1] \in Nat /\ \A i \in 1..(n + 1) : b[i].len <= g[n + 1]
    OBVIOUS
  <2>1. n + 1 \in 1..m /\ (n + 1) - 1 = n /\ n \in 0..m
    BY <1>1
  <2>2. PICK a, c : a = g[n] /\ c = b[n + 1].len
    OBVIOUS
  <2>3. g[n + 1] = a + c /\ c \in Nat /\ a \in Nat /\ \A i \in 1..n : b[i].len <= a
    BY <1>1, <1>7, <1>9, <2>1, <2>2
  <2>4. ASSUME NEW i \in 1..(n + 1)  PROVE b[i].len <= a + c
    <3>1. CASE i = n + 1
      BY <2>2, <2>3, <3>1
    <3>2. CASE i \in 1..n
      <4>1. b[i].len <= a /\ b[i].len \in Nat
        BY <1>1, <2>1, <2>3, <3>2
      <4> QED  BY <2>3, <4>1
    <3> QED  BY <3>1, <3>2
  <2> QED  BY <2>3, <2>4
<1>10. m \in S
  <2>1. \A n \in Nat : n \in S => n + 1 \in S
    <3> HIDE DEF P
    <3> QED  BY <1>9
  <2> HIDE DEF S
  <2> QED  BY <1>1, <1>8, <2>1, NatInSet
<1>11. g[m] \in Nat /\ \A i \in 1..m : b[i].len <= g[m]
  BY <1>1, <1>10
<1>12. PICK t : t = g[m]
  OBVIOUS
<1>13. Total(b) = t + 2 * (m - 1) /\ t \in Nat /\ \A i \in 1..m : b[i].len <= t /\ b[i].len \in Nat
  BY <1>1, <1>6, <1>11, <1>12
<1>14. 2 * (m - 1) \in Nat
  BY <1>1
<1>15. Total(b) \in Nat /\ \A i \in 1..m : b[i].len <= Total(b)
  BY <1>13, <1>14
<1>16. ASSUME m = 1  PROVE Total(b) = b[1].len
  <2>1. g[1] = g[0] + b[1].len /\ b[1].len \in Nat
    BY <1>1, <1>7, <1>16
  <2> QED  BY <1>7, <1>12, <1>13, <1>16, <2>1
<1> QED  BY <1>0, <1>1, <1>15, <1>16

-----------------------------------------------------------------------------
(* Packing                                                                 *)

\* What is packed together fits, or is one section.
Group(b, X) == b \in Seq(X) /\ b # <<>> /\ (Len(b) = 1 \/ Total(b) <= MaxChars)

Acc(a, X) ==
  /\ a = [packed |-> a.packed, buffer |-> a.buffer]
  /\ a.packed \in Seq(Seq(X)) /\ \A i \in DOMAIN a.packed : Group(a.packed[i], X)
  /\ a.buffer = <<>> \/ Group(a.buffer, X)

Placed(x, a) == x \in ToSet(a.buffer) \/ \E i \in DOMAIN a.packed : x \in ToSet(a.packed[i])

Added(a, x) ==
  IF a.buffer = <<>> \/ Total(Append(a.buffer, x)) <= MaxChars
  THEN [a EXCEPT !.buffer = Append(@, x)]
  ELSE [packed |-> Append(a.packed, a.buffer), buffer |-> <<x>>]

\* One more element at the end of a list.
LEMMA Appended ==
  ASSUME NEW X, NEW s \in Seq(X), NEW x \in X
  PROVE  /\ Append(s, x) \in Seq(X) /\ Append(s, x) # <<>> /\ Len(Append(s, x)) = Len(s) + 1
         /\ DOMAIN Append(s, x) = DOMAIN s \cup {Len(s) + 1}
         /\ \A i \in DOMAIN s : Append(s, x)[i] = s[i]
         /\ Append(s, x)[Len(s) + 1] = x
<1>1. /\ Append(s, x) \in Seq(X) /\ Len(Append(s, x)) = Len(s) + 1
      /\ \A i \in 1..Len(s) : Append(s, x)[i] = s[i]
      /\ Append(s, x)[Len(s) + 1] = x
  BY AppendProperties
<1>2. DOMAIN s = 1..Len(s) /\ Len(s) \in Nat
  OBVIOUS
<1>3. PICK t : t = Append(s, x)
  OBVIOUS
<1>4. t \in Seq(X) /\ Len(t) = Len(s) + 1
  BY <1>1, <1>3
<1>5. DOMAIN t = 1..(Len(s) + 1) /\ 1..(Len(s) + 1) = 1..Len(s) \cup {Len(s) + 1}
  BY <1>2, <1>4
<1>6. t # <<>>
  BY <1>2, <1>4
<1> QED  BY <1>1, <1>2, <1>3, <1>5, <1>6

\* A section more: it is placed, nothing that was placed is lost, and groups stay groups.
LEMMA PackStep ==
  ASSUME NEW X, NEW a, Acc(a, X), NEW x \in X
  PROVE  Acc(Added(a, x), X) /\ Placed(x, Added(a, x)) /\ \A y : Placed(y, a) => Placed(y, Added(a, x))
<1>1. PICK p, b : p = a.packed /\ b = a.buffer
  OBVIOUS
<1>2. a = [packed |-> p, buffer |-> b]
  BY <1>1 DEF Acc
<1>3. p \in Seq(Seq(X)) /\ (\A i \in DOMAIN p : Group(p[i], X)) /\ b \in Seq(X) /\ (b # <<>> => Group(b, X))
  <2>1. p \in Seq(Seq(X)) /\ (\A i \in DOMAIN p : Group(p[i], X)) /\ (b = <<>> \/ Group(b, X))
    BY <1>1 DEF Acc
  <2>2. <<>> \in Seq(X)
    OBVIOUS
  <2> QED  BY <2>1, <2>2 DEF Group
<1>4. PICK n : n = Added(a, x)
  OBVIOUS
<1>5. CASE b = <<>> \/ Total(Append(b, x)) <= MaxChars
  <2>1. PICK c : c = Append(b, x)
    OBVIOUS
  <2>2. n = [packed |-> p, buffer |-> c]
    BY <1>2, <1>4, <1>5, <2>1 DEF Added
  <2>3. /\ c \in Seq(X) /\ c # <<>> /\ Len(c) = Len(b) + 1 /\ x \in ToSet(c)
        /\ \A y \in ToSet(b) : y \in ToSet(c)
    BY <1>3, <2>1, Appended DEF ToSet
  <2>4. Group(c, X)
    <3>1. b = <<>> => Len(c) = 1
      BY <2>3
    <3> QED  BY <1>5, <2>1, <2>3, <3>1 DEF Group
  <2>5. Acc(n, X)
    BY <1>3, <2>2, <2>4 DEF Acc
  <2>6. Placed(x, n) /\ \A y : Placed(y, a) => Placed(y, n)
    BY <1>1, <2>2, <2>3 DEF Placed
  <2> QED  BY <1>4, <2>5, <2>6
<1>6. CASE ~(b = <<>> \/ Total(Append(b, x)) <= MaxChars)
  <2>1. PICK q, c : q = Append(p, b) /\ c = <<x>>
    OBVIOUS
  <2>2. n = [packed |-> q, buffer |-> c]
    BY <1>1, <1>4, <1>6, <2>1 DEF Added
  <2>3. Group(b, X)
    BY <1>3, <1>6
  <2>4. /\ q \in Seq(Seq(X)) /\ DOMAIN q = DOMAIN p \cup {Len(p) + 1}
        /\ \A i \in DOMAIN p : q[i] = p[i]
        /\ q[Len(p) + 1] = b
    <3>1. b \in Seq(X)
      BY <1>3
    <3> QED  BY <1>3, <2>1, <3>1, Appended
  <2>5. c \in Seq(X) /\ c # <<>> /\ Len(c) = 1 /\ x \in ToSet(c)
    BY <2>1 DEF ToSet
  <2>6. Group(c, X)
    BY <2>5 DEF Group
  <2>7. \A i \in DOMAIN q : Group(q[i], X)
    BY <1>3, <2>3, <2>4
  <2>8. Acc(n, X)
    BY <2>2, <2>4, <2>6, <2>7 DEF Acc
  <2>9. \A y : Placed(y, a) => Placed(y, n)
    <3>1. \A y \in ToSet(b) : y \in ToSet(q[Len(p) + 1]) /\ Len(p) + 1 \in DOMAIN q
      BY <2>4
    <3>2. \A i \in DOMAIN p : i \in DOMAIN q /\ q[i] = p[i]
      BY <2>4
    <3> QED  BY <1>1, <2>2, <3>1, <3>2 DEF Placed
  <2>10. Placed(x, n)
    BY <2>2, <2>5 DEF Placed
  <2> QED  BY <1>4, <2>8, <2>9, <2>10
<1> QED  BY <1>5, <1>6

\* g packs the first sections of s, for each number of them up to m.
IsPack(g, m, base, s) == g = [n \in 0..m |-> IF n = 0 THEN base ELSE Added(g[n - 1], s[n])]

\* Packing section by section is a definition by recursion.
LEMMA PackExists ==
  ASSUME NEW m \in Nat, NEW base, NEW s
  PROVE  \E g : IsPack(g, m, base, s)
<1> DEFINE Q(g, n) == g = [i \in 0..n |-> IF i = 0 THEN base ELSE Added(g[i - 1], s[i])]
           S == {n \in Nat : \E g : Q(g, n)}
<1>1. 0 \in S
  <2>1. Q([i \in 0..0 |-> base], 0)
    OBVIOUS
  <2> QED  BY <2>1
<1>2. ASSUME NEW n \in Nat, n \in S  PROVE n + 1 \in S
  <2>1. PICK g : Q(g, n)
    BY <1>2
  <2> DEFINE h == [i \in 0..(n + 1) |-> IF i \in 0..n THEN g[i] ELSE Added(g[i - 1], s[i])]
             k == [i \in 0..(n + 1) |-> IF i = 0 THEN base ELSE Added(h[i - 1], s[i])]
  <2>2. ASSUME NEW i \in 0..(n + 1)  PROVE h[i] = k[i]
    <3>1. i # 0 => i - 1 \in 0..n /\ i - 1 \in 0..(n + 1)
      OBVIOUS
    <3>2. CASE i \in 0..n
      <4>1. g[i] = IF i = 0 THEN base ELSE Added(g[i - 1], s[i])
        BY <2>1, <3>2
      <4> QED  BY <3>1, <3>2, <4>1
    <3>3. CASE i \notin 0..n
      BY <3>1, <3>3
    <3> QED  BY <3>2, <3>3
  <2>3. h = k
    <3>1. h = [i \in 0..(n + 1) |-> h[i]] /\ k = [i \in 0..(n + 1) |-> k[i]]
      OBVIOUS
    <3> HIDE DEF h, k
    <3> QED  BY <2>2, <3>1
  <2>4. Q(h, n + 1)
    BY <2>3
  <2> HIDE DEF h, Q
  <2> QED  BY <2>4
<1>3. m \in S
  <2> HIDE DEF S
  <2> QED  BY <1>1, <1>2, NatInSet
<1>4. PICK g : Q(g, m)
  BY <1>3
<1> QED  BY <1>4 DEF IsPack

\* Packing leaves no section out.
LEMMA PackFacts ==
  ASSUME NEW X, NEW s \in Seq(X)
  PROVE  /\ pack(s) \in Seq(Seq(X)) /\ \A i \in DOMAIN pack(s) : Group(pack(s)[i], X)
         /\ \A x \in ToSet(s) : \E i \in DOMAIN pack(s) : x \in ToSet(pack(s)[i])
<1>1. PICK m, base : m = Len(s) /\ base = [packed |-> <<>>, buffer |-> <<>>]
  OBVIOUS
<1>2. m \in Nat /\ DOMAIN s = 1..m /\ \A i \in 1..m : s[i] \in X
  BY <1>1
<1>3. PICK end : end = (CHOOSE g : IsPack(g, m, base, s))[m]
  OBVIOUS
<1>4. pack(s) = IF end.buffer = <<>> THEN end.packed ELSE Append(end.packed, end.buffer)
  BY <1>1, <1>3 DEF pack, Added, IsPack
<1>5. \E g : IsPack(g, m, base, s)
  BY <1>2, PackExists
<1>6. PICK g : g = CHOOSE h : IsPack(h, m, base, s)
  OBVIOUS
<1>7. IsPack(g, m, base, s)
  BY <1>5, <1>6
<1>8. g[0] = base /\ \A n \in 1..m : g[n] = Added(g[n - 1], s[n])
  BY <1>2, <1>7 DEF IsPack
<1> DEFINE P(n) == n \in 0..m => Acc(g[n], X) /\ \A i \in 1..n : Placed(s[i], g[n])
           S == {n \in Nat : P(n)}
<1>9. 0 \in S
  <2>1. Acc(base, X)
    BY <1>1 DEF Acc
  <2> QED  BY <1>8, <2>1
<1>10. ASSUME NEW n \in Nat, P(n)  PROVE P(n + 1)
  <2> SUFFICES ASSUME n + 1 \in 0..m  PROVE Acc(g[n + 1], X) /\ \A i \in 1..(n + 1) : Placed(s[i], g[n + 1])
    OBVIOUS
  <2>1. n + 1 \in 1..m /\ (n + 1) - 1 = n /\ n \in 0..m
    BY <1>2
  <2>2. PICK a, x : a = g[n] /\ x = s[n + 1]
    OBVIOUS
  <2>3. g[n + 1] = Added(a, x) /\ x \in X /\ Acc(a, X) /\ \A i \in 1..n : Placed(s[i], a)
    BY <1>2, <1>8, <1>10, <2>1, <2>2
  <2>4. Acc(Added(a, x), X) /\ Placed(x, Added(a, x)) /\ \A y : Placed(y, a) => Placed(y, Added(a, x))
    BY <2>3, PackStep
  <2>5. \A i \in 1..(n + 1) : i \in 1..n \/ i = n + 1
    OBVIOUS
  <2> QED  BY <2>2, <2>3, <2>4, <2>5
<1>11. m \in S
  <2>1. \A n \in Nat : n \in S => n + 1 \in S
    <3> HIDE DEF P
    <3> QED  BY <1>10
  <2> HIDE DEF S
  <2> QED  BY <1>2, <1>9, <2>1, NatInSet
<1>12. Acc(end, X) /\ \A i \in 1..m : Placed(s[i], end)
  BY <1>2, <1>3, <1>6, <1>11
<1>13. CASE end.buffer = <<>>
  <2>1. ToSet(end.buffer) = {}
    BY <1>13 DEF ToSet
  <2>2. \A x \in ToSet(s) : \E i \in DOMAIN end.packed : x \in ToSet(end.packed[i])
    BY <1>2, <1>12, <2>1 DEF Placed, ToSet
  <2> QED  BY <1>4, <1>12, <1>13, <2>2 DEF Acc
<1>14. CASE end.buffer # <<>>
  <2>1. PICK p, b, q : p = end.packed /\ b = end.buffer /\ q = Append(p, b)
    OBVIOUS
  <2>2. p \in Seq(Seq(X)) /\ (\A i \in DOMAIN p : Group(p[i], X)) /\ Group(b, X)
    BY <1>12, <1>14, <2>1 DEF Acc
  <2>3. b \in Seq(X)
    BY <2>2 DEF Group
  <2>4. /\ q \in Seq(Seq(X)) /\ DOMAIN q = DOMAIN p \cup {Len(p) + 1}
        /\ \A i \in DOMAIN p : q[i] = p[i]
        /\ q[Len(p) + 1] = b
    BY <2>1, <2>2, <2>3, Appended
  <2>5. \A i \in DOMAIN q : Group(q[i], X)
    BY <2>2, <2>4
  <2>6. ASSUME NEW x \in ToSet(s)  PROVE \E i \in DOMAIN q : x \in ToSet(q[i])
    <3>1. Placed(x, end)
      BY <1>2, <1>12 DEF ToSet
    <3>2. CASE x \in ToSet(b)
      BY <2>4, <3>2
    <3>3. CASE \E i \in DOMAIN p : x \in ToSet(p[i])
      BY <2>4, <3>3
    <3> QED  BY <2>1, <3>1, <3>2, <3>3 DEF Placed
  <2> QED  BY <1>4, <1>14, <2>1, <2>4, <2>5, <2>6
<1> QED  BY <1>13, <1>14

-----------------------------------------------------------------------------
(* Splitting                                                               *)

\* The greater of two numbers.
LEMMA MaxOfTwo ==
  ASSUME NEW a \in Int, NEW b \in Int
  PROVE  Max({a, b}) \in {a, b} /\ Max({a, b}) >= a /\ Max({a, b}) >= b
<1>1. \E m \in {a, b} : \A y \in {a, b} : m >= y
  <2>1. CASE a >= b
    BY <2>1
  <2>2. CASE ~(a >= b)
    <3>1. b >= a /\ b >= b
      BY <2>2
    <3> QED  BY <3>1
  <2> QED  BY <2>1, <2>2
<1>2. Max({a, b}) \in {a, b} /\ \A y \in {a, b} : Max({a, b}) >= y
  BY <1>1 DEF Max
<1> QED  BY <1>2

\* One element before a list.
LEMMA Prefixed ==
  ASSUME NEW p, NEW s, IsSeq(s)
  PROVE  IsSeq(<<p>> \o s) /\ ToSet(<<p>> \o s) = {p} \cup ToSet(s)
<1>1. PICK X, a, t : X = {p} \cup ToSet(s) /\ a = <<p>> /\ t = a \o s
  OBVIOUS
<1>2. s = [i \in 1..Len(s) |-> s[i]] /\ Len(s) \in Nat /\ DOMAIN s = 1..Len(s)
  BY DEF IsSeq
<1>3. s \in Seq(X)
  <2>1. s \in [1..Len(s) -> X]
    BY <1>1, <1>2 DEF ToSet
  <2> QED  BY <1>2, <2>1
<1>4. a \in Seq(X) /\ Len(a) = 1 /\ a[1] = p
  BY <1>1
<1>5. /\ t \in Seq(X) /\ Len(t) = 1 + Len(s)
      /\ \A i \in 1..Len(t) : t[i] = IF i <= 1 THEN a[i] ELSE s[i - 1]
  BY <1>1, <1>3, <1>4, ConcatProperties
<1>6. DOMAIN t = 1..Len(t) /\ t = [i \in 1..Len(t) |-> t[i]] /\ Len(t) \in Nat
  BY <1>5
<1>7. IsSeq(t)
  BY <1>6, ListOf
<1>8. p \in ToSet(t)
  <2>1. 1 \in 1..Len(t) /\ t[1] = p
    BY <1>2, <1>4, <1>5
  <2> QED  BY <1>6, <2>1 DEF ToSet
<1>9. ToSet(s) \subseteq ToSet(t)
  <2>1. ASSUME NEW i \in 1..Len(s)  PROVE i + 1 \in 1..Len(t) /\ t[i + 1] = s[i]
    BY <1>2, <1>5
  <2> QED  BY <1>2, <1>6, <2>1 DEF ToSet
<1>10. ToSet(t) \subseteq {p} \cup ToSet(s)
  <2>1. ASSUME NEW i \in 1..Len(t)  PROVE t[i] = p \/ t[i] \in ToSet(s)
    <3>1. CASE i = 1
      BY <1>4, <1>5, <3>1
    <3>2. CASE i # 1
      <4>1. t[i] = s[i - 1] /\ i - 1 \in DOMAIN s
        BY <1>2, <1>5, <3>2
      <4> QED  BY <4>1 DEF ToSet
    <3> QED  BY <3>1, <3>2
  <2> QED  BY <1>6, <2>1 DEF ToSet
<1> QED  BY <1>1, <1>7, <1>8, <1>9, <1>10

\* Where a part that begins at a position ends.
StopOf(x, start) ==
  LET end    == Min({start + MaxChars, x.len})
      spaces == {i \in x.spaces : start + MaxChars - Overlap <= i /\ i < end /\ i > start}
  IN  IF end < x.len /\ spaces # {} THEN Max(spaces) ELSE end

\* A section has text, and does not begin with a space.
Text(x) == x.len \in Nat \ {0} /\ x.spaces \subseteq 1..(x.len - 1)

\* A part is not empty, within the section and within the limit.
LEMMA StopFacts ==
  ASSUME NEW x, Text(x), NEW i \in 0..(x.len - 1)
  PROVE  StopOf(x, i) \in (i + 1)..x.len /\ StopOf(x, i) <= i + MaxChars
<1>1. PICK N, end : N = x.len /\ end = Min({i + MaxChars, N})
  OBVIOUS
<1>2. N \in Nat /\ i \in Nat /\ i < N /\ MaxChars \in Nat \ {0} /\ Overlap \in Nat
  BY <1>1, RetrievalConstants DEF Text
<1>3. {i + MaxChars, N} \subseteq Nat
  BY <1>2
<1>4. end \in {i + MaxChars, N} /\ end <= i + MaxChars /\ end <= N
  BY <1>1, <1>3, MinIn
<1>5. PICK spaces : spaces = {j \in x.spaces : i + MaxChars - Overlap <= j /\ j < end /\ j > i}
  OBVIOUS
<1>6. StopOf(x, i) = IF end < N /\ spaces # {} THEN Max(spaces) ELSE end
  BY <1>1, <1>5 DEF StopOf
<1>7. CASE end < N /\ spaces # {}
  <2>1. spaces \subseteq 0..N /\ \A j \in spaces : j < end /\ j > i /\ j \in Nat
    BY <1>1, <1>5 DEF Text
  <2>2. Max(spaces) \in spaces
    BY <1>2, <1>7, <2>1, MaxIn
  <2>3. PICK e : e = StopOf(x, i)
    OBVIOUS
  <2>4. e \in spaces
    BY <1>6, <1>7, <2>2, <2>3
  <2>5. e < end /\ e > i /\ e \in Nat
    BY <2>1, <2>4
  <2>6. e <= N /\ e <= i + MaxChars
    BY <1>2, <1>4, <1>7, <2>5
  <2> QED  BY <1>1, <1>2, <2>3, <2>5, <2>6
<1>8. CASE ~(end < N /\ spaces # {})
  BY <1>1, <1>2, <1>4, <1>6, <1>8
<1> QED  BY <1>7, <1>8

\* Where the next part begins.
NextPart(stop, i) == Max({stop[i] - Overlap, i + 1})

\* What is left of a section from a position on, split.
PartsFrom(g, stop, N, i) ==
  IF i >= N THEN <<>>
  ELSE IF stop[i] >= N THEN <<i..(N - 1)>>
  ELSE <<i..(stop[i] - 1)>> \o g[NextPart(stop, i)]

\* Splitting goes on to a later position, and so is a definition by recursion.
LEMMA SplitExists ==
  ASSUME NEW N \in Nat, NEW stop, \A i \in 0..(N - 1) : ~(stop[i] >= N) => NextPart(stop, i) \in (i + 1)..N
  PROVE  \E g : g = [i \in 0..N |-> PartsFrom(g, stop, N, i)]
<1> DEFINE Q(g, n) == g = [i \in (N - n)..N |-> PartsFrom(g, stop, N, i)]
           P(n) == n \in 0..N => \E g : Q(g, n)
           S == {n \in Nat : P(n)}
<1>1. 0 \in S
  <2> DEFINE h == [i \in (N - 0)..N |-> <<>>]
  <2>1. h = [i \in (N - 0)..N |-> PartsFrom(h, stop, N, i)]
    BY DEF PartsFrom
  <2>2. Q(h, 0)
    BY <2>1
  <2> QED  BY <2>2
<1>2. ASSUME NEW n \in Nat, P(n)  PROVE P(n + 1)
  <2> SUFFICES ASSUME n + 1 \in 0..N  PROVE \E g : Q(g, n + 1)
    OBVIOUS
  <2>0. n \in 0..N /\ N - (n + 1) \in 0..(N - 1)
    OBVIOUS
  <2>1. PICK g : Q(g, n)
    BY <1>2, <2>0
  <2>2. PICK D, E : D = (N - n)..N /\ E = (N - (n + 1))..N
    OBVIOUS
  <2>3. D \subseteq E /\ \A i \in E : i \in 0..N /\ (i < N => (i + 1)..N \subseteq D)
    BY <2>0, <2>2
  <2> DEFINE h == [i \in E |-> IF i \in D THEN g[i] ELSE PartsFrom(g, stop, N, i)]
  <2>4. \A i \in D : h[i] = g[i]
    BY <2>3
  <2>5. \A i \in D : g[i] = PartsFrom(g, stop, N, i)
    BY <2>1, <2>2
  <2>6. ASSUME NEW i \in E  PROVE h[i] = PartsFrom(g, stop, N, i)
    BY <2>5
  <2> HIDE DEF h
  <2>7. ASSUME NEW i \in E  PROVE PartsFrom(g, stop, N, i) = PartsFrom(h, stop, N, i)
    <3>1. CASE i >= N \/ stop[i] >= N
      BY <3>1 DEF PartsFrom
    <3>2. CASE ~(i >= N) /\ ~(stop[i] >= N)
      <4>1. i \in 0..(N - 1)
        BY <2>3, <3>2
      <4>2. NextPart(stop, i) \in D
        BY <2>3, <3>2, <4>1
      <4>3. g[NextPart(stop, i)] = h[NextPart(stop, i)]
        BY <2>4, <4>2
      <4> QED  BY <4>3 DEF PartsFrom
    <3> QED  BY <3>1, <3>2
  <2>8. h = [i \in E |-> PartsFrom(h, stop, N, i)]
    <3>1. \A i \in E : h[i] = PartsFrom(h, stop, N, i)
      BY <2>6, <2>7
    <3>2. h = [i \in E |-> h[i]]
      BY DEF h
    <3> QED  BY <3>1, <3>2
  <2>9. Q(h, n + 1)
    BY <2>2, <2>8
  <2> HIDE DEF Q
  <2> QED  BY <2>9
<1>3. N \in S
  <2>1. \A n \in Nat : n \in S => n + 1 \in S
    <3> HIDE DEF P
    <3> QED  BY <1>2
  <2> HIDE DEF S
  <2> QED  BY <1>1, <2>1, NatInSet
<1>4. \E g : Q(g, N)
  BY <1>3
<1>5. (N - N)..N = 0..N
  OBVIOUS
<1> QED  BY <1>4, <1>5

\* A stretch of positions within a section and the limit.
Piece(p, N) == \E a, b \in Int : p = a..b /\ a >= 0 /\ b < N /\ b <= a + MaxChars - 1

\* The parts of a section are within the limit, and every position is in one.
LEMMA SplitFacts ==
  ASSUME NEW x, Text(x)
  PROVE  /\ IsSeq(split_oversized(x)) /\ \A p \in ToSet(split_oversized(x)) : Piece(p, x.len)
         /\ 0..(x.len - 1) \subseteq UNION ToSet(split_oversized(x))
<1>1. PICK N, stop : N = x.len /\ stop = [i \in 0..N |-> StopOf(x, i)]
  OBVIOUS
<1>2. N \in Nat \ {0} /\ Overlap \in Nat /\ MaxChars \in Nat \ {0}
  BY <1>1, RetrievalConstants DEF Text
<1>3. \A i \in 0..(N - 1) : stop[i] \in (i + 1)..N /\ stop[i] <= i + MaxChars
  BY <1>1, <1>2, StopFacts
<1>4. ASSUME NEW i \in 0..(N - 1)  PROVE NextPart(stop, i) \in (i + 1)..stop[i]
  <2>1. stop[i] - Overlap \in Int /\ i + 1 \in Int /\ stop[i] \in (i + 1)..N
    BY <1>2, <1>3
  <2>2. NextPart(stop, i) \in {stop[i] - Overlap, i + 1} /\ NextPart(stop, i) >= i + 1
    BY <2>1, MaxOfTwo DEF NextPart
  <2> QED  BY <1>2, <2>1, <2>2
<1> DEFINE Q(g) == g = [i \in 0..N |-> PartsFrom(g, stop, N, i)]
<1>5. \E g : Q(g)
  <2>1. \A i \in 0..(N - 1) : ~(stop[i] >= N) => NextPart(stop, i) \in (i + 1)..N
    BY <1>2, <1>3, <1>4
  <2> QED  BY <1>2, <2>1, SplitExists
<1>6. split_oversized(x) = (CHOOSE g : Q(g))[0]
  BY <1>1 DEF split_oversized, PartsFrom, NextPart, StopOf
<1>7. PICK g : g = CHOOSE h : Q(h)
  OBVIOUS
<1>8. Q(g)
  <2> HIDE DEF Q
  <2> QED  BY <1>5, <1>7
<1>9. \A i \in 0..N : g[i] = PartsFrom(g, stop, N, i)
  BY <1>8
<1> HIDE DEF Q
<1> DEFINE Fine(i) == /\ IsSeq(g[i]) /\ \A p \in ToSet(g[i]) : Piece(p, N)
                      /\ i..(N - 1) \subseteq UNION ToSet(g[i])
           P(n) == \A i \in 0..N : i >= N - n => Fine(i)
           S == {n \in Nat : P(n)}
<1>10. Fine(N)
  <2>1. g[N] = PartsFrom(g, stop, N, N) /\ N >= N
    BY <1>2, <1>9
  <2>3. g[N] = <<>>
    BY <2>1 DEF PartsFrom
  <2>2. N..(N - 1) = {}
    BY <1>2
  <2> QED  BY <2>2, <2>3, SmallLists
<1>11. ASSUME NEW i \in 0..(N - 1), \A j \in (i + 1)..N : Fine(j)  PROVE Fine(i)
  <2>1. PICK e : e = stop[i]
    OBVIOUS
  <2>2. e \in (i + 1)..N /\ e <= i + MaxChars /\ i \in Nat /\ i < N
    BY <1>2, <1>3, <2>1
  <2>5. g[i] = PartsFrom(g, stop, N, i) /\ ~(i >= N)
    BY <1>2, <1>9, <2>2
  <2>3. CASE e >= N
    <3>1. g[i] = <<i..(N - 1)>>
      BY <2>1, <2>3, <2>5 DEF PartsFrom
    <3>2. Piece(i..(N - 1), N)
      BY <1>2, <2>2, <2>3 DEF Piece
    <3> QED  BY <3>1, <3>2, SmallLists
  <2>4. CASE ~(e >= N)
    <3>1. PICK j, rest : j = NextPart(stop, i) /\ rest = g[j]
      OBVIOUS
    <3>2. g[i] = <<i..(e - 1)>> \o rest
      BY <2>1, <2>4, <2>5, <3>1 DEF PartsFrom
    <3>3. j \in (i + 1)..N /\ j <= e
      BY <1>2, <1>4, <2>1, <2>2, <3>1
    <3>4. IsSeq(rest) /\ (\A p \in ToSet(rest) : Piece(p, N)) /\ j..(N - 1) \subseteq UNION ToSet(rest)
      BY <1>11, <3>1, <3>3
    <3>5. IsSeq(g[i]) /\ ToSet(g[i]) = {i..(e - 1)} \cup ToSet(rest)
      BY <3>2, <3>4, Prefixed
    <3>6. Piece(i..(e - 1), N)
      <4>1. e - 1 \in Int /\ i \in Int /\ i >= 0 /\ e - 1 < N /\ e - 1 <= i + MaxChars - 1
        BY <1>2, <2>2
      <4> QED  BY <4>1 DEF Piece
    <3>7. i..(N - 1) \subseteq i..(e - 1) \cup j..(N - 1)
      BY <1>2, <2>2, <3>3
    <3> QED  BY <3>4, <3>5, <3>6, <3>7
  <2> QED  BY <2>3, <2>4
<1> HIDE DEF Fine
<1>12. 0 \in S
  <2>1. \A i \in 0..N : i >= N - 0 => i = N
    BY <1>2
  <2> QED  BY <1>10, <2>1
<1>13. ASSUME NEW n \in Nat, P(n)  PROVE P(n + 1)
  <2> SUFFICES ASSUME NEW i \in 0..N, i >= N - (n + 1)  PROVE Fine(i)
    OBVIOUS
  <2>1. CASE i = N
    BY <1>10, <2>1
  <2>2. CASE i # N
    <3>1. i \in 0..(N - 1) /\ \A j \in (i + 1)..N : j \in 0..N /\ j >= N - n
      BY <1>2, <2>2
    <3> QED  BY <1>11, <1>13, <3>1
  <2> QED  BY <2>1, <2>2
<1>14. N \in S
  <2>1. \A n \in Nat : n \in S => n + 1 \in S
    <3> HIDE DEF P
    <3> QED  BY <1>13
  <2> HIDE DEF S
  <2> QED  BY <1>2, <1>12, <2>1, NatInSet
<1>15. Fine(0)
  BY <1>2, <1>14
<1> QED  BY <1>1, <1>6, <1>7, <1>15 DEF Fine

\* Stripping loses nothing but spaces, and makes nothing longer.
LEMMA StripFacts ==
  ASSUME NEW x, Text(x), NEW p, Piece(p, x.len)
  PROVE  /\ p \ x.spaces \subseteq strip(x, p)
         /\ Cardinality(strip(x, p)) \in 0..MaxChars
<1>1. PICK a \in Int, b \in Int : p = a..b /\ a >= 0 /\ b < x.len /\ b <= a + MaxChars - 1
  BY DEF Piece
<1>2. PICK text, kept : text = p \ x.spaces /\ kept = strip(x, p)
  OBVIOUS
<1>3. MaxChars \in Nat \ {0}
  BY RetrievalConstants
<1>4. CASE text = {}
  <2>1. kept = {}
    BY <1>2, <1>4 DEF strip
  <2> QED  BY <1>2, <1>3, <1>4, <2>1, FS_EmptySet
<1>5. CASE text # {}
  <2>1. PICK l, r : l = Min(text) /\ r = Max(text)
    OBVIOUS
  <2>2. b \in Nat /\ text \subseteq a..b /\ text \subseteq 0..b /\ text \subseteq Nat
    <3>1. text \subseteq a..b
      BY <1>1, <1>2
    <3>2. PICK t : t \in text
      BY <1>5
    <3> QED  BY <1>1, <3>1, <3>2
  <2>3. l \in text /\ (\A y \in text : l <= y) /\ r \in text /\ \A y \in text : y <= r
    BY <1>5, <2>1, <2>2, MinIn, MaxIn
  <2>4. kept = l..r
    BY <1>2, <1>5, <2>1 DEF strip
  <2>5. text \subseteq kept
    BY <2>2, <2>3, <2>4
  <2>6. l \in Int /\ r \in Int /\ a <= l /\ l <= r /\ r <= b
    BY <1>1, <2>2, <2>3
  <2>7. Cardinality(l..r) = r - l + 1
    BY <2>6, FS_Interval
  <2> QED  BY <1>1, <1>2, <1>3, <2>4, <2>5, <2>6, <2>7
<1> QED  BY <1>4, <1>5

-----------------------------------------------------------------------------
(* Chunks                                                                  *)

\* The chunks that carry a section, and its text if it was split.
Carried(x, chunks) ==
  LET of == {c \in chunks : x \in ToSet(c.of)}
  IN  of # {} /\ (x.len > MaxChars => (0..(x.len - 1)) \ x.spaces \subseteq UNION {c.part : c \in of})

PartOf(x, text) == [of |-> <<x>>, part |-> text, len |-> Cardinality(text)]

SplitChunks(x, parts) ==
  FlattenSeq([i \in DOMAIN parts |-> IF strip(x, parts[i]) = {} THEN <<>> ELSE <<PartOf(x, strip(x, parts[i]))>>])

ChunksOf(group) ==
  IF Total(group) <= MaxChars THEN <<[of |-> group, part |-> {}, len |-> Total(group)]>>
  ELSE SplitChunks(group[1], split_oversized(group[1]))

\* A section that is split.
LEMMA SplitCarries ==
  ASSUME NEW x, Text(x)
  PROVE  LET chunks == SplitChunks(x, split_oversized(x)) IN
         /\ IsSeq(chunks) /\ \A c \in ToSet(chunks) : c.len <= MaxChars
         /\ Carried(x, ToSet(chunks))
<1>1. PICK parts, n, lists, chunks :
        /\ parts = split_oversized(x) /\ n = Len(parts)
        /\ lists = [i \in 1..n |-> IF strip(x, parts[i]) = {} THEN <<>> ELSE <<PartOf(x, strip(x, parts[i]))>>]
        /\ chunks = FlattenSeq(lists)
  OBVIOUS
<1>2. /\ IsSeq(parts) /\ \A p \in ToSet(parts) : Piece(p, x.len)
      /\ 0..(x.len - 1) \subseteq UNION ToSet(parts)
  BY <1>1, SplitFacts
<1>3. n \in Nat /\ DOMAIN parts = 1..n /\ \A i \in 1..n : parts[i] \in ToSet(parts)
  BY <1>1, <1>2 DEF IsSeq, ToSet
<1>4. chunks = SplitChunks(x, parts)
  BY <1>1, <1>3 DEF SplitChunks
<1>5. \A i \in 1..n : IsSeq(lists[i])
  BY <1>1, SmallLists
<1>6. lists = [i \in 1..n |-> lists[i]]
  BY <1>1
<1>7. IsSeq(chunks) /\ \A c : c \in ToSet(chunks) <=> \E i \in 1..n : c \in ToSet(lists[i])
  <2>1. IsSeq(FlattenSeq(lists)) /\ \A c : c \in ToSet(FlattenSeq(lists)) <=> \E i \in 1..n : c \in ToSet(lists[i])
    BY <1>3, <1>5, <1>6, FilteredList
  <2> QED  BY <1>1, <2>1
<1>8. ASSUME NEW i \in 1..n
      PROVE  ToSet(lists[i]) = IF strip(x, parts[i]) = {} THEN {} ELSE {PartOf(x, strip(x, parts[i]))}
  BY <1>1, SmallLists
<1>9. ASSUME NEW c \in ToSet(chunks)  PROVE c.len <= MaxChars
  <2>1. PICK i \in 1..n : c \in ToSet(lists[i])
    BY <1>7
  <2>2. c = PartOf(x, strip(x, parts[i]))
    BY <1>8, <2>1
  <2>3. Cardinality(strip(x, parts[i])) \in 0..MaxChars
    BY <1>2, <1>3, StripFacts
  <2> QED  BY <2>2, <2>3 DEF PartOf
<1>10. ASSUME NEW k \in (0..(x.len - 1)) \ x.spaces
       PROVE  \E c \in ToSet(chunks) : x \in ToSet(c.of) /\ k \in c.part
  <2>1. PICK i \in 1..n : k \in parts[i]
    BY <1>2, <1>3 DEF ToSet
  <2>2. PICK text : text = strip(x, parts[i])
    OBVIOUS
  <2>3. k \in text
    <3>1. parts[i] \ x.spaces \subseteq strip(x, parts[i])
      BY <1>2, <1>3, StripFacts
    <3> QED  BY <2>1, <2>2, <3>1
  <2>4. PartOf(x, text) \in ToSet(lists[i])
    BY <1>8, <2>2, <2>3
  <2>5. PartOf(x, text) \in ToSet(chunks)
    BY <1>7, <2>4
  <2>6. PartOf(x, text).of = <<x>> /\ PartOf(x, text).part = text /\ x \in ToSet(<<x>>)
    BY SmallLists DEF PartOf
  <2> QED  BY <2>3, <2>5, <2>6
<1>11. Carried(x, ToSet(chunks))
  <2>1. 0 \in (0..(x.len - 1)) \ x.spaces
    BY DEF Text
  <2> QED  BY <1>10, <2>1 DEF Carried
<1> QED  BY <1>1, <1>4, <1>7, <1>9, <1>11

\* A group, whether it fits or not.
LEMMA GroupCarries ==
  ASSUME NEW X, \A x \in X : Text(x), NEW b, Group(b, X)
  PROVE  /\ IsSeq(ChunksOf(b)) /\ \A c \in ToSet(ChunksOf(b)) : c.len <= MaxChars
         /\ \A x \in ToSet(b) : Carried(x, ToSet(ChunksOf(b)))
<1>1. b \in Seq(X) /\ b # <<>> /\ (Len(b) = 1 \/ Total(b) <= MaxChars) /\ MaxChars \in Nat
  BY RetrievalConstants DEF Group
<1>2. Measured(X)
  BY DEF Measured, Text
<1>3. /\ Total(b) \in Nat /\ \A i \in DOMAIN b : b[i].len <= Total(b)
      /\ Len(b) = 1 => Total(b) = b[1].len
  BY <1>1, <1>2, TotalFacts
<1>4. CASE Total(b) <= MaxChars
  <2>1. PICK c : c = [of |-> b, part |-> {}, len |-> Total(b)]
    OBVIOUS
  <2>2. ChunksOf(b) = <<c>> /\ c.len = Total(b) /\ c.of = b
    BY <1>4, <2>1 DEF ChunksOf
  <2>3. IsSeq(ChunksOf(b)) /\ ToSet(ChunksOf(b)) = {c}
    BY <2>2, SmallLists
  <2>4. ASSUME NEW x \in ToSet(b)  PROVE Carried(x, {c})
    <3>1. PICK i \in DOMAIN b : x = b[i]
      BY DEF ToSet
    <3>2. x.len <= Total(b) /\ x.len \in Nat
      BY <1>1, <1>2, <1>3, <3>1 DEF Measured
    <3>3. ~(x.len > MaxChars)
      BY <1>1, <1>3, <1>4, <3>2
    <3> QED  BY <2>2, <3>3 DEF Carried
  <2> QED  BY <1>4, <2>2, <2>3, <2>4
<1>5. CASE ~(Total(b) <= MaxChars)
  <2>1. PICK x : x = b[1]
    OBVIOUS
  <2>2. Len(b) = 1 /\ x \in X /\ ToSet(b) = {x}
    BY <1>1, <1>5, <2>1 DEF ToSet
  <2>3. ChunksOf(b) = SplitChunks(x, split_oversized(x))
    BY <1>5, <2>1 DEF ChunksOf
  <2> QED  BY <2>2, <2>3, SplitCarries
<1> QED  BY <1>4, <1>5

\* No chunk is longer than the limit, and chunking loses no text of a document, whatever
\* its sections (rag/chunking.py Chunker.chunk).
THEOREM NoTextIsLost == ChunksCover
<1> SUFFICES ASSUME NEW w \in Versions, NEW d \in ToSet(Documents(w[1], w[2]))
             PROVE  /\ \A c \in ToSet(chunk(d.sections)) : c.len <= MaxChars
                    /\ \A x \in ToSet(d.sections) : Carried(x, ToSet(chunk(d.sections)))
  BY DEF ChunksCover, Carried
<1>1. PICK s, X : s = d.sections /\ X = ToSet(s)
  OBVIOUS
<1>2. s \in Seq(X) /\ \A x \in X : Text(x)
  BY <1>1, SectionShape DEF Text
<1>3. PICK groups, n, lists : /\ groups = pack(s) /\ n = Len(groups)
                              /\ lists = [i \in 1..n |-> ChunksOf(groups[i])]
  OBVIOUS
<1>4. /\ groups \in Seq(Seq(X)) /\ \A i \in DOMAIN groups : Group(groups[i], X)
      /\ \A x \in X : \E i \in DOMAIN groups : x \in ToSet(groups[i])
  BY <1>1, <1>2, <1>3, PackFacts
<1>5. n \in Nat /\ DOMAIN groups = 1..n
  BY <1>3, <1>4
<1>6. chunk(s) = FlattenSeq(lists)
  BY <1>3, <1>5 DEF chunk, ChunksOf, SplitChunks, PartOf
<1>7. ASSUME NEW i \in 1..n
      PROVE  /\ IsSeq(lists[i]) /\ \A c \in ToSet(lists[i]) : c.len <= MaxChars
             /\ \A x \in ToSet(groups[i]) : Carried(x, ToSet(lists[i]))
  <2>1. lists[i] = ChunksOf(groups[i]) /\ Group(groups[i], X)
    BY <1>3, <1>4, <1>5
  <2> QED  BY <1>2, <2>1, GroupCarries
<1>8. lists = [i \in 1..n |-> lists[i]]
  BY <1>3
<1>9. \A c : c \in ToSet(chunk(s)) <=> \E i \in 1..n : c \in ToSet(lists[i])
  BY <1>5, <1>6, <1>7, <1>8, FilteredList
<1>10. ASSUME NEW x \in X  PROVE Carried(x, ToSet(chunk(s)))
  <2>1. PICK i \in 1..n : x \in ToSet(groups[i])
    BY <1>4, <1>5
  <2>2. Carried(x, ToSet(lists[i])) /\ ToSet(lists[i]) \subseteq ToSet(chunk(s))
    BY <1>7, <1>9, <2>1
  <2> QED  BY <2>2 DEF Carried
<1>11. \A c \in ToSet(chunk(s)) : c.len <= MaxChars
  BY <1>7, <1>9
<1> QED  BY <1>1, <1>10, <1>11

-----------------------------------------------------------------------------
(* Ingestion                                                               *)

\* The names of the things ingestion handles: a version is a number of its source.
LEMMA Numbers ==
  /\ \A s \in SourceIds : VersionsOf(s) \subseteq Nat /\ 0 \notin VersionsOf(s)
                          /\ IsFiniteSet(VersionsOf(s))
  /\ \A s \in SourceIds : \A i \in VersionsOf(s) : build_index_version[<<s, i>>] \in VersionsOf(s)
  /\ \A w \in Versions : w[1] \in SourceIds /\ w[2] \in VersionsOf(w[1]) /\ w = <<w[1], w[2]>>
<1>1. \A s \in SourceIds : Len(Contents[s]) \in Nat
  BY SourcesListed
<1>2. \A s \in SourceIds : VersionsOf(s) \subseteq Nat /\ 0 \notin VersionsOf(s)
  BY <1>1 DEF VersionsOf
<1>3. \A s \in SourceIds : IsFiniteSet(VersionsOf(s))
  <2>1. \A s \in SourceIds : IsFiniteSet(1..Len(Contents[s]))
    BY <1>1, FS_Interval
  <2> QED  BY <2>1 DEF VersionsOf
<1>4. ASSUME NEW s \in SourceIds, NEW i \in VersionsOf(s)
      PROVE  build_index_version[<<s, i>>] \in VersionsOf(s)
  <2> DEFINE texts(src, j) == {d.sections : d \in ToSet(Documents(src, j))}
             same == {j \in VersionsOf(s) : texts(s, j) = texts(s, i)}
  <2>1. <<s, i>> \in Versions
    BY DEF Versions
  <2>2. build_index_version[<<s, i>>] = Min(same)
    BY <2>1 DEF build_index_version
  <2>3. same \subseteq Nat /\ same # {} /\ same \subseteq VersionsOf(s)
    BY <1>2
  <2> HIDE DEF same
  <2> QED  BY <2>2, <2>3, MinIn
<1>5. \A w \in Versions : w[1] \in SourceIds /\ w[2] \in VersionsOf(w[1]) /\ w = <<w[1], w[2]>>
  BY DEF Versions
<1> QED  BY <1>2, <1>3, <1>4, <1>5

-----------------------------------------------------------------------------
(***************************************************************************)
(* The index.                                                              *)
(***************************************************************************)

\* A step that leaves the readers and the entries of the cache, or drops them all.
LEMMA StillTyped ==
  ASSUME TypeOK, Shaped(status, {"none", "building", "active", "retired"})',
         Shaped(rows, {"absent", "live", "retired"})', job' \in Job, served' \subseteq SourceIds,
         UNCHANGED reader, cache' = cache \/ cache' = Empty
  PROVE  TypeOK'
<1>1. /\ cache' = [k \in DOMAIN cache' |-> cache'[k]]
      /\ \A k \in DOMAIN cache' : /\ k \in (DOMAIN Queries) \X [SourceIds -> Nat]
                                 /\ cache'[k] \in [rows : Seq(Refs), expired : BOOLEAN]
  <2>1. CASE cache' = cache
    BY <2>1 DEF TypeOK
  <2>2. CASE cache' = Empty
    BY <2>2 DEF Empty
  <2> QED  BY <2>1, <2>2
<1> QED  BY <1>1 DEF TypeOK

\* The jobs that the steps of an ingestion start.
LEMMA Jobs ==
  /\ NoJob \in Job /\ NoJob.pc = "idle" /\ [NoJob EXCEPT !.pc = "clear"] \in Job
  /\ \A s \in SourceIds : /\ [NoJob EXCEPT !.pc = "fetch", !.source = s] \in Job
                          /\ [NoJob EXCEPT !.pc = "fetch", !.source = s].source = s
  /\ \A s \in SourceIds, l \in Seq(SourceIds) :
       /\ [NoJob EXCEPT !.pc = "fetch", !.source = s, !.todo = l] \in Job
       /\ [NoJob EXCEPT !.pc = "fetch", !.source = s, !.todo = l].pc = "fetch"
       /\ [NoJob EXCEPT !.pc = "fetch", !.source = s, !.todo = l].source = s
<1>1. NoJob \in Job /\ NoJob.pc = "idle"
  BY DEF NoJob, Job
<1> QED  BY <1>1 DEF NoJob, Job

\* The job after this one is of a source on the list, or ends the refresh.
LEMMA OnwardJob ==
  ASSUME job \in Job
  PROVE  /\ Onward \in Job
         /\ Onward.pc = "clear" \/ (Onward.pc = "fetch" /\ Onward.source \in SourceIds)
<1>1. job.todo \in Seq(SourceIds)
  BY DEF Job
<1>2. CASE job.todo = <<>>
  BY <1>2, Jobs DEF Onward, NoJob
<1>3. CASE job.todo # <<>>
  <2>1. Head(job.todo) \in SourceIds /\ Tail(job.todo) \in Seq(SourceIds)
    BY <1>1, <1>3
  <2> DEFINE h == Head(job.todo)
             l == Tail(job.todo)
  <2>2. Onward = [NoJob EXCEPT !.pc = "fetch", !.source = h, !.todo = l]
    BY <1>3 DEF Onward
  <2> HIDE DEF h, l
  <2>3. h \in SourceIds /\ l \in Seq(SourceIds)
    BY <2>1 DEF h, l
  <2>4. /\ [NoJob EXCEPT !.pc = "fetch", !.source = h, !.todo = l] \in Job
        /\ [NoJob EXCEPT !.pc = "fetch", !.source = h, !.todo = l].pc = "fetch"
        /\ [NoJob EXCEPT !.pc = "fetch", !.source = h, !.todo = l].source = h
    BY <2>3, Jobs
  <2> QED  BY <2>2, <2>3, <2>4
<1> QED  BY <1>2, <1>3

\* The state of the index, apart from what retrieval keeps.
CorpusInv == TypeOK /\ Building /\ Serving

\* The steps of an ingestion that leave the index as it is.
LEMMA QuietIngest ==
  ASSUME CorpusInv,
         \/ refresh_all \/ (\E s \in SourceIds : ingest_source(s))
         \/ fetch_fails \/ ingest_raises \/ clear
  PROVE  CorpusInv' /\ UNCHANGED index
<1>1. UNCHANGED <<status, rows, served, reader>> /\ (cache' = cache \/ cache' = Empty)
  BY DEF refresh_all, ingest_source, fetch_fails, ingest_raises, clear, index
<1>2. /\ job' \in Job
      /\ job'.pc \notin {"add", "activate"}
      /\ job'.pc = "fetch" => job'.source \in SourceIds
  <2>1. CASE refresh_all
    <3>1. Head(Sources) \in SourceIds /\ Tail(Sources) \in Seq(SourceIds)
      BY SourcesListed
    <3>2. job' = [NoJob EXCEPT !.pc = "fetch", !.source = Head(Sources), !.todo = Tail(Sources)]
      BY <2>1 DEF refresh_all
    <3> QED  BY <3>1, <3>2, Jobs
  <2>2. ASSUME NEW s \in SourceIds, ingest_source(s)
        PROVE  job' \in Job /\ job'.pc = "fetch" /\ job'.source \in SourceIds
    <3>1. job' = [NoJob EXCEPT !.pc = "fetch", !.source = s]
      BY <2>2 DEF ingest_source
    <3> QED  BY <3>1, Jobs DEF NoJob
  <2>3. CASE fetch_fails
    <3>1. job \in Job /\ job' = Onward
      BY <2>3 DEF fetch_fails, CorpusInv, TypeOK
    <3> QED  BY <3>1, OnwardJob
  <2>4. CASE ingest_raises \/ clear
    BY <2>4, Jobs DEF ingest_raises, clear
  <2> QED  BY <2>1, <2>2, <2>3, <2>4
<1>3. TypeOK'
  BY <1>1, <1>2, StillTyped DEF CorpusInv, TypeOK, Shaped
<1>4. Building' /\ Serving'
  BY <1>1, <1>2 DEF CorpusInv, Building, Serving
<1> QED  BY <1>1, <1>3, <1>4 DEF CorpusInv, index

\* A version x of source s was the active one at some time, none for 0.
Known(s, x) == x = 0 \/ (x \in VersionsOf(s) /\ status[s][x] \in {"active", "retired"})

\* It is not the active one any more.
Gone(s, x) == IF x = 0 THEN s \in served ELSE status[s][x] = "retired"

\* What a step of the index may do: a version that was active is active or retired for
\* good, what is out of search stays out, rows go out of search only when every version
\* active before is superseded, and no version that was active gets rows back.
Advances ==
  \A s \in SourceIds :
    /\ \A x \in Nat : Known(s, x) => Known(s, x)' /\ (Gone(s, x) => Gone(s, x)')
    /\ \A v \in VersionsOf(s) :
         /\ rows[s][v] # "absent" => rows'[s][v] # "absent"
         /\ rows[s][v] = "retired" => rows'[s][v] = "retired"
         /\ rows[s][v] # "retired" /\ rows'[s][v] = "retired" =>
              \A x \in Nat : Known(s, x) => Gone(s, x)'
         /\ rows'[s][v] = "live" /\ Known(s, v) => rows[s][v] = "live"

\* The insert of the row of a new version.
LEMMA RecordStep ==
  ASSUME CorpusInv, record_version
  PROVE  CorpusInv' /\ Advances
<1> DEFINE src == job.source
           val == {"none", "building", "active", "retired"}
<1>1. /\ src \in SourceIds /\ job \in Job /\ Shaped(status, val)
      /\ Shaped(rows, {"absent", "live", "retired"}) /\ served \subseteq SourceIds
  BY DEF record_version, CorpusInv, Building, TypeOK
<1>2. PICK v \in VersionsOf(src) :
        /\ status[src][v] = "none"
        /\ status' = [status EXCEPT ![src][v] = "building"]
        /\ job' = [job EXCEPT !.pc = "add", !.version = v]
  BY <1>1, Numbers DEF record_version
<1>3. UNCHANGED <<rows, served, cache, reader>>
  BY DEF record_version
<1>4. /\ status' = [s \in SourceIds |-> status'[s]]
      /\ status'[src] = [status[src] EXCEPT ![v] = "building"]
      /\ \A s \in SourceIds \ {src} : status'[s] = status[s]
  BY <1>1, <1>2 DEF Shaped
<1>5. /\ status[src] \in [VersionsOf(src) -> val]
      /\ status'[src] \in [VersionsOf(src) -> val] /\ status'[src][v] = "building"
      /\ \A u \in VersionsOf(src) \ {v} : status'[src][u] = status[src][u]
  BY <1>1, <1>2, <1>4 DEF Shaped
<1> HIDE DEF val
<1>6. Shaped(status, val)'
  BY <1>1, <1>4, <1>5 DEF Shaped
<1>7. v \in Nat
  BY <1>1, <1>2, Numbers
<1>8. job' \in Job /\ job'.pc = "add" /\ job'.source = src /\ job'.version = v
  BY <1>1, <1>2, <1>7 DEF Job
<1>9. TypeOK'
  BY <1>1, <1>3, <1>6, <1>8, StillTyped DEF CorpusInv, Shaped, val
<1>10. \A s \in SourceIds : \A u \in VersionsOf(s) :
         status'[s][u] = IF s = src /\ u = v THEN "building" ELSE status[s][u]
  BY <1>4, <1>5
<1> HIDE DEF src
<1>11. rows[src][v] = "absent"
  BY <1>1, <1>2 DEF CorpusInv, Serving
<1>12. Building'
  BY <1>1, <1>2, <1>3, <1>8, <1>10, <1>11 DEF Building
<1>13. Serving'
  <2>1. \A s \in SourceIds : {u \in VersionsOf(s) : status'[s][u] = "active"}
                              = {u \in VersionsOf(s) : status[s][u] = "active"}
    BY <1>2, <1>10
  <2>2. \A s \in SourceIds : \A u \in VersionsOf(s) :
          /\ status'[s][u] = "active" => rows[s][u] = "live"
          /\ status'[s][u] = "building" => rows[s][u] \in {"absent", "live"}
          /\ status'[s][u] = "retired" => rows[s][u] = "retired"
          /\ status'[s][u] = "none" => rows[s][u] = "absent"
    <3>1. \A s \in SourceIds : \A u \in VersionsOf(s) :
            /\ status[s][u] = "active" => rows[s][u] = "live"
            /\ status[s][u] = "building" => rows[s][u] \in {"absent", "live"}
            /\ status[s][u] = "retired" => rows[s][u] = "retired"
            /\ status[s][u] = "none" => rows[s][u] = "absent"
      BY DEF CorpusInv, Serving
    <3> QED  BY <1>10, <1>11, <3>1
  <2> QED  BY <1>3, <2>1, <2>2 DEF CorpusInv, Serving
<1>14. Advances
  <2>1. \A s \in SourceIds, x \in Nat : Known(s, x) => Known(s, x)' /\ (Gone(s, x) => Gone(s, x)')
    BY <1>2, <1>3, <1>10 DEF Known, Gone
  <2> QED  BY <1>3, <2>1 DEF Advances
<1> QED  BY <1>9, <1>12, <1>13, <1>14 DEF CorpusInv

\* The rows of the version being built become searchable.
LEMMA AddStep ==
  ASSUME CorpusInv, add_chunks
  PROVE  CorpusInv' /\ Advances
<1> DEFINE src == job.source
           v   == job.version
           val == {"absent", "live", "retired"}
<1>1. /\ src \in SourceIds /\ v \in VersionsOf(src) /\ job \in Job /\ Shaped(rows, val)
      /\ Shaped(status, {"none", "building", "active", "retired"}) /\ served \subseteq SourceIds
      /\ status[src][v] = "building" /\ rows[src][v] = "absent"
  BY DEF add_chunks, CorpusInv, Building, TypeOK
<1>2. /\ rows' = [rows EXCEPT ![src][v] = "live"]
      /\ job' = [job EXCEPT !.pc = "activate"]
      /\ UNCHANGED <<status, served, cache, reader>>
  BY DEF add_chunks
<1> HIDE DEF src, v
<1>3. /\ job' \in Job /\ job'.pc = "activate" /\ job'.source = src /\ job'.version = v
  BY <1>1, <1>2 DEF Job, src, v
<1>4. /\ rows' = [s \in SourceIds |-> rows'[s]]
      /\ rows'[src] = [rows[src] EXCEPT ![v] = "live"]
      /\ \A s \in SourceIds \ {src} : rows'[s] = rows[s]
  BY <1>1, <1>2 DEF Shaped
<1>5. /\ rows[src] \in [VersionsOf(src) -> val]
      /\ rows'[src] \in [VersionsOf(src) -> val] /\ rows'[src][v] = "live"
      /\ \A u \in VersionsOf(src) \ {v} : rows'[src][u] = rows[src][u]
  BY <1>1, <1>4 DEF Shaped
<1> HIDE DEF val
<1>6. Shaped(rows, val)'
  BY <1>1, <1>4, <1>5 DEF Shaped
<1>7. TypeOK'
  BY <1>1, <1>2, <1>3, <1>6, StillTyped DEF CorpusInv, Shaped, val
<1>8. \A s \in SourceIds : \A u \in VersionsOf(s) :
        rows'[s][u] = IF s = src /\ u = v THEN "live" ELSE rows[s][u]
  BY <1>4, <1>5
<1>9. Building'
  BY <1>1, <1>2, <1>3, <1>8 DEF Building
<1>10. Serving'
  <2>1. \A s \in SourceIds : \A u \in VersionsOf(s) :
          /\ status[s][u] = "active" => rows'[s][u] = "live"
          /\ status[s][u] = "building" => rows'[s][u] \in {"absent", "live"}
          /\ status[s][u] = "retired" => rows'[s][u] = "retired"
          /\ status[s][u] = "none" => rows'[s][u] = "absent"
    <3>1. \A s \in SourceIds : \A u \in VersionsOf(s) :
            /\ status[s][u] = "active" => rows[s][u] = "live"
            /\ status[s][u] = "building" => rows[s][u] \in {"absent", "live"}
            /\ status[s][u] = "retired" => rows[s][u] = "retired"
            /\ status[s][u] = "none" => rows[s][u] = "absent"
      BY DEF CorpusInv, Serving
    <3> QED  BY <1>1, <1>8, <3>1
  <2> QED  BY <1>2, <2>1 DEF CorpusInv, Serving
<1>11. Advances
  <2>1. \A s \in SourceIds, x \in Nat : Known(s, x) => Known(s, x)' /\ (Gone(s, x) => Gone(s, x)')
    BY <1>2 DEF Known, Gone
  <2>2. \A s \in SourceIds : \A u \in VersionsOf(s) :
          /\ rows[s][u] # "absent" => rows'[s][u] # "absent"
          /\ rows[s][u] = "retired" => rows'[s][u] = "retired"
          /\ rows'[s][u] = "retired" => rows[s][u] = "retired"
    BY <1>1, <1>8
  <2>3. \A s \in SourceIds : \A u \in VersionsOf(s) :
          rows'[s][u] = "live" /\ Known(s, u) => rows[s][u] = "live"
    BY <1>1, <1>8, Numbers DEF Known
  <2> QED  BY <2>1, <2>2, <2>3 DEF Advances
<1> QED  BY <1>7, <1>9, <1>10, <1>11 DEF CorpusInv

\* The new version is active and the one before it out of search, in one transaction.
LEMMA ActivateStep ==
  ASSUME CorpusInv, activate_version
  PROVE  CorpusInv' /\ Advances
<1> DEFINE src  == job.source
           v    == job.version
           sval == {"none", "building", "active", "retired"}
           rval == {"absent", "live", "retired"}
<1>1. /\ src \in SourceIds /\ v \in VersionsOf(src) /\ job \in Job
      /\ Shaped(status, sval) /\ Shaped(rows, rval) /\ served \subseteq SourceIds
      /\ status[src][v] = "building" /\ rows[src][v] = "live"
  BY DEF activate_version, CorpusInv, Building, TypeOK
<1>2. \A s \in SourceIds : \A u \in VersionsOf(s) :
        /\ status[s][u] \in sval /\ rows[s][u] \in rval
        /\ status[s][u] = "active" => rows[s][u] = "live"
        /\ status[s][u] = "building" => rows[s][u] \in {"absent", "live"}
        /\ status[s][u] = "retired" => rows[s][u] = "retired"
        /\ status[s][u] = "none" => rows[s][u] = "absent"
  <2>1. \A s \in SourceIds : \A u \in VersionsOf(s) : status[s][u] \in sval /\ rows[s][u] \in rval
    BY <1>1 DEF Shaped
  <2> HIDE DEF sval, rval
  <2> QED  BY <2>1 DEF CorpusInv, Serving
<1>3. /\ rows' = [rows EXCEPT ![src] = Retire(@)]
      /\ status' = [status EXCEPT ![src] = [u \in DOMAIN @ |->
            CASE u = v -> "active" [] u \in previous -> "retired" [] OTHER -> @[u]]]
      /\ served' = served \cup {src} /\ job' = Onward /\ UNCHANGED <<cache, reader>>
  BY DEF activate_version
<1>4. previous = {u \in VersionsOf(src) : status[src][u] = "active" /\ u # v}
  BY DEF previous
<1> HIDE DEF src, v
<1>5. /\ status[src] \in [VersionsOf(src) -> sval] /\ rows[src] \in [VersionsOf(src) -> rval]
      /\ status = [s \in SourceIds |-> status[s]] /\ rows = [s \in SourceIds |-> rows[s]]
  BY <1>1 DEF Shaped
<1>6. /\ status' = [s \in SourceIds |-> status'[s]]
      /\ status'[src] = [u \in VersionsOf(src) |->
            CASE u = v -> "active" [] u \in previous -> "retired" [] OTHER -> status[src][u]]
      /\ \A s \in SourceIds \ {src} : status'[s] = status[s]
  BY <1>1, <1>3, <1>5
<1>7. /\ rows' = [s \in SourceIds |-> rows'[s]]
      /\ rows'[src] = [u \in VersionsOf(src) |->
            IF u \in previous /\ rows[src][u] = "live" THEN "retired" ELSE rows[src][u]]
      /\ \A s \in SourceIds \ {src} : rows'[s] = rows[s]
  BY <1>1, <1>3, <1>5 DEF Retire
<1>8. \A u \in VersionsOf(src) :
        /\ status'[src][u] = CASE u = v -> "active" [] u \in previous -> "retired"
                                [] OTHER -> status[src][u]
        /\ rows'[src][u] = IF u \in previous /\ rows[src][u] = "live" THEN "retired" ELSE rows[src][u]
  BY <1>6, <1>7
<1>9. ASSUME NEW u \in VersionsOf(src)
      PROVE  /\ u = v => status'[src][u] = "active" /\ rows'[src][u] = "live"
             /\ u # v /\ status[src][u] = "active" =>
                  status'[src][u] = "retired" /\ rows'[src][u] = "retired"
             /\ u # v /\ status[src][u] # "active" =>
                  status'[src][u] = status[src][u] /\ rows'[src][u] = rows[src][u]
  <2>1. u \in previous <=> status[src][u] = "active" /\ u # v
    BY <1>4
  <2>2. status[src][u] = "active" => rows[src][u] = "live"
    BY <1>1, <1>2
  <2>3. CASE u = v
    BY <1>1, <1>8, <2>1, <2>3
  <2>4. CASE u # v
    BY <1>8, <2>1, <2>2, <2>4
  <2> QED  BY <2>3, <2>4
<1>10. \A u \in VersionsOf(src) : status'[src][u] \in sval /\ rows'[src][u] \in rval
  BY <1>1, <1>2, <1>9
<1>11. Shaped(status, sval)' /\ Shaped(rows, rval)'
  BY <1>1, <1>6, <1>7, <1>10 DEF Shaped
<1>12. /\ job' \in Job
       /\ job'.pc = "clear" \/ (job'.pc = "fetch" /\ job'.source \in SourceIds)
  BY <1>1, <1>3, OnwardJob
<1>13. TypeOK'
  BY <1>1, <1>3, <1>11, <1>12, StillTyped DEF CorpusInv
<1>14. Building'
  BY <1>12 DEF Building
<1>15. Serving'
  <2>1. ASSUME NEW s \in SourceIds, NEW u \in VersionsOf(s)
        PROVE  /\ status'[s][u] = "active" => rows'[s][u] = "live"
               /\ status'[s][u] = "building" => rows'[s][u] \in {"absent", "live"}
               /\ status'[s][u] = "retired" => rows'[s][u] = "retired"
               /\ status'[s][u] = "none" => rows'[s][u] = "absent"
    <3>1. CASE s = src
      BY <1>1, <1>2, <1>9, <3>1
    <3>2. CASE s # src
      BY <1>2, <1>6, <1>7, <3>2
    <3> QED  BY <3>1, <3>2
  <2>2. ASSUME NEW s \in SourceIds
        PROVE  Cardinality({u \in VersionsOf(s) : status'[s][u] = "active"})
                 = IF s \in served' THEN 1 ELSE 0
    <3>1. CASE s = src
      <4>1. {u \in VersionsOf(src) : status'[src][u] = "active"} = {v}
        BY <1>1, <1>9
      <4>2. Cardinality({v}) = 1 /\ s \in served'
        BY <1>3, <3>1, FS_Singleton
      <4> QED  BY <3>1, <4>1, <4>2
    <3>2. CASE s # src
      <4>1. status'[s] = status[s] /\ (s \in served' <=> s \in served)
        BY <1>3, <1>6, <3>2
      <4> QED  BY <4>1 DEF CorpusInv, Serving
    <3> QED  BY <3>1, <3>2
  <2> QED  BY <2>1, <2>2 DEF Serving
<1>16. Advances
  <2> SUFFICES ASSUME NEW s \in SourceIds
               PROVE  /\ \A x \in Nat : Known(s, x) => Known(s, x)' /\ (Gone(s, x) => Gone(s, x)')
                      /\ \A u \in VersionsOf(s) :
                           /\ rows[s][u] # "absent" => rows'[s][u] # "absent"
                           /\ rows[s][u] = "retired" => rows'[s][u] = "retired"
                           /\ rows[s][u] # "retired" /\ rows'[s][u] = "retired" =>
                                \A x \in Nat : Known(s, x) => Gone(s, x)'
                           /\ rows'[s][u] = "live" /\ Known(s, u) => rows[s][u] = "live"
    BY DEF Advances
  <2>1. CASE s # src
    BY <1>3, <1>6, <1>7, <2>1 DEF Known, Gone
  <2>2. CASE s = src
    <3>1. ASSUME NEW x \in Nat, Known(s, x)
          PROVE  Known(s, x)' /\ Gone(s, x)'
      <4>1. CASE x = 0
        BY <1>3, <2>2, <4>1 DEF Known, Gone
      <4>2. CASE x # 0
        <5>1. x \in VersionsOf(s) /\ status[s][x] \in {"active", "retired"} /\ x # v
          BY <1>1, <2>2, <3>1, <4>2 DEF Known
        <5>2. status'[s][x] = "retired"
          BY <1>9, <2>2, <5>1
        <5> QED  BY <4>2, <5>1, <5>2 DEF Known, Gone
      <4> QED  BY <4>1, <4>2
    <3>2. \A u \in VersionsOf(s) :
            /\ rows[s][u] # "absent" => rows'[s][u] # "absent"
            /\ rows[s][u] = "retired" => rows'[s][u] = "retired"
            /\ rows'[s][u] = "live" => rows[s][u] = "live"
      BY <1>1, <1>2, <1>9, <2>2
    <3> QED  BY <3>1, <3>2
  <2> QED  BY <2>1, <2>2
<1> QED  BY <1>13, <1>14, <1>15, <1>16 DEF CorpusInv

-----------------------------------------------------------------------------
(***************************************************************************)
(* What a retrieval holds.                                                 *)
(***************************************************************************)

\* Rows found for a version: they are there, and out of search only if the version is
\* superseded.
Found(ver, refs) ==
  \A i \in DOMAIN refs :
    /\ rows[refs[i][1]][refs[i][2]] # "absent"
    /\ rows[refs[i][1]][refs[i][2]] = "retired" => Gone(refs[i][1], ver[refs[i][1]])

\* A list of rows that keeps to the filters of a query.
Filtered(q, refs) == \A i \in DOMAIN refs : Admitted(Row(refs[i]), Queries[q])

\* A list of rows that may be an answer: filtered, without repeats and within the budget.
Listed(q, refs) ==
  LET taken == [i \in DOMAIN refs |-> Row(refs[i])]
  IN  /\ Filtered(q, refs)
      /\ DOMAIN bind_citations(taken) = DOMAIN taken
      /\ Len(taken) <= TopK
      /\ Len(taken) > 1 => Tokens(taken) <= TokenBudget

\* It is empty only if the version has nothing to say.
Exhausted(q, ver, refs) ==
  refs = <<>> =>
    \A r \in Searchable : r.version = ver[r.source] =>
      ~(matches_filters(r, Queries[q]) /\ dense_score(Queries[q], r) > 0)

\* A retrieval under way.
Retrieving(o) ==
  /\ o.pc = "idle" => o = Idle
  /\ o.pc # "idle" => o.query \in DOMAIN Queries
  /\ o.pc = "version" => o.todo # <<>>
  /\ o.pc \notin {"idle", "version"} => o.todo = <<>>
  /\ o.pc # "keyword" => o.dense = <<>>
  /\ o.pc # "set" => o.result = <<>>
  /\ \A s \in SourceIds \ ToSet(o.todo) : Known(s, o.version[s])
  /\ \A w \in o.retired : rows[w[1]][w[2]] = "retired"
  /\ Found(o.version, o.dense) /\ (o.pc = "keyword" => Filtered(o.query, o.dense))
  /\ Found(o.version, o.result)
  /\ o.pc = "set" => Listed(o.query, o.result) /\ Exhausted(o.query, o.version, o.result)

\* An entry of the cache.
Caching(k, refs) ==
  /\ \A s \in SourceIds : Known(s, k[2][s])
  /\ Found(k[2], refs) /\ Listed(k[1], refs) /\ Exhausted(k[1], k[2], refs)

Lacks(refs, w) == \A i \in DOMAIN refs : refs[i][1] # w[1] \/ refs[i][2] # w[2]

\* What was retired when retrieval o began is not among rows found for a version that
\* o has read too.
Avoids(o, ver, refs) ==
  \A w \in o.retired :
    w[1] \notin ToSet(o.todo) /\ ver[w[1]] = o.version[w[1]] => Lacks(refs, w)

Holding ==
  /\ \A t \in Readers : Retrieving(reader[t])
  /\ \A k \in DOMAIN cache : Caching(k, cache[k].rows)

\* That is so for every entry and every other retrieval.
Apart ==
  \A t \in Readers :
    /\ \A k \in DOMAIN cache : Avoids(reader[t], k[2], cache[k].rows)
    /\ \A u \in Readers : /\ Avoids(reader[t], reader[u].version, reader[u].dense)
                          /\ Avoids(reader[t], reader[u].version, reader[u].result)

\* A row is of a version of its source, and is the only one with its reference.
LEMMA RowFacts ==
  /\ \A r \in AllRows : /\ r.source \in SourceIds /\ r.version \in VersionsOf(r.source)
                        /\ Ref(r) \in Refs /\ Row(Ref(r)) = r
                        /\ Ref(r)[1] = r.source /\ Ref(r)[2] = r.version
  /\ \A ref \in Refs : /\ Row(ref) \in AllRows
                       /\ ref[1] = Row(ref).source /\ ref[2] = Row(ref).version
                       /\ ref[1] \in SourceIds /\ ref[2] \in VersionsOf(ref[1])
<1>1. \A r \in AllRows : r.source \in SourceIds /\ r.version \in VersionsOf(r.source)
  <2>1. ASSUME NEW s, NEW v, NEW r \in RowsOf(s, v)
        PROVE  r.source = s /\ r.version = v
    BY DEF RowsOf
  <2> QED  BY <2>1, Numbers DEF AllRows
<1>2. \A r \in AllRows : /\ Ref(r) \in Refs /\ Ref(r)[1] = r.source /\ Ref(r)[2] = r.version
  BY DEF Refs, Ref
<1>3. \A ref \in Refs : Row(ref) \in AllRows /\ Ref(Row(ref)) = ref
  BY DEF Refs, Row
<1>4. \A r \in AllRows : Row(Ref(r)) = r
  BY <1>2, <1>3, OneRowPerRef
<1>5. \A ref \in Refs : ref[1] = Row(ref).source /\ ref[2] = Row(ref).version
  BY <1>2, <1>3
<1> QED  BY <1>1, <1>2, <1>3, <1>4, <1>5

\* What was found stays found as the index moves on.
LEMMA FoundStays ==
  ASSUME Advances, NEW ver \in [SourceIds -> Nat], NEW refs \in Seq(Refs), Found(ver, refs),
         refs = <<>> \/ \A s \in SourceIds : Known(s, ver[s])
  PROVE  Found(ver, refs)'
<1> SUFFICES ASSUME NEW i \in DOMAIN refs
             PROVE  /\ rows'[refs[i][1]][refs[i][2]] # "absent"
                    /\ rows'[refs[i][1]][refs[i][2]] = "retired" =>
                         Gone(refs[i][1], ver[refs[i][1]])'
  BY DEF Found
<1>1. refs[i] \in Refs /\ refs # <<>>
  OBVIOUS
<1>2. PICK s, v : s = refs[i][1] /\ v = refs[i][2]
  OBVIOUS
<1>3. s \in SourceIds /\ v \in VersionsOf(s)
  BY <1>1, <1>2, RowFacts
<1>4. PICK x \in Nat : x = ver[s]
  BY <1>3
<1>5. Known(s, x) /\ rows[s][v] # "absent" /\ (rows[s][v] = "retired" => Gone(s, x))
  BY <1>1, <1>2, <1>3, <1>4 DEF Found
<1>6. rows'[s][v] # "absent" /\ (rows'[s][v] = "retired" => Gone(s, x)')
  BY <1>3, <1>5 DEF Advances
<1> QED  BY <1>2, <1>4, <1>6

\* A version that had nothing to say has nothing to say later.
LEMMA ExhaustedStays ==
  ASSUME Advances, NEW q, NEW ver \in [SourceIds -> Nat], NEW refs, Exhausted(q, ver, refs),
         \A s \in SourceIds : Known(s, ver[s])
  PROVE  Exhausted(q, ver, refs)'
<1>1. ASSUME NEW r \in Searchable', r.version = ver[r.source]
      PROVE  r \in Searchable
  <2>1. r \in AllRows /\ rows'[r.source][r.version] = "live"
    BY DEF Searchable
  <2>2. r.source \in SourceIds /\ r.version \in VersionsOf(r.source)
    BY <2>1, RowFacts
  <2>3. rows[r.source][r.version] = "live"
    BY <1>1, <2>1, <2>2 DEF Advances
  <2> QED  BY <2>1, <2>3 DEF Searchable
<1> QED  BY <1>1 DEF Exhausted

\* A retrieval stays what it is as the index moves on.
LEMMA RetrievingStays ==
  ASSUME Advances, NEW o \in Reader, Retrieving(o)
  PROVE  Retrieving(o)'
<1>1. /\ o.version \in [SourceIds -> Nat] /\ o.dense \in Seq(Refs) /\ o.result \in Seq(Refs)
      /\ o.retired \in SUBSET Versions
  BY DEF Reader
<1>2. o.pc \in {"keyword", "set"} => \A s \in SourceIds : Known(s, o.version[s])
  BY DEF Retrieving, ToSet
<1>3. /\ o.dense = <<>> \/ \A s \in SourceIds : Known(s, o.version[s])
      /\ o.result = <<>> \/ \A s \in SourceIds : Known(s, o.version[s])
  BY <1>2 DEF Retrieving
<1>4. Found(o.version, o.dense) /\ Found(o.version, o.result)
  BY DEF Retrieving
<1>5. Found(o.version, o.dense)' /\ Found(o.version, o.result)'
  BY <1>1, <1>3, <1>4, FoundStays
<1>6. \A s \in SourceIds \ ToSet(o.todo) : Known(s, o.version[s])'
  <2>1. \A s \in SourceIds \ ToSet(o.todo) : Known(s, o.version[s]) /\ o.version[s] \in Nat
    BY <1>1 DEF Retrieving
  <2> QED  BY <2>1 DEF Advances
<1>7. \A w \in o.retired : rows'[w[1]][w[2]] = "retired"
  <2>1. \A w \in o.retired : /\ rows[w[1]][w[2]] = "retired"
                             /\ w[1] \in SourceIds /\ w[2] \in VersionsOf(w[1])
    BY <1>1, Numbers DEF Retrieving
  <2> QED  BY <2>1 DEF Advances
<1>8. o.pc = "set" => Exhausted(o.query, o.version, o.result)'
  <2> SUFFICES ASSUME o.pc = "set"
               PROVE  Exhausted(o.query, o.version, o.result)'
    OBVIOUS
  <2>1. Exhausted(o.query, o.version, o.result)
    BY DEF Retrieving
  <2> QED  BY <1>1, <1>2, <2>1, ExhaustedStays
<1> QED  BY <1>5, <1>6, <1>7, <1>8 DEF Retrieving

\* An entry stays sound as the index moves on.
LEMMA CachingStays ==
  ASSUME Advances, NEW k \in (DOMAIN Queries) \X [SourceIds -> Nat], NEW refs \in Seq(Refs),
         Caching(k, refs)
  PROVE  Caching(k, refs)'
<1>1. /\ k[2] \in [SourceIds -> Nat] /\ \A s \in SourceIds : Known(s, k[2][s])
      /\ Found(k[2], refs) /\ Listed(k[1], refs) /\ Exhausted(k[1], k[2], refs)
  BY DEF Caching
<1>2. Found(k[2], refs)' /\ Exhausted(k[1], k[2], refs)'
  BY <1>1, FoundStays, ExhaustedStays
<1>3. \A s \in SourceIds : Known(s, k[2][s])'
  BY <1>1 DEF Advances
<1> QED  BY <1>1, <1>2, <1>3 DEF Caching

\* A step of the index leaves the retrievals and the entries sound.
LEMMA IndexStep ==
  ASSUME TypeOK, Holding, Apart, Advances, UNCHANGED reader, cache' = cache \/ cache' = Empty
  PROVE  Holding' /\ Apart'
<1>1. reader \in [Readers -> Reader]
  BY DEF TypeOK
<1>2. ASSUME NEW t \in Readers
      PROVE  Retrieving(reader[t])'
  <2>1. PICK o \in Reader : o = reader[t]
    BY <1>1
  <2>2. Retrieving(o)'
    BY <2>1, RetrievingStays DEF Holding
  <2> QED  BY <2>1, <2>2
<1>3. ASSUME NEW k \in DOMAIN cache'
      PROVE  Caching(k, cache[k].rows)'
  <2>1. cache' = cache
    BY <1>3 DEF Empty
  <2>2. k \in (DOMAIN Queries) \X [SourceIds -> Nat] /\ cache[k].rows \in Seq(Refs)
    BY <1>3, <2>1 DEF TypeOK
  <2>3. PICK refs \in Seq(Refs) : refs = cache[k].rows
    BY <2>2
  <2>4. Caching(k, refs)'
    BY <1>3, <2>1, <2>2, <2>3, CachingStays DEF Holding
  <2> QED  BY <2>1, <2>3, <2>4
<1>4. Apart'
  <2>1. CASE cache' = cache
    BY <2>1 DEF Apart
  <2>2. CASE cache' = Empty
    BY <2>2 DEF Apart, Empty
  <2> QED  BY <2>1, <2>2
<1> QED  BY <1>2, <1>3, <1>4 DEF Holding

-----------------------------------------------------------------------------
(***************************************************************************)
(* The searches.                                                           *)
(***************************************************************************)

\* What a function makes of a finite set is finite.
LEMMA Images ==
  ASSUME NEW S, IsFiniteSet(S), NEW f, f = [x \in S |-> f[x]]
  PROVE  IsFiniteSet({f[x] : x \in S})
<1> DEFINE T == {f[x] : x \in S}
<1>1. f \in Surjection(S, T)
  BY DEF Surjection
<1> QED  BY <1>1, FS_Surjection

\* Orders of a set of rows are sequences of them.
LEMMA Orders ==
  ASSUME NEW S, IsFiniteSet(S), NEW o \in SetToSeqs(S)
  PROVE  /\ o \in Seq(S) /\ Len(o) = Cardinality(S) /\ DOMAIN o = 1..Len(o)
         /\ \A i, j \in DOMAIN o : i # j => o[i] # o[j]
         /\ S # {} => o # <<>>
<1> DEFINE c == Cardinality(S)
<1>1. c \in Nat /\ o \in [1..c -> S] /\ \A i, j \in 1..c : i # j => o[i] # o[j]
  BY FS_CardinalityType DEF SetToSeqs
<1>2. S # {} => c # 0
  BY FS_EmptySet
<1> HIDE DEF c
<1>3. o \in Seq(S)
  BY <1>1, SeqDef
<1>4. DOMAIN o = 1..Len(o) /\ Len(o) \in Nat /\ DOMAIN o = 1..c
  BY <1>1, <1>3, LenProperties
<1>5. Len(o) = c
  BY <1>1, <1>4
<1>6. S # {} => o # <<>>
  BY <1>2, <1>5
<1> QED  BY <1>1, <1>3, <1>4, <1>5, <1>6 DEF c

\* A search path finds rows that are searchable and that an answer may hold.
LEMMA DenseRows ==
  ASSUME NEW q, NEW found \in dense_search(q)
  PROVE  /\ found \in Seq(AllRows)
         /\ \A i \in DOMAIN found : found[i] \in Searchable /\ Admitted(found[i], q)
<1> DEFINE Match(c) == {r \in c : matches_filters(r, q) /\ dense_score(q, r) > 0}
<1>1. PICK c \in SUBSET base_query(q) : found \in SetToSeqs(Match(c))
  BY DEF dense_search, ByScore, kSubset
<1>2. base_query(q) \subseteq AllRows
  BY DEF base_query, Searchable
<1>3. IsFiniteSet(Match(c)) /\ Match(c) \subseteq base_query(q)
  BY <1>1, <1>2, OneRowPerRef, FS_Subset
<1>4. \A r \in Match(c) : r \in Searchable /\ Admitted(r, q)
  BY <1>1 DEF base_query, Admitted
<1> HIDE DEF Match
<1>5. found \in Seq(Match(c))
  BY <1>1, <1>3, Orders
<1>6. \A i \in DOMAIN found : found[i] \in Match(c)
  BY <1>5
<1>7. found \in Seq(AllRows)
  BY <1>2, <1>3, <1>5, <1>6
<1> QED  BY <1>4, <1>6, <1>7

\* The keyword path too, and it finds something if any such row has a word of the query.
LEMMA KeywordRows ==
  ASSUME NEW q, NEW found \in keyword_search(q)
  PROVE  /\ found \in Seq(AllRows)
         /\ \A i \in DOMAIN found : found[i] \in Searchable /\ Admitted(found[i], q)
         /\ found = <<>> => \A r \in base_query(q) : q.words \cap r.words = {}
<1> DEFINE hits == {r \in base_query(q) : Mentions(r, q)}
           n    == Min({Candidates, Cardinality(hits)})
<1>1. PICK c \in kSubset(n, hits) : found \in SetToSeqs(c)
  BY DEF keyword_search, ByScore
<1>2. hits \subseteq AllRows /\ hits \subseteq base_query(q)
  BY DEF base_query, Searchable
<1>3. c \subseteq hits /\ Cardinality(c) = n
  BY <1>1 DEF kSubset
<1>4. IsFiniteSet(hits) /\ IsFiniteSet(c) /\ Cardinality(hits) \in Nat
  BY <1>2, <1>3, OneRowPerRef, FS_Subset, FS_CardinalityType
<1>5. found \in Seq(c) /\ (c # {} => found # <<>>)
  BY <1>1, <1>4, Orders
<1>6. \A i \in DOMAIN found : found[i] \in c
  BY <1>5
<1>7. found \in Seq(AllRows)
  BY <1>2, <1>3, <1>5, <1>6
<1>8. c = {} => hits = {}
  <2> SUFFICES ASSUME c = {}
               PROVE  hits = {}
    OBVIOUS
  <2>1. n = 0
    BY <1>3, FS_EmptySet
  <2>2. Candidates \in Nat \ {0}
    BY RetrievalConstants
  <2>3. n \in {Candidates, Cardinality(hits)}
    <3> DEFINE S == {Candidates, Cardinality(hits)}
    <3>1. S \subseteq Nat /\ S # {}
      BY <1>4, <2>2
    <3> QED  BY <3>1, MinIn
  <2>4. Cardinality(hits) = 0
    BY <2>1, <2>2, <2>3
  <2> QED  BY <1>4, <2>4, FS_EmptySet
<1>9. hits = {} => \A r \in base_query(q) : q.words \cap r.words = {}
  BY DEF Mentions
<1>10. \A r \in hits : r \in Searchable /\ Admitted(r, q)
  BY DEF base_query, Admitted
<1> QED  BY <1>3, <1>5, <1>6, <1>7, <1>8, <1>9, <1>10

\* A candidate is a row of one of the paths, one for each chunk id.
LEMMA FuseRows ==
  ASSUME NEW q, NEW dense \in Seq(AllRows), NEW keyword \in Seq(AllRows)
  PROVE  /\ IsFiniteSet(fuse(dense, keyword, q))
         /\ \A c \in fuse(dense, keyword, q) : c.row \in ToSet(dense) \cup ToSet(keyword)
         /\ \A c, e \in fuse(dense, keyword, q) : c.row.id = e.row.id => c = e
         /\ keyword # <<>> => fuse(dense, keyword, q) # {}
<1> DEFINE ids == {r.id : r \in ToSet(dense) \cup ToSet(keyword)}
           LastOf(o, id)  == o[Max({i \in DOMAIN o : o[i].id = id})]
           FirstOf(o, id) == o[Min({i \in DOMAIN o : o[i].id = id})]
           In(o, id)      == \E i \in DOMAIN o : o[i].id = id
           Cand(id) ==
             [row |-> IF In(dense, id) THEN LastOf(dense, id) ELSE FirstOf(keyword, id),
              dense |-> IF In(dense, id) THEN dense_score(q, LastOf(dense, id)) ELSE 0,
              keyword |-> IF In(keyword, id) THEN keyword_overlap_score(q, LastOf(keyword, id)) ELSE 0]
<1>1. fuse(dense, keyword, q) = {Cand(id) : id \in ids}
  BY DEF fuse
<1>2. ToSet(dense) \subseteq AllRows /\ ToSet(keyword) \subseteq AllRows
  BY DEF ToSet
<1>3. IsFiniteSet(ids)
  <2> DEFINE both == ToSet(dense) \cup ToSet(keyword)
  <2>1. IsFiniteSet(both)
    BY <1>2, OneRowPerRef, FS_Subset
  <2> HIDE DEF both
  <2>2. IsFiniteSet({r.id : r \in both})
    <3> DEFINE f == [r \in both |-> r.id]
    <3>1. {f[r] : r \in both} = {r.id : r \in both} /\ f = [r \in both |-> f[r]]
      OBVIOUS
    <3> HIDE DEF f
    <3>2. IsFiniteSet({f[r] : r \in both})
      BY <2>1, <3>1, Images
    <3> QED  BY <3>1, <3>2
  <2> QED  BY <2>2 DEF both
<1>4. ASSUME NEW o \in Seq(AllRows), NEW id, In(o, id)
      PROVE  /\ LastOf(o, id) \in ToSet(o) /\ LastOf(o, id).id = id
             /\ FirstOf(o, id) \in ToSet(o) /\ FirstOf(o, id).id = id
  <2> DEFINE at == {i \in DOMAIN o : o[i].id = id}
  <2>1. at # {} /\ Len(o) \in Nat /\ DOMAIN o = 1..Len(o)
    BY <1>4
  <2>2. at \subseteq 0..Len(o) /\ at \subseteq Nat
    BY <2>1
  <2>3. Max(at) \in at /\ Min(at) \in at
    <3> HIDE DEF at
    <3> QED  BY <2>1, <2>2, MaxIn, MinIn
  <2> QED  BY <2>3 DEF ToSet
<1>5. \A id \in ids : In(dense, id) \/ In(keyword, id)
  BY DEF ToSet
<1> HIDE DEF ids, In, LastOf, FirstOf
<1>6. \A id \in ids : /\ Cand(id).row \in ToSet(dense) \cup ToSet(keyword)
                      /\ Cand(id).row.id = id
  BY <1>4, <1>5
<1> HIDE DEF Cand
<1>7. IsFiniteSet(fuse(dense, keyword, q))
  <2> DEFINE f == [id \in ids |-> Cand(id)]
  <2>1. {f[id] : id \in ids} = {Cand(id) : id \in ids} /\ f = [id \in ids |-> f[id]]
    OBVIOUS
  <2> HIDE DEF f
  <2>2. IsFiniteSet({f[id] : id \in ids})
    BY <1>3, <2>1, Images
  <2> QED  BY <1>1, <2>1, <2>2
<1>8. keyword # <<>> => ids # {}
  <2>1. keyword # <<>> => keyword[1] \in ToSet(keyword)
    BY DEF ToSet
  <2> QED  BY <2>1 DEF ids
<1> QED  BY <1>1, <1>6, <1>7, <1>8

\* The ranking is of the candidates' rows, each once.
LEMMA RankRows ==
  ASSUME NEW C, IsFiniteSet(C), \A c \in C : c.row \in AllRows,
         \A c, e \in C : c.row.id = e.row.id => c = e, NEW ranked \in rank(C)
  PROVE  /\ ranked \in Seq(AllRows) /\ (C # {} => ranked # <<>>)
         /\ \A i \in DOMAIN ranked : \E c \in C : ranked[i] = c.row
         /\ \A i, j \in DOMAIN ranked : i # j => ranked[i].id # ranked[j].id
<1>1. PICK o \in SetToSeqs(C) : ranked = [i \in DOMAIN o |-> o[i].row]
  BY DEF rank
<1>2. /\ o \in Seq(C) /\ DOMAIN o = 1..Len(o) /\ Len(o) \in Nat
      /\ \A i, j \in DOMAIN o : i # j => o[i] # o[j]
      /\ C # {} => o # <<>>
  BY Orders
<1>3. \A i \in DOMAIN o : o[i] \in C
  BY <1>2
<1>4. /\ DOMAIN ranked = DOMAIN o
      /\ \A i \in DOMAIN ranked : ranked[i] = o[i].row /\ o[i] \in C
  BY <1>1, <1>3
<1>5. ranked \in [1..Len(o) -> AllRows]
  BY <1>1, <1>2, <1>3
<1>6. ranked \in Seq(AllRows)
  BY <1>2, <1>5, SeqDef
<1>7. C # {} => ranked # <<>>
  <2>1. o # <<>> => 1 \in DOMAIN o
    BY <1>2
  <2> QED  BY <1>2, <1>4, <2>1
<1> QED  BY <1>2, <1>4, <1>6, <1>7

\* What is taken is a start of the ranking within the limits, and not nothing.
LEMMA TakeRows ==
  ASSUME NEW ranked \in Seq(AllRows), NEW taken, taken = take_within_budget(ranked)
  PROVE  /\ taken \in Seq(AllRows) /\ Len(taken) <= TopK
         /\ DOMAIN taken \subseteq DOMAIN ranked /\ \A i \in DOMAIN taken : taken[i] = ranked[i]
         /\ Len(taken) > 1 => Tokens(taken) <= TokenBudget
         /\ ranked # <<>> => taken # <<>>
<1> DEFINE top  == Min({TopK, Len(ranked)})
           fits == {n \in 0..top : \A m \in 2..n : Tokens(SubSeq(ranked, 1, m)) <= TokenBudget}
           k    == Max(fits)
<1>1. TopK \in Nat \ {0} /\ Len(ranked) \in Nat
  BY RetrievalConstants
<1>2. top \in Nat /\ top <= TopK /\ top <= Len(ranked) /\ (Len(ranked) > 0 => top > 0)
  <2> DEFINE S == {TopK, Len(ranked)}
  <2>1. S \subseteq Nat /\ S # {}
    BY <1>1
  <2>2. Min(S) \in S /\ \A y \in S : Min(S) <= y
    <3> HIDE DEF S
    <3> QED  BY <2>1, MinIn
  <2> QED  BY <1>1, <2>2
<1> HIDE DEF top
<1>3. k \in fits /\ \A y \in fits : y <= k
  <2>1. fits \subseteq 0..top /\ 0 \in fits
    BY <1>2
  <2> HIDE DEF fits
  <2> QED  BY <1>2, <2>1, MaxIn
<1>4. k \in 0..top /\ (k > 1 => Tokens(SubSeq(ranked, 1, k)) <= TokenBudget)
  <2>1. k \in 0..top /\ \A m \in 2..k : Tokens(SubSeq(ranked, 1, m)) <= TokenBudget
    BY <1>3
  <2> HIDE DEF k
  <2>2. k > 1 => k \in 2..k
    BY <1>2, <2>1
  <2> QED  BY <2>1, <2>2
<1>5. top > 0 => k > 0
  <2>1. top > 0 => 1 \in fits
    BY <1>2
  <2> HIDE DEF k
  <2> QED  BY <1>2, <1>3, <1>4, <2>1
<1>6. taken = SubSeq(ranked, 1, k)
  BY DEF take_within_budget, top
<1> HIDE DEF k
<1>7. /\ taken \in Seq(AllRows) /\ Len(taken) = k
      /\ \A i \in 1..k : taken[i] = ranked[i]
  <2>1. \A i \in 1..k : ranked[i] \in AllRows
    BY <1>1, <1>2, <1>4
  <2>2. /\ taken \in Seq(AllRows)
        /\ Len(taken) = IF 1 <= k THEN k - 1 + 1 ELSE 0
        /\ \A i \in 1..(k - 1 + 1) : taken[i] = ranked[1 + i - 1]
    BY <1>4, <1>6, <2>1, SubSeqProperties
  <2> QED  BY <1>4, <2>2
<1>8. DOMAIN taken = 1..k /\ DOMAIN ranked = 1..Len(ranked)
  BY <1>7
<1> QED  BY <1>1, <1>2, <1>4, <1>5, <1>6, <1>7, <1>8

\* The answer that the two searches make is one that may be given.
LEMMA AnswerListed ==
  ASSUME NEW q \in DOMAIN Queries, NEW dense \in Seq(AllRows),
         NEW found \in keyword_search(Queries[q]),
         \A i \in DOMAIN dense : Admitted(dense[i], Queries[q]),
         NEW ranked \in rank(fuse(dense, found, Queries[q])),
         NEW taken, taken = take_within_budget(ranked),
         NEW refs, refs = [i \in DOMAIN taken |-> Ref(taken[i])]
  PROVE  /\ refs \in Seq(Refs) /\ Listed(q, refs)
         /\ \A i \in DOMAIN refs : \/ \E j \in DOMAIN dense : refs[i] = Ref(dense[j])
                                  \/ \E r \in Searchable : refs[i] = Ref(r)
         /\ refs = <<>> => \A r \in base_query(Queries[q]) : Queries[q].words \cap r.words = {}
<1> DEFINE C == fuse(dense, found, Queries[q])
<1>1. /\ found \in Seq(AllRows)
      /\ \A i \in DOMAIN found : found[i] \in Searchable /\ Admitted(found[i], Queries[q])
      /\ found = <<>> => \A r \in base_query(Queries[q]) : Queries[q].words \cap r.words = {}
  BY KeywordRows
<1>2. /\ IsFiniteSet(C) /\ \A c \in C : c.row \in ToSet(dense) \cup ToSet(found)
      /\ \A c, e \in C : c.row.id = e.row.id => c = e
      /\ found # <<>> => C # {}
  BY <1>1, FuseRows
<1>3. \A r \in ToSet(dense) \cup ToSet(found) :
        /\ r \in AllRows /\ Admitted(r, Queries[q])
        /\ (\E j \in DOMAIN dense : r = dense[j]) \/ r \in Searchable
  BY <1>1 DEF ToSet
<1> HIDE DEF C
<1>4. /\ ranked \in Seq(AllRows) /\ (C # {} => ranked # <<>>)
      /\ \A i \in DOMAIN ranked : \E c \in C : ranked[i] = c.row
      /\ \A i, j \in DOMAIN ranked : i # j => ranked[i].id # ranked[j].id
  <2>1. ranked \in rank(C) /\ \A c \in C : c.row \in AllRows
    BY <1>2, <1>3 DEF C
  <2> QED  BY <1>2, <2>1, RankRows
<1>5. /\ taken \in Seq(AllRows) /\ Len(taken) <= TopK
      /\ DOMAIN taken \subseteq DOMAIN ranked /\ \A i \in DOMAIN taken : taken[i] = ranked[i]
      /\ Len(taken) > 1 => Tokens(taken) <= TokenBudget
      /\ ranked # <<>> => taken # <<>>
  BY <1>4, TakeRows
<1>6. /\ refs \in Seq(Refs) /\ DOMAIN refs = DOMAIN taken
      /\ \A i \in DOMAIN refs : refs[i] = Ref(taken[i]) /\ Row(refs[i]) = taken[i]
  <2>1. DOMAIN taken = 1..Len(taken) /\ Len(taken) \in Nat /\ \A i \in DOMAIN taken : taken[i] \in AllRows
    BY <1>5
  <2>2. refs \in [1..Len(taken) -> Refs]
    BY <2>1, RowFacts
  <2>3. refs \in Seq(Refs)
    BY <2>1, <2>2, SeqDef
  <2> QED  BY <2>1, <2>3, RowFacts
<1>7. \A i \in DOMAIN taken : taken[i] \in ToSet(dense) \cup ToSet(found)
  BY <1>2, <1>4, <1>5
<1>8. Filtered(q, refs)
  BY <1>3, <1>6, <1>7 DEF Filtered
<1>9. [i \in DOMAIN refs |-> Row(refs[i])] = taken
  BY <1>5, <1>6
<1>10. DOMAIN bind_citations(taken) = DOMAIN taken
  <2>1. \A i, j \in DOMAIN taken : i # j => taken[i].id # taken[j].id
    BY <1>4, <1>5
  <2>2. DOMAIN taken = 1..Len(taken) /\ Len(taken) \in Nat
    BY <1>5
  <2>3. \A i \in DOMAIN taken : \A j \in 1..(i - 1) : j \in DOMAIN taken /\ i # j
    BY <2>2
  <2> QED  BY <2>1, <2>3 DEF bind_citations
<1>11. Listed(q, refs)
  BY <1>5, <1>8, <1>9, <1>10 DEF Listed
<1>12. \A i \in DOMAIN refs : \/ \E j \in DOMAIN dense : refs[i] = Ref(dense[j])
                             \/ \E r \in Searchable : refs[i] = Ref(r)
  BY <1>3, <1>6, <1>7
<1>13. refs = <<>> => found = <<>>
  <2>1. refs = <<>> => taken = <<>>
    BY <1>5, <1>6
  <2> QED  BY <1>2, <1>4, <1>5, <2>1
<1> QED  BY <1>1, <1>6, <1>11, <1>12, <1>13

-----------------------------------------------------------------------------
(***************************************************************************)
(* The steps of a retrieval.                                               *)
(***************************************************************************)

\* A step that takes thread t to o and leaves the rest.
LEMMA ReaderMoves ==
  ASSUME CorpusInv, Holding, Apart, NEW t \in Readers, NEW o \in Reader,
         reader' = [reader EXCEPT ![t] = o], UNCHANGED <<index, job, cache>>, Retrieving(o),
         \A k \in DOMAIN cache : Avoids(o, k[2], cache[k].rows),
         \A u \in Readers \ {t} :
           /\ Avoids(o, reader[u].version, reader[u].dense)
           /\ Avoids(o, reader[u].version, reader[u].result)
           /\ Avoids(reader[u], o.version, o.dense) /\ Avoids(reader[u], o.version, o.result),
         Avoids(o, o.version, o.dense), Avoids(o, o.version, o.result)
  PROVE  CorpusInv' /\ Holding' /\ Apart'
<1>1. reader \in [Readers -> Reader] /\ UNCHANGED <<status, rows, served, job, cache>>
  BY DEF CorpusInv, TypeOK, index
<1>2. /\ reader' \in [Readers -> Reader] /\ reader'[t] = o
      /\ \A u \in Readers \ {t} : reader'[u] = reader[u]
  BY <1>1
<1>3. TypeOK' /\ Building' /\ Serving'
  <2>1. TypeOK'
    BY <1>1, <1>2 DEF CorpusInv, TypeOK, Shaped
  <2>2. Building'
    BY <1>1 DEF CorpusInv, Building
  <2>3. Serving'
    BY <1>1 DEF CorpusInv, Serving
  <2> QED  BY <2>1, <2>2, <2>3
<1>4. \A c \in Reader : Retrieving(c) => Retrieving(c)'
  <2>1. \A s \in SourceIds, x \in Nat : Known(s, x)' = Known(s, x) /\ Gone(s, x)' = Gone(s, x)
    BY <1>1 DEF Known, Gone
  <2>2. Advances
    BY <1>1, <2>1 DEF Advances
  <2> QED  BY <2>2, RetrievingStays
<1>5. ASSUME NEW u \in Readers
      PROVE  Retrieving(reader[u])'
  <2>1. PICK c \in Reader : c = reader'[u]
    BY <1>2
  <2>2. Retrieving(c)
    BY <1>2, <2>1 DEF Holding
  <2>3. Retrieving(c)'
    BY SMTT(30), <1>4, <2>2
  <2> QED  BY <2>1, <2>3
<1>6. ASSUME NEW k \in DOMAIN cache'
      PROVE  Caching(k, cache[k].rows)'
  <2>1. Caching(k, cache[k].rows)
    BY <1>1, <1>6 DEF Holding
  <2> QED  BY <1>1, <2>1 DEF Caching, Known, Gone, Found, Exhausted, Searchable
<1>7. Apart'
  <2>1. \A u \in Readers : \A k \in DOMAIN cache : Avoids(reader'[u], k[2], cache[k].rows)
    BY <1>2 DEF Apart
  <2>2. \A u, x \in Readers : /\ Avoids(reader'[u], reader'[x].version, reader'[x].dense)
                             /\ Avoids(reader'[u], reader'[x].version, reader'[x].result)
    BY <1>2 DEF Apart
  <2> QED  BY <1>1, <2>1, <2>2 DEF Apart
<1> QED  BY <1>3, <1>5, <1>6, <1>7 DEF CorpusInv, Holding

\* A thread at rest holds nothing.
LEMMA AtRest ==
  /\ Idle \in Reader /\ Retrieving(Idle)
  /\ \A ver, refs : Avoids(Idle, ver, refs)
  /\ \A o, ver : Avoids(o, ver, <<>>)
<1>1. Idle \in Reader
  BY DEF Idle, Reader
<1>2. Retrieving(Idle)
  BY DEF Idle, Retrieving, Known, Found
<1>3. \A ver, refs : Avoids(Idle, ver, refs)
  BY DEF Idle, Avoids
<1>4. \A o, ver : Avoids(o, ver, <<>>)
  BY DEF Avoids, Lacks
<1> QED  BY <1>1, <1>2, <1>3, <1>4

\* A retrieval ends.
LEMMA EndStep ==
  ASSUME CorpusInv, Holding, Apart, NEW t \in Readers, reader' = [reader EXCEPT ![t] = Idle],
         UNCHANGED <<index, job, cache>>
  PROVE  CorpusInv' /\ Holding' /\ Apart'
<1>1. Idle.dense = <<>> /\ Idle.result = <<>>
  BY DEF Idle
<1>2. \A k \in DOMAIN cache : Avoids(Idle, k[2], cache[k].rows)
  BY AtRest
<1>3. \A u \in Readers \ {t} :
        /\ Avoids(Idle, reader[u].version, reader[u].dense)
        /\ Avoids(Idle, reader[u].version, reader[u].result)
        /\ Avoids(reader[u], Idle.version, Idle.dense) /\ Avoids(reader[u], Idle.version, Idle.result)
  BY <1>1, AtRest
<1>4. Avoids(Idle, Idle.version, Idle.dense) /\ Avoids(Idle, Idle.version, Idle.result)
  BY AtRest
<1> QED  BY <1>2, <1>3, <1>4, AtRest, ReaderMoves

\* A retrieval begins: it has read no version yet.
LEMMA BeginStep ==
  ASSUME CorpusInv, Holding, Apart, NEW t \in Readers, NEW q \in DOMAIN Queries, retrieve(t, q)
  PROVE  CorpusInv' /\ Holding' /\ Apart'
<1> DEFINE o == [Idle EXCEPT !.pc = "version", !.query = q, !.todo = Sources, !.retired = Retired]
<1>1. reader' = [reader EXCEPT ![t] = o] /\ UNCHANGED <<index, job, cache>>
  BY DEF retrieve
<1>2. Retired \in SUBSET Versions /\ \A w \in Retired : rows[w[1]][w[2]] = "retired"
  BY DEF Retired
<1>3. /\ o \in Reader /\ o.pc = "version" /\ o.query = q /\ o.todo = Sources
      /\ o.retired = Retired /\ o.dense = <<>> /\ o.result = <<>>
  BY <1>2, AtRest, SourcesListed DEF Reader, Idle
<1> HIDE DEF o
<1>4. ToSet(o.todo) = SourceIds
  BY <1>3 DEF SourceIds
<1>5. Retrieving(o)
  BY <1>2, <1>3, <1>4, SourcesListed DEF Retrieving, Found
<1>6. \A ver, refs : Avoids(o, ver, refs)
  BY <1>2, <1>3, <1>4, Numbers DEF Avoids
<1>7. \A k \in DOMAIN cache : Avoids(o, k[2], cache[k].rows)
  BY <1>6
<1>8. \A u \in Readers \ {t} :
        /\ Avoids(o, reader[u].version, reader[u].dense)
        /\ Avoids(o, reader[u].version, reader[u].result)
        /\ Avoids(reader[u], o.version, o.dense) /\ Avoids(reader[u], o.version, o.result)
  BY <1>3, <1>6, AtRest
<1>9. Avoids(o, o.version, o.dense) /\ Avoids(o, o.version, o.result)
  BY <1>6
<1> QED  BY <1>1, <1>3, <1>5, <1>7, <1>8, <1>9, ReaderMoves

\* A retrieval goes on with the versions that it has read.
LEMMA GoesOn ==
  ASSUME CorpusInv, Holding, Apart, NEW t \in Readers, NEW o \in Reader,
         reader' = [reader EXCEPT ![t] = o], UNCHANGED <<index, job, cache>>, Retrieving(o),
         o.retired = reader[t].retired, o.todo = reader[t].todo, o.version = reader[t].version,
         \A u \in Readers : /\ Avoids(reader[u], o.version, o.dense)
                            /\ Avoids(reader[u], o.version, o.result)
  PROVE  CorpusInv' /\ Holding' /\ Apart'
<1>1. \A ver, refs : Avoids(reader[t], ver, refs) => Avoids(o, ver, refs)
  BY DEF Avoids
<1>2. \A k \in DOMAIN cache : Avoids(o, k[2], cache[k].rows)
  BY <1>1 DEF Apart
<1>3. \A u \in Readers : /\ Avoids(o, reader[u].version, reader[u].dense)
                         /\ Avoids(o, reader[u].version, reader[u].result)
  BY <1>1 DEF Apart
<1>4. Avoids(o, o.version, o.dense) /\ Avoids(o, o.version, o.result)
  BY <1>1
<1> QED  BY <1>2, <1>3, <1>4, ReaderMoves

\* Reading the active version of a source: nothing found for that version was retired
\* before.
LEMMA VersionStep ==
  ASSUME CorpusInv, Holding, Apart, NEW t \in Readers, current_version(t)
  PROVE  CorpusInv' /\ Holding' /\ Apart'
<1>1. /\ reader \in [Readers -> Reader] /\ reader[t] \in Reader /\ Retrieving(reader[t])
      /\ reader[t].pc = "version"
  BY DEF current_version, At, CorpusInv, TypeOK, Holding
<1>2. PICK old \in Reader : old = reader[t]
  BY <1>1
<1>3. /\ old.todo \in Seq(SourceIds) /\ old.todo # <<>> /\ old.query \in DOMAIN Queries
      /\ old.dense = <<>> /\ old.result = <<>> /\ old.version \in [SourceIds -> Nat]
      /\ old.retired \in SUBSET Versions
      /\ \A w \in old.retired : rows[w[1]][w[2]] = "retired"
      /\ \A s \in SourceIds \ ToSet(old.todo) : Known(s, old.version[s])
  BY SMTT(30), <1>1, <1>2 DEF Reader, Retrieving
<1> DEFINE src    == Head(old.todo)
           rest   == Tail(old.todo)
           active == {v \in VersionsOf(src) : status[src][v] = "active"}
           x      == IF active = {} THEN 0 ELSE Max(active)
           next   == IF Len(old.todo) = 1 THEN "lookup" ELSE old.pc
           o      == [old EXCEPT !.version[src] = x, !.todo = rest, !.pc = next]
<1>4. reader' = [reader EXCEPT ![t] = o] /\ UNCHANGED <<index, job, cache>>
  BY <1>1, <1>2 DEF current_version
<1>5. src \in SourceIds /\ rest \in Seq(SourceIds) /\ (rest = <<>> <=> Len(old.todo) = 1)
  <2>1. src \in SourceIds /\ rest \in Seq(SourceIds)
    BY <1>3
  <2>2. Len(old.todo) \in Nat /\ Len(rest) = Len(old.todo) - 1
    BY <1>3
  <2> HIDE DEF rest
  <2>3. rest = <<>> <=> Len(rest) = 0
    BY <2>1
  <2> QED  BY <2>1, <2>2, <2>3
<1>6. \A s \in ToSet(old.todo) : s = src \/ s \in ToSet(rest)
  <2>1. /\ Len(old.todo) \in Nat \ {0} /\ DOMAIN old.todo = 1..Len(old.todo)
        /\ DOMAIN rest = 1..(Len(old.todo) - 1)
        /\ \A i \in 1..(Len(old.todo) - 1) : rest[i] = old.todo[i + 1]
        /\ src = old.todo[1]
    BY <1>3
  <2>2. ASSUME NEW i \in 1..Len(old.todo), i # 1
        PROVE  i - 1 \in DOMAIN rest /\ rest[i - 1] = old.todo[i]
    BY <2>1, <2>2
  <2> HIDE DEF src, rest
  <2>3. \A i \in 1..Len(old.todo) : old.todo[i] = src \/ old.todo[i] \in ToSet(rest)
    BY <2>1, <2>2 DEF ToSet
  <2> QED  BY <2>1, <2>3 DEF ToSet
<1> HIDE DEF src, rest
<1>7. x \in Nat /\ Known(src, x) /\ ~Gone(src, x)
  <2>1. CASE active = {}
    <3>1. Cardinality(active) = 0
      BY <2>1, FS_EmptySet
    <3>2. src \notin served
      BY SMTT(30), <1>5, <3>1 DEF CorpusInv, Serving
    <3> QED  BY <2>1, <3>2 DEF Known, Gone
  <2>2. CASE active # {}
    <3>1. Len(Contents[src]) \in Nat /\ active \subseteq 0..Len(Contents[src])
      BY <1>5, SourcesListed DEF VersionsOf
    <3>2. Max(active) \in active
      <4> HIDE DEF active
      <4> QED  BY <2>2, <3>1, MaxIn
    <3>3. x \in VersionsOf(src) /\ status[src][x] = "active" /\ x \in Nat /\ x # 0
      BY <1>5, <2>2, <3>2, Numbers
    <3> HIDE DEF x
    <3> QED  BY <3>3 DEF Known, Gone
  <2> QED  BY <2>1, <2>2
<1> HIDE DEF x
<1>8. /\ o \in Reader /\ o.pc = next /\ o.todo = rest /\ o.query = old.query
      /\ o.dense = <<>> /\ o.result = <<>> /\ o.retired = old.retired
      /\ o.version = [old.version EXCEPT ![src] = x]
  <2>1. next \in {"lookup", "version"}
    BY <1>1, <1>2
  <2>2. [old.version EXCEPT ![src] = x] \in [SourceIds -> Nat]
    BY <1>3, <1>5, <1>7
  <2> HIDE DEF next
  <2> QED  BY <1>3, <1>5, <2>1, <2>2 DEF Reader
<1>9. o.version[src] = x /\ \A s \in SourceIds \ {src} : o.version[s] = old.version[s]
  BY <1>3, <1>5, <1>8
<1>10. (o.pc = "lookup" /\ rest = <<>>) \/ (o.pc = "version" /\ rest # <<>>)
  BY <1>1, <1>2, <1>5, <1>8
<1> HIDE DEF o
<1>11. Retrieving(o)
  <2>1. \A s \in SourceIds \ ToSet(o.todo) : Known(s, o.version[s])
    BY <1>3, <1>6, <1>7, <1>8, <1>9
  <2> QED  BY <1>3, <1>8, <1>10, <2>1 DEF Retrieving, Found
<1>12. ASSUME NEW ver, NEW refs, Found(ver, refs), Avoids(old, ver, refs)
       PROVE  Avoids(o, ver, refs)
  <2> SUFFICES ASSUME NEW w \in o.retired, w[1] \notin ToSet(o.todo), ver[w[1]] = o.version[w[1]]
               PROVE  Lacks(refs, w)
    BY DEF Avoids
  <2>1. w \in old.retired /\ w[1] \in SourceIds /\ rows[w[1]][w[2]] = "retired"
    BY <1>3, <1>8, Numbers
  <2>2. CASE w[1] = src
    <3>1. ~Gone(w[1], ver[w[1]])
      BY <1>7, <1>9, <2>2
    <3> QED  BY <1>12, <2>1, <3>1 DEF Found, Lacks
  <2>3. CASE w[1] # src
    <3>1. w[1] \notin ToSet(old.todo) /\ ver[w[1]] = old.version[w[1]]
      BY <1>6, <1>8, <1>9, <2>1, <2>3
    <3> QED  BY <1>12, <2>1, <3>1 DEF Avoids
  <2> QED  BY <2>2, <2>3
<1>13. \A k \in DOMAIN cache : Avoids(o, k[2], cache[k].rows)
  BY <1>2, <1>12 DEF Holding, Caching, Apart
<1>14. \A u \in Readers : /\ Avoids(o, reader[u].version, reader[u].dense)
                          /\ Avoids(o, reader[u].version, reader[u].result)
  BY <1>2, <1>12 DEF Holding, Retrieving, Apart
<1>15. \A u \in Readers : Avoids(reader[u], o.version, o.dense) /\ Avoids(reader[u], o.version, o.result)
  BY <1>8, AtRest
<1>16. Avoids(o, o.version, o.dense) /\ Avoids(o, o.version, o.result)
  BY <1>8, AtRest
<1> QED  BY <1>4, <1>8, <1>11, <1>13, <1>14, <1>15, <1>16, ReaderMoves

\* A row that is searchable now is none that was retired when a retrieval began.
LEMMA LiveAvoided ==
  ASSUME Holding, NEW u \in Readers, NEW ver, NEW refs,
         \A i \in DOMAIN refs : \/ rows[refs[i][1]][refs[i][2]] = "live"
                               \/ \A w \in reader[u].retired :
                                    w[1] \notin ToSet(reader[u].todo)
                                    /\ ver[w[1]] = reader[u].version[w[1]] =>
                                      refs[i][1] # w[1] \/ refs[i][2] # w[2]
  PROVE  Avoids(reader[u], ver, refs)
<1>1. \A w \in reader[u].retired : rows[w[1]][w[2]] = "retired"
  BY DEF Holding, Retrieving
<1> QED  BY <1>1 DEF Avoids, Lacks

\* The dense search, after a miss.
LEMMA DenseStep ==
  ASSUME CorpusInv, Holding, Apart, NEW t \in Readers, miss(t) \/ search_dense(t)
  PROVE  CorpusInv' /\ Holding' /\ Apart'
<1>1. /\ reader \in [Readers -> Reader] /\ reader[t] \in Reader /\ Retrieving(reader[t])
      /\ reader[t].pc \in {"lookup", "dense"}
  BY DEF miss, search_dense, At, CorpusInv, TypeOK, Holding
<1>2. PICK old \in Reader : old = reader[t]
  BY <1>1
<1>3. /\ old.todo = <<>> /\ old.query \in DOMAIN Queries /\ old.dense = <<>> /\ old.result = <<>>
      /\ \A s \in SourceIds \ ToSet(old.todo) : Known(s, old.version[s])
      /\ \A w \in old.retired : rows[w[1]][w[2]] = "retired"
  BY <1>1, <1>2 DEF Retrieving
<1>4. CASE miss(t)
  <2> DEFINE o == [old EXCEPT !.pc = "dense"]
  <2>1. reader' = [reader EXCEPT ![t] = o] /\ UNCHANGED <<index, job, cache>>
    BY <1>1, <1>2, <1>4 DEF miss
  <2>2. /\ o \in Reader /\ o.pc = "dense" /\ o.query = old.query /\ o.todo = old.todo
        /\ o.version = old.version /\ o.retired = old.retired /\ o.dense = <<>> /\ o.result = <<>>
    BY <1>3 DEF Reader
  <2> HIDE DEF o
  <2>3. Retrieving(o)
    BY <1>3, <2>2 DEF Retrieving, Found
  <2> QED  BY <1>2, <2>1, <2>2, <2>3, AtRest, GoesOn
<1>5. CASE search_dense(t)
  <2>1. PICK found \in dense_search(Queries[old.query]) :
          reader' = [reader EXCEPT ![t].dense = [i \in DOMAIN found |-> Ref(found[i])],
                                   ![t].pc = "keyword"]
    BY <1>2, <1>5 DEF search_dense
  <2> DEFINE refs == [i \in DOMAIN found |-> Ref(found[i])]
             o    == [old EXCEPT !.dense = refs, !.pc = "keyword"]
  <2>2. /\ found \in Seq(AllRows)
        /\ \A i \in DOMAIN found :
             found[i] \in Searchable /\ Admitted(found[i], Queries[old.query])
    BY DenseRows
  <2>3. /\ refs \in Seq(Refs) /\ DOMAIN refs = DOMAIN found
        /\ \A i \in DOMAIN refs : refs[i] = Ref(found[i]) /\ Row(refs[i]) = found[i]
    <3>1. DOMAIN found = 1..Len(found) /\ Len(found) \in Nat /\ \A i \in DOMAIN found : found[i] \in AllRows
      BY <2>2
    <3>2. refs \in [1..Len(found) -> Refs]
      BY <3>1, RowFacts
    <3>3. refs \in Seq(Refs)
      BY <3>1, <3>2, SeqDef
    <3> QED  BY <3>1, <3>3, RowFacts
  <2> HIDE DEF refs
  <2>4. \A i \in DOMAIN refs : /\ rows[refs[i][1]][refs[i][2]] = "live"
                             /\ Admitted(Row(refs[i]), Queries[old.query])
    BY SMTT(30), <2>2, <2>3, RowFacts DEF Searchable
  <2>5. reader' = [reader EXCEPT ![t] = o] /\ UNCHANGED <<index, job, cache>>
    BY <1>1, <1>2, <1>5, <2>1 DEF search_dense, refs
  <2>6. /\ o \in Reader /\ o.pc = "keyword" /\ o.query = old.query /\ o.todo = old.todo
        /\ o.version = old.version /\ o.retired = old.retired /\ o.dense = refs /\ o.result = <<>>
    BY <1>3, <2>3 DEF Reader
  <2> HIDE DEF o
  <2>7. Retrieving(o)
    BY <1>3, <2>4, <2>6 DEF Retrieving, Found, Filtered
  <2>8. \A u \in Readers : Avoids(reader[u], o.version, o.dense)
    BY <2>4, <2>6, LiveAvoided
  <2>9. \A u \in Readers : Avoids(reader[u], o.version, o.result)
    BY <2>6, AtRest
  <2> QED  BY <1>2, <2>5, <2>6, <2>7, <2>8, <2>9, GoesOn
<1> QED  BY <1>4, <1>5

\* The keyword search, and the choice of the answer.
LEMMA KeywordStep ==
  ASSUME CorpusInv, Holding, Apart, NEW t \in Readers, search_keyword(t)
  PROVE  CorpusInv' /\ Holding' /\ Apart'
<1>1. /\ reader \in [Readers -> Reader] /\ reader[t] \in Reader /\ Retrieving(reader[t])
      /\ reader[t].pc = "keyword"
  BY DEF search_keyword, At, CorpusInv, TypeOK, Holding
<1> DEFINE old == reader[t]
<1>2. old = reader[t] /\ old \in Reader
  BY <1>1
<1>3. /\ old.todo = <<>> /\ old.query \in DOMAIN Queries /\ old.dense \in Seq(Refs)
      /\ \A s \in SourceIds \ ToSet(old.todo) : Known(s, old.version[s])
      /\ \A w \in old.retired : rows[w[1]][w[2]] = "retired"
      /\ Found(old.version, old.dense) /\ Filtered(old.query, old.dense)
  BY SMTT(30), <1>1, <1>2 DEF Retrieving, Reader
<1> DEFINE dense == [i \in DOMAIN old.dense |-> Row(old.dense[i])]
<1>4. PICK found \in keyword_search(Queries[old.query]) :
        \E ranked \in rank(fuse(dense, found, Queries[old.query])) :
          LET taken == take_within_budget(ranked)
          IN  reader' = [reader EXCEPT ![t].result = [i \in DOMAIN taken |-> Ref(taken[i])],
                                       ![t].dense = <<>>, ![t].pc = "set"]
  BY DEF search_keyword
<1>5. PICK ranked \in rank(fuse(dense, found, Queries[old.query])) :
        LET taken == take_within_budget(ranked)
        IN  reader' = [reader EXCEPT ![t].result = [i \in DOMAIN taken |-> Ref(taken[i])],
                                     ![t].dense = <<>>, ![t].pc = "set"]
  BY <1>4
<1> DEFINE taken == take_within_budget(ranked)
           refs  == [i \in DOMAIN taken |-> Ref(taken[i])]
           o     == [old EXCEPT !.result = refs, !.dense = <<>>, !.pc = "set"]
<1>6. /\ dense \in Seq(AllRows) /\ DOMAIN dense = DOMAIN old.dense
      /\ \A i \in DOMAIN dense : Admitted(dense[i], Queries[old.query]) /\ Ref(dense[i]) = old.dense[i]
  <2>1. /\ DOMAIN old.dense = 1..Len(old.dense) /\ Len(old.dense) \in Nat
        /\ \A i \in DOMAIN old.dense : old.dense[i] \in Refs
    BY <1>3
  <2>2. dense \in [1..Len(old.dense) -> AllRows]
    BY <2>1, RowFacts
  <2>3. dense \in Seq(AllRows)
    BY <2>1, <2>2, SeqDef
  <2>4. \A ref \in Refs : Ref(Row(ref)) = ref
    BY DEF Refs, Row
  <2> QED  BY <1>3, <2>1, <2>3, <2>4 DEF Filtered
<1> HIDE DEF old, dense, taken, refs
<1>7. /\ refs \in Seq(Refs) /\ Listed(old.query, refs)
      /\ \A i \in DOMAIN refs : \/ \E j \in DOMAIN dense : refs[i] = Ref(dense[j])
                               \/ \E r \in Searchable : refs[i] = Ref(r)
      /\ refs = <<>> => \A r \in base_query(Queries[old.query]) :
                            Queries[old.query].words \cap r.words = {}
  <2>1. taken = take_within_budget(ranked) /\ refs = [i \in DOMAIN taken |-> Ref(taken[i])]
    BY DEF taken, refs
  <2> QED  BY SMTT(30), <1>3, <1>6, <2>1, AnswerListed
<1>8. \A i \in DOMAIN refs : \/ \E j \in DOMAIN old.dense : refs[i] = old.dense[j]
                            \/ rows[refs[i][1]][refs[i][2]] = "live"
  <2>1. \A r \in Searchable : rows[Ref(r)[1]][Ref(r)[2]] = "live"
    BY RowFacts DEF Searchable
  <2> QED  BY <1>6, <1>7, <2>1
<1>9. reader' = [reader EXCEPT ![t] = o] /\ UNCHANGED <<index, job, cache>>
  BY <1>1, <1>2, <1>5 DEF search_keyword, refs, taken
<1>10. /\ o \in Reader /\ o.pc = "set" /\ o.query = old.query /\ o.todo = old.todo
       /\ o.version = old.version /\ o.retired = old.retired /\ o.dense = <<>> /\ o.result = refs
  <2>1. <<>> \in Seq(Refs)
    OBVIOUS
  <2> QED  BY <1>2, <1>7, <2>1 DEF Reader
<1> HIDE DEF o
<1>11. Found(old.version, refs)
  BY <1>3, <1>8 DEF Found
<1>12. Exhausted(old.query, old.version, refs)
  <2> SUFFICES ASSUME refs = <<>>, NEW r \in Searchable, matches_filters(r, Queries[old.query])
               PROVE  ~(dense_score(Queries[old.query], r) > 0)
    BY DEF Exhausted
  <2>1. r \in base_query(Queries[old.query])
    BY DEF base_query, matches_filters
  <2>2. dense_score(Queries[old.query], r) = 0
    BY <1>7, <2>1, FS_EmptySet DEF dense_score
  <2> QED  BY <2>2
<1>13. Retrieving(o)
  BY <1>3, <1>7, <1>10, <1>11, <1>12 DEF Retrieving, Found
<1>14. ASSUME NEW u \in Readers
       PROVE  Avoids(reader[u], o.version, o.result)
  <2>1. Avoids(reader[u], old.version, old.dense)
    BY <1>2 DEF Apart
  <2>2. \A i \in DOMAIN refs : \/ rows[refs[i][1]][refs[i][2]] = "live"
                             \/ \A w \in reader[u].retired :
                                  w[1] \notin ToSet(reader[u].todo)
                                  /\ old.version[w[1]] = reader[u].version[w[1]] =>
                                    refs[i][1] # w[1] \/ refs[i][2] # w[2]
    BY <1>8, <2>1 DEF Avoids, Lacks
  <2> QED  BY <1>10, <2>2, LiveAvoided
<1>15. \A u \in Readers : Avoids(reader[u], o.version, o.dense)
  BY <1>10, AtRest
<1> QED  BY <1>2, <1>9, <1>10, <1>13, <1>14, <1>15, GoesOn

\* Setting an entry, which ends the retrieval.
LEMMA SetStep ==
  ASSUME CorpusInv, Holding, Apart, NEW t \in Readers, set(t)
  PROVE  CorpusInv' /\ Holding' /\ Apart'
<1>1. /\ reader \in [Readers -> Reader] /\ reader[t] \in Reader /\ Retrieving(reader[t])
      /\ reader[t].pc = "set"
  BY DEF set, At, CorpusInv, TypeOK, Holding
<1>2. PICK old \in Reader : old = reader[t]
  BY <1>1
<1>3. /\ old.todo = <<>> /\ old.query \in DOMAIN Queries /\ old.result \in Seq(Refs)
      /\ old.version \in [SourceIds -> Nat]
      /\ \A s \in SourceIds : Known(s, old.version[s])
      /\ Found(old.version, old.result) /\ Listed(old.query, old.result)
      /\ Exhausted(old.query, old.version, old.result)
  BY <1>1, <1>2 DEF Retrieving, Reader, ToSet
<1>4. PICK key : key = <<old.query, old.version>>
  OBVIOUS
<1>5. /\ cache' = [k \in DOMAIN cache \cup {key} |->
                    IF k = key THEN [rows |-> old.result, expired |-> FALSE] ELSE cache[k]]
      /\ reader' = [reader EXCEPT ![t] = Idle] /\ UNCHANGED <<index, job>>
  BY <1>2, <1>4 DEF set, Answers, Key, cache_key
<1>6. UNCHANGED <<status, rows, served, job>>
  BY <1>5 DEF index
<1>7. /\ reader' \in [Readers -> Reader] /\ reader'[t] = Idle
      /\ \A u \in Readers \ {t} : reader'[u] = reader[u]
  BY <1>1, <1>5, AtRest
<1>8. /\ DOMAIN cache' = DOMAIN cache \cup {key} /\ cache' = [k \in DOMAIN cache' |-> cache'[k]]
      /\ cache'[key].rows = old.result
      /\ \A k \in DOMAIN cache \ {key} : cache'[k] = cache[k]
  BY <1>5
<1>9. cache'[key] \in [rows : Seq(Refs), expired : BOOLEAN]
  BY <1>3, <1>5
<1>10. key \in (DOMAIN Queries) \X [SourceIds -> Nat] /\ key[1] = old.query /\ key[2] = old.version
  BY <1>3, <1>4
<1>11. TypeOK'
  <2>1. \A k \in DOMAIN cache' : /\ k \in (DOMAIN Queries) \X [SourceIds -> Nat]
                               /\ cache'[k] \in [rows : Seq(Refs), expired : BOOLEAN]
    BY <1>8, <1>9, <1>10 DEF CorpusInv, TypeOK
  <2> QED  BY <1>6, <1>7, <1>8, <2>1 DEF CorpusInv, TypeOK, Shaped
<1>12. Building'
  BY <1>6 DEF CorpusInv, Building
<1>13. Serving'
  BY SMTT(30), <1>6 DEF CorpusInv, Serving
<1>14. ASSUME NEW u \in Readers
       PROVE  Retrieving(reader[u])'
  <2>1. Retrieving(reader'[u])
    BY <1>7, AtRest DEF Holding
  <2> QED  BY <1>6, <2>1 DEF Retrieving, Known, Gone, Found, Exhausted, Searchable
<1>15. ASSUME NEW k \in DOMAIN cache'
       PROVE  Caching(k, cache[k].rows)'
  <2>1. Caching(key, old.result)
    BY <1>3, <1>10 DEF Caching
  <2>2. Caching(k, cache'[k].rows)
    BY <1>8, <1>15, <2>1 DEF Holding
  <2> QED  BY <1>6, <2>2 DEF Caching, Known, Gone, Found, Exhausted, Searchable
<1>16. Apart'
  <2>1. \A u \in Readers : \A k \in DOMAIN cache' : Avoids(reader[u], k[2], cache'[k].rows)
    BY <1>2, <1>8, <1>10 DEF Apart
  <2>2. \A u \in Readers : \A k \in DOMAIN cache' : Avoids(reader'[u], k[2], cache'[k].rows)
    BY <1>7, <2>1, AtRest
  <2>3. Idle.dense = <<>> /\ Idle.result = <<>>
    BY DEF Idle
  <2>4. \A u, x \in Readers : /\ Avoids(reader'[u], reader'[x].version, reader'[x].dense)
                             /\ Avoids(reader'[u], reader'[x].version, reader'[x].result)
    BY <1>7, <2>3, AtRest DEF Apart
  <2> QED  BY <2>2, <2>4 DEF Apart
<1> QED  BY <1>11, <1>12, <1>13, <1>14, <1>15, <1>16 DEF CorpusInv, Holding

\* An entry that expires keeps its rows.
LEMMA ExpireStep ==
  ASSUME CorpusInv, Holding, Apart, NEW key \in DOMAIN cache, Expire(key)
  PROVE  CorpusInv' /\ Holding' /\ Apart'
<1>1. /\ cache' = [cache EXCEPT ![key].expired = TRUE]
      /\ UNCHANGED <<status, rows, served, job, reader>>
  BY DEF Expire, index
<1>2. /\ cache = [k \in DOMAIN cache |-> cache[k]]
      /\ \A k \in DOMAIN cache : /\ k \in (DOMAIN Queries) \X [SourceIds -> Nat]
                                /\ cache[k] \in [rows : Seq(Refs), expired : BOOLEAN]
  BY DEF CorpusInv, TypeOK
<1>3. /\ DOMAIN cache' = DOMAIN cache /\ cache' = [k \in DOMAIN cache' |-> cache'[k]]
      /\ cache'[key] = [cache[key] EXCEPT !.expired = TRUE]
      /\ \A k \in DOMAIN cache \ {key} : cache'[k] = cache[k]
  BY <1>1, <1>2
<1>4. /\ cache'[key] \in [rows : Seq(Refs), expired : BOOLEAN] /\ cache'[key].rows = cache[key].rows
  BY <1>2, <1>3
<1>5. \A k \in DOMAIN cache' : /\ cache'[k].rows = cache[k].rows
                             /\ cache'[k] \in [rows : Seq(Refs), expired : BOOLEAN]
  BY <1>2, <1>3, <1>4
<1>6. TypeOK'
  BY <1>1, <1>2, <1>3, <1>5 DEF CorpusInv, TypeOK, Shaped
<1>7. Building'
  BY <1>1 DEF CorpusInv, Building
<1>8. Serving'
  BY SMTT(30), <1>1 DEF CorpusInv, Serving
<1>9. ASSUME NEW u \in Readers
      PROVE  Retrieving(reader[u])'
  BY ZenonT(60), <1>1 DEF Holding, Retrieving, Known, Gone, Found, Exhausted, Searchable
<1>10. ASSUME NEW k \in DOMAIN cache'
       PROVE  Caching(k, cache[k].rows)'
  <2>1. Caching(k, cache[k].rows)
    BY <1>3, <1>10 DEF Holding
  <2> QED  BY <1>1, <1>5, <1>10, <2>1 DEF Caching, Known, Gone, Found, Exhausted, Searchable
<1>11. Apart'
  BY <1>1, <1>3, <1>5 DEF Apart
<1> QED  BY <1>6, <1>7, <1>8, <1>9, <1>10, <1>11 DEF CorpusInv, Holding

-----------------------------------------------------------------------------
(***************************************************************************)
(* The answers.                                                            *)
(***************************************************************************)

\* An answer of rows that may be given, and that were found, is sound.
LEMMA AnswerGiven ==
  ASSUME NEW a, a.rows \in Seq(Refs), UNCHANGED rows, Listed(a.query, a.rows),
         ~a.stale => /\ \A w \in a.retired : Lacks(a.rows, w)
                     /\ Exhausted(a.query, a.version, a.rows)
  PROVE  Sound(a)'
<1> DEFINE refs  == a.rows
           q     == Queries[a.query]
           taken == [i \in DOMAIN refs |-> Row(refs[i])]
           cited == bind_citations(taken)
<1>1. /\ Filtered(a.query, refs) /\ DOMAIN cited = DOMAIN taken /\ Len(taken) <= TopK
      /\ Len(taken) > 1 => Tokens(taken) <= TokenBudget
  BY DEF Listed
<1>2. /\ DOMAIN taken = DOMAIN refs
      /\ \A i \in DOMAIN taken : /\ taken[i] = Row(refs[i]) /\ taken[i] \in AllRows
                                /\ taken[i].source = refs[i][1] /\ taken[i].version = refs[i][2]
  <2>1. \A i \in DOMAIN refs : refs[i] \in Refs
    OBVIOUS
  <2> QED  BY <2>1, RowFacts
<1>3. \A i \in DOMAIN taken : Admitted(taken[i], q)
  BY <1>1, <1>2 DEF Filtered
<1>4. ~a.stale => \A i \in DOMAIN taken : <<taken[i].source, taken[i].version>> \notin a.retired
  BY <1>2 DEF Lacks
<1>5. taken = <<>> => refs = <<>>
  BY <1>2
<1>6. ~a.stale /\ taken = <<>> =>
        \A r \in Searchable : r.version = a.version[r.source] =>
          ~(matches_filters(r, q) /\ dense_score(q, r) > 0)
  BY <1>5 DEF Exhausted
<1>7. Searchable' = Searchable
  BY DEF Searchable
<1> HIDE DEF taken, cited
<1>8. Sound(a)' <=>
         /\ \A i \in DOMAIN taken : Admitted(taken[i], q)
         /\ DOMAIN cited = DOMAIN taken
         /\ Len(taken) <= TopK
         /\ Len(taken) > 1 => Tokens(taken) <= TokenBudget
         /\ ~a.stale =>
              /\ \A i \in DOMAIN taken : <<taken[i].source, taken[i].version>> \notin a.retired
              /\ taken = <<>> =>
                   \A r \in Searchable' : r.version = a.version[r.source] =>
                     ~(matches_filters(r, q) /\ dense_score(q, r) > 0)
  BY DEF Sound, taken, cited
<1> QED  BY <1>1, <1>3, <1>4, <1>6, <1>7, <1>8

\* What a thread answers, from the cache, from its search or when that failed.
LEMMA AnswerStep ==
  ASSUME CorpusInv, Holding, Apart, NEW t \in Readers, hit(t) \/ set(t) \/ get_stale(t)
  PROVE  AnswerSound'
<1>1. /\ reader \in [Readers -> Reader] /\ reader[t] \in Reader /\ Retrieving(reader[t])
      /\ reader[t].pc \in {"lookup", "dense", "keyword", "set"} /\ UNCHANGED rows
  BY DEF hit, set, get_stale, At, CorpusInv, TypeOK, Holding, index
<1>2. reader[t].todo = <<>> /\ reader[t].query \in DOMAIN Queries
  BY <1>1 DEF Retrieving
<1> DEFINE key == Key(t)
<1>3. key[1] = reader[t].query /\ key[2] = reader[t].version
  BY DEF Key, cache_key
<1>4. PICK a : a = answer'
  OBVIOUS
<1>5. ASSUME NEW refs, NEW cached, NEW stale, Answers(t, refs, cached, stale)
      PROVE  /\ a.rows = refs /\ a.stale = stale /\ a.query = reader[t].query
             /\ a.version = reader[t].version /\ a.retired = reader[t].retired
  BY <1>4, <1>5 DEF Answers
<1>6. ASSUME key \in DOMAIN cache
      PROVE  /\ cache[key].rows \in Seq(Refs) /\ Listed(reader[t].query, cache[key].rows)
             /\ Found(reader[t].version, cache[key].rows)
             /\ Exhausted(reader[t].query, reader[t].version, cache[key].rows)
             /\ \A w \in reader[t].retired : Lacks(cache[key].rows, w)
  <2>1. Caching(key, cache[key].rows) /\ cache[key] \in [rows : Seq(Refs), expired : BOOLEAN]
    BY <1>6 DEF Holding, CorpusInv, TypeOK
  <2>2. Avoids(reader[t], key[2], cache[key].rows)
    BY <1>6 DEF Apart
  <2>3. \A w \in reader[t].retired : Lacks(cache[key].rows, w)
    BY <1>2, <1>3, <2>2 DEF Avoids, ToSet
  <2> QED  BY <1>3, <2>1, <2>3 DEF Caching
<1>7. Sound(a)'
  <2>1. CASE hit(t)
    <3>1. key \in DOMAIN cache /\ Answers(t, cache[key].rows, TRUE, FALSE)
      BY <2>1 DEF hit, Fresh
    <3> QED  BY ZenonT(60), <1>1, <1>5, <1>6, <3>1, AnswerGiven
  <2>2. CASE set(t)
    <3>1. Answers(t, reader[t].result, FALSE, FALSE) /\ reader[t].pc = "set"
      BY <2>2 DEF set, At
    <3>2. /\ reader[t].result \in Seq(Refs) /\ Listed(reader[t].query, reader[t].result)
          /\ Found(reader[t].version, reader[t].result)
          /\ Exhausted(reader[t].query, reader[t].version, reader[t].result)
      BY <1>1, <3>1 DEF Retrieving, Reader
    <3>3. \A w \in reader[t].retired : Lacks(reader[t].result, w)
      <4>1. Avoids(reader[t], reader[t].version, reader[t].result)
        BY DEF Apart
      <4> QED  BY <1>2, <4>1 DEF Avoids, ToSet
    <3> QED  BY ZenonT(60), <1>1, <1>5, <3>1, <3>2, <3>3, AnswerGiven
  <2>3. CASE get_stale(t) /\ key \in DOMAIN cache
    <3>1. Answers(t, cache[key].rows, TRUE, TRUE)
      BY <2>3 DEF get_stale
    <3> QED  BY <1>1, <1>5, <1>6, <2>3, <3>1, AnswerGiven
  <2>4. CASE get_stale(t) /\ key \notin DOMAIN cache
    <3>1. Answers(t, <<>>, FALSE, TRUE)
      BY <2>4 DEF get_stale
    <3>2. <<>> \in Seq(Refs) /\ Listed(reader[t].query, <<>>)
      <4> DEFINE taken == [i \in DOMAIN <<>> |-> Row(<<>>[i])]
      <4>1. taken = <<>> /\ DOMAIN bind_citations(<<>>) = {}
        BY DEF bind_citations
      <4>2. TopK \in Nat
        BY RetrievalConstants
      <4> HIDE DEF taken
      <4>3. DOMAIN bind_citations(taken) = DOMAIN taken /\ Len(taken) <= TopK /\ ~(Len(taken) > 1)
        BY <4>1, <4>2
      <4>4. Filtered(reader[t].query, <<>>)
        BY DEF Filtered
      <4> QED  BY <4>3, <4>4 DEF Listed, taken
    <3>3. a.rows = <<>> /\ a.stale = TRUE /\ a.query = reader[t].query
      BY <1>5, <3>1
    <3>4. a.rows \in Seq(Refs) /\ Listed(a.query, a.rows)
      BY <3>2, <3>3
    <3> QED  BY <1>1, <3>3, <3>4, AnswerGiven
  <2> QED  BY <2>1, <2>2, <2>3, <2>4
<1> QED  BY <1>4, <1>7 DEF AnswerSound

-----------------------------------------------------------------------------
RetrievalInv == CorpusInv /\ Holding /\ Apart

\* The invariant holds at the start.
LEMMA RetrievalInit ==
  ASSUME Init
  PROVE  RetrievalInv
<1> USE DEF Init
<1>1. Shaped(status, {"none", "building", "active", "retired"}) /\ Shaped(rows, {"absent", "live", "retired"})
  BY DEF Shaped
<1>2. cache = [k \in DOMAIN cache |-> cache[k]] /\ DOMAIN cache = {}
  BY DEF Empty
<1>3. reader \in [Readers -> Reader] /\ job \in Job /\ served \subseteq SourceIds
  BY AtRest, Jobs
<1>4. TypeOK
  BY <1>1, <1>2, <1>3 DEF TypeOK
<1>5. Building
  BY Jobs DEF Building
<1>6. Serving
  <2>1. \A s \in SourceIds : \A v \in VersionsOf(s) : status[s][v] = "none" /\ rows[s][v] = "absent"
    OBVIOUS
  <2>2. \A s \in SourceIds : {v \in VersionsOf(s) : status[s][v] = "active"} = {}
    BY <2>1
  <2>3. served = {}
    OBVIOUS
  <2> QED  BY <2>1, <2>2, <2>3, FS_EmptySet DEF Serving
<1>7. Holding
  BY <1>2, AtRest DEF Holding
<1>8. Apart
  BY <1>2, AtRest DEF Apart
<1> QED  BY <1>4, <1>5, <1>6, <1>7, <1>8 DEF RetrievalInv, CorpusInv

\* Every step keeps it, and gives a sound answer or none.
LEMMA RetrievalNext ==
  ASSUME RetrievalInv, Next
  PROVE  RetrievalInv' /\ AnswerSound'
<1> USE DEF RetrievalInv
<1>1. ASSUME NEW t \in Readers, NEW q \in DOMAIN Queries, retrieve(t, q), answer' = NoAnswer
      PROVE  RetrievalInv' /\ AnswerSound'
  BY <1>1, BeginStep DEF AnswerSound
<1>2. ASSUME Ingest, answer' = NoAnswer
      PROVE  RetrievalInv' /\ AnswerSound'
  <2>1. CorpusInv' /\ Advances
    <3>1. CASE record_version
      BY <3>1, RecordStep
    <3>2. CASE add_chunks
      BY <3>2, AddStep
    <3>3. CASE activate_version
      BY <3>3, ActivateStep
    <3>4. CASE \/ refresh_all \/ (\E s \in SourceIds : ingest_source(s))
               \/ fetch_fails \/ ingest_raises \/ clear
      <4>1. CorpusInv' /\ UNCHANGED <<status, rows, served>>
        BY <3>4, QuietIngest DEF index
      <4> QED  BY <4>1 DEF Advances, Known, Gone
    <3> QED  BY <1>2, <3>1, <3>2, <3>3, <3>4 DEF Ingest
  <2>2. UNCHANGED reader /\ (cache' = cache \/ cache' = Empty)
    BY <1>2 DEF Ingest, refresh_all, ingest_source, fetch_fails, record_version, add_chunks,
         activate_version, ingest_raises, clear
  <2>3. Holding' /\ Apart'
    BY <2>1, <2>2, IndexStep DEF CorpusInv
  <2> QED  BY <1>2, <2>1, <2>3 DEF AnswerSound
<1>3. ASSUME NEW k \in DOMAIN cache, Expire(k), answer' = NoAnswer
      PROVE  RetrievalInv' /\ AnswerSound'
  BY <1>3, ExpireStep DEF AnswerSound
<1>4. ASSUME NEW t \in Readers, Unanswered(t), answer' = NoAnswer
      PROVE  RetrievalInv' /\ AnswerSound'
  <2>1. CASE version_fails(t)
    BY <1>4, <2>1, EndStep DEF version_fails, AnswerSound
  <2> QED  BY <1>4, <2>1, VersionStep, DenseStep, KeywordStep DEF Unanswered, AnswerSound
<1>5. ASSUME NEW t \in Readers, hit(t) \/ set(t) \/ get_stale(t)
      PROVE  RetrievalInv' /\ AnswerSound'
  <2>1. AnswerSound'
    BY <1>5, AnswerStep
  <2>2. CASE set(t)
    BY <2>1, <2>2, SetStep
  <2>3. CASE hit(t) \/ get_stale(t)
    <3>1. reader' = [reader EXCEPT ![t] = Idle] /\ UNCHANGED <<index, job, cache>>
      BY <2>3 DEF hit, get_stale, Answers
    <3> QED  BY <2>1, <3>1, EndStep
  <2> QED  BY <1>5, <2>2, <2>3
<1> QED  BY <1>1, <1>2, <1>3, <1>4, <1>5 DEF Next

\* Nor does a step that changes nothing break it.
LEMMA RetrievalStutters ==
  ASSUME RetrievalInv, AnswerSound, UNCHANGED vars
  PROVE  RetrievalInv' /\ AnswerSound'
<1> USE DEF RetrievalInv, CorpusInv
<1>1. UNCHANGED <<status, rows, job, cache, reader, answer, served>>
  BY DEF vars
<1>2. TypeOK'
  BY <1>1 DEF TypeOK, Shaped
<1>3. Building' /\ Serving'
  BY <1>1 DEF Building, Serving
<1>4. Advances
  BY <1>1 DEF Advances, Known, Gone
<1>5. Holding' /\ Apart'
  BY <1>1, <1>4, IndexStep
<1>6. Searchable' = Searchable
  BY <1>1 DEF Searchable
<1>7. ASSUME NEW a, Sound(a)  PROVE Sound(a)'
  BY <1>6, <1>7 DEF Sound
<1>8. AnswerSound'
  <2>1. CASE answer = NoAnswer
    BY <1>1, <2>1 DEF AnswerSound
  <2>2. CASE answer # NoAnswer
    <3>1. Sound(answer)
      BY <2>2 DEF AnswerSound
    <3>2. PICK a : a = answer
      OBVIOUS
    <3>3. Sound(a)
      BY <3>1, <3>2
    <3>4. Sound(a)'
      BY <1>7, <3>3
    <3>5. a = answer'
      BY <1>1, <3>2
    <3> QED  BY <3>4, <3>5 DEF AnswerSound
  <2> QED  BY <2>1, <2>2
<1> QED  BY <1>2, <1>3, <1>5, <1>8

\* However ingestions end, each source that has been served has one active version, whole
\* and searchable, superseded versions are out of search, only versions still marked as
\* building are searched beside the active one, and no text was lost on the way to the
\* index (activate_version, _base_query, Chunker.chunk).
THEOREM CorpusStaysSound == Spec => []CorpusSound
<1>1. Init => RetrievalInv /\ AnswerSound
  BY RetrievalInit DEF Init, AnswerSound
<1>2. RetrievalInv /\ AnswerSound /\ [Next]_vars => RetrievalInv' /\ AnswerSound'
  BY RetrievalNext, RetrievalStutters
<1>3. RetrievalInv => CorpusSound
  BY NoTextIsLost DEF RetrievalInv, CorpusInv, CorpusSound
<1> QED  BY <1>1, <1>2, <1>3, PTL DEF Spec

\* Every answer is sound, whatever is ingested, superseded or fails while it is made,
\* and from whichever retrieval its rows were cached: an answer not marked stale holds
\* nothing that was superseded before it was asked for.
THEOREM AnswersAreSound == Spec => []AnswerSound
<1>1. Init => RetrievalInv /\ AnswerSound
  BY RetrievalInit DEF Init, AnswerSound
<1>2. RetrievalInv /\ AnswerSound /\ [Next]_vars => RetrievalInv' /\ AnswerSound'
  BY RetrievalNext, RetrievalStutters
<1> QED  BY <1>1, <1>2, PTL DEF Spec
=============================================================================
