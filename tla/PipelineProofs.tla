-------------------------- MODULE PipelineProofs --------------------------
(***************************************************************************)
(* Theorems about Pipeline, for any evidence, inventory, intelligence,     *)
(* feeds, advisories and reviewers: what the agents conclude from one      *)
(* another's results, and what decides on a recommendation.                *)
(*                                                                         *)
(* What a tool or an agent returns is a lemma about its operator; the      *)
(* invariant ResultsInv says that every result is one the tools return for *)
(* the results before it, and the properties follow stage by stage.        *)
(***************************************************************************)
EXTENDS Pipeline, FiniteSetTheorems, SequenceTheorems, WellFoundedInduction, TLAPS

-----------------------------------------------------------------------------
(* Numbers, sums and orders                                                *)

\* Induction over the numbers, for a set of them.
LEMMA NatInSet ==
  ASSUME NEW S, 0 \in S, \A n \in Nat : n \in S => n + 1 \in S
  PROVE  Nat \subseteq S
<1> SUFFICES ASSUME Nat \ S # {}  PROVE FALSE
  OBVIOUS
<1>1. PICK x \in Nat \ S : \A y \in Nat \ S : ~(<<y, x>> \in OpToRel(<, Nat))
  BY WFMin, NatLessThanWellFounded
<1>2. \A y \in Nat \ S : ~(y < x)
  BY <1>1 DEF OpToRel
<1>3. x \in Nat /\ x \notin S /\ x # 0
  OBVIOUS
<1>4. x - 1 \in Nat /\ x - 1 < x /\ (x - 1) + 1 = x
  BY <1>3
<1>5. x - 1 \in S
  BY <1>2, <1>4
<1> QED  BY <1>3, <1>4, <1>5

\* The least of a set of numbers.
LEMMA MinIn ==
  ASSUME NEW S, S \subseteq Nat, S # {}
  PROVE  Min(S) \in S /\ \A y \in S : Min(S) <= y
<1>1. PICK x \in S : \A y \in S : ~(<<y, x>> \in OpToRel(<, Nat))
  BY WFMin, NatLessThanWellFounded
<1>2. \A y \in S : y \in Nat /\ x \in Nat
  OBVIOUS
<1>3. \A y \in S : ~(y < x)
  BY <1>1, <1>2 DEF OpToRel
<1>4. \A y \in S : x <= y
  BY <1>2, <1>3
<1> QED  BY <1>4 DEF Min

\* The greatest of a set of numbers within bounds.
LEMMA MaxIn ==
  ASSUME NEW N \in Nat, NEW S, S \subseteq 0..N, S # {}
  PROVE  Max(S) \in S /\ \A y \in S : y <= Max(S)
<1> DEFINE T == {N - i : i \in S}
<1>1. T \subseteq Nat /\ T # {}
  <2>1. \A j \in S : N - j \in Nat
    OBVIOUS
  <2> QED  BY <2>1
<1>2. Min(T) \in T /\ \A y \in T : Min(T) <= y
  BY <1>1, MinIn
<1>3. PICK m \in S : Min(T) = N - m
  BY <1>2
<1>4. \A y \in S : m >= y
  <2>1. \A y \in S : N - m <= N - y
    BY <1>2, <1>3
  <2> QED  BY <2>1
<1> QED  BY <1>4 DEF Max

\* The lesser and the greater of two numbers.
LEMMA OfTwo ==
  ASSUME NEW a \in Int, NEW b \in Int
  PROVE  /\ Min({a, b}) = IF a <= b THEN a ELSE b
         /\ Max({a, b}) = IF a <= b THEN b ELSE a
<1>1. PICK m : m = IF a <= b THEN a ELSE b
  OBVIOUS
<1>2. PICK n : n = IF a <= b THEN b ELSE a
  OBVIOUS
<1>3. \A x \in {a, b} : (\A y \in {a, b} : x <= y) <=> x = m
  BY <1>1
<1>4. \A x \in {a, b} : (\A y \in {a, b} : x >= y) <=> x = n
  BY <1>2
<1>5. m \in {a, b} /\ n \in {a, b}
  BY <1>1, <1>2
<1>6. Min({a, b}) = m
  BY <1>3, <1>5 DEF Min
<1>7. Max({a, b}) = n
  BY <1>4, <1>5 DEF Max
<1> QED  BY <1>1, <1>2, <1>6, <1>7

\* Rounding keeps a share within its bound.
LEMMA RoundDivBound ==
  ASSUME NEW a \in Nat, NEW b \in Nat \ {0}, NEW c \in Nat, a <= c * b
  PROVE  RoundDiv(a, b) \in 0..c
<1>1. PICK q : q = RoundDiv(a, b)
  OBVIOUS
<1>2. q = (2 * a + b) \div (2 * b)
  BY <1>1 DEF RoundDiv
<1>3. 2 * a + b \in Nat /\ 2 * b \in Nat \ {0}
  OBVIOUS
<1>4. q \in Nat /\ q * (2 * b) <= 2 * a + b
  BY <1>2, <1>3
<1>5. ASSUME q >= c + 1  PROVE FALSE
  <2>1. (c + 1) * (2 * b) <= q * (2 * b)
    BY <1>4, <1>5
  <2>2. (c + 1) * (2 * b) = 2 * (c * b) + 2 * b
    OBVIOUS
  <2>3. c * b \in Nat
    OBVIOUS
  <2> QED  BY <1>4, <2>1, <2>2, <2>3
<1> QED  BY <1>1, <1>4, <1>5

\* g sums f over the subsets of D, taking the element ch[s] of s first.
IsSum(g, D, f, ch) == g = [s \in SUBSET D |-> IF s = {} THEN 0 ELSE f[ch[s]] + g[s \ {ch[s]}]]

\* Taking the elements of a finite set one by one is a definition by recursion.
LEMMA SumExists ==
  ASSUME NEW D, IsFiniteSet(D), NEW f, NEW ch, \A s \in SUBSET D : s # {} => ch[s] \in s
  PROVE  \E g : IsSum(g, D, f, ch)
<1> DEFINE F(n) == {t \in SUBSET D : Cardinality(t) <= n}
           P(n) == \E g : g = [s \in F(n) |-> IF s = {} THEN 0 ELSE f[ch[s]] + g[s \ {ch[s]}]]
           S    == {n \in Nat : P(n)}
<1>1. \A t \in SUBSET D : IsFiniteSet(t) /\ Cardinality(t) \in Nat /\ (Cardinality(t) = 0 <=> t = {})
  BY FS_Subset, FS_CardinalityType, FS_EmptySet
<1>2. 0 \in S
  <2>1. \A s \in F(0) : s = {}
    BY <1>1
  <2>2. [s \in F(0) |-> 0] = [s \in F(0) |-> IF s = {} THEN 0 ELSE f[ch[s]] + [t \in F(0) |-> 0][s \ {ch[s]}]]
    BY <2>1
  <2>3. P(0)
    BY <2>2
  <2> QED  BY <2>3
<1>3. ASSUME NEW n \in Nat, n \in S  PROVE n + 1 \in S
  <2>1. PICK g : g = [s \in F(n) |-> IF s = {} THEN 0 ELSE f[ch[s]] + g[s \ {ch[s]}]]
    BY <1>3
  <2>2. \A s \in F(n + 1) : s # {} => s \ {ch[s]} \in F(n)
    <3> SUFFICES ASSUME NEW s \in F(n + 1), s # {}  PROVE s \ {ch[s]} \in F(n)
      OBVIOUS
    <3>1. ch[s] \in s /\ IsFiniteSet(s) /\ s \in SUBSET D
      BY <1>1
    <3>2. Cardinality(s \ {ch[s]}) = Cardinality(s) - 1
      BY <3>1, FS_RemoveElement
    <3> QED  BY <1>1, <3>1, <3>2
  <2>3. F(n) \subseteq F(n + 1)
    BY <1>1
  <2> DEFINE h == [s \in F(n + 1) |-> IF s \in F(n) THEN g[s] ELSE f[ch[s]] + g[s \ {ch[s]}]]
             k == [s \in F(n + 1) |-> IF s = {} THEN 0 ELSE f[ch[s]] + h[s \ {ch[s]}]]
  <2> HIDE DEF F
  <2>4. {} \in F(n)
    BY <1>1, FS_EmptySet DEF F
  <2>5. ASSUME NEW s \in F(n + 1)  PROVE h[s] = k[s]
    <3>1. CASE s = {}
      BY <2>1, <2>4, <3>1
    <3>2. CASE s # {} /\ s \in F(n)
      <4>1. s \ {ch[s]} \in F(n)
        BY <2>2, <3>2
      <4>2. h[s] = f[ch[s]] + g[s \ {ch[s]}]
        BY <2>1, <3>2
      <4>3. h[s \ {ch[s]}] = g[s \ {ch[s]}]
        BY <2>3, <4>1
      <4> QED  BY <3>2, <4>2, <4>3
    <3>3. CASE s # {} /\ s \notin F(n)
      <4>1. s \ {ch[s]} \in F(n)
        BY <2>2, <3>3
      <4>2. h[s \ {ch[s]}] = g[s \ {ch[s]}]
        BY <2>3, <4>1
      <4> QED  BY <3>3, <4>2
    <3> QED  BY <3>1, <3>2, <3>3
  <2>6. h = k
    <3>1. h = [s \in F(n + 1) |-> h[s]] /\ k = [s \in F(n + 1) |-> k[s]]
      OBVIOUS
    <3> HIDE DEF h, k
    <3> QED  BY <2>5, <3>1
  <2>7. P(n + 1)
    BY <2>6
  <2> HIDE DEF P
  <2> QED  BY <2>7
<1>4. Cardinality(D) \in S
  <2> HIDE DEF S
  <2> QED  BY <1>2, <1>3, NatInSet, FS_CardinalityType
<1>5. F(Cardinality(D)) = SUBSET D
  BY FS_Subset
<1> QED  BY <1>4, <1>5 DEF IsSum

\* A sum of numbers within a bound, for a recursive definition of the sum.
LEMMA SumBound ==
  ASSUME NEW D, IsFiniteSet(D), NEW c \in Nat, NEW f \in [D -> 0..c],
         NEW ch, \A s \in SUBSET D : s # {} => ch[s] \in s,
         NEW g, IsSum(g, D, f, ch)
  PROVE  g[D] \in 0..(c * Cardinality(D))
<1> DEFINE P(n) == \A s \in SUBSET D : Cardinality(s) = n => g[s] \in 0..(c * n)
           S    == {n \in Nat : P(n)}
<1>1. \A t \in SUBSET D : IsFiniteSet(t) /\ Cardinality(t) \in Nat /\ (Cardinality(t) = 0 <=> t = {})
  BY FS_Subset, FS_CardinalityType, FS_EmptySet
<1>2. 0 \in S
  <2>1. g[{}] = 0
    BY DEF IsSum
  <2>2. \A s \in SUBSET D : Cardinality(s) = 0 => g[s] = 0
    BY <1>1, <2>1
  <2>3. P(0)
    BY <2>2
  <2> HIDE DEF P
  <2> QED  BY <2>3
<1>3. ASSUME NEW n \in Nat, P(n)  PROVE P(n + 1)
  <2>1. SUFFICES ASSUME NEW s \in SUBSET D, Cardinality(s) = n + 1  PROVE g[s] \in 0..(c * (n + 1))
    OBVIOUS
  <2>2. s # {} /\ ch[s] \in s /\ ch[s] \in D /\ IsFiniteSet(s)
    <3>1. s # {}
      BY <1>1, <2>1
    <3> QED  BY <1>1, <3>1
  <2>3. Cardinality(s \ {ch[s]}) = n /\ s \ {ch[s]} \in SUBSET D
    <3>1. Cardinality(s \ {ch[s]}) = Cardinality(s) - 1
      BY <2>2, FS_RemoveElement
    <3> QED  BY <2>1, <3>1
  <2>4. PICK x, y : x = f[ch[s]] /\ y = g[s \ {ch[s]}]
    OBVIOUS
  <2>5. x \in 0..c /\ y \in 0..(c * n)
    BY <1>3, <2>2, <2>3, <2>4
  <2>6. g[s] = x + y
    BY <2>2, <2>4 DEF IsSum
  <2>7. c * (n + 1) = c * n + c /\ c * n \in Nat
    OBVIOUS
  <2> QED  BY <2>5, <2>6, <2>7
<1>4. Cardinality(D) \in S
  <2>1. \A n \in Nat : n \in S => n + 1 \in S
    <3> HIDE DEF P
    <3> QED  BY <1>3
  <2> HIDE DEF S
  <2> QED  BY <1>2, <2>1, NatInSet, FS_CardinalityType
<1> QED  BY <1>4

\* The total of a finite number of values that are at most c.
LEMMA TotalBound ==
  ASSUME NEW D, IsFiniteSet(D), NEW c \in Nat, NEW f \in [D -> 0..c]
  PROVE  Total(f) \in 0..(c * Cardinality(D))
<1>1. PICK ch : ch = [s \in SUBSET D |-> CHOOSE x \in s : TRUE]
  OBVIOUS
<1>2. \A s \in SUBSET D : s # {} => ch[s] \in s
  BY <1>1
<1> DEFINE Q(g) == g = [s \in SUBSET D |-> IF s = {} THEN 0 ELSE f[CHOOSE x \in s : TRUE] + g[s \ {CHOOSE x \in s : TRUE}]]
<1>3. \E g : Q(g)
  <2>1. PICK g : IsSum(g, D, f, ch)
    BY <1>2, SumExists
  <2>2. Q(g)
    BY <1>1, <2>1 DEF IsSum
  <2> QED  BY <2>2
<1>4. Total(f) = (CHOOSE g : Q(g))[D]
  BY DEF Total, MapThenSumSet, MapThenFoldSet
<1>5. PICK g : g = CHOOSE h : Q(h)
  OBVIOUS
<1>6. Q(g)
  <2> HIDE DEF Q
  <2> QED  BY <1>3, <1>5
<1>7. IsSum(g, D, f, ch)
  BY <1>1, <1>6 DEF IsSum
<1>8. g[D] \in 0..(c * Cardinality(D))
  BY <1>2, <1>7, SumBound
<1> QED  BY <1>4, <1>5, <1>8

\* R orders the elements of S one after the other.
OrdersAll(S, R) ==
  /\ \A x \in S : <<x, x>> \notin R
  /\ \A x, y \in S : x # y => <<x, y>> \in R \/ <<y, x>> \in R
  /\ \A x, y, z \in S : <<x, y>> \in R /\ <<y, z>> \in R => <<x, z>> \in R

\* Counting the elements before each puts a finite set in order.
LEMMA SortedOrder ==
  ASSUME NEW S, IsFiniteSet(S), NEW R, OrdersAll(S, R)
  PROVE  /\ Sorted(S, R) \in Seq(S) /\ Len(Sorted(S, R)) = Cardinality(S)
         /\ ToSet(Sorted(S, R)) = S
         /\ \A i, j \in 1..Cardinality(S) : i < j => <<Sorted(S, R)[i], Sorted(S, R)[j]>> \in R
<1> DEFINE below(x) == {y \in S : <<y, x>> \in R}
<1>0. PICK n, rank : n = Cardinality(S) /\ rank = [x \in S |-> Cardinality(below(x))]
  OBVIOUS
<1>1. n \in Nat /\ n \in Int /\ \A x \in S : rank[x] = Cardinality(below(x))
  BY <1>0, FS_CardinalityType
<1>2. \A x \in S : IsFiniteSet(below(x)) /\ rank[x] \in 0..(n - 1) /\ rank[x] \in Int
  <2> SUFFICES ASSUME NEW x \in S  PROVE IsFiniteSet(below(x)) /\ rank[x] \in 0..(n - 1) /\ rank[x] \in Int
    OBVIOUS
  <2>1. IsFiniteSet(S \ {x}) /\ Cardinality(S \ {x}) = n - 1
    BY <1>0, FS_RemoveElement
  <2>2. below(x) \in SUBSET (S \ {x})
    BY DEF OrdersAll
  <2> HIDE DEF below
  <2>3. IsFiniteSet(below(x)) /\ Cardinality(below(x)) <= n - 1
    BY <2>1, <2>2, FS_Subset
  <2>4. Cardinality(below(x)) \in Nat
    BY <2>3, FS_CardinalityType
  <2> QED  BY <1>1, <2>3, <2>4
<1>3. \A x, y \in S : <<x, y>> \in R => rank[x] < rank[y]
  <2> SUFFICES ASSUME NEW x \in S, NEW y \in S, <<x, y>> \in R  PROVE rank[x] < rank[y]
    OBVIOUS
  <2>1. IsFiniteSet(below(y)) /\ x \in below(y)
    BY <1>2
  <2>3. below(x) \in SUBSET (below(y) \ {x})
    BY DEF OrdersAll
  <2> HIDE DEF below
  <2>2. IsFiniteSet(below(y) \ {x}) /\ Cardinality(below(y) \ {x}) = Cardinality(below(y)) - 1
    BY <2>1, FS_RemoveElement
  <2>4. Cardinality(below(x)) <= Cardinality(below(y)) - 1
    BY <2>2, <2>3, FS_Subset
  <2>5. rank[x] <= rank[y] - 1 /\ rank[x] \in Int /\ rank[y] \in Int
    BY <1>1, <1>2, <2>4
  <2> QED  BY <2>5
<1>6. PICK q : q = Sorted(S, R)
  OBVIOUS
<1>7. q = [i \in 1..n |-> q[i]] /\ \A i \in 1..n : q[i] = CHOOSE x \in S : Cardinality(below(x)) = i - 1
  <2> DEFINE at(i) == CHOOSE x \in S : Cardinality({y \in S : <<y, x>> \in R}) = i - 1
  <2>1. q = [i \in 1..n |-> at(i)]
    BY <1>0, <1>6 DEF Sorted
  <2>2. q = [i \in 1..n |-> q[i]]
    <3> HIDE DEF at
    <3> QED  BY <2>1
  <2>3. ASSUME NEW i \in 1..n  PROVE q[i] = CHOOSE x \in S : Cardinality({y \in S : <<y, x>> \in R}) = i - 1
    BY Zenon, <2>1
  <2> QED  BY <2>2, <2>3
<1> HIDE DEF below
<1>4. \A x, y \in S : rank[x] = rank[y] => x = y
  <2> SUFFICES ASSUME NEW x \in S, NEW y \in S, rank[x] = rank[y], x # y  PROVE FALSE
    OBVIOUS
  <2>1. rank[x] < rank[y] \/ rank[y] < rank[x]
    BY <1>3 DEF OrdersAll
  <2> QED  BY <1>2, <2>1
<1>5. \A i \in 1..n : \E x \in S : rank[x] = i - 1
  <2>1. rank \in Injection(S, 0..(n - 1))
    <3>1. rank \in [S -> 0..(n - 1)]
      BY <1>0, <1>2
    <3> QED  BY <1>4, <3>1 DEF Injection, IsInjective
  <2>2. IsFiniteSet(0..(n - 1)) /\ Cardinality(0..(n - 1)) = n
    BY <1>1, FS_Interval
  <2>3. rank \in Surjection(S, 0..(n - 1))
    BY <1>0, <2>1, <2>2, FS_Injection
  <2>4. \A i \in 1..n : i - 1 \in 0..(n - 1)
    BY <1>1
  <2> QED  BY <2>3, <2>4 DEF Surjection
<1>8. \A i \in 1..n : q[i] \in S /\ rank[q[i]] = i - 1
  <2> SUFFICES ASSUME NEW i \in 1..n  PROVE q[i] \in S /\ rank[q[i]] = i - 1
    OBVIOUS
  <2>1. \E x \in S : Cardinality(below(x)) = i - 1
    BY <1>1, <1>5
  <2>2. q[i] \in S /\ Cardinality(below(q[i])) = i - 1
    BY <1>7, <2>1
  <2> QED  BY <1>1, <2>2
<1>9. q \in Seq(S) /\ Len(q) = n
  BY <1>1, <1>7, <1>8
<1>10. DOMAIN q = 1..n
  BY <1>7
<1>11. S \subseteq ToSet(q)
  <2> SUFFICES ASSUME NEW x \in S  PROVE x \in ToSet(q)
    OBVIOUS
  <2>1. rank[x] + 1 \in 1..n /\ (rank[x] + 1) - 1 = rank[x]
    BY <1>1, <1>2
  <2>2. q[rank[x] + 1] = x
    BY <1>4, <1>8, <2>1
  <2> QED  BY <1>10, <2>1, <2>2 DEF ToSet
<1>12. ToSet(q) = S
  BY <1>8, <1>10, <1>11 DEF ToSet
<1>13. ASSUME NEW i \in 1..n, NEW j \in 1..n, i < j  PROVE <<q[i], q[j]>> \in R
  <2>1. q[i] \in S /\ q[j] \in S /\ rank[q[i]] < rank[q[j]]
    BY <1>1, <1>8, <1>13
  <2>2. q[i] # q[j] /\ ~(rank[q[j]] < rank[q[i]])
    BY <1>1, <1>2, <2>1
  <2> QED  BY <1>3, <2>1, <2>2 DEF OrdersAll
<1> QED  BY <1>0, <1>6, <1>7, <1>9, <1>12, <1>13

\* g joins the first sequences of ss, for each number of them up to n.
IsJoin(g, n, ss) == g = [i \in 1..n |-> IF i = 1 THEN ss[i] ELSE g[i-1] \o ss[i]]

LEMMA JoinExists ==
  ASSUME NEW ss, NEW m \in Nat
  PROVE  \E g : IsJoin(g, m, ss)
<1> DEFINE S == {n \in Nat : \E g : IsJoin(g, n, ss)}
<1>1. 0 \in S
  <2>1. IsJoin(<<>>, 0, ss)
    BY DEF IsJoin
  <2> QED  BY <2>1
<1>2. ASSUME NEW n \in Nat, n \in S  PROVE n + 1 \in S
  <2>1. PICK g : IsJoin(g, n, ss)
    BY <1>2
  <2> DEFINE h == [i \in 1..(n + 1) |-> IF i \in 1..n THEN g[i]
                                       ELSE IF i = 1 THEN ss[i] ELSE g[i - 1] \o ss[i]]
             k == [i \in 1..(n + 1) |-> IF i = 1 THEN ss[i] ELSE h[i - 1] \o ss[i]]
  <2>2. ASSUME NEW i \in 1..(n + 1)  PROVE h[i] = k[i]
    <3>1. CASE i \in 1..n
      <4>1. i # 1 => i - 1 \in 1..n /\ i - 1 \in 1..(n + 1)
        BY <3>1
      <4>2. g[i] = IF i = 1 THEN ss[i] ELSE g[i - 1] \o ss[i]
        BY <2>1, <3>1 DEF IsJoin
      <4> QED  BY <3>1, <4>1, <4>2
    <3>2. CASE i \notin 1..n
      <4>1. i # 1 => i - 1 \in 1..n /\ i - 1 \in 1..(n + 1)
        BY <3>2
      <4> QED  BY <3>2, <4>1
    <3> QED  BY <3>1, <3>2
  <2>3. h = k
    <3>1. h = [i \in 1..(n + 1) |-> h[i]] /\ k = [i \in 1..(n + 1) |-> k[i]]
      OBVIOUS
    <3> HIDE DEF h, k
    <3> QED  BY <2>2, <3>1
  <2>4. IsJoin(h, n + 1, ss)
    BY <2>3 DEF IsJoin
  <2> HIDE DEF h
  <2> QED  BY <2>4
<1> HIDE DEF S
<1>3. m \in S
  BY <1>1, <1>2, NatInSet
<1> QED  BY <1>3 DEF S

\* What joining sequences gives: a sequence of the elements of all of them.
LEMMA Joined ==
  ASSUME NEW X, NEW ss \in Seq(Seq(X))
  PROVE  /\ FlattenSeq(ss) \in Seq(X)
         /\ \A x : x \in ToSet(FlattenSeq(ss)) <=> \E i \in DOMAIN ss : x \in ToSet(ss[i])
<1>1. DOMAIN ss = 1..Len(ss) /\ Len(ss) \in Nat /\ \A i \in 1..Len(ss) : ss[i] \in Seq(X)
  OBVIOUS
<1>2. CASE Len(ss) = 0
  <2>1. FlattenSeq(ss) = ss /\ ss = <<>>
    BY <1>2 DEF FlattenSeq
  <2> QED  BY <2>1 DEF ToSet
<1>3. CASE Len(ss) # 0
  <2> DEFINE Q(g) == g = [i \in 1..Len(ss) |-> IF i = 1 THEN ss[i] ELSE g[i-1] \o ss[i]]
  <2>1. FlattenSeq(ss) = (CHOOSE g : Q(g))[Len(ss)]
    BY <1>3 DEF FlattenSeq
  <2>2. \E g : Q(g)
    BY <1>1, JoinExists DEF IsJoin
  <2>3. PICK g : g = CHOOSE h : Q(h)
    OBVIOUS
  <2>4. Q(g)
    <3> HIDE DEF Q
    <3> QED  BY <2>2, <2>3
  <2> DEFINE P(n) == n \in 1..Len(ss) =>
                       g[n] \in Seq(X) /\ \A x : x \in ToSet(g[n]) <=> \E i \in 1..n : x \in ToSet(ss[i])
             S    == {n \in Nat : P(n)}
  <2>5. 0 \in S
    OBVIOUS
  <2>6. ASSUME NEW n \in Nat, P(n), n + 1 \in 1..Len(ss)
        PROVE  g[n + 1] \in Seq(X) /\ \A x : x \in ToSet(g[n + 1]) <=> \E i \in 1..(n + 1) : x \in ToSet(ss[i])
    <3>1. CASE n = 0
      <4>1. g[n + 1] = ss[1] /\ 1..(n + 1) = {1} /\ ss[1] \in Seq(X)
        BY <1>1, <2>4, <2>6, <3>1
      <4> HIDE DEF Q, P
      <4> QED  BY <4>1
    <3>2. CASE n # 0
      <4>1. n \in 1..Len(ss) /\ (n + 1) - 1 = n /\ n + 1 # 1
        BY <2>6, <3>2
      <4>2. PICK a, b : a = g[n] /\ b = ss[n + 1]
        OBVIOUS
      <4>3. g[n + 1] = a \o b
        BY <2>4, <2>6, <4>1, <4>2
      <4>4. a \in Seq(X) /\ b \in Seq(X) /\ \A x : x \in ToSet(a) <=> \E i \in 1..n : x \in ToSet(ss[i])
        BY <1>1, <2>6, <4>1, <4>2
      <4>5. a \o b \in Seq(X) /\ ToSet(a \o b) = ToSet(a) \cup ToSet(b)
        <5>1. /\ a \o b \in Seq(X) /\ Len(a \o b) = Len(a) + Len(b)
              /\ \A i \in 1..Len(a \o b) : (a \o b)[i] = IF i <= Len(a) THEN a[i] ELSE b[i - Len(a)]
          BY <4>4, ConcatProperties
        <5>2. DOMAIN a = 1..Len(a) /\ DOMAIN b = 1..Len(b) /\ DOMAIN (a \o b) = 1..Len(a \o b) /\ Len(a) \in Nat /\ Len(b) \in Nat
          BY <4>4, <5>1
        <5>3. \A i \in 1..Len(b) : i + Len(a) \in 1..Len(a \o b) /\ (a \o b)[i + Len(a)] = b[i]
          BY <5>1, <5>2
        <5>4. \A i \in 1..Len(a) : i \in 1..Len(a \o b) /\ (a \o b)[i] = a[i]
          BY <5>1, <5>2
        <5>5. \A i \in 1..Len(a \o b) : i \in 1..Len(a) \/ i - Len(a) \in 1..Len(b)
          BY <5>1, <5>2
        <5>6. ToSet(a \o b) \subseteq ToSet(a) \cup ToSet(b)
          BY <5>1, <5>2, <5>5 DEF ToSet
        <5>7. ToSet(a) \cup ToSet(b) \subseteq ToSet(a \o b)
          BY <5>2, <5>3, <5>4 DEF ToSet
        <5> QED  BY <5>1, <5>6, <5>7
      <4>6. 1..(n + 1) = 1..n \cup {n + 1}
        OBVIOUS
      <4> HIDE DEF Q
      <4>7. \A x : x \in ToSet(a \o b) <=> \E i \in 1..(n + 1) : x \in ToSet(ss[i])
        BY <4>2, <4>4, <4>5, <4>6
      <4> QED  BY <4>3, <4>5, <4>7
    <3> QED  BY <3>1, <3>2
  <2>7. Len(ss) \in S
    <3>0. ASSUME NEW n \in Nat, P(n)  PROVE P(n + 1)
      BY <2>6, <3>0
    <3>1. \A n \in Nat : n \in S => n + 1 \in S
      <4> HIDE DEF P
      <4> QED  BY <3>0
    <3> HIDE DEF S
    <3> QED  BY <1>1, <2>5, <3>1, NatInSet
  <2>8. P(Len(ss)) /\ Len(ss) \in 1..Len(ss)
    BY <1>1, <1>3, <2>7
  <2> QED  BY <1>1, <2>1, <2>3, <2>8
<1> QED  BY <1>2, <1>3

-----------------------------------------------------------------------------
(* Lists                                                                   *)

\* What a function makes of the elements of a finite set is finite.
LEMMA FiniteImage ==
  ASSUME NEW S, IsFiniteSet(S), NEW T, NEW f, \A t \in T : \E x \in S : f[x] = t
  PROVE  IsFiniteSet(T)
<1>1. PICK g, U : g = [x \in S |-> f[x]] /\ U = {f[x] : x \in S}
  OBVIOUS
<1>2. g \in Surjection(S, U)
  BY <1>1 DEF Surjection
<1>3. IsFiniteSet(U)
  BY <1>2, FS_Surjection
<1>4. T \in SUBSET U
  BY <1>1
<1> QED  BY <1>3, <1>4, FS_Subset

\* A list has finitely many elements.
LEMMA FiniteList ==
  ASSUME NEW s, IsSeq(s)
  PROVE  DOMAIN s = 1..Len(s) /\ Len(s) \in Nat /\ IsFiniteSet(DOMAIN s) /\ IsFiniteSet(ToSet(s))
<1>1. DOMAIN s = 1..Len(s) /\ Len(s) \in Nat
  BY DEF IsSeq
<1>2. IsFiniteSet(DOMAIN s)
  BY <1>1, FS_Interval
<1>3. \A t \in ToSet(s) : \E i \in DOMAIN s : s[i] = t
  BY DEF ToSet
<1> QED  BY <1>1, <1>2, <1>3, FiniteImage

\* A function on the first numbers is a list.
LEMMA ListOf ==
  ASSUME NEW n \in Nat, NEW s, s = [i \in 1..n |-> s[i]]
  PROVE  IsSeq(s) /\ Len(s) = n
<1>1. \A i \in 1..n : s[i] \in ToSet(s)
  BY DEF ToSet
<1>2. s \in [1..n -> ToSet(s)]
  BY <1>1
<1> QED  BY <1>2 DEF IsSeq

\* Lists joined are a list of the elements of each.
LEMMA JoinedLists ==
  ASSUME NEW ss, IsSeq(ss), \A i \in DOMAIN ss : IsSeq(ss[i])
  PROVE  /\ IsSeq(FlattenSeq(ss))
         /\ \A x : x \in ToSet(FlattenSeq(ss)) <=> \E i \in DOMAIN ss : x \in ToSet(ss[i])
<1>1. PICK X : X = UNION {ToSet(ss[i]) : i \in DOMAIN ss}
  OBVIOUS
<1>2. \A i \in DOMAIN ss : ToSet(ss[i]) \subseteq X
  BY <1>1
<1>3. \A i \in DOMAIN ss : ss[i] \in Seq(X)
  <2> SUFFICES ASSUME NEW i \in DOMAIN ss  PROVE ss[i] \in Seq(X)
    OBVIOUS
  <2>1. ss[i] \in Seq(ToSet(ss[i])) /\ ToSet(ss[i]) \subseteq X
    BY <1>2 DEF IsSeq
  <2>2. PICK s : s = ss[i]
    OBVIOUS
  <2>3. s \in [1..Len(s) -> X] /\ Len(s) \in Nat
    BY <2>1, <2>2
  <2> QED  BY <2>2, <2>3
<1>4. ss \in Seq(Seq(X))
  <2>1. ss = [i \in DOMAIN ss |-> ss[i]] /\ DOMAIN ss = 1..Len(ss) /\ Len(ss) \in Nat
    BY DEF IsSeq
  <2>2. ss \in [1..Len(ss) -> Seq(X)]
    BY <1>3, <2>1
  <2> QED  BY <2>1, <2>2
<1>5. PICK j : j = FlattenSeq(ss)
  OBVIOUS
<1>6. j \in Seq(X) /\ \A x : x \in ToSet(j) <=> \E i \in DOMAIN ss : x \in ToSet(ss[i])
  BY <1>4, <1>5, Joined
<1>7. IsSeq(j)
  <2>1. j = [i \in 1..Len(j) |-> j[i]] /\ Len(j) \in Nat
    BY <1>6
  <2> QED  BY <2>1, ListOf
<1> QED  BY <1>5, <1>6, <1>7

\* The product of two bounded numbers.
LEMMA ProductBound ==
  ASSUME NEW A \in Nat, NEW B \in Nat, NEW a \in 0..A, NEW b \in 0..B
  PROVE  a * b \in 0..(A * B)
<1>1. a \in Nat /\ b \in Nat /\ a <= A /\ b <= B
  OBVIOUS
<1>2. a * b <= A * b
  BY <1>1
<1>3. A * b <= A * B
  BY <1>1
<1>4. a * b \in Nat /\ A * b \in Nat /\ A * B \in Nat
  BY <1>1
<1> QED  BY <1>2, <1>3, <1>4

\* The empty list, and one with one element.
LEMMA SmallLists ==
  /\ IsSeq(<<>>) /\ ToSet(<<>>) = {}
  /\ \A x : IsSeq(<<x>>) /\ ToSet(<<x>>) = {x}
BY DEF IsSeq, ToSet

\* Joining lists some of which are left out.
LEMMA FilteredList ==
  ASSUME NEW n \in Nat, NEW ss, ss = [i \in 1..n |-> ss[i]], \A i \in 1..n : IsSeq(ss[i])
  PROVE  /\ IsSeq(FlattenSeq(ss))
         /\ \A x : x \in ToSet(FlattenSeq(ss)) <=> \E i \in 1..n : x \in ToSet(ss[i])
<1>1. IsSeq(ss) /\ DOMAIN ss = 1..n
  <2>1. DOMAIN ss = 1..n
    OBVIOUS
  <2> QED  BY <2>1, ListOf
<1> QED  BY <1>1, JoinedLists

\* The first occurrences are a list of the same elements at most.
LEMMA UniqueList ==
  ASSUME NEW s, IsSeq(s)
  PROVE  IsSeq(Unique(s)) /\ ToSet(Unique(s)) \subseteq ToSet(s)
<1>1. DOMAIN s = 1..Len(s) /\ Len(s) \in Nat
  BY FiniteList
<1>2. PICK ss : ss = [i \in 1..Len(s) |-> IF \E j \in 1..(i - 1) : s[j] = s[i] THEN <<>> ELSE <<s[i]>>]
  OBVIOUS
<1>3. Unique(s) = FlattenSeq(ss)
  BY <1>1, <1>2 DEF Unique
<1>4. ss = [i \in 1..Len(s) |-> ss[i]] /\ \A i \in 1..Len(s) : ss[i] = <<>> \/ ss[i] = <<s[i]>>
  BY <1>2
<1>5. \A i \in 1..Len(s) : IsSeq(ss[i]) /\ ToSet(ss[i]) \subseteq {s[i]}
  BY <1>4, SmallLists
<1>6. IsSeq(FlattenSeq(ss)) /\ \A x : x \in ToSet(FlattenSeq(ss)) <=> \E i \in 1..Len(s) : x \in ToSet(ss[i])
  BY <1>1, <1>4, <1>5, FilteredList
<1>7. \A i \in 1..Len(s) : s[i] \in ToSet(s)
  BY <1>1 DEF ToSet
<1> QED  BY <1>3, <1>5, <1>6, <1>7

\* A list cut after n elements, and what is cut off.
LEMMA CutList ==
  ASSUME NEW s, IsSeq(s), NEW n \in Nat
  PROVE  LET m == IF n < Len(s) THEN n ELSE Len(s) IN
         /\ IsSeq(SubSeq(s, 1, m)) /\ ToSet(SubSeq(s, 1, m)) = {s[i] : i \in 1..m}
         /\ ToSet(SubSeq(s, n + 1, Len(s))) = {s[i] : i \in (n + 1)..Len(s)}
<1>1. PICK m : m = IF n < Len(s) THEN n ELSE Len(s)
  OBVIOUS
<1>2. s \in Seq(ToSet(s)) /\ Len(s) \in Nat /\ DOMAIN s = 1..Len(s)
  BY FiniteList DEF IsSeq
<1>3. m \in Nat /\ m <= Len(s)
  <2>1. PICK l \in Nat : l = Len(s)
    BY <1>2
  <2>2. m \in Nat /\ m <= l
    BY <1>1, <2>1
  <2> QED  BY SMTT(30), <2>1, <2>2
<1>4. PICK p : p = SubSeq(s, 1, m)
  OBVIOUS
<1>5. p = [i \in 1..m |-> s[i]]
  BY <1>2, <1>3, <1>4
<1>6. IsSeq(p) /\ ToSet(p) = {s[i] : i \in 1..m}
  <2>1. p = [i \in 1..m |-> p[i]]
    BY <1>5
  <2>2. IsSeq(p)
    BY <1>3, <2>1, ListOf
  <2> QED  BY <1>5, <2>2 DEF ToSet
<1>7. PICK q : q = SubSeq(s, n + 1, Len(s))
  OBVIOUS
<1>8. q = [i \in 1..(Len(s) - n) |-> s[i + n]]
  BY <1>2, <1>7
<1>9. ToSet(q) = {s[i] : i \in (n + 1)..Len(s)}
  <2>1. \A i \in 1..(Len(s) - n) : i + n \in (n + 1)..Len(s)
    BY <1>2
  <2>2. \A i \in (n + 1)..Len(s) : i - n \in 1..(Len(s) - n) /\ (i - n) + n = i
    BY <1>2
  <2>3. DOMAIN q = 1..(Len(s) - n) /\ \A i \in 1..(Len(s) - n) : q[i] = s[i + n]
    BY <1>8
  <2>4. \A i \in (n + 1)..Len(s) : i - n \in DOMAIN q /\ q[i - n] = s[i]
    BY <2>2, <2>3
  <2>5. ToSet(q) \subseteq {s[i] : i \in (n + 1)..Len(s)}
    BY <2>1, <2>3 DEF ToSet
  <2>6. {s[i] : i \in (n + 1)..Len(s)} \subseteq ToSet(q)
    BY <2>4 DEF ToSet
  <2> QED  BY <2>5, <2>6
<1> QED  BY <1>1, <1>4, <1>6, <1>7, <1>9

\* Two lists joined.
LEMMA TwoLists ==
  ASSUME NEW s, IsSeq(s), NEW t, IsSeq(t)
  PROVE  IsSeq(s \o t) /\ ToSet(s \o t) \subseteq ToSet(s) \cup ToSet(t)
<1>1. PICK X : X = ToSet(s) \cup ToSet(t)
  OBVIOUS
<1>2. s \in Seq(X) /\ t \in Seq(X)
  <2>1. s \in Seq(ToSet(s)) /\ t \in Seq(ToSet(t)) /\ ToSet(s) \subseteq X /\ ToSet(t) \subseteq X
    BY <1>1 DEF IsSeq
  <2> QED  BY <2>1
<1>3. PICK u : u = s \o t
  OBVIOUS
<1>4. u \in Seq(X)
  BY <1>2, <1>3
<1>5. u = [i \in 1..Len(u) |-> u[i]] /\ Len(u) \in Nat /\ \A i \in 1..Len(u) : u[i] \in X
  BY <1>4
<1>6. IsSeq(u)
  BY <1>5, ListOf
<1>7. ToSet(u) \subseteq X
  <2>1. DOMAIN u = 1..Len(u)
    BY <1>5
  <2> QED  BY <1>5, <2>1 DEF ToSet
<1> QED  BY <1>1, <1>3, <1>6, <1>7

-----------------------------------------------------------------------------
(* Events in order                                                         *)

\* Events fit to be ordered, correlated and scored.
EventsOK(events) ==
  /\ IsFiniteSet(events)
  /\ \A e \in events : /\ e.id \in Int /\ e.time \in Int /\ e.notability \in Int
                       /\ e.confidence \in 0..100 /\ IsSeq(e.cves) /\ ToSet(e.cves) \subseteq Asked
  /\ \A e, f \in events : e.id = f.id => e = f

\* Events are ordered one after the other.
LEMMA EarlierOrder ==
  ASSUME NEW events, EventsOK(events)
  PROVE  /\ \A e \in events : ~Earlier(e, e)
         /\ \A e, f \in events : e # f => Earlier(e, f) \/ Earlier(f, e)
         /\ \A e, f \in events : Earlier(e, f) => ~Earlier(f, e) /\ e.time <= f.time
         /\ \A e, f, g \in events : Earlier(e, f) /\ Earlier(f, g) => Earlier(e, g)
<1>1. \A e \in events : e.time \in Int /\ e.id \in Int
  BY DEF EventsOK
<1>2. \A e \in events : ~Earlier(e, e)
  BY <1>1 DEF Earlier
<1>3. \A e, f \in events : Earlier(e, f) => ~Earlier(f, e) /\ e.time <= f.time
  BY <1>1 DEF Earlier
<1>4. \A e, f, g \in events : Earlier(e, f) /\ Earlier(f, g) => Earlier(e, g)
  BY <1>1 DEF Earlier
<1>5. \A e, f \in events : e # f => Earlier(e, f) \/ Earlier(f, e)
  <2>1. \A e, f \in events : e # f => e.id # f.id
    BY DEF EventsOK
  <2> QED  BY <1>1, <2>1 DEF Earlier
<1> QED  BY <1>2, <1>3, <1>4, <1>5

\* Two events of a group within the window are in one run of it.
LEMMA NearTogether ==
  ASSUME NEW events, EventsOK(events), NEW e \in events, NEW f \in events, Earlier(e, f), f.time - e.time <= Window
  PROVE  /\ Unbroken(events, e, f) /\ Unbroken(events, f, e)
         /\ Unbroken(events, e, e) /\ Unbroken(events, f, f)
<1>1. \A g, h \in events : Earlier(g, h) => ~Earlier(h, g) /\ g.time <= h.time
  BY EarlierOrder
<1>2. \A g, h, k \in events : Earlier(g, h) /\ Earlier(h, k) => Earlier(g, k)
  BY EarlierOrder
<1>3. \A g \in events : g.time \in Int /\ ~Earlier(g, g)
  BY EarlierOrder DEF EventsOK
<1>4. Window \in Int
  BY AnalysisTimes
<1>5. Unbroken(events, e, f)
  <2> SUFFICES ASSUME NEW g \in events, g = e \/ Earlier(e, g), Earlier(g, f)
               PROVE  \E h \in events : Earlier(g, h) /\ h.time - g.time <= Window
    BY DEF Unbroken
  <2>1. e.time <= g.time
    BY <1>1, <1>3
  <2>2. f.time - g.time <= Window
    BY <1>3, <1>4, <2>1
  <2> QED  BY <2>2
<1>6. Unbroken(events, f, e)
  <2>1. ASSUME NEW g \in events, g = f \/ Earlier(f, g), Earlier(g, e)  PROVE FALSE
    BY <1>1, <1>2, <1>3, <2>1
  <2> QED  BY <2>1 DEF Unbroken
<1>7. \A x \in events : Unbroken(events, x, x)
  <2>1. ASSUME NEW x \in events, NEW g \in events, g = x \/ Earlier(x, g), Earlier(g, x)  PROVE FALSE
    BY <1>1, <1>3, <2>1
  <2> QED  BY <2>1 DEF Unbroken
<1> QED  BY <1>5, <1>6, <1>7

\* Each run of a group is a chain.
LEMMA RunsAreChained ==
  ASSUME NEW events, EventsOK(events), NEW run \in split_by_gap(events)
  PROVE  run \subseteq events /\ Chained(run)
<1>1. PICK o \in events : run = {f \in events : Unbroken(events, o, f) /\ Unbroken(events, f, o)}
  BY DEF split_by_gap
<1>2. \A g, h \in events : Earlier(g, h) => ~Earlier(h, g) /\ g.time <= h.time
  BY EarlierOrder
<1>3. \A g, h, k \in events : Earlier(g, h) /\ Earlier(h, k) => Earlier(g, k)
  BY EarlierOrder
<1>4. \A g \in events : g.time \in Int /\ ~Earlier(g, g)
  BY EarlierOrder DEF EventsOK
<1>5. \A g, h \in events : g # h => Earlier(g, h) \/ Earlier(h, g)
  BY EarlierOrder
<1>6. Window \in Int
  BY AnalysisTimes
<1>7. o \in run
  <2>1. ASSUME NEW g \in events, g = o \/ Earlier(o, g), Earlier(g, o)  PROVE FALSE
    BY <1>2, <1>4, <2>1
  <2>2. Unbroken(events, o, o)
    BY <2>1 DEF Unbroken
  <2> QED  BY <1>1, <2>2
<1>8. ASSUME NEW e \in run, NEW f \in run, Earlier(e, f)
      PROVE  \E h \in run : Earlier(e, h) /\ h.time - e.time <= Window
  <2>1. e \in events /\ f \in events /\ Unbroken(events, o, f) /\ Unbroken(events, e, o)
    BY <1>1
  <2>2. CASE o = e \/ Earlier(o, e)
    <3>1. PICK h \in events : Earlier(e, h) /\ h.time - e.time <= Window
      BY <1>8, <2>1, <2>2 DEF Unbroken
    <3>2. Unbroken(events, h, o)
      <4>1. ASSUME NEW g \in events, g = h \/ Earlier(h, g), Earlier(g, o)  PROVE FALSE
        <5>1. Earlier(e, g)
          BY <1>3, <2>1, <3>1, <4>1
        <5>2. Earlier(o, g)
          BY <1>3, <2>1, <2>2, <5>1
        <5> QED  BY <1>2, <4>1, <5>2
      <4> QED  BY <4>1 DEF Unbroken
    <3>3. Unbroken(events, o, h)
      <4> SUFFICES ASSUME NEW g \in events, g = o \/ Earlier(o, g), Earlier(g, h)
                   PROVE  \E k \in events : Earlier(g, k) /\ k.time - g.time <= Window
        BY DEF Unbroken
      <4>1. CASE g = e \/ Earlier(g, e)
        <5>1. Earlier(g, f)
          BY <1>3, <1>8, <2>1, <4>1
        <5> QED  BY <2>1, <5>1 DEF Unbroken
      <4>2. CASE Earlier(e, g)
        <5>1. e.time <= g.time
          BY <1>2, <2>1, <4>2
        <5>2. h.time - g.time <= Window
          BY <1>4, <1>6, <2>1, <3>1, <5>1
        <5> QED  BY <5>2
      <4> QED  BY <1>5, <2>1, <4>1, <4>2
    <3> QED  BY <1>1, <3>1, <3>2, <3>3
  <2>3. CASE Earlier(e, o)
    <3>1. PICK h \in events : Earlier(e, h) /\ h.time - e.time <= Window
      BY <2>1, <2>3 DEF Unbroken
    <3>2. CASE h = o \/ Earlier(h, o)
      <4>1. Unbroken(events, h, o)
        <5> SUFFICES ASSUME NEW g \in events, g = h \/ Earlier(h, g), Earlier(g, o)
                     PROVE  \E k \in events : Earlier(g, k) /\ k.time - g.time <= Window
          BY DEF Unbroken
        <5>1. Earlier(e, g)
          BY <1>3, <2>1, <3>1
        <5> QED  BY <2>1, <5>1 DEF Unbroken
      <4>2. Unbroken(events, o, h)
        <5>1. ASSUME NEW g \in events, g = o \/ Earlier(o, g), Earlier(g, h)  PROVE FALSE
          <6>1. Earlier(o, h)
            BY <1>3, <5>1
          <6> QED  BY <1>2, <1>4, <3>2, <6>1
        <5> QED  BY <5>1 DEF Unbroken
      <4> QED  BY <1>1, <3>1, <4>1, <4>2
    <3>3. CASE Earlier(o, h)
      <4>1. o.time <= h.time
        BY <1>2, <3>3
      <4>2. o.time - e.time <= Window
        BY <1>4, <1>6, <2>1, <3>1, <4>1
      <4> QED  BY <1>7, <2>3, <4>2
    <3> QED  BY <1>5, <3>2, <3>3
  <2> QED  BY <1>5, <2>1, <2>2, <2>3
<1>9. run \subseteq events
  BY <1>1
<1> QED  BY <1>8, <1>9 DEF Chained

-----------------------------------------------------------------------------
(* The analysis                                                            *)

\* A record fit to be parsed.
RecordOK(r) ==
  /\ r.id \in Int /\ r.received \in Int \cup {None} /\ IsSeq(r.cves) /\ ToSet(r.cves) \subseteq Asked
  /\ r.stamp.kind \in {"full", "no_year"} => r.stamp.at \in Int

\* The time read from a record.
LEMMA StampRead ==
  ASSUME NEW p, NEW r, RecordOK(r)
  PROVE  parse_timestamp(p, r) \in Int \cup {None}
<1>1. Year \in Int /\ Year > 0 /\ Now \in Int
  BY AnalysisTimes
<1>2. CASE r.stamp.kind = "full"
  BY <1>2 DEF parse_timestamp, RecordOK
<1>3. CASE r.stamp.kind = "no_year"
  <2>1. PICK ref : ref = IF p = "syslog_rfc3164" /\ r.received # None THEN r.received ELSE Now
    OBVIOUS
  <2>2. ref \in Int /\ r.stamp.at \in Int
    BY <1>1, <1>3, <2>1 DEF RecordOK
  <2>3. parse_timestamp(p, r) = (ref \div Year) * Year + r.stamp.at
    BY <1>3, <2>1 DEF parse_timestamp
  <2>4. ref \div Year \in Int
    BY <1>1, <2>2
  <2> QED  BY <1>1, <2>2, <2>3, <2>4
<1>4. CASE r.stamp.kind \notin {"full", "no_year"}
  BY <1>4 DEF parse_timestamp
<1> QED  BY <1>2, <1>3, <1>4

\* The type of an event is one of those that are scored.
LEMMA TypeFound ==
  ASSUME NEW p, NEW r
  PROVE  classify_event_type(p, r) \in DOMAIN TypeNotability
<1>1. PICK found, named :
        /\ found = {i \in DOMAIN EVENT_TYPE_PATTERNS : EVENT_TYPE_PATTERNS[i] \in r.says}
        /\ named = IF p \in {"syslog_rfc5424", "syslog_rfc3164"} THEN None ELSE WINDOWS_EVENT_IDS(r.eventId)
  OBVIOUS
<1>2. classify_event_type(p, r) = IF named # None THEN named
                                  ELSE IF found = {} THEN "other" ELSE EVENT_TYPE_PATTERNS[Min(found)]
  BY <1>1 DEF classify_event_type
<1>3. named # None => named \in DOMAIN TypeNotability
  BY <1>1 DEF WINDOWS_EVENT_IDS, TypeNotability
<1>4. found \subseteq 1..9
  BY <1>1 DEF EVENT_TYPE_PATTERNS
<1>5. found # {} => Min(found) \in 1..9
  <2>1. found \subseteq Nat
    BY <1>4
  <2> QED  BY <1>4, <2>1, MinIn
<1>6. \A i \in 1..9 : EVENT_TYPE_PATTERNS[i] \in DOMAIN TypeNotability
  BY DEF EVENT_TYPE_PATTERNS, TypeNotability
<1>7. "other" \in DOMAIN TypeNotability
  BY DEF TypeNotability
<1> QED  BY <1>2, <1>3, <1>5, <1>6, <1>7

\* The score of an event is a number.
LEMMA NotabilityNumber ==
  ASSUME NEW type \in DOMAIN TypeNotability, NEW entities, NEW outcome, NEW confidence \in Int
  PROVE  score_notability(type, entities, outcome, confidence) \in Int
<1> DEFINE types    == {x.type : x \in entities}
           bonus(t) == IF t \in types THEN EntityBonus[t] ELSE 0
<1>1. TypeNotability[type] \in Int
  BY DEF TypeNotability
<1>2. /\ bonus("file_hash") \in Int /\ bonus("ip") \in Int /\ bonus("url") \in Int
      /\ bonus("domain") \in Int /\ bonus("process") \in Int
  BY DEF EntityBonus
<1>3. PICK a, b, c, d, e, m : /\ a = bonus("file_hash") /\ b = bonus("ip") /\ c = bonus("url")
                              /\ d = bonus("domain") /\ e = bonus("process") /\ m = TypeNotability[type]
  OBVIOUS
<1>4. PICK score : score = m + a + b + c + d + e + (IF outcome = "failure" THEN 10 ELSE 0)
  OBVIOUS
<1>5. score \in Int
  BY <1>1, <1>2, <1>3, <1>4
<1>6. score_notability(type, entities, outcome, confidence) = (IF score > 100 THEN 100 ELSE score) * confidence
  BY <1>3, <1>4 DEF score_notability
<1> QED  BY <1>5, <1>6

\* What normalisation makes of a record that is not quarantined.
LEMMA Normalized ==
  ASSUME NEW r, RecordOK(r), normalize(r) # None
  PROVE  /\ normalize(r).id = r.id /\ normalize(r).source = r.source /\ normalize(r).time \in Int
         /\ normalize(r).confidence \in 0..100 /\ normalize(r).notability \in Int /\ normalize(r).cves = r.cves
<1>1. PICK p, at, type, outcome, confidence, notability, x :
        /\ p = parse_record(r) /\ at = parse_timestamp(p, r) /\ type = classify_event_type(p, r)
        /\ outcome = outcome_from(p, r)
        /\ confidence = (ParserConfidence(p, r, at) * (IF at = None THEN 6 ELSE 10)) \div 10
        /\ x = extract_entities(r)
        /\ notability = score_notability(type, x, outcome, confidence)
  OBVIOUS
<1>2. /\ ~(at = None /\ r.received = None)
      /\ normalize(r) = [id |-> r.id, source |-> r.source, time |-> IF at = None THEN r.received ELSE at,
            inferred |-> at = None, type |-> type, host |-> r.host, actor |-> r.actor,
            outcome |-> outcome, entities |-> x, marks |-> r.marks,
            cves |-> r.cves, confidence |-> confidence, notability |-> notability]
  BY <1>1 DEF normalize
<1>3. at \in Int \cup {None}
  BY <1>1, StampRead
<1>4. ParserConfidence(p, r, at) \in {40, 50, 80, 90, 100}
  BY DEF ParserConfidence
<1>5. confidence \in 0..100
  BY <1>1, <1>4
<1>6. notability \in Int
  BY <1>1, <1>5, TypeFound, NotabilityNumber
<1>7. (IF at = None THEN r.received ELSE at) \in Int
  BY <1>2, <1>3 DEF RecordOK
<1> QED  BY <1>2, <1>5, <1>6, <1>7 DEF RecordOK

\* The evidence of an investigation, and what its analysis makes of it.
LEMMA Seeds ==
  ASSUME NEW k \in Cases, NEW c, c = Seeded(k)
  PROVE  /\ IsFiniteSet(c.records) /\ IsFiniteSet(c.failures) /\ IsFiniteSet(c.sources)
         /\ \A r, q \in c.records : r.id = q.id => r = q
         /\ \A r \in c.records : RecordOK(r)
         /\ IsSeq(c.assets) /\ \A i \in DOMAIN c.assets : IsSeq(c.assets[i].software)
         /\ \A i \in DOMAIN c.assets : \A j \in DOMAIN c.assets[i].software : c.assets[i].software[j].product \in Asked
<1>1. c.assets = k.assets /\ c.sources = k.sources
  BY DEF Seeded
<1>2. \A r \in c.records : ToSet(r.cves) \subseteq Asked
  BY DEF Asked, NamedCves
<1>3. ASSUME NEW i \in DOMAIN c.assets, NEW j \in DOMAIN c.assets[i].software
      PROVE  c.assets[i].software[j].product \in Asked
  <2>1. c.assets[i].software[j] \in UNION {ToSet(a.software) : a \in ToSet(k.assets)}
    BY <1>1, <1>3 DEF ToSet
  <2>2. c.assets[i].software[j].product \in Products(k)
    BY <2>1 DEF Products
  <2> QED  BY <2>2 DEF Asked
<1> QED  BY <1>1, <1>2, <1>3, EvidenceShape DEF RecordOK

\* The parts of an analysis.
LEMMA AnalysisParts ==
  ASSUME NEW c, NEW failures
  PROVE  LET a == analyze(c, failures) IN
         /\ a.events = {normalize(r) : r \in {q \in c.records : normalize(q) # None}}
         /\ a.quarantined = {r \in c.records : normalize(r) = None}
         /\ a.correlations = correlate_events(a.events)
         /\ a.gaps = coverage_gaps(c, a.events, a.quarantined, failures)
BY DEF analyze

\* The events of an analysis can be ordered and scored, and nothing is lost on the way.
LEMMA EventsOfAnalysis ==
  ASSUME NEW k \in Cases, NEW c, c = Seeded(k), NEW a, a = analyze(c, c.failures)
  PROVE  /\ EventsOK(a.events)
         /\ \A r \in c.records : (r.id \in Ids(a.events)) # (r \in a.quarantined)
<1>1. \A r, q \in c.records : r.id = q.id => r = q
  BY Seeds
<1>2. \A r \in c.records : RecordOK(r)
  BY Seeds
<1>3. PICK R : R = {q \in c.records : normalize(q) # None}
  OBVIOUS
<1>4. a.events = {normalize(r) : r \in R} /\ a.quarantined = {r \in c.records : normalize(r) = None}
  BY <1>3, AnalysisParts
<1>5. R \in SUBSET c.records /\ \A r \in R : RecordOK(r) /\ normalize(r) # None
  BY <1>2, <1>3
<1>6. IsFiniteSet(a.events)
  <2>1. IsFiniteSet(R)
    BY <1>5, Seeds, FS_Subset
  <2>2. PICK f : f = [r \in R |-> normalize(r)]
    OBVIOUS
  <2>3. \A e \in a.events : \E r \in R : f[r] = e
    BY <1>4, <2>2
  <2> QED  BY <2>1, <2>3, FiniteImage
<1>7. \A r \in R : /\ normalize(r).id = r.id /\ r.id \in Int /\ normalize(r).time \in Int
                   /\ normalize(r).confidence \in 0..100 /\ normalize(r).notability \in Int
                   /\ IsSeq(normalize(r).cves) /\ ToSet(normalize(r).cves) \subseteq Asked
  BY <1>5, Normalized DEF RecordOK
<1>8. \A e, f \in a.events : e.id = f.id => e = f
  BY <1>1, <1>4, <1>5, <1>7
<1>9. \A e \in a.events : /\ e.id \in Int /\ e.time \in Int /\ e.notability \in Int
                          /\ e.confidence \in 0..100 /\ IsSeq(e.cves) /\ ToSet(e.cves) \subseteq Asked
  BY <1>4, <1>7
<1>10. ASSUME NEW r \in c.records  PROVE (r.id \in Ids(a.events)) # (r \in a.quarantined)
  <2>1. CASE normalize(r) = None
    <3>1. r \in a.quarantined /\ r \notin R
      BY <1>3, <1>4, <2>1
    <3>2. r.id \notin Ids(a.events)
      BY <1>1, <1>4, <1>5, <1>7, <3>1 DEF Ids
    <3> QED  BY <3>1, <3>2
  <2>2. CASE normalize(r) # None
    <3>1. r \in R /\ r \notin a.quarantined
      BY <1>3, <1>4, <2>2
    <3>2. normalize(r) \in a.events /\ normalize(r).id = r.id
      BY <1>4, <1>7, <3>1
    <3>3. r.id \in Ids(a.events)
      BY <3>2 DEF Ids
    <3> QED  BY <3>1, <3>3
  <2> QED  BY <2>1, <2>2
<1> QED  BY <1>6, <1>8, <1>9, <1>10 DEF EventsOK

\* A source without events has a gap, and the gaps are finitely many.
LEMMA GapsOfAnalysis ==
  ASSUME NEW c, IsFiniteSet(c.sources), NEW events, NEW quarantined, IsFiniteSet(quarantined),
         NEW failures, IsFiniteSet(failures),
         NEW gaps, gaps = coverage_gaps(c, events, quarantined, failures)
  PROVE  /\ IsFiniteSet(gaps)
         /\ \A s \in c.sources \cup failures :
              (\E e \in events : e.source = s) \/ (\E g \in gaps : g.source = s)
<1>1. PICK A, B, C, D :
        /\ A = {[kind |-> "source_unavailable", source |-> s] : s \in failures}
        /\ B = {[kind |-> "source_empty", source |-> s] :
                  s \in c.sources \ (failures \cup {e.source : e \in events})}
        /\ C = {[kind |-> "parse_failure", source |-> r.source] : r \in quarantined}
        /\ D = {[kind |-> "window_uncovered", source |-> w] :
                  w \in {x \in {None} : window_gap(c.window, events)}}
  OBVIOUS
<1>2. gaps = A \cup B \cup C \cup D
  BY <1>1 DEF coverage_gaps
<1>3. IsFiniteSet(A)
  <2>1. PICK f : f = [s \in failures |-> [kind |-> "source_unavailable", source |-> s]]
    OBVIOUS
  <2>2. \A t \in A : \E s \in failures : f[s] = t
    BY <1>1, <2>1
  <2> QED  BY <2>2, FiniteImage
<1>4. IsFiniteSet(B)
  <2>1. PICK f : f = [s \in c.sources |-> [kind |-> "source_empty", source |-> s]]
    OBVIOUS
  <2>2. \A t \in B : \E s \in c.sources : f[s] = t
    BY <1>1, <2>1
  <2> QED  BY <2>2, FiniteImage
<1>5. IsFiniteSet(C)
  <2>1. PICK f : f = [r \in quarantined |-> [kind |-> "parse_failure", source |-> r.source]]
    OBVIOUS
  <2>2. \A t \in C : \E r \in quarantined : f[r] = t
    BY <1>1, <2>1
  <2> QED  BY <2>2, FiniteImage
<1>6. IsFiniteSet(D)
  <2>1. D \in SUBSET {[kind |-> "window_uncovered", source |-> None]}
    BY <1>1
  <2> QED  BY <2>1, FS_Singleton, FS_Subset
<1>7. IsFiniteSet(gaps)
  BY <1>2, <1>3, <1>4, <1>5, <1>6, FS_Union
<1>8. ASSUME NEW s \in c.sources \cup failures, ~\E e \in events : e.source = s
      PROVE  \E g \in gaps : g.source = s
  <2>1. CASE s \in failures
    <3>1. [kind |-> "source_unavailable", source |-> s] \in A
      BY <1>1, <2>1
    <3> QED  BY <1>2, <3>1
  <2>2. CASE s \notin failures
    <3>1. [kind |-> "source_empty", source |-> s] \in B
      BY <1>1, <1>8, <2>2
    <3> QED  BY <1>2, <3>1
  <2> QED  BY <2>1, <2>2
<1> QED  BY <1>7, <1>8

\* A part of the events is fit as well.
LEMMA SomeEvents ==
  ASSUME NEW events, EventsOK(events), NEW some \in SUBSET events
  PROVE  EventsOK(some)
BY FS_Subset DEF EventsOK

\* Two elements make two.
LEMMA AtLeastTwo ==
  ASSUME NEW S, IsFiniteSet(S), NEW x \in S, NEW y \in S, x # y
  PROVE  Cardinality(S) >= 2
<1>1. IsFiniteSet(S \ {x}) /\ Cardinality(S \ {x}) = Cardinality(S) - 1 /\ S \ {x} # {}
  BY FS_RemoveElement
<1>2. Cardinality(S \ {x}) # 0 /\ Cardinality(S \ {x}) \in Nat /\ Cardinality(S) \in Nat
  BY <1>1, FS_EmptySet, FS_CardinalityType
<1> QED  BY <1>1, <1>2

\* Events that share something within the window are correlated.
LEMMA NearCorrelated ==
  ASSUME NEW events, EventsOK(events), NEW e \in events, NEW f \in events,
         NEW key \in BucketKeys(e) \cap BucketKeys(f), Earlier(e, f), f.time - e.time <= Window
  PROVE  \E c \in correlate_events(events) : c.kind = key[1] /\ c.key = key[2] /\ {e.id, f.id} \subseteq c.events
<1>1. PICK B : B = {x \in events : key \in BucketKeys(x)}
  OBVIOUS
<1>2. EventsOK(B) /\ e \in B /\ f \in B
  BY <1>1, SomeEvents
<1>3. PICK run : run = {x \in B : Unbroken(B, e, x) /\ Unbroken(B, x, e)}
  OBVIOUS
<1>4. run \in split_by_gap(B)
  BY <1>2, <1>3 DEF split_by_gap
<1>5. e \in run /\ f \in run /\ run \in SUBSET B
  BY <1>2, <1>3, NearTogether
<1>6. e.id # f.id
  BY <1>2, EarlierOrder DEF EventsOK
<1>7. Cardinality(Ids(run)) >= 2
  <2>1. IsFiniteSet(run)
    BY <1>2, <1>5, FS_Subset DEF EventsOK
  <2>2. PICK g : g = [x \in run |-> x.id]
    OBVIOUS
  <2>3. \A i \in Ids(run) : \E x \in run : g[x] = i
    BY <2>2 DEF Ids
  <2>4. IsFiniteSet(Ids(run))
    BY <2>1, <2>3, FiniteImage
  <2>5. e.id \in Ids(run) /\ f.id \in Ids(run)
    BY <1>5 DEF Ids
  <2> QED  BY <1>6, <2>4, <2>5, AtLeastTwo
<1>8. key \in UNION {BucketKeys(x) : x \in events}
  OBVIOUS
<1>9. PICK c : c = [kind |-> key[1], key |-> key[2], events |-> Ids(run)]
  OBVIOUS
<1>10. c \in correlate_events(events)
  BY <1>1, <1>4, <1>7, <1>8, <1>9 DEF correlate_events
<1>11. {e.id, f.id} \subseteq Ids(run)
  BY <1>5 DEF Ids
<1> QED  BY <1>9, <1>10, <1>11

\* The events of a correlation are a run of the group, which is a chain.
LEMMA CorrelationsChained ==
  ASSUME NEW events, EventsOK(events), NEW c \in correlate_events(events)
  PROVE  Chained({e \in events : e.id \in c.events})
<1>1. PICK key \in UNION {BucketKeys(e) : e \in events} :
        c \in {[kind |-> key[1], key |-> key[2], events |-> Ids(run)] :
                 run \in {r \in split_by_gap({e \in events : key \in BucketKeys(e)}) : Cardinality(Ids(r)) >= 2}}
  BY DEF correlate_events
<1>2. PICK B : B = {e \in events : key \in BucketKeys(e)}
  OBVIOUS
<1>3. PICK run \in split_by_gap(B) : c.events = Ids(run)
  BY <1>1, <1>2
<1>4. run \subseteq B /\ Chained(run)
  BY <1>2, SomeEvents, RunsAreChained
<1>5. {e \in events : e.id \in c.events} = run
  BY <1>2, <1>3, <1>4 DEF EventsOK, Ids
<1> QED  BY <1>4, <1>5

-----------------------------------------------------------------------------
(* The threat assessment                                                   *)

\* A signal rests on events of the case, and its rule has a weight.
SignalOK(s, events) ==
  /\ s.rule \in DOMAIN DEFAULT_RULES \cup {"hostile_indicator_confirmed"} /\ s.weight \in 0..100
  /\ s.events \subseteq Ids(events) /\ s.events # {}

\* The signal of a rule of the list.
LEMMA SignalMade ==
  ASSUME NEW rule \in DOMAIN DEFAULT_RULES, NEW events, NEW names, NEW ids, ids \subseteq Ids(events), ids # {}
  PROVE  SignalOK(Signal(rule, ids, names), events)
<1>1. DEFAULT_RULES[rule].weight \in 0..100
  BY DEF DEFAULT_RULES
<1>2. PICK w, x : w = DEFAULT_RULES[rule].weight /\ x = DEFAULT_RULES[rule].techniques
  OBVIOUS
<1>3. Signal(rule, ids, names) = [rule |-> rule, weight |-> w, techniques |-> x, events |-> ids, names |-> names]
  BY <1>2 DEF Signal
<1> QED  BY <1>1, <1>2, <1>3 DEF SignalOK

\* A set with a positive number of elements has one.
LEMMA Counted ==
  ASSUME NEW S, NEW n \in Nat \ {0}, Cardinality(S) >= n
  PROVE  S # {}
BY FS_EmptySet

\* The signals of the rules.
LEMMA RuleSignals ==
  ASSUME NEW events, NEW s \in evaluate_rules(events)
  PROVE  SignalOK(s, events)
<1>0. \A some \in SUBSET events : Ids(some) \subseteq Ids(events) /\ (some # {} => Ids(some) # {})
  BY DEF Ids
<1>1. ASSUME s \in SingleMatches(events)  PROVE SignalOK(s, events)
  <2>1. PICK rule, found, names :
          /\ rule \in DOMAIN DEFAULT_RULES /\ found = {e \in events : MatchesRule(e, rule)} /\ found # {}
          /\ s = Signal(rule, Ids(found), names)
    BY <1>1 DEF SingleMatches
  <2> QED  BY <1>0, <2>1, SignalMade
<1>2. ASSUME s \in detect_brute_force(events)  PROVE SignalOK(s, events)
  <2>1. PICK by : by = group_by_principal(events, {"auth_failure"})
    OBVIOUS
  <2>2. PICK who, burst :
          /\ who \in DOMAIN by /\ burst \in split_by_gap(by[who])
          /\ Cardinality(burst) >= BRUTE_FORCE_THRESHOLD
          /\ s = Signal("brute_force_authentication", Ids(burst), {who})
    BY <1>2, <2>1 DEF detect_brute_force
  <2>3. by[who] \subseteq events /\ burst \subseteq by[who]
    BY <2>1, <2>2 DEF group_by_principal, split_by_gap
  <2>4. burst # {}
    BY <2>2, Counted DEF BRUTE_FORCE_THRESHOLD
  <2>5. "brute_force_authentication" \in DOMAIN DEFAULT_RULES
    BY DEF DEFAULT_RULES
  <2>6. Ids(burst) \subseteq Ids(events) /\ Ids(burst) # {}
    BY <1>0, <2>3, <2>4
  <2> QED  BY <2>2, <2>5, <2>6, SignalMade
<1>3. ASSUME s \in detect_breakthrough(events)  PROVE SignalOK(s, events)
  <2>1. PICK by : by = group_by_principal(events, {"auth_failure", "auth_success"})
    OBVIOUS
  <2>2. PICK who, w :
          /\ who \in DOMAIN by /\ w \in by[who]
          /\ s = Signal("authentication_breakthrough", Ids(FailuresBefore(by[who], w) \cup {w}), {who})
    BY <1>3, <2>1 DEF detect_breakthrough
  <2>3. by[who] \subseteq events
    BY <2>1, <2>2 DEF group_by_principal
  <2>4. FailuresBefore(by[who], w) \cup {w} \in SUBSET events
    BY <2>2, <2>3 DEF FailuresBefore
  <2>5. "authentication_breakthrough" \in DOMAIN DEFAULT_RULES
    BY DEF DEFAULT_RULES
  <2>6. PICK some : some = FailuresBefore(by[who], w) \cup {w}
    OBVIOUS
  <2>7. Ids(some) \subseteq Ids(events) /\ Ids(some) # {}
    BY <1>0, <2>4, <2>6
  <2> QED  BY <2>2, <2>5, <2>6, <2>7, SignalMade
<1>4. ASSUME s \in detect_beaconing(events)  PROVE SignalOK(s, events)
  <2>1. PICK v, calls : /\ calls \subseteq Ids(events) /\ Cardinality(calls) >= BEACONING_THRESHOLD
                        /\ s = Signal("external_beaconing", calls, {v})
    BY <1>4 DEF detect_beaconing, Ids
  <2>2. calls # {}
    BY <2>1, Counted DEF BEACONING_THRESHOLD
  <2>3. "external_beaconing" \in DOMAIN DEFAULT_RULES
    BY DEF DEFAULT_RULES
  <2> QED  BY <2>1, <2>2, <2>3, SignalMade
<1> QED  BY <1>1, <1>2, <1>3, <1>4 DEF evaluate_rules

\* An indicator rests on events of the case.
IocOK(i, events) == i.events \subseteq Ids(events) /\ i.events # {}

\* Looking indicators up keeps what they rest on; one that could be looked up and was
\* not makes the enrichment incomplete.
LEMMA Enriched ==
  ASSUME NEW events, NEW provider, NEW en, en = enrich_indicators(extract_iocs(events), provider)
  PROVE  /\ \A i \in en.iocs : IocOK(i, events)
         /\ en.status \in {"complete", "degraded", "unavailable"}
         /\ (\E i \in en.iocs : i.type \in ENRICHABLE_TYPES /\ ~i.internal /\ ~i.enriched) => en.status # "complete"
         /\ events = {} => en.iocs = {}
<1>1. PICK iocs : iocs = extract_iocs(events)
  OBVIOUS
<1>2. \A i \in iocs : IocOK(i, events)
  <2> SUFFICES ASSUME NEW i \in iocs  PROVE IocOK(i, events)
    OBVIOUS
  <2>0. PICK x \in UNION {{y \in e.entities : y.type \in DOMAIN IocRank} : e \in events} :
          i = [type |-> x.type, value |-> x.value, internal |-> is_internal(x),
               events |-> Ids({e \in events : x \in e.entities}),
               count |-> Cardinality({e \in events : x \in e.entities}), reputation |-> "unknown", enriched |-> FALSE]
    BY <1>1 DEF extract_iocs
  <2>1. PICK hits : hits = {e \in events : x \in e.entities} /\ i.events = Ids(hits)
    BY <2>0
  <2>2. hits # {} /\ hits \subseteq events
    BY <2>1
  <2> QED  BY <2>1, <2>2 DEF IocOK, Ids
<1>3. events = {} => iocs = {}
  BY <1>1 DEF extract_iocs
<1>4. CASE provider = None
  <2>1. en = [iocs |-> iocs, status |-> "unavailable"]
    BY <1>1, <1>4 DEF enrich_indicators
  <2> QED  BY <1>2, <1>3, <2>1
<1>5. CASE provider # None
  <2> DEFINE result(i) == lookup(provider[i.value])
             answered(i) == [type |-> i.type, value |-> i.value, internal |-> i.internal, events |-> i.events,
                             count |-> i.count, reputation |-> result(i).reputation, enriched |-> TRUE]
  <2>1. PICK eligible : eligible = {i \in iocs : i.type \in ENRICHABLE_TYPES /\ ~i.internal}
    OBVIOUS
  <2>2. PICK budgeted : budgeted = {i \in eligible : Cardinality({j \in eligible : MoreObserved(j, i)}) < MaxIndicators}
    OBVIOUS
  <2>3. PICK good : good = {i \in budgeted : result(i).ok}
    OBVIOUS
  <2>4. PICK some, status :
            /\ some = (iocs \ good) \cup {answered(i) : i \in good}
            /\ status = IF eligible = {} THEN "complete"
                         ELSE IF good = {} THEN "unavailable"
                         ELSE IF good # eligible \/ \E i \in good : result(i).stale
                         THEN "degraded" ELSE "complete"
    OBVIOUS
  <2>5. en = [iocs |-> some, status |-> status]
    BY <1>1, <1>5, <2>1, <2>2, <2>3, <2>4 DEF enrich_indicators
  <2>6. en.iocs = some /\ en.status = status
    BY <2>5
  <2>7. budgeted \subseteq eligible
    BY <2>2
  <2>8. /\ good \subseteq eligible
        /\ en.iocs = (iocs \ good) \cup {answered(i) : i \in good}
        /\ eligible # {} /\ good # eligible => en.status # "complete"
        /\ en.status \in {"complete", "degraded", "unavailable"}
    BY <2>3, <2>4, <2>6, <2>7
  <2>9. \A i \in good : answered(i).events = i.events /\ answered(i).enriched = TRUE
    OBVIOUS
  <2> HIDE DEF answered
  <2>10. \A i \in en.iocs : IocOK(i, events)
    <3>1. \A i \in good : i \in iocs
      BY <2>1, <2>8
    <3> SUFFICES ASSUME NEW i \in en.iocs  PROVE IocOK(i, events)
      OBVIOUS
    <3>2. CASE i \in iocs
      BY <1>2, <3>2
    <3>3. CASE i \notin iocs
      <4>1. PICK j \in good : i = answered(j)
        BY <2>8, <3>3
      <4> QED  BY <1>2, <2>9, <3>1, <4>1 DEF IocOK
    <3> QED  BY <3>2, <3>3
  <2>11. en.status \in {"complete", "degraded", "unavailable"}
    BY <2>8
  <2>12. ASSUME NEW i \in en.iocs, i.type \in ENRICHABLE_TYPES, ~i.internal, ~i.enriched  PROVE en.status # "complete"
    <3>1. i \in iocs \ good
      BY <2>8, <2>9, <2>12
    <3>2. i \in eligible /\ i \notin good
      BY <2>1, <2>12, <3>1
    <3> QED  BY <2>8, <3>2
  <2>13. events = {} => en.iocs = {}
    BY <1>3, <2>1, <2>8
  <2> QED  BY <2>10, <2>11, <2>12, <2>13
<1> QED  BY <1>4, <1>5

\* So does the signal of hostile indicators.
LEMMA HostileSignal ==
  ASSUME NEW events, NEW iocs, \A i \in iocs : IocOK(i, events), NEW s \in signal_from_hostile_indicators(iocs)
  PROVE  SignalOK(s, events) /\ iocs # {}
<1>1. PICK hostile, malicious, graded :
        /\ hostile = {i \in iocs : is_hostile(i)}
        /\ malicious = {i \in hostile : i.reputation = "malicious"}
        /\ graded = IF malicious # {} THEN malicious ELSE hostile
  OBVIOUS
<1>2. PICK w, names : w = (IF malicious # {} THEN 85 ELSE 60) /\ names = {i.value : i \in graded}
  OBVIOUS
<1>3. /\ hostile # {}
      /\ s = [rule |-> "hostile_indicator_confirmed", weight |-> w, techniques |-> {},
              events |-> UNION {i.events : i \in graded}, names |-> names]
  BY <1>1, <1>2 DEF signal_from_hostile_indicators
<1>4. graded \subseteq iocs /\ graded # {} /\ w \in 0..100
  BY <1>1, <1>2, <1>3
<1>5. UNION {i.events : i \in graded} \subseteq Ids(events) /\ UNION {i.events : i \in graded} # {}
  BY SMTT(30), <1>4 DEF IocOK
<1> QED  BY <1>3, <1>4, <1>5 DEF SignalOK

\* A mean of confidences is a confidence.
LEMMA RoundedConfidence ==
  ASSUME NEW a \in Nat, NEW b \in Nat \ {0}, a <= 10000 * b
  PROVE  RoundDiv(a, b) \in Scale
<1>1. PICK c \in Nat : c = 10000
  OBVIOUS
<1>2. a <= c * b
  BY <1>1
<1>3. RoundDiv(a, b) \in 0..c
  BY <1>2, RoundDivBound
<1> QED  BY <1>1, <1>3 DEF Scale

\* A set with one more element stays finite.
LEMMA OneMore ==
  ASSUME NEW S, NEW T, NEW x, IsFiniteSet(S), T \subseteq S \cup {x}
  PROVE  IsFiniteSet(T)
<1>1. IsFiniteSet(S \cup {x}) /\ T \in SUBSET (S \cup {x})
  BY FS_AddElement
<1> QED  BY <1>1, FS_Subset

\* There are finitely many rules.
LEMMA FiniteRules ==
  IsFiniteSet(DOMAIN DEFAULT_RULES \cup {"hostile_indicator_confirmed"})
<1>1. PICK f : f = <<"brute_force_authentication", "authentication_breakthrough", "privilege_change_observed",
                     "account_created", "account_elevated", "script_interpreter_execution",
                     "encoded_command_execution", "proxy_binary_execution", "ingress_tool_transfer",
                     "service_installed", "scheduled_task_created", "audit_log_cleared",
                     "security_tooling_disabled", "remote_service_activity", "external_beaconing">>
  OBVIOUS
<1>2. IsFiniteSet(1..15)
  <2>1. 1 \in Int /\ 15 \in Int
    OBVIOUS
  <2> QED  BY <2>1, FS_Interval
<1>3. \A t \in DOMAIN DEFAULT_RULES : \E i \in 1..15 : f[i] = t
  BY <1>1 DEF DEFAULT_RULES
<1>4. IsFiniteSet(DOMAIN DEFAULT_RULES)
  BY <1>2, <1>3, FiniteImage
<1> QED  BY <1>4, OneMore

\* There are finitely many techniques.
LEMMA FiniteTechniques ==
  IsFiniteSet(TECHNIQUES)
<1>1. PICK f : f = <<"T1021", "T1027", "T1041", "T1053", "T1059", "T1059.001", "T1068", "T1070", "T1070.001",
                     "T1071", "T1078", "T1098", "T1105", "T1110", "T1136", "T1218", "T1543", "T1548", "T1562", "T1569">>
  OBVIOUS
<1>2. IsFiniteSet(1..20)
  <2>1. 1 \in Int /\ 20 \in Int
    OBVIOUS
  <2> QED  BY <2>1, FS_Interval
<1>3. \A t \in TECHNIQUES : \E i \in 1..20 : f[i] = t
  BY <1>1 DEF TECHNIQUES
<1> QED  BY <1>2, <1>3, FiniteImage

\* Rules that agree are counted.
LEMMA RulesCounted ==
  ASSUME NEW events, NEW signals, \A s \in signals : SignalOK(s, events)
  PROVE  Cardinality(corroborating_rules(signals)) \in Nat
<1>1. corroborating_rules(signals) \in SUBSET (DOMAIN DEFAULT_RULES \cup {"hostile_indicator_confirmed"})
  BY DEF corroborating_rules, SignalOK
<1>2. IsFiniteSet(corroborating_rules(signals))
  BY <1>1, FiniteRules, FS_Subset
<1> QED  BY <1>2, FS_CardinalityType

\* The strongest signal.
LEMMA StrongestSignal ==
  ASSUME NEW events, NEW signals, \A s \in signals : SignalOK(s, events), signals # {}
  PROVE  Max({s.weight : s \in signals}) \in 0..100
<1>1. PICK W : W = {s.weight : s \in signals}
  OBVIOUS
<1>2. W \subseteq 0..100 /\ W # {}
  BY <1>1 DEF SignalOK
<1>3. Max(W) \in W
  BY <1>2, MaxIn
<1> QED  BY <1>1, <1>2, <1>3

\* The score stays within its scale.
LEMMA ScoreBound ==
  ASSUME NEW events, NEW signals, \A s \in signals : SignalOK(s, events), NEW critical
  PROVE  score_severity(signals, critical) \in 0..100
<1>1. CASE signals = {}
  BY <1>1 DEF score_severity
<1>2. CASE signals # {}
  <2>1. PICK n, m, x, y, bonus :
          /\ n = Cardinality(corroborating_rules(signals)) /\ m = Max({s.weight : s \in signals})
          /\ x = Min({20, 5 * (n - 1)}) /\ y = Max({0, x}) /\ bonus = IF critical # {} THEN 10 ELSE 0
    OBVIOUS
  <2>2. n \in Nat /\ m \in 0..100
    BY <1>2, <2>1, RulesCounted, StrongestSignal
  <2>3. x = IF 20 <= 5 * (n - 1) THEN 20 ELSE 5 * (n - 1)
    BY <2>1, <2>2, OfTwo
  <2>4. x \in Int
    BY <2>2, <2>3
  <2>5. y = IF 0 <= x THEN x ELSE 0
    <3>1. 0 \in Int
      OBVIOUS
    <3> QED  BY <2>1, <2>4, <3>1, OfTwo
  <2>6. m + y + bonus \in Nat
    BY <2>1, <2>2, <2>4, <2>5
  <2>7. Min({100, m + y + bonus}) = IF 100 <= m + y + bonus THEN 100 ELSE m + y + bonus
    BY <2>6, OfTwo
  <2>8. score_severity(signals, critical) = Min({100, m + y + bonus})
    BY <1>2, <2>1 DEF score_severity
  <2> QED  BY <2>6, <2>7, <2>8
<1> QED  BY <1>1, <1>2

\* Confidence stays within its scale.
LEMMA ThreatConfidenceBound ==
  ASSUME NEW events, EventsOK(events), NEW signals, \A s \in signals : SignalOK(s, events),
         NEW status \in DOMAIN EnrichmentConfidence, NEW gaps, IsFiniteSet(gaps)
  PROVE  threat_confidence(events, signals, status, gaps) \in Scale
<1>1. CASE events = {}
  BY <1>1 DEF threat_confidence, Scale
<1>2. CASE events # {}
  <2>1. PICK n, quality, strong, z, x, corroboration, g, u, gapFactor, y :
          /\ n = Cardinality(events) /\ quality = Total([e \in events |-> e.confidence])
          /\ strong = Cardinality(corroborating_rules(signals))
          /\ z = 50 + 25 * (strong - 1) /\ x = Min({100, z})
          /\ corroboration = CASE signals = {} -> 80
                               [] signals # {} /\ strong = 0 -> 50
                               [] OTHER -> x
          /\ g = Cardinality(gaps) /\ u = 100 - 10 * g /\ gapFactor = Max({60, u})
          /\ y = EnrichmentConfidence[status]
    OBVIOUS
  <2>2. n \in Nat /\ n # 0 /\ strong \in Nat /\ g \in Nat
    BY <1>2, <2>1, RulesCounted, FS_CardinalityType, FS_EmptySet DEF EventsOK
  <2>3. quality \in 0..(100 * n)
    <3>1. [e \in events |-> e.confidence] \in [events -> 0..100]
      BY DEF EventsOK
    <3> QED  BY <2>1, <3>1, TotalBound DEF EventsOK
  <2>4. x = IF 100 <= z THEN 100 ELSE z
    <3>1. 100 \in Int /\ z \in Int
      BY <2>1, <2>2
    <3> QED  BY <2>1, <3>1, OfTwo
  <2>5. corroboration \in 0..100
    <3>1. CASE signals = {} \/ strong = 0
      BY <2>1, <3>1
    <3>2. CASE signals # {} /\ strong # 0
      <4>1. corroboration = x
        BY <2>1, <3>2
      <4> QED  BY <2>1, <2>2, <2>4, <3>2, <4>1
    <3> QED  BY <3>1, <3>2
  <2>6. gapFactor = IF 60 <= u THEN u ELSE 60
    <3>1. 60 \in Int /\ u \in Int
      BY <2>1, <2>2
    <3> QED  BY <2>1, <3>1, OfTwo
  <2>7. gapFactor \in 0..100
    BY <2>1, <2>2, <2>6
  <2>8. y \in 0..100
    BY <2>1 DEF EnrichmentConfidence
  <2>9. quality * corroboration \in 0..((100 * n) * 100) /\ 100 * n \in Nat
    BY <2>2, <2>3, <2>5, ProductBound
  <2>10. (quality * corroboration) * y \in 0..(((100 * n) * 100) * 100) /\ (100 * n) * 100 \in Nat
    BY <2>2, <2>8, <2>9, ProductBound
  <2>11. ((quality * corroboration) * y) * gapFactor \in 0..((((100 * n) * 100) * 100) * 100)
    BY <2>2, <2>7, <2>10, ProductBound
  <2>12. PICK a, b : a = ((quality * corroboration) * y) * gapFactor /\ b = n * 10000
    OBVIOUS
  <2>13. a \in Nat /\ b \in Nat \ {0} /\ a <= 10000 * b
    BY <2>2, <2>11, <2>12
  <2>14. RoundDiv(a, b) \in Scale
    BY <2>13, RoundedConfidence
  <2>15. threat_confidence(events, signals, status, gaps) = RoundDiv(a, b)
    BY <1>2, <2>1, <2>12 DEF threat_confidence
  <2> QED  BY <2>14, <2>15
<1> QED  BY <1>1, <1>2

\* What the later stages rely on in an assessment.
ThreatOK(t, events) ==
  /\ t.ran = TRUE
  /\ \A s \in t.signals : SignalOK(s, events)
  /\ \A i \in t.iocs : IocOK(i, events)
  /\ t.score \in 0..100 /\ t.confidence \in Scale
  /\ t.verdict = "benign" <=> t.signals = {}
  /\ events = {} => t.verdict = "benign" /\ t.confidence = 0
  /\ (\E i \in t.iocs : i.type \in ENRICHABLE_TYPES /\ ~i.internal /\ ~i.enriched) => t.enrichment # "complete"
  /\ IsFiniteSet(t.techniques) /\ \A x \in t.techniques : x.id \in TECHNIQUES
  /\ t.signals = {} => t.techniques = {}

\* Only signals map to techniques.
LEMMA TechniquesMapped ==
  ASSUME NEW signals
  PROVE  LET found == map_techniques(signals) IN
         /\ IsFiniteSet(found) /\ \A x \in found : x.id \in TECHNIQUES
         /\ signals = {} => found = {}
<1> DEFINE by(t)   == {s \in signals : t \in s.techniques}
           conf(t) == Min({9500, 4000 + 50 * Max({s.weight : s \in by(t)}) + 1200 * (Cardinality(by(t)) - 1)})
           made(t) == [id |-> t, rules |-> {s.rule : s \in by(t)}, events |-> UNION {s.events : s \in by(t)},
                       confidence |-> conf(t)]
<1>1. PICK T : T = TECHNIQUES \cap UNION {s.techniques : s \in signals}
  OBVIOUS
<1>2. map_techniques(signals) = {made(t) : t \in T}
  BY <1>1 DEF map_techniques
<1>3. \A t \in T : made(t).id = t /\ t \in TECHNIQUES
  BY <1>1
<1> HIDE DEF made
<1>4. PICK f : f = [t \in TECHNIQUES |-> made(t)]
  OBVIOUS
<1>5. \A x \in map_techniques(signals) : \E t \in TECHNIQUES : f[t] = x
  BY <1>2, <1>3, <1>4
<1>6. IsFiniteSet(map_techniques(signals))
  BY <1>5, FiniteTechniques, FiniteImage
<1>7. signals = {} => T = {}
  BY <1>1
<1> QED  BY <1>2, <1>3, <1>6, <1>7

\* What an assessment is, whatever threat intelligence says.
LEMMA ThreatFacts ==
  ASSUME NEW events, EventsOK(events), NEW gaps, IsFiniteSet(gaps), NEW provider, NEW chunks, NEW criticalAssets
  PROVE  ThreatOK(assess(events, gaps, provider, chunks, criticalAssets), events)
<1>0. PICK t : t = assess(events, gaps, provider, chunks, criticalAssets)
  OBVIOUS
<1>1. PICK en : en = enrich_indicators(extract_iocs(events), provider)
  OBVIOUS
<1>2. /\ t.ran = TRUE /\ t.iocs = en.iocs /\ t.enrichment = en.status
      /\ t.signals = evaluate_rules(events) \cup signal_from_hostile_indicators(en.iocs)
      /\ t.techniques = map_techniques(t.signals)
      /\ t.score = score_severity(t.signals, criticalAssets \cap {e.host : e \in events})
      /\ t.verdict = derive_verdict(t.score, t.signals, t.iocs)
      /\ t.confidence = threat_confidence(events, t.signals, t.enrichment, gaps)
  BY <1>0, <1>1 DEF assess
<1>3. /\ \A i \in t.iocs : IocOK(i, events)
      /\ t.enrichment \in {"complete", "degraded", "unavailable"}
      /\ (\E i \in t.iocs : i.type \in ENRICHABLE_TYPES /\ ~i.internal /\ ~i.enriched) => t.enrichment # "complete"
      /\ events = {} => t.iocs = {}
  BY <1>1, <1>2, Enriched
<1>4. \A s \in t.signals : SignalOK(s, events)
  BY <1>2, <1>3, RuleSignals, HostileSignal
<1>5. t.score \in 0..100
  <2>1. PICK sg, cr : sg = t.signals /\ cr = criticalAssets \cap {e.host : e \in events}
    OBVIOUS
  <2>2. score_severity(sg, cr) \in 0..100
    BY <1>4, <2>1, ScoreBound
  <2> QED  BY <1>2, <2>1, <2>2
<1>6. t.confidence \in Scale
  <2>1. PICK sg, st : sg = t.signals /\ st = t.enrichment
    OBVIOUS
  <2>2. (\A s \in sg : SignalOK(s, events)) /\ st \in DOMAIN EnrichmentConfidence
    BY <1>3, <1>4, <2>1 DEF EnrichmentConfidence
  <2>3. threat_confidence(events, sg, st, gaps) \in Scale
    BY <2>2, ThreatConfidenceBound
  <2> QED  BY <1>2, <2>1, <2>3
<1>10. events = {} => t.confidence = 0
  BY <1>2 DEF threat_confidence
<1>7. t.verdict = "benign" <=> t.signals = {}
  BY <1>2 DEF derive_verdict
<1>8. events = {} => t.signals = {}
  BY <1>4 DEF SignalOK, Ids
<1>9. /\ IsFiniteSet(t.techniques) /\ \A x \in t.techniques : x.id \in TECHNIQUES
      /\ t.signals = {} => t.techniques = {}
  BY <1>2, TechniquesMapped
<1>11. ThreatOK(t, events)
  BY <1>2, <1>3, <1>4, <1>5, <1>6, <1>7, <1>8, <1>9, <1>10 DEF ThreatOK
<1> QED  BY <1>0, <1>11

-----------------------------------------------------------------------------
(* Vulnerability research                                                  *)

\* The bounds of a range are those of a feed.
FromFeed(range) == {range.startIncl, range.startExcl, range.endIncl, range.endExcl} \subseteq BoundVersions

\* A record of a CVE with a list of ranges and, if any, a score.
CveOK(r) ==
  /\ IsSeq(r.affected) /\ \A g \in ToSet(r.affected) : FromFeed(g)
  /\ r.cvss # None => r.cvss.score \in Nat

\* What the feed's entry is parsed to.
LEMMA ParsedCve ==
  ASSUME NEW e \in FeedEntries, IsSeq(e.metrics), IsSeq(e.matches), NEW stale,
         \A j \in DOMAIN e.metrics : e.metrics[j] # None => e.metrics[j].score \in Nat
  PROVE  CveOK(parse_cve(e, stale))
<1> DEFINE range(m) == [product |-> m.product, startIncl |-> m.startIncl, startExcl |-> m.startExcl,
                        endIncl |-> m.endIncl, endExcl |-> m.endExcl]
<1>1. PICK readable : readable = {i \in DOMAIN e.metrics : e.metrics[i] # None}
  OBVIOUS
<1>2. PICK ms, ss : /\ ms = e.matches
                    /\ ss = [i \in DOMAIN ms |-> IF ms[i].vulnerable /\ ms[i].product # None
                                                 THEN <<range(ms[i])>> ELSE <<>>]
  OBVIOUS
<1>3. PICK v : v = IF readable = {} THEN None ELSE e.metrics[Min(readable)]
  OBVIOUS
<1>4. parse_cve(e, stale) = [id |-> e.id, cvss |-> v, cwes |-> e.cwes, source |-> "nvd", stale |-> stale,
                             modified |-> e.modified, affected |-> FlattenSeq(ss)]
  BY <1>1, <1>2, <1>3 DEF parse_cve
<1>5. v # None => v.score \in Nat
  <2>1. readable # {} => Min(readable) \in readable
    <3>1. DOMAIN e.metrics = 1..Len(e.metrics) /\ Len(e.metrics) \in Nat
      BY FiniteList
    <3>2. readable \subseteq Nat
      BY <1>1, <3>1
    <3> QED  BY <3>2, MinIn
  <2> QED  BY <1>1, <1>3, <2>1
<1>6. IsSeq(FlattenSeq(ss)) /\ \A g \in ToSet(FlattenSeq(ss)) : FromFeed(g)
  <2>1. DOMAIN ms = 1..Len(ms) /\ Len(ms) \in Nat
    BY <1>2, FiniteList
  <2>2. \A i \in 1..Len(ms) : FromFeed(range(ms[i]))
    <3>1. SUFFICES ASSUME NEW i \in 1..Len(ms)  PROVE FromFeed(range(ms[i]))
      OBVIOUS
    <3>2. PICK m : m = ms[i]
      OBVIOUS
    <3>3. m \in ToSet(e.matches)
      BY <1>2, <2>1, <3>2 DEF ToSet
    <3>4. {m.startIncl, m.startExcl, m.endIncl, m.endExcl} \subseteq BoundVersions
      BY <3>3 DEF BoundVersions
    <3> QED  BY <3>2, <3>4 DEF FromFeed
  <2> HIDE DEF range
  <2>3. ss = [i \in 1..Len(ms) |-> ss[i]] /\ \A i \in 1..Len(ms) : ss[i] = <<>> \/ ss[i] = <<range(ms[i])>>
    BY <1>2, <2>1
  <2>4. \A i \in 1..Len(ms) : IsSeq(ss[i]) /\ \A g \in ToSet(ss[i]) : g = range(ms[i])
    BY <2>3, SmallLists
  <2>5. /\ IsSeq(FlattenSeq(ss))
        /\ \A g : g \in ToSet(FlattenSeq(ss)) <=> \E i \in 1..Len(ms) : g \in ToSet(ss[i])
    BY <2>1, <2>3, <2>4, FilteredList
  <2>6. ASSUME NEW g \in ToSet(FlattenSeq(ss))  PROVE FromFeed(g)
    <3>1. PICK i \in 1..Len(ms) : g \in ToSet(ss[i])
      BY <2>5
    <3>2. g = range(ms[i])
      BY <2>4, <3>1
    <3> QED  BY <2>2, <3>1, <3>2
  <2> QED  BY <2>5, <2>6
<1> QED  BY <1>4, <1>5, <1>6 DEF CveOK

\* What one lookup gives.
LEMMA LookedUp ==
  ASSUME NEW f \in Feeds, NEW q \in Asked
  PROVE  LET found == ResearchLookup(q, f.feed, f.corpus).records IN
         IsSeq(found) /\ \A r \in ToSet(found) : CveOK(r)
<1>1. PICK live, chunks :
        /\ live = IF f.feed = None THEN [ok |-> FALSE, records |-> <<>>] ELSE nvd_query(f.feed[q])
        /\ chunks = IF f.corpus = None THEN <<>> ELSE f.corpus[q]
  OBVIOUS
<1>2. CASE live.ok
  <2>1. ResearchLookup(q, f.feed, f.corpus).records = live.records
    BY <1>1, <1>2 DEF ResearchLookup
  <2>2. f.feed # None /\ f.feed[q].status # "error"
    BY <1>1, <1>2 DEF nvd_query
  <2>3. PICK es, stale : es = f.feed[q].entries /\ stale = (f.feed[q].status = "expired")
    OBVIOUS
  <2>4. live.records = [i \in DOMAIN es |-> parse_cve(es[i], stale)]
    BY <1>1, <2>2, <2>3 DEF nvd_query
  <2>5. IsSeq(es) /\ \A i \in DOMAIN es : /\ IsSeq(es[i].metrics) /\ IsSeq(es[i].matches)
                                          /\ \A j \in DOMAIN es[i].metrics : es[i].metrics[j] # None => es[i].metrics[j].score \in Nat
    BY <2>2, <2>3, FeedShape
  <2>6. \A i \in DOMAIN es : CveOK(parse_cve(es[i], stale))
    <3>1. \A i \in DOMAIN es : es[i] \in ToSet(f.feed[q].entries)
      BY <2>3 DEF ToSet
    <3>2. ToSet(f.feed[q].entries) \subseteq FeedEntries
      BY <2>2 DEF FeedEntries
    <3> QED  BY <2>5, <3>1, <3>2, ParsedCve
  <2>7. DOMAIN es = 1..Len(es) /\ Len(es) \in Nat
    BY <2>5, FiniteList
  <2>8. PICK found : found = live.records
    OBVIOUS
  <2>9. found = [i \in 1..Len(es) |-> found[i]] /\ \A i \in 1..Len(es) : CveOK(found[i])
    BY <2>4, <2>6, <2>7, <2>8
  <2>10. IsSeq(found)
    BY <2>7, <2>9, ListOf
  <2>11. \A r \in ToSet(found) : CveOK(r)
    BY <2>9 DEF ToSet
  <2> QED  BY <2>1, <2>8, <2>10, <2>11
<1>3. CASE ~live.ok
  <2>1. PICK ss : ss = [i \in DOMAIN chunks |-> records_from_chunk(chunks[i])]
    OBVIOUS
  <2>2. ResearchLookup(q, f.feed, f.corpus).records = FlattenSeq(ss)
    BY <1>1, <1>3, <2>1 DEF ResearchLookup
  <2>3. IsSeq(chunks) /\ \A i \in DOMAIN chunks : IsSeq(chunks[i].ids) /\ (chunks[i].cvss # None => chunks[i].cvss.score \in Nat)
    <3>1. CASE f.corpus = None
      <4>1. chunks = <<>> /\ DOMAIN chunks = {}
        BY <1>1, <3>1
      <4> QED  BY <4>1, SmallLists
    <3>2. CASE f.corpus # None
      BY <1>1, <3>2, FeedShape
    <3> QED  BY <3>1, <3>2
  <2>4. ASSUME NEW i \in DOMAIN chunks  PROVE IsSeq(ss[i]) /\ \A r \in ToSet(ss[i]) : CveOK(r)
    <3>1. PICK k, s : k = chunks[i] /\ s = ss[i]
      OBVIOUS
    <3>2. s = [j \in DOMAIN k.ids |-> [id |-> k.ids[j], cvss |-> k.cvss, cwes |-> k.cwes, source |-> "corpus",
                                       stale |-> TRUE, modified |-> None, affected |-> <<>>]]
      BY <2>1, <3>1 DEF records_from_chunk
    <3>3. DOMAIN k.ids = 1..Len(k.ids) /\ Len(k.ids) \in Nat /\ (k.cvss # None => k.cvss.score \in Nat)
      BY <2>3, <3>1, FiniteList
    <3>4. s = [j \in 1..Len(k.ids) |-> s[j]] /\ \A j \in 1..Len(k.ids) : s[j].affected = <<>> /\ s[j].cvss = k.cvss
      BY <3>2, <3>3
    <3>5. \A j \in 1..Len(k.ids) : CveOK(s[j])
      BY <3>3, <3>4, SmallLists DEF CveOK
    <3>6. IsSeq(s)
      BY <3>3, <3>4, ListOf
    <3>7. \A r \in ToSet(s) : CveOK(r)
      BY <3>4, <3>5 DEF ToSet
    <3> QED  BY <3>1, <3>6, <3>7
  <2>5. DOMAIN chunks = 1..Len(chunks) /\ Len(chunks) \in Nat
    BY <2>3, FiniteList
  <2>6. ss = [i \in 1..Len(chunks) |-> ss[i]] /\ \A i \in 1..Len(chunks) : IsSeq(ss[i])
    BY <2>1, <2>4, <2>5
  <2>7. IsSeq(FlattenSeq(ss)) /\ \A r : r \in ToSet(FlattenSeq(ss)) <=> \E i \in 1..Len(chunks) : r \in ToSet(ss[i])
    BY <2>5, <2>6, FilteredList
  <2>8. \A r \in ToSet(FlattenSeq(ss)) : CveOK(r)
    BY <2>4, <2>5, <2>7
  <2> QED  BY <2>2, <2>7, <2>8
<1> QED  BY <1>2, <1>3

\* What is asked of the feed.
LEMMA QueriesAsked ==
  ASSUME NEW events, EventsOK(events), NEW k \in Cases, NEW assets, assets = Seeded(k).assets,
         NEW queries, queries = find_cve_ids(events) \o products_to_search(assets)
  PROVE  IsSeq(queries) /\ ToSet(queries) \subseteq Asked
<1>1. IsSeq(find_cve_ids(events)) /\ ToSet(find_cve_ids(events)) \subseteq Asked
  <2>1. PICK R, read : R = {p \in events \X events : Earlier(p[1], p[2])} /\ read = Sorted(events, R)
    OBVIOUS
  <2>2. \A e, f \in events : <<e, f>> \in R <=> Earlier(e, f)
    BY <2>1
  <2>3. OrdersAll(events, R)
    BY <2>2, EarlierOrder DEF OrdersAll
  <2>4. read \in Seq(events)
    BY <2>1, <2>3, SortedOrder DEF EventsOK
  <2>5. DOMAIN read = 1..Len(read) /\ Len(read) \in Nat /\ \A i \in 1..Len(read) : read[i] \in events
    BY <2>4
  <2>6. PICK ss : ss = [i \in 1..Len(read) |-> read[i].cves]
    OBVIOUS
  <2>7. ss = [i \in 1..Len(read) |-> ss[i]] /\ \A i \in 1..Len(read) : IsSeq(ss[i]) /\ ToSet(ss[i]) \subseteq Asked
    BY <2>5, <2>6 DEF EventsOK
  <2>8. IsSeq(FlattenSeq(ss)) /\ \A x : x \in ToSet(FlattenSeq(ss)) <=> \E i \in 1..Len(read) : x \in ToSet(ss[i])
    BY <2>5, <2>7, FilteredList
  <2>9. ToSet(FlattenSeq(ss)) \subseteq Asked
    BY <2>7, <2>8
  <2>10. find_cve_ids(events) = Unique(FlattenSeq(ss))
    BY <2>1, <2>5, <2>6 DEF find_cve_ids
  <2> QED  BY <2>8, <2>9, <2>10, UniqueList
<1>2. IsSeq(products_to_search(assets)) /\ ToSet(products_to_search(assets)) \subseteq Asked
  <2>1. /\ IsSeq(assets) /\ \A i \in DOMAIN assets : IsSeq(assets[i].software)
        /\ \A i \in DOMAIN assets : \A j \in DOMAIN assets[i].software : assets[i].software[j].product \in Asked
    BY Seeds
  <2>2. PICK ss : ss = [i \in DOMAIN assets |-> [j \in DOMAIN assets[i].software |-> assets[i].software[j].product]]
    OBVIOUS
  <2>3. DOMAIN assets = 1..Len(assets) /\ Len(assets) \in Nat
    BY <2>1, FiniteList
  <2>4. ASSUME NEW i \in 1..Len(assets)  PROVE IsSeq(ss[i]) /\ ToSet(ss[i]) \subseteq Asked
    <3>1. PICK s, l : s = ss[i] /\ l = assets[i].software
      OBVIOUS
    <3>2. s = [j \in DOMAIN l |-> l[j].product] /\ IsSeq(l) /\ \A j \in DOMAIN l : l[j].product \in Asked
      BY <2>1, <2>2, <2>3, <3>1
    <3>3. DOMAIN l = 1..Len(l) /\ Len(l) \in Nat
      BY <3>2, FiniteList
    <3>4. s = [j \in 1..Len(l) |-> s[j]] /\ \A j \in 1..Len(l) : s[j] \in Asked
      BY <3>2, <3>3
    <3>5. IsSeq(s)
      BY <3>3, <3>4, ListOf
    <3>6. ToSet(s) \subseteq Asked
      BY <3>4 DEF ToSet
    <3> QED  BY <3>1, <3>5, <3>6
  <2>5. ss = [i \in 1..Len(assets) |-> ss[i]]
    BY <2>2, <2>3
  <2>6. IsSeq(FlattenSeq(ss)) /\ \A x : x \in ToSet(FlattenSeq(ss)) <=> \E i \in 1..Len(assets) : x \in ToSet(ss[i])
    BY <2>3, <2>4, <2>5, FilteredList
  <2>7. ToSet(FlattenSeq(ss)) \subseteq Asked
    BY <2>4, <2>6
  <2>8. PICK all : all = Unique(FlattenSeq(ss))
    OBVIOUS
  <2>9. IsSeq(all) /\ ToSet(all) \subseteq Asked
    BY <2>6, <2>7, <2>8, UniqueList
  <2>10. PICK m : m = IF MaxProducts < Len(all) THEN MaxProducts ELSE Len(all)
    BY SMTT(30)
  <2>11. products_to_search(assets) = SubSeq(all, 1, m)
    BY <2>2, <2>8, <2>10 DEF products_to_search
  <2>12. IsSeq(SubSeq(all, 1, m)) /\ ToSet(SubSeq(all, 1, m)) = {all[i] : i \in 1..m}
    BY <2>9, <2>10, CutList, ResearchBudget
  <2>13. \A i \in 1..m : all[i] \in ToSet(all)
    <3>1. DOMAIN all = 1..Len(all) /\ Len(all) \in Nat
      BY <2>9, FiniteList
    <3>2. PICK l \in Nat : l = Len(all)
      BY <3>1
    <3>3. MaxProducts \in Nat
      BY ResearchBudget
    <3>4. m \in Nat /\ m <= l
      BY <2>10, <3>2, <3>3
    <3>5. \A i \in 1..m : i \in 1..l
      BY <3>4
    <3>6. \A i \in 1..m : i \in DOMAIN all
      BY <3>1, <3>2, <3>5
    <3> QED  BY <3>6 DEF ToSet
  <2> QED  BY <2>9, <2>11, <2>12, <2>13
<1> QED  BY <1>1, <1>2, TwoLists

\* What an installation shows of a vulnerability.
Shown(host, s, range) ==
  [host |-> host, product |-> s.product, version |-> s.version, reason |-> assess_one(s.version, range)]

\* The evidence is what every installation shows of every range for its product.
LEMMA EvidenceShown ==
  ASSUME NEW cve, IsSeq(cve.affected), NEW assets, IsSeq(assets),
         \A i \in DOMAIN assets : IsSeq(assets[i].software)
  PROVE  /\ IsSeq(Evidence(cve, assets))
         /\ \A e : e \in ToSet(Evidence(cve, assets)) <=>
              \E i \in DOMAIN assets : \E j \in DOMAIN assets[i].software : \E m \in DOMAIN cve.affected :
                /\ products_match(assets[i].software[j].product, cve.affected[m].product)
                /\ e = Shown(assets[i].host, assets[i].software[j], cve.affected[m])
<1>1. PICK ranges : ranges = cve.affected
  OBVIOUS
<1> DEFINE one(host, s, m) == IF products_match(s.product, ranges[m].product) THEN <<Shown(host, s, ranges[m])>> ELSE <<>>
           each(host, s) == [m \in DOMAIN ranges |-> one(host, s, m)]
           shows(host, s) == FlattenSeq(each(host, s))
           row(i) == [j \in DOMAIN assets[i].software |-> shows(assets[i].host, assets[i].software[j])]
           rows == [i \in DOMAIN assets |-> FlattenSeq(row(i))]
<1>2. Evidence(cve, assets) = FlattenSeq(rows)
  BY <1>1 DEF Evidence, Shown
<1>3. DOMAIN ranges = 1..Len(ranges) /\ Len(ranges) \in Nat
  BY <1>1, FiniteList
<1>4. DOMAIN assets = 1..Len(assets) /\ Len(assets) \in Nat
  BY FiniteList
<1>5. ASSUME NEW host, NEW s
      PROVE  /\ IsSeq(shows(host, s))
             /\ \A e : e \in ToSet(shows(host, s)) <=>
                  \E m \in DOMAIN ranges : products_match(s.product, ranges[m].product) /\ e = Shown(host, s, ranges[m])
  <2>1. \A m \in DOMAIN ranges :
          /\ products_match(s.product, ranges[m].product) => one(host, s, m) = <<Shown(host, s, ranges[m])>>
          /\ ~products_match(s.product, ranges[m].product) => one(host, s, m) = <<>>
    OBVIOUS
  <2> HIDE DEF one
  <2>2. \A m \in DOMAIN ranges : IsSeq(one(host, s, m)) /\ \A e : e \in ToSet(one(host, s, m)) <=>
           products_match(s.product, ranges[m].product) /\ e = Shown(host, s, ranges[m])
    BY <2>1, SmallLists
  <2>3. PICK ss : ss = each(host, s)
    OBVIOUS
  <2>4. ss = [m \in 1..Len(ranges) |-> ss[m]] /\ \A m \in 1..Len(ranges) : ss[m] = one(host, s, m)
    BY <1>3, <2>3
  <2>5. \A m \in 1..Len(ranges) : IsSeq(ss[m])
    BY <1>3, <2>2, <2>4
  <2>6. IsSeq(FlattenSeq(ss)) /\ \A x : x \in ToSet(FlattenSeq(ss)) <=> \E m \in 1..Len(ranges) : x \in ToSet(ss[m])
    BY <1>3, <2>4, <2>5, FilteredList
  <2> QED  BY <1>3, <2>2, <2>3, <2>4, <2>6
<1> HIDE DEF shows
<1>6. ASSUME NEW i \in DOMAIN assets
      PROVE  /\ IsSeq(rows[i])
             /\ \A e : e \in ToSet(rows[i]) <=>
                  \E j \in DOMAIN assets[i].software : e \in ToSet(shows(assets[i].host, assets[i].software[j]))
  <2>1. PICK l, h : l = assets[i].software /\ h = assets[i].host
    OBVIOUS
  <2>2. IsSeq(l)
    BY <2>1
  <2>3. DOMAIN l = 1..Len(l) /\ Len(l) \in Nat
    BY <2>2, FiniteList
  <2>4. PICK ss : ss = row(i)
    OBVIOUS
  <2>5. ss = [j \in 1..Len(l) |-> ss[j]] /\ \A j \in 1..Len(l) : ss[j] = shows(h, l[j])
    BY <2>1, <2>3, <2>4
  <2>6. \A j \in 1..Len(l) : IsSeq(ss[j])
    BY <1>5, <2>5
  <2>7. IsSeq(FlattenSeq(ss)) /\ \A x : x \in ToSet(FlattenSeq(ss)) <=> \E j \in 1..Len(l) : x \in ToSet(ss[j])
    BY <2>3, <2>5, <2>6, FilteredList
  <2>8. rows[i] = FlattenSeq(ss)
    BY <2>4
  <2> QED  BY <2>1, <2>3, <2>5, <2>7, <2>8
<1>7. PICK rr : rr = rows
  OBVIOUS
<1>8. rr = [i \in 1..Len(assets) |-> rr[i]] /\ \A i \in 1..Len(assets) : IsSeq(rr[i])
  BY <1>4, <1>6, <1>7
<1>9. IsSeq(FlattenSeq(rr)) /\ \A x : x \in ToSet(FlattenSeq(rr)) <=> \E i \in 1..Len(assets) : x \in ToSet(rr[i])
  BY <1>4, <1>8, FilteredList
<1>10. \A e : e \in ToSet(FlattenSeq(rr)) <=>
         \E i \in DOMAIN assets : \E j \in DOMAIN assets[i].software :
           e \in ToSet(shows(assets[i].host, assets[i].software[j]))
  BY <1>4, <1>6, <1>7, <1>9
<1>11. \A e : e \in ToSet(FlattenSeq(rr)) <=>
         \E i \in DOMAIN assets : \E j \in DOMAIN assets[i].software : \E m \in DOMAIN ranges :
           /\ products_match(assets[i].software[j].product, ranges[m].product)
           /\ e = Shown(assets[i].host, assets[i].software[j], ranges[m])
  BY <1>5, <1>10
<1>12. Evidence(cve, assets) = FlattenSeq(rr)
  BY <1>2, <1>7
<1> QED  BY <1>1, <1>9, <1>11, <1>12

\* What is concluded from the evidence.
LEMMA Judged ==
  ASSUME NEW cve, NEW assets
  PROVE  LET a == assess_applicability(cve, assets)
             seen == {e.reason : e \in ToSet(a.evidence)}
         IN  /\ a.evidence = IF cve.affected = <<>> THEN <<>> ELSE Evidence(cve, assets)
             /\ a.applicability \in {"confirmed", "candidate", "not_applicable"}
             /\ a.applicability = "confirmed" <=> a.evidence # <<>> /\ "in_range" \in seen
             /\ a.applicability = "not_applicable" <=> a.evidence # <<>> /\ seen = {"not_in_range"}
<1>1. PICK ev : ev = Evidence(cve, assets)
  OBVIOUS
<1>2. PICK why : why = {e.reason : e \in ToSet(ev)}
  OBVIOUS
<1>3. CASE cve.affected = <<>>
  <2>1. assess_applicability(cve, assets) = [applicability |-> "candidate", evidence |-> <<>>, reasons |-> {"no_range"}]
    BY <1>3 DEF assess_applicability
  <2> QED  BY <1>3, <2>1
<1>4. CASE cve.affected # <<>> /\ ev = <<>>
  <2>1. assess_applicability(cve, assets) = [applicability |-> "candidate", evidence |-> <<>>, reasons |-> {"not_in_inventory"}]
    BY <1>1, <1>4 DEF assess_applicability
  <2> QED  BY <1>1, <1>4, <2>1
<1>5. CASE cve.affected # <<>> /\ ev # <<>>
  <2>1. PICK what : what = IF "in_range" \in why THEN "confirmed" ELSE IF why = {"not_in_range"} THEN "not_applicable" ELSE "candidate"
    OBVIOUS
  <2>2. assess_applicability(cve, assets) = [applicability |-> what, evidence |-> ev, reasons |-> why]
    BY <1>1, <1>2, <1>5, <2>1 DEF assess_applicability
  <2>3. /\ what \in {"confirmed", "candidate", "not_applicable"}
        /\ what = "confirmed" <=> "in_range" \in why
        /\ what = "not_applicable" <=> why = {"not_in_range"}
    BY <2>1
  <2>4. PICK a : a = assess_applicability(cve, assets)
    OBVIOUS
  <2>5. a.applicability = what /\ a.evidence = ev
    BY <2>2, <2>4
  <2>6. {e.reason : e \in ToSet(a.evidence)} = why
    BY <1>2, <2>5
  <2>7. /\ a.evidence = Evidence(cve, assets)
        /\ a.applicability \in {"confirmed", "candidate", "not_applicable"}
        /\ a.applicability = "confirmed" <=> a.evidence # <<>> /\ "in_range" \in {e.reason : e \in ToSet(a.evidence)}
        /\ a.applicability = "not_applicable" <=> a.evidence # <<>> /\ {e.reason : e \in ToSet(a.evidence)} = {"not_in_range"}
    BY SMTT(30), <1>1, <1>5, <2>3, <2>5, <2>6
  <2> QED  BY <1>5, <2>4, <2>7
<1> QED  BY <1>3, <1>4, <1>5

\* What the later stages rely on in the assessment of a vulnerability.
AssessedOK(a, assets, stale) ==
  /\ a.applicability = assess_applicability(a.record, assets).applicability
  /\ a.evidence = assess_applicability(a.record, assets).evidence
  /\ a.citations # {} /\ a.confidence \in Scale /\ CveOK(a.record)
  /\ {e.host : e \in ToSet(a.evidence)} \subseteq {h.host : h \in ToSet(assets)}
  /\ a.record.stale => stale

\* What they rely on in a dossier.
DossierOK(d, assets) ==
  /\ d.ran = TRUE \/ d = NoDossier
  /\ d.confidence \in Scale
  /\ IsFiniteSet(d.confirmed) /\ IsFiniteSet(d.candidates)
  /\ \A a \in d.confirmed : a.applicability = "confirmed" /\ AssessedOK(a, assets, d.stale)
  /\ \A a \in d.candidates : a.applicability = "candidate" /\ AssessedOK(a, assets, d.stale)
  /\ \A a \in d.ruledOut : a.applicability = "not_applicable" /\ AssessedOK(a, assets, d.stale)

\* A vulnerability is tied to nothing but the events of the signals.
SupportedBy(d, t) == \A a \in d.confirmed : a.mapping.events \subseteq UNION {s.events : s \in t.signals}

\* The confidence in one assessment.
LEMMA AssessmentConfidenceBound ==
  ASSUME NEW r, NEW a, NEW mapping
  PROVE  assessment_confidence(r, a, mapping) \in Scale
<1>1. PICK base : base = CASE a.applicability = "confirmed"      -> 9000
                [] a.applicability = "not_applicable" -> 8000
                [] OTHER -> IF "version_unknown" \in a.reasons THEN 5000
                            ELSE IF "version_unparseable" \in a.reasons THEN 4500
                            ELSE IF "no_range" \in a.reasons THEN 3500 ELSE 3000
  OBVIOUS
<1>2. base \in Nat
  BY <1>1
<1>3. PICK aged : aged = IF r.stale THEN (base * 7) \div 10 ELSE base
  OBVIOUS
<1>4. aged \in Nat
  BY <1>2, <1>3
<1>5. PICK scored : scored = IF r.cvss = None THEN (aged * 9) \div 10 ELSE aged
  OBVIOUS
<1>6. scored \in Nat
  BY <1>4, <1>5
<1>7. PICK x : x = scored + (IF mapping.rules # {} THEN 500 ELSE 0)
  OBVIOUS
<1>8. x \in Nat
  BY <1>6, <1>7
<1>9. assessment_confidence(r, a, mapping) = Min({10000, x})
  BY <1>1, <1>3, <1>5, <1>7 DEF assessment_confidence
<1>10. PICK c \in Nat : c = 10000
  OBVIOUS
<1>11. Min({c, x}) = IF c <= x THEN c ELSE x
  BY <1>8, <1>10, OfTwo
<1>12. PICK y : y = Min({c, x})
  OBVIOUS
<1>13. c \in Nat /\ y = IF c <= x THEN c ELSE x
  BY <1>10, <1>11, <1>12
<1>14. y \in 0..c
  BY <1>8, <1>13
<1> QED  BY <1>9, <1>10, <1>12, <1>14 DEF Scale

\* One vulnerability assessed.
LEMMA CveAssessed ==
  ASSUME NEW r, CveOK(r), NEW assets, IsSeq(assets), \A i \in DOMAIN assets : IsSeq(assets[i].software),
         NEW assessment, NEW stale, r.stale => stale
  PROVE  /\ AssessedOK(cve_assess(r, assets, assessment), assets, stale) /\ cve_assess(r, assets, assessment).record = r
         /\ cve_assess(r, assets, assessment).mapping.events \subseteq UNION {s.events : s \in assessment.signals}
<1>1. PICK j, m, a : j = assess_applicability(r, assets) /\ m = map_to_observed(r, assessment) /\ a = cve_assess(r, assets, assessment)
  OBVIOUS
<1>2. /\ a.record = r /\ a.applicability = j.applicability /\ a.evidence = j.evidence
      /\ a.citations = citations_for(r) /\ a.confidence = assessment_confidence(r, j, m)
      /\ a.mapping = m
  BY <1>1 DEF cve_assess
<1>3. a.citations # {}
  BY <1>2 DEF citations_for
<1>4. a.confidence \in Scale
  BY <1>2, AssessmentConfidenceBound
<1>5. ASSUME NEW e \in ToSet(a.evidence)  PROVE e.host \in {h.host : h \in ToSet(assets)}
  <2>1. a.evidence = Evidence(r, assets)
    <3>1. a.evidence = IF r.affected = <<>> THEN <<>> ELSE Evidence(r, assets)
      BY <1>1, <1>2, Judged
    <3>2. a.evidence # <<>>
      BY <1>5, SmallLists
    <3> QED  BY <3>1, <3>2
  <2>2. PICK i \in DOMAIN assets : e.host = assets[i].host
    BY <1>5, <2>1, EvidenceShown DEF CveOK, Shown
  <2> QED  BY <2>2 DEF ToSet
<1>6. AssessedOK(a, assets, stale)
  BY <1>1, <1>2, <1>3, <1>4, <1>5 DEF AssessedOK
<1>7. m.events \subseteq UNION {s.events : s \in assessment.signals}
  BY <1>1 DEF map_to_observed
<1> QED  BY <1>1, <1>2, <1>6, <1>7

\* The confidence in all assessments.
LEMMA ResearchConfidenceBound ==
  ASSUME NEW all, IsFiniteSet(all), \A a \in all : a.confidence \in Scale, NEW assets, NEW stale
  PROVE  research_confidence(all, assets, stale) \in Scale
<1>1. CASE all = {}
  <2>1. research_confidence(all, assets, stale) = 0
    BY <1>1 DEF research_confidence
  <2> QED  BY <2>1 DEF Scale
<1>2. CASE all # {}
  <2>1. PICK f, n, x, y :
          /\ f = [a \in all |-> a.confidence] /\ n = Cardinality(all)
          /\ x = (IF assets = <<>> THEN 5 ELSE 10) /\ y = (IF stale THEN 7 ELSE 10)
    OBVIOUS
  <2>2. n \in Nat \ {0}
    BY <1>2, <2>1, FS_CardinalityType, FS_EmptySet
  <2>3. PICK c \in Nat : c = 10000
    OBVIOUS
  <2>4. f \in [all -> 0..c]
    <3>1. Scale = 0..c
      BY <2>3 DEF Scale
    <3> QED  BY <2>1, <3>1
  <2>5. PICK sum : sum = Total(f)
    OBVIOUS
  <2>6. sum \in 0..(c * n)
    BY <2>1, <2>4, <2>5, TotalBound
  <2>7. x \in 0..10 /\ y \in 0..10 /\ 10 \in Nat
    BY <2>1
  <2>8. PICK p : p = c * n
    OBVIOUS
  <2>9. p \in Nat
    BY <2>2, <2>3, <2>8
  <2>10. PICK q : q = sum * x
    OBVIOUS
  <2>11. q \in 0..(p * 10)
    BY <2>6, <2>7, <2>8, <2>9, <2>10, ProductBound
  <2>12. PICK r : r = p * 10
    OBVIOUS
  <2>13. r \in Nat
    BY <2>9, <2>12
  <2>14. PICK t : t = q * y
    OBVIOUS
  <2>15. t \in 0..(r * 10)
    BY <2>7, <2>11, <2>12, <2>13, <2>14, ProductBound
  <2>16. PICK b : b = n * 100
    OBVIOUS
  <2>17. b \in Nat \ {0} /\ t \in Nat /\ t <= 10000 * b
    BY <2>2, <2>3, <2>8, <2>9, <2>12, <2>13, <2>15, <2>16
  <2>18. RoundDiv(t, b) \in Scale
    BY <2>17, RoundedConfidence
  <2>19. research_confidence(all, assets, stale) = RoundDiv(t, b)
    BY <1>2, <2>1, <2>5, <2>10, <2>14, <2>16 DEF research_confidence
  <2> QED  BY <2>18, <2>19
<1> QED  BY <1>1, <1>2

\* Research gives a dossier, whatever the feed and the corpus answer.
LEMMA ResearchFacts ==
  ASSUME NEW events, EventsOK(events), NEW k \in Cases, NEW f \in Feeds, NEW assessment
  PROVE  LET assets == Seeded(k).assets
             d == research(assessment, assets, events, f.feed, f.corpus)
         IN  d.ran = TRUE /\ DossierOK(d, assets) /\ SupportedBy(d, assessment)
<1>0. PICK assets : assets = Seeded(k).assets
  OBVIOUS
<1>1. PICK d : d = research(assessment, assets, events, f.feed, f.corpus)
  OBVIOUS
<1>2. PICK queries : queries = find_cve_ids(events) \o products_to_search(assets)
  OBVIOUS
<1>3. PICK lookups : lookups = [i \in DOMAIN queries |-> ResearchLookup(queries[i], f.feed, f.corpus)]
  OBVIOUS
<1>4. PICK lists : lists = [i \in DOMAIN lookups |-> lookups[i].records]
  OBVIOUS
<1>5. PICK found : found = FlattenSeq(lists)
  OBVIOUS
<1>6. PICK records : records = merge(found)
  OBVIOUS
<1>7. PICK stale : stale = ((\E i \in DOMAIN lookups : ~lookups[i].ok) \/ \E r \in records : r.stale)
  OBVIOUS
<1>8. PICK all : all = {cve_assess(r, assets, assessment) : r \in records}
  OBVIOUS
<1>9. /\ d.ran = TRUE /\ d.stale = stale /\ d.confidence = research_confidence(all, assets, stale)
      /\ d.confirmed = {a \in all : a.applicability = "confirmed"}
      /\ d.candidates = {a \in all : a.applicability = "candidate"}
      /\ d.ruledOut = {a \in all : a.applicability = "not_applicable"}
  BY <1>1, <1>2, <1>3, <1>4, <1>5, <1>6, <1>7, <1>8 DEF research
<1>10. IsSeq(queries) /\ ToSet(queries) \subseteq Asked
  BY <1>0, <1>2, QueriesAsked
<1>11. DOMAIN queries = 1..Len(queries) /\ Len(queries) \in Nat /\ \A i \in DOMAIN queries : queries[i] \in Asked
  <2>1. \A i \in DOMAIN queries : queries[i] \in Asked
    BY <1>10 DEF ToSet
  <2> QED  BY <1>10, <2>1, FiniteList
<1>12. \A i \in 1..Len(queries) : IsSeq(lists[i]) /\ \A r \in ToSet(lists[i]) : CveOK(r)
  <2>1. SUFFICES ASSUME NEW i \in 1..Len(queries)  PROVE IsSeq(lists[i]) /\ \A r \in ToSet(lists[i]) : CveOK(r)
    OBVIOUS
  <2>2. lists[i] = ResearchLookup(queries[i], f.feed, f.corpus).records
    BY <1>3, <1>4, <1>11
  <2> QED  BY <1>11, <2>2, LookedUp
<1>13. lists = [i \in 1..Len(queries) |-> lists[i]]
  BY <1>3, <1>4, <1>11
<1>14. IsSeq(found) /\ \A r \in ToSet(found) : CveOK(r)
  <2>1. IsSeq(FlattenSeq(lists)) /\ \A r : r \in ToSet(FlattenSeq(lists)) <=> \E i \in 1..Len(queries) : r \in ToSet(lists[i])
    BY <1>11, <1>12, <1>13, FilteredList
  <2> QED  BY <1>5, <1>12, <2>1
<1>15. records \subseteq ToSet(found)
  BY <1>6 DEF merge, ToSet
<1>16. IsFiniteSet(records)
  BY <1>14, <1>15, FiniteList, FS_Subset
<1>17. \A r \in records : CveOK(r) /\ (r.stale => stale)
  BY <1>7, <1>14, <1>15
<1>18. IsSeq(assets) /\ \A i \in DOMAIN assets : IsSeq(assets[i].software)
  BY <1>0, Seeds
<1>19. \A r \in records : AssessedOK(cve_assess(r, assets, assessment), assets, stale)
  BY <1>17, <1>18, CveAssessed
<1>20. \A a \in all : AssessedOK(a, assets, stale)
  BY <1>8, <1>19
<1>21. IsFiniteSet(all)
  <2>1. PICK g : g = [r \in records |-> cve_assess(r, assets, assessment)]
    OBVIOUS
  <2>2. \A a \in all : \E r \in records : g[r] = a
    BY <1>8, <2>1
  <2> QED  BY <1>16, <2>2, FiniteImage
<1>22. d.confidence \in Scale
  <2>1. \A a \in all : a.confidence \in Scale
    BY <1>20 DEF AssessedOK
  <2> QED  BY <1>9, <1>21, <2>1, ResearchConfidenceBound
<1>23. IsFiniteSet(d.confirmed) /\ IsFiniteSet(d.candidates)
  <2>1. d.confirmed \subseteq all /\ d.candidates \subseteq all
    BY <1>9
  <2> QED  BY <1>21, <2>1, FS_Subset
<1>24. DossierOK(d, assets)
  BY <1>9, <1>20, <1>22, <1>23 DEF DossierOK
<1>25. SupportedBy(d, assessment)
  <2>1. \A r \in records :
          cve_assess(r, assets, assessment).mapping.events \subseteq UNION {s.events : s \in assessment.signals}
    BY <1>17, <1>18, CveAssessed
  <2> QED  BY <1>8, <1>9, <2>1 DEF SupportedBy
<1> QED  BY <1>0, <1>1, <1>9, <1>24, <1>25

\* Where no research ran.
LEMMA NoResearch ==
  ASSUME NEW assets
  PROVE  DossierOK(NoDossier, assets) /\ \A t : SupportedBy(NoDossier, t)
<1>1. 0 \in Scale
  BY DEF Scale
<1>2. IsFiniteSet({})
  BY FS_EmptySet
<1> QED  BY <1>1, <1>2 DEF DossierOK, NoDossier, SupportedBy

-----------------------------------------------------------------------------
(* Versions and applicability                                              *)

\* Two tuples agree on their first k items, and there the first ends or is smaller.
SplitAt(s, t, k) ==
  /\ k <= Len(s) /\ k < Len(t) /\ \A j \in 1..k : s[j] = t[j]
  /\ k = Len(s) \/ (k < Len(s) /\ s[k + 1] < t[k + 1])

\* The heads of two tuples are the same when their items are.
LEMMA SameHead ==
  ASSUME NEW s \in Seq(Int), NEW t \in Seq(Int), NEW k \in Nat, k <= Len(s), k <= Len(t)
  PROVE  SubSeq(s, 1, k) = SubSeq(t, 1, k) <=> \A j \in 1..k : s[j] = t[j]
<1>1. SubSeq(s, 1, k) = [j \in 1..k |-> s[j]]
  BY DEF SubSeq
<1>2. SubSeq(t, 1, k) = [j \in 1..k |-> t[j]]
  BY DEF SubSeq
<1>3. PICK f, g : f = [j \in 1..k |-> s[j]] /\ g = [j \in 1..k |-> t[j]]
  OBVIOUS
<1>4. f = g => \A j \in 1..k : s[j] = t[j]
  <2>1. \A j \in 1..k : f[j] = s[j] /\ g[j] = t[j]
    BY <1>3
  <2> QED  BY <2>1
<1>5. (\A j \in 1..k : s[j] = t[j]) => f = g
  BY <1>3
<1> QED  BY <1>1, <1>2, <1>3, <1>4, <1>5

\* The order of tuples is decided where they split.
LEMMA SplitDecides ==
  ASSUME NEW s \in Seq(Int), NEW t \in Seq(Int)
  PROVE  TupleLess(s, t) <=> \E k \in Nat : SplitAt(s, t, k)
<1>1. PICK m, n : m = Len(s) /\ n = Len(t)
  OBVIOUS
<1>2. m \in Nat /\ n \in Nat
  BY <1>1
<1>3. Min({m, n}) = IF m <= n THEN m ELSE n
  BY <1>2, OfTwo
<1>4. (m < n /\ SubSeq(t, 1, m) = s) <=> m < n /\ \A j \in 1..m : s[j] = t[j]
  <2>1. SubSeq(s, 1, m) = s
    BY <1>1
  <2>2. m < n => (SubSeq(s, 1, m) = SubSeq(t, 1, m) <=> \A j \in 1..m : s[j] = t[j])
    BY <1>1, <1>2, SameHead
  <2> QED  BY <2>1, <2>2
<1>5. ASSUME NEW k \in Nat, k < m, k < n
      PROVE  SubSeq(s, 1, k) = SubSeq(t, 1, k) <=> \A j \in 1..k : s[j] = t[j]
  BY <1>1, <1>2, <1>5, SameHead
<1>6. TupleLess(s, t) <=>
        \/ m < n /\ SubSeq(t, 1, m) = s
        \/ \E i \in 1..Min({m, n}) : SubSeq(s, 1, i - 1) = SubSeq(t, 1, i - 1) /\ s[i] < t[i]
  BY <1>1 DEF TupleLess
<1>7. ASSUME NEW k \in Nat, SplitAt(s, t, k)  PROVE TupleLess(s, t)
  <2>1. k <= m /\ k < n /\ (\A j \in 1..k : s[j] = t[j]) /\ (k = m \/ (k < m /\ s[k + 1] < t[k + 1]))
    BY <1>1, <1>7 DEF SplitAt
  <2>2. CASE k = m
    BY <1>4, <1>6, <2>1, <2>2
  <2>3. CASE k < m /\ s[k + 1] < t[k + 1]
    <3>1. k + 1 \in 1..Min({m, n}) /\ (k + 1) - 1 = k
      BY <1>2, <1>3, <2>1, <2>3
    <3>2. SubSeq(s, 1, k) = SubSeq(t, 1, k)
      BY <1>5, <2>1, <2>3
    <3> QED  BY <1>6, <2>3, <3>1, <3>2
  <2> QED  BY <2>1, <2>2, <2>3
<1>8. ASSUME TupleLess(s, t)  PROVE \E k \in Nat : SplitAt(s, t, k)
  <2>1. CASE m < n /\ SubSeq(t, 1, m) = s
    <3>1. SplitAt(s, t, m)
      BY <1>1, <1>2, <1>4, <2>1 DEF SplitAt
    <3> QED  BY <1>2, <3>1
  <2>2. CASE \E i \in 1..Min({m, n}) : SubSeq(s, 1, i - 1) = SubSeq(t, 1, i - 1) /\ s[i] < t[i]
    <3>1. PICK i \in 1..Min({m, n}) : SubSeq(s, 1, i - 1) = SubSeq(t, 1, i - 1) /\ s[i] < t[i]
      BY <2>2
    <3>2. PICK k : k = i - 1
      OBVIOUS
    <3>3. k \in Nat /\ k < m /\ k < n /\ k + 1 = i
      BY <1>2, <1>3, <3>1, <3>2
    <3>4. \A j \in 1..k : s[j] = t[j]
      BY <1>5, <3>1, <3>2, <3>3
    <3>5. SplitAt(s, t, k)
      BY <1>1, <1>2, <3>1, <3>3, <3>4 DEF SplitAt
    <3> QED  BY <3>3, <3>5
  <2> QED  BY <1>6, <1>8, <2>1, <2>2
<1> QED  BY <1>7, <1>8

\* The order of tuples is strict and total.
LEMMA TuplesOrdered ==
  /\ \A s \in Seq(Int) : ~TupleLess(s, s)
  /\ \A s, t \in Seq(Int) : s # t => TupleLess(s, t) \/ TupleLess(t, s)
  /\ \A s, t, u \in Seq(Int) : TupleLess(s, t) /\ TupleLess(t, u) => TupleLess(s, u)
<1>1. ASSUME NEW s \in Seq(Int)  PROVE ~TupleLess(s, s)
  <2>1. SUFFICES ASSUME NEW k \in Nat, SplitAt(s, s, k)  PROVE FALSE
    BY SplitDecides
  <2>2. Len(s) \in Nat /\ k < Len(s) /\ s[k + 1] < s[k + 1]
    BY <2>1 DEF SplitAt
  <2>3. s[k + 1] \in Int
    BY <2>2
  <2> QED  BY <2>2, <2>3
<1>2. ASSUME NEW s \in Seq(Int), NEW t \in Seq(Int), s # t  PROVE TupleLess(s, t) \/ TupleLess(t, s)
  <2>1. PICK m, n : m = Len(s) /\ n = Len(t)
    OBVIOUS
  <2>2. m \in Nat /\ n \in Nat /\ (\A j \in 1..m : s[j] \in Int) /\ (\A j \in 1..n : t[j] \in Int)
    BY <2>1
  <2>3. PICK D : D = {j \in Nat \ {0} : (j <= m \/ j <= n) /\ ~(j <= m /\ j <= n /\ s[j] = t[j])}
    OBVIOUS
  <2>4. D # {}
    <3>1. SUFFICES ASSUME D = {}  PROVE FALSE
      OBVIOUS
    <3>2. \A j \in Nat \ {0} : j <= m \/ j <= n => j <= m /\ j <= n /\ s[j] = t[j]
      BY <2>3, <3>1
    <3>3. m = n
      <4>1. CASE m < n
        BY <2>2, <3>2, <4>1
      <4>2. CASE n < m
        BY SMTT(30), <2>2, <3>2, <4>2
      <4> QED  BY <2>2, <4>1, <4>2
    <3>4. \A j \in 1..m : s[j] = t[j]
      BY <2>2, <3>2
    <3>5. s = t
      BY <2>1, <3>3, <3>4, SeqEqual
    <3> QED  BY <1>2, <3>5
  <2>5. PICK d \in D : \A j \in D : d <= j
    <3>1. D \subseteq Nat
      BY <2>3
    <3> QED  BY <2>4, <3>1, MinIn
  <2>6. PICK k : k = d - 1
    OBVIOUS
  <2>7. k \in Nat /\ d = k + 1 /\ (k < m \/ k < n)
    BY <2>2, <2>3, <2>6
  <2>8. \A j \in 1..k : j <= m /\ j <= n /\ s[j] = t[j]
    <3>1. SUFFICES ASSUME NEW j \in 1..k  PROVE j <= m /\ j <= n /\ s[j] = t[j]
      OBVIOUS
    <3>2. j \in Nat \ {0} /\ j < d /\ (j <= m \/ j <= n)
      BY <2>2, <2>7
    <3>3. j \notin D
      <4>1. d \in Nat
        BY <2>7
      <4> QED  BY <2>5, <3>2, <4>1
    <3> QED  BY <2>3, <3>2, <3>3
  <2>9. k <= m /\ k <= n
    <3>1. CASE k = 0
      BY <2>2, <3>1
    <3>2. CASE k # 0
      <4>1. k \in 1..k
        BY <2>7, <3>2
      <4> QED  BY <2>8, <4>1
    <3> QED  BY <3>1, <3>2
  <2>10. CASE k = m
    <3>1. SplitAt(s, t, k)
      BY <2>1, <2>2, <2>7, <2>8, <2>10 DEF SplitAt
    <3> QED  BY <2>7, <3>1, SplitDecides
  <2>11. CASE k = n
    <3>1. SplitAt(t, s, k)
      BY <2>1, <2>2, <2>7, <2>8, <2>11 DEF SplitAt
    <3> QED  BY <2>7, <3>1, SplitDecides
  <2>12. CASE k < m /\ k < n
    <3>1. d \in 1..m /\ d \in 1..n
      BY <2>2, <2>7, <2>12
    <3>2. s[d] # t[d]
      BY <2>3, <2>5, <3>1
    <3>3. s[d] \in Int /\ t[d] \in Int
      BY <2>2, <3>1
    <3>4. CASE s[d] < t[d]
      <4>1. SplitAt(s, t, k)
        BY <2>1, <2>2, <2>7, <2>8, <2>12, <3>4 DEF SplitAt
      <4> QED  BY <2>7, <4>1, SplitDecides
    <3>5. CASE t[d] < s[d]
      <4>1. SplitAt(t, s, k)
        BY <2>1, <2>2, <2>7, <2>8, <2>12, <3>5 DEF SplitAt
      <4> QED  BY <2>7, <4>1, SplitDecides
    <3> QED  BY <3>2, <3>3, <3>4, <3>5
  <2> QED  BY <2>2, <2>7, <2>9, <2>10, <2>11, <2>12
<1>3. ASSUME NEW s \in Seq(Int), NEW t \in Seq(Int), NEW u \in Seq(Int), TupleLess(s, t), TupleLess(t, u)
      PROVE  TupleLess(s, u)
  <2>1. PICK k \in Nat : SplitAt(s, t, k)
    BY <1>3, SplitDecides
  <2>2. PICK h \in Nat : SplitAt(t, u, h)
    BY <1>3, SplitDecides
  <2>3. PICK l, m, n : l = Len(s) /\ m = Len(t) /\ n = Len(u)
    OBVIOUS
  <2>4. /\ l \in Nat /\ m \in Nat /\ n \in Nat
        /\ \A j \in 1..l : s[j] \in Int
        /\ \A j \in 1..m : t[j] \in Int
        /\ \A j \in 1..n : u[j] \in Int
    BY <2>3
  <2>5. k <= l /\ k < m /\ (\A j \in 1..k : s[j] = t[j]) /\ (k = l \/ (k < l /\ s[k + 1] < t[k + 1]))
    BY <2>1, <2>3 DEF SplitAt
  <2>6. h <= m /\ h < n /\ (\A j \in 1..h : t[j] = u[j]) /\ (h = m \/ (h < m /\ t[h + 1] < u[h + 1]))
    BY <2>2, <2>3 DEF SplitAt
  <2>7. CASE k < h
    <3>1. k < n /\ k + 1 \in 1..h
      BY <2>4, <2>6, <2>7
    <3>2. \A j \in 1..k : s[j] = u[j]
      BY <2>5, <2>6, <2>7
    <3>3. t[k + 1] = u[k + 1]
      BY <2>6, <3>1
    <3>4. SplitAt(s, u, k)
      BY <2>3, <2>5, <3>1, <3>2, <3>3 DEF SplitAt
    <3> QED  BY <3>4, SplitDecides
  <2>8. CASE k = h
    <3>1. \A j \in 1..k : s[j] = u[j]
      BY <2>5, <2>6, <2>8
    <3>2. t[k + 1] < u[k + 1] /\ k + 1 \in 1..m /\ k + 1 \in 1..n
      BY <2>4, <2>5, <2>6, <2>8
    <3>3. k = l \/ (k < l /\ s[k + 1] < u[k + 1])
      <4>1. ASSUME k < l, s[k + 1] < t[k + 1]  PROVE s[k + 1] < u[k + 1]
        <5>1. k + 1 \in 1..l
          BY <2>4, <4>1
        <5>2. s[k + 1] \in Int /\ t[k + 1] \in Int /\ u[k + 1] \in Int
          BY <2>4, <3>2, <5>1
        <5> QED  BY <3>2, <4>1, <5>2
      <4> QED  BY <2>5, <4>1
    <3>4. SplitAt(s, u, k)
      BY <2>3, <2>5, <2>6, <2>8, <3>1, <3>3 DEF SplitAt
    <3> QED  BY <3>4, SplitDecides
  <2>9. CASE h < k
    <3>1. h < l /\ h < m /\ h + 1 \in 1..k
      BY <2>4, <2>5, <2>9
    <3>2. \A j \in 1..h : s[j] = u[j]
      BY <2>5, <2>6, <2>9
    <3>3. s[h + 1] = t[h + 1] /\ t[h + 1] < u[h + 1]
      BY <2>4, <2>5, <2>6, <3>1
    <3>4. SplitAt(s, u, h)
      BY <2>3, <2>4, <2>6, <3>1, <3>2, <3>3 DEF SplitAt
    <3> QED  BY <3>4, SplitDecides
  <2> QED  BY <2>7, <2>8, <2>9
<1> QED  BY <1>1, <1>2, <1>3

\* What a version is parsed to.
ParsedVersions == [release : Seq(Int), final : BOOLEAN, pre : Seq(Int)]

\* Versions are ordered strictly and totally: any finite set of them can be listed in the
\* code's order in one way, and two that read differently, 2.14 and 2.14.0 too, are never
\* taken for the same (versions.py ParsedVersion).
THEOREM VersionsAreOrdered ==
  /\ \A v \in ParsedVersions : ~VersionLess(v, v)
  /\ \A v, w \in ParsedVersions : v # w => VersionLess(v, w) \/ VersionLess(w, v)
  /\ \A v, w, x \in ParsedVersions : VersionLess(v, w) /\ VersionLess(w, x) => VersionLess(v, x)
<1>1. \A v \in ParsedVersions : v.release \in Seq(Int) /\ v.final \in BOOLEAN /\ v.pre \in Seq(Int)
  BY DEF ParsedVersions
<1>2. ASSUME NEW v \in ParsedVersions  PROVE ~VersionLess(v, v)
  BY <1>1, TuplesOrdered DEF VersionLess
<1>3. ASSUME NEW v \in ParsedVersions, NEW w \in ParsedVersions, v # w
      PROVE  VersionLess(v, w) \/ VersionLess(w, v)
  <2>1. v.release # w.release \/ v.final # w.final \/ v.pre # w.pre
    <3>1. \A y \in ParsedVersions : y = [release |-> y.release, final |-> y.final, pre |-> y.pre]
      BY DEF ParsedVersions
    <3>2. v = [release |-> v.release, final |-> v.final, pre |-> v.pre]
      BY <3>1
    <3>3. w = [release |-> w.release, final |-> w.final, pre |-> w.pre]
      BY <3>1
    <3> QED  BY <1>3, <3>2, <3>3, Zenon
  <2>2. CASE v.release # w.release
    BY <1>1, <2>2, TuplesOrdered DEF VersionLess
  <2>3. CASE v.release = w.release /\ v.final # w.final
    BY <1>1, <2>3 DEF VersionLess
  <2>4. CASE v.release = w.release /\ v.final = w.final /\ v.pre # w.pre
    BY <1>1, <2>4, TuplesOrdered DEF VersionLess
  <2> QED  BY <2>1, <2>2, <2>3, <2>4
<1>4. ASSUME NEW v \in ParsedVersions, NEW w \in ParsedVersions, NEW x \in ParsedVersions,
             VersionLess(v, w), VersionLess(w, x)
      PROVE  VersionLess(v, x)
  <2>1. PICK a, b, c : a = v.release /\ b = w.release /\ c = x.release
    OBVIOUS
  <2>2. {a, b, c} \subseteq Seq(Int)
    BY <1>1, <2>1
  <2>3. TupleLess(a, b) \/ (a = b /\ ((~v.final /\ w.final) \/ (v.final = w.final /\ TupleLess(v.pre, w.pre))))
    BY <1>4, <2>1 DEF VersionLess
  <2>4. TupleLess(b, c) \/ (b = c /\ ((~w.final /\ x.final) \/ (w.final = x.final /\ TupleLess(w.pre, x.pre))))
    BY <1>4, <2>1 DEF VersionLess
  <2>5. CASE TupleLess(a, b) /\ TupleLess(b, c)
    <3>1. TupleLess(a, c)
      BY <2>2, <2>5, TuplesOrdered
    <3> QED  BY <2>1, <3>1 DEF VersionLess
  <2>6. CASE TupleLess(a, b) /\ b = c
    BY <2>1, <2>6 DEF VersionLess
  <2>7. CASE a = b /\ TupleLess(b, c)
    BY <2>1, <2>7 DEF VersionLess
  <2>8. CASE a = b /\ b = c
    <3>1. ~TupleLess(a, b) /\ ~TupleLess(b, c)
      BY <2>2, <2>8, TuplesOrdered
    <3>2. CASE v.final = w.final /\ TupleLess(v.pre, w.pre) /\ w.final = x.final /\ TupleLess(w.pre, x.pre)
      <4>1. TupleLess(v.pre, x.pre)
        BY <1>1, <3>2, TuplesOrdered
      <4> QED  BY <2>1, <2>8, <3>2, <4>1 DEF VersionLess
    <3>3. CASE ~v.final /\ x.final
      BY <2>1, <2>8, <3>3 DEF VersionLess
    <3> QED  BY <2>3, <2>4, <3>1, <3>2, <3>3
  <2> QED  BY <2>3, <2>4, <2>5, <2>6, <2>7, <2>8
<1> QED  BY <1>2, <1>3, <1>4

\* The order of two places is that of two numbers.
LEMMA Places ==
  ASSUME VersionsAgree, NEW v, Readable(v)
  PROVE  Place(v) \in Nat /\ VersionOrder[Place(v)] = v
<1>1. \E i \in DOMAIN VersionOrder : VersionOrder[i] = v
  BY DEF Readable, ToSet
<1>2. Place(v) \in DOMAIN VersionOrder /\ VersionOrder[Place(v)] = v
  BY <1>1 DEF Place
<1>3. DOMAIN VersionOrder = 1..Len(VersionOrder) /\ Len(VersionOrder) \in Nat
  BY FiniteList DEF VersionsAgree
<1> QED  BY <1>2, <1>3

\* One bound allows the versions on its side of the list.
LEMMA BoundDecided ==
  ASSUME VersionsAgree, NEW v, Readable(v), NEW b, b.op \in {"ge", "gt", "le", "lt"}, b.at \in BoundVersions,
         b.at # None => {<<v, b.at>>, <<b.at, v>>} \cap Respelled = {}
  PROVE  LET said == Decides(parse_version(v), b) IN
         /\ said \in {"yes", "no", "unknown"}
         /\ said = "yes" <=> b.at = None \/ (Readable(b.at) /\ Within(v, b))
         /\ said = "no" <=> b.at # None /\ Readable(b.at) /\ ~Within(v, b)
<1>1. CASE b.at = None
  BY <1>1 DEF Decides
<1>2. CASE b.at # None /\ ~Readable(b.at)
  <2>1. parse_version(b.at) = None
    BY <1>2 DEF VersionsAgree
  <2> QED  BY <1>2, <2>1 DEF Decides
<1>3. CASE b.at # None /\ Readable(b.at)
  <2>1. PICK p, q, m, n : p = parse_version(v) /\ q = parse_version(b.at) /\ m = Place(v) /\ n = Place(b.at)
    OBVIOUS
  <2>2. q # None
    BY <1>3, <2>1 DEF VersionsAgree
  <2>3. m \in Nat /\ n \in Nat
    BY <1>3, <2>1, Places
  <2>4. (VersionLess(p, q) <=> m < n) /\ (VersionLess(q, p) <=> n < m)
    <3>1. {<<v, b.at>>, <<b.at, v>>} \cap Respelled = {} /\ {<<b.at, v>>, <<v, b.at>>} \cap Respelled = {}
      BY <1>3
    <3> QED  BY <1>3, <2>1, <3>1 DEF VersionsAgree, Readable
  <2>5. Satisfies(p, b.op, q) <=> Within(v, b)
    <3>1. CASE b.op = "ge"
      BY <2>1, <2>3, <2>4, <3>1 DEF Satisfies, Within
    <3>2. CASE b.op = "gt"
      BY <2>1, <2>3, <2>4, <3>2 DEF Satisfies, Within
    <3>3. CASE b.op = "le"
      BY <2>1, <2>3, <2>4, <3>3 DEF Satisfies, Within
    <3>4. CASE b.op = "lt"
      BY <2>1, <2>3, <2>4, <3>4 DEF Satisfies, Within
    <3> QED  BY <3>1, <3>2, <3>3, <3>4
  <2>6. Decides(p, b) = IF Satisfies(p, b.op, q) THEN "yes" ELSE "no"
    BY <1>3, <2>1, <2>2 DEF Decides
  <2> QED  BY <1>3, <2>1, <2>5, <2>6
<1> QED  BY <1>1, <1>2, <1>3

\* The four bounds of a range.
LEMMA FourBounds ==
  ASSUME NEW g, FromFeed(g)
  PROVE  /\ ToSet(Bounds(g)) = {Bounds(g)[i] : i \in 1..4}
         /\ \A b \in ToSet(Bounds(g)) : b.op \in {"ge", "gt", "le", "lt"} /\ b.at \in BoundVersions
<1>1. PICK w, x, y, z : w = g.startIncl /\ x = g.startExcl /\ y = g.endIncl /\ z = g.endExcl
  OBVIOUS
<1>2. {w, x, y, z} \subseteq BoundVersions
  BY <1>1 DEF FromFeed
<1>3. PICK s : s = <<[op |-> "ge", at |-> w], [op |-> "gt", at |-> x], [op |-> "le", at |-> y], [op |-> "lt", at |-> z]>>
  OBVIOUS
<1>4. DOMAIN s = 1..4
  BY <1>3
<1>5. ToSet(s) = {s[i] : i \in 1..4}
  BY <1>4 DEF ToSet
<1>6. \A b \in ToSet(s) : b.op \in {"ge", "gt", "le", "lt"} /\ b.at \in {w, x, y, z}
  <2>1. ASSUME NEW i \in 1..4  PROVE s[i].op \in {"ge", "gt", "le", "lt"} /\ s[i].at \in {w, x, y, z}
    <3>1. i = 1 \/ i = 2 \/ i = 3 \/ i = 4
      OBVIOUS
    <3>2. /\ s[1] = [op |-> "ge", at |-> w] /\ s[2] = [op |-> "gt", at |-> x]
          /\ s[3] = [op |-> "le", at |-> y] /\ s[4] = [op |-> "lt", at |-> z]
      BY <1>3
    <3> QED  BY <3>1, <3>2
  <2> QED  BY <1>5, <2>1
<1>7. Bounds(g) = s
  BY <1>1, <1>3 DEF Bounds
<1> QED  BY <1>2, <1>5, <1>6, <1>7

\* What a range says of a readable version.
LEMMA RangeDecides ==
  ASSUME VersionsAgree, NEW x, Readable(x.version), FromFeed(x.range), Plain(x)
  PROVE  LET said == in_vulnerable_range(parse_version(x.version), x.range) IN
         /\ said \in {"yes", "no", "unknown"}
         /\ said = "yes" <=> Inside(x)
         /\ said = "no" => Outside(x)
         /\ Outside(x) /\ Legible(x) => said = "no"
<1>1. PICK v, p, g : v = x.version /\ p = parse_version(v) /\ g = x.range
  OBVIOUS
<1>2. PICK bs : bs = Bounds(g)
  OBVIOUS
<1>3. ToSet(bs) = {bs[i] : i \in 1..4} /\ \A b \in ToSet(bs) : b.op \in {"ge", "gt", "le", "lt"} /\ b.at \in BoundVersions
  BY <1>1, <1>2, FourBounds
<1>4. Limits(g) = {b \in ToSet(bs) : b.at # None}
  BY <1>2 DEF Limits
<1>5. \A b \in Limits(g) : {<<v, b.at>>, <<b.at, v>>} \cap Respelled = {}
  BY <1>1 DEF Plain
<1>6. ASSUME NEW b \in ToSet(bs)
      PROVE  /\ Decides(p, b) \in {"yes", "no", "unknown"}
             /\ Decides(p, b) = "yes" <=> (b \in Limits(g) => Readable(b.at) /\ Within(v, b))
             /\ Decides(p, b) = "no" <=> b \in Limits(g) /\ Readable(b.at) /\ ~Within(v, b)
  <2>1. b.op \in {"ge", "gt", "le", "lt"} /\ b.at \in BoundVersions /\ (b \in Limits(g) <=> b.at # None)
    BY <1>3, <1>4
  <2>2. Readable(v) /\ (b.at # None => {<<v, b.at>>, <<b.at, v>>} \cap Respelled = {})
    BY <1>1, <1>5, <2>1
  <2>3. /\ Decides(parse_version(v), b) \in {"yes", "no", "unknown"}
        /\ Decides(parse_version(v), b) = "yes" <=> b.at = None \/ (Readable(b.at) /\ Within(v, b))
        /\ Decides(parse_version(v), b) = "no" <=> b.at # None /\ Readable(b.at) /\ ~Within(v, b)
    BY <2>1, <2>2, BoundDecided
  <2> QED  BY <1>1, <2>1, <2>3
<1>7. PICK against : against = {i \in 1..4 : Decides(p, bs[i]) # "yes"}
  OBVIOUS
<1>8. PICK said : said = in_vulnerable_range(p, g)
  OBVIOUS
<1>9. said = IF against = {} THEN "yes" ELSE Decides(p, bs[Min(against)])
  BY <1>2, <1>7, <1>8 DEF in_vulnerable_range
<1>10. Inside(x) <=> \A b \in Limits(g) : Readable(b.at) /\ Within(v, b)
  BY <1>1 DEF Inside
<1>11. Outside(x) <=> \E b \in Limits(g) : Readable(b.at) /\ ~Within(v, b)
  BY <1>1 DEF Outside
<1>12. Legible(x) <=> \A b \in Limits(g) : Readable(b.at)
  BY <1>1 DEF Legible
<1>13. Limits(g) \subseteq ToSet(bs)
  BY <1>4
<1>14. CASE against = {}
  <2>1. \A b \in ToSet(bs) : Decides(p, b) = "yes"
    BY <1>3, <1>7, <1>14
  <2>2. \A b \in Limits(g) : Readable(b.at) /\ Within(v, b)
    BY <1>6, <1>13, <2>1
  <2>3. said = "yes"
    BY <1>9, <1>14
  <2> QED  BY <1>1, <1>8, <1>10, <1>11, <2>2, <2>3
<1>15. CASE against # {}
  <2>1. PICK i : i = Min(against)
    OBVIOUS
  <2>2. i \in against
    <3>1. against \subseteq Nat
      BY <1>7
    <3> QED  BY <1>15, <2>1, <3>1, MinIn
  <2>3. PICK b : b = bs[i]
    OBVIOUS
  <2>4. b \in ToSet(bs) /\ Decides(p, b) # "yes" /\ said = Decides(p, b)
    BY <1>3, <1>7, <1>9, <1>15, <2>1, <2>2, <2>3
  <2>5. ~(\A c \in Limits(g) : Readable(c.at) /\ Within(v, c))
    BY <1>6, <2>4
  <2>6. said \in {"no", "unknown"}
    BY <1>6, <2>4
  <2>7. said = "no" => Outside(x)
    BY <1>6, <1>11, <2>4
  <2>8. Legible(x) => said = "no"
    BY <1>6, <1>12, <2>4
  <2> QED  BY <1>1, <1>8, <1>10, <2>5, <2>6, <2>7, <2>8
<1> QED  BY <1>14, <1>15

\* What an installation shows is where its version stands in the list.
LEMMA ReasonShown ==
  ASSUME VersionsAgree, NEW x, x.version \in InstalledVersions, FromFeed(x.range), Plain(x)
  PROVE  LET reason == assess_one(x.version, x.range) IN
         /\ reason = "in_range" <=> Inside(x)
         /\ reason = "not_in_range" => Outside(x)
         /\ Outside(x) /\ Legible(x) => reason = "not_in_range"
<1>1. PICK v, p, r : v = x.version /\ p = parse_version(v) /\ r = assess_one(v, x.range)
  OBVIOUS
<1>2. CASE v = None
  <2>1. r = "version_unknown"
    BY <1>1, <1>2 DEF assess_one
  <2>2. ~Readable(v)
    BY <1>2 DEF VersionsAgree, Readable
  <2> QED  BY <1>1, <2>1, <2>2 DEF Inside, Outside
<1>3. CASE v # None /\ p = None
  <2>1. r = "version_unparseable"
    BY <1>1, <1>3 DEF assess_one
  <2>2. ~Readable(v)
    BY <1>1, <1>3 DEF VersionsAgree
  <2> QED  BY <1>1, <2>1, <2>2 DEF Inside, Outside
<1>4. CASE v # None /\ p # None
  <2>1. Readable(v)
    BY <1>1, <1>4 DEF VersionsAgree
  <2>2. PICK said : said = in_vulnerable_range(p, x.range)
    OBVIOUS
  <2>3. /\ said \in {"yes", "no", "unknown"}
        /\ said = "yes" <=> Inside(x)
        /\ said = "no" => Outside(x)
        /\ Outside(x) /\ Legible(x) => said = "no"
    BY <1>1, <2>1, <2>2, RangeDecides
  <2>4. r = [yes |-> "in_range", no |-> "not_in_range", unknown |-> "version_unparseable"][said]
    BY <1>1, <1>4, <2>2 DEF assess_one
  <2>5. (said = "yes" => r = "in_range") /\ (said = "no" => r = "not_in_range") /\ (said = "unknown" => r = "version_unparseable")
    BY <2>4
  <2> QED  BY <1>1, <2>3, <2>5
<1> QED  BY <1>2, <1>3, <1>4

\* The exposures, one by one.
LEMMA ExposuresListed ==
  ASSUME NEW cve, NEW assets
  PROVE  \A x : x \in Exposures(cve, assets) <=>
           \E i \in DOMAIN assets : \E j \in DOMAIN assets[i].software : \E m \in DOMAIN cve.affected :
             /\ products_match(assets[i].software[j].product, cve.affected[m].product)
             /\ x = [product |-> assets[i].software[j].product, version |-> assets[i].software[j].version,
                     range |-> cve.affected[m]]
<1> DEFINE of(s, g) == [product |-> s.product, version |-> s.version, range |-> g]
<1>1. PICK X, I, G : /\ X = Exposures(cve, assets)
                     /\ I = UNION {ToSet(h.software) : h \in ToSet(assets)}
                     /\ G = ToSet(cve.affected)
  OBVIOUS
<1>2. X = {x \in {of(s, g) : s \in I, g \in G} : products_match(x.product, x.range.product)}
  BY <1>1 DEF Exposures
<1>3. \A s, g : of(s, g).product = s.product /\ of(s, g).range.product = g.product
  OBVIOUS
<1> HIDE DEF of
<1>4. \A x : x \in X <=> \E s \in I, g \in G : products_match(s.product, g.product) /\ x = of(s, g)
  BY <1>2, <1>3
<1>5. \A s : s \in I <=> \E i \in DOMAIN assets : \E j \in DOMAIN assets[i].software : s = assets[i].software[j]
  BY <1>1 DEF ToSet
<1>6. \A g : g \in G <=> \E m \in DOMAIN cve.affected : g = cve.affected[m]
  BY <1>1 DEF ToSet
<1>7. \A x : x \in X <=>
        \E i \in DOMAIN assets : \E j \in DOMAIN assets[i].software : \E m \in DOMAIN cve.affected :
          /\ products_match(assets[i].software[j].product, cve.affected[m].product)
          /\ x = of(assets[i].software[j], cve.affected[m])
  BY <1>4, <1>5, <1>6
<1> QED  BY <1>1, <1>7 DEF of

\* What pieces of evidence say.
Reasons(evidence) == {e.reason : e \in ToSet(evidence)}

\* The evidence on a vulnerability is one piece for every exposure.
LEMMA ExposureReasons ==
  ASSUME NEW cve, CveOK(cve), NEW assets, IsSeq(assets), \A i \in DOMAIN assets : IsSeq(assets[i].software),
         NEW X, X = Exposures(cve, assets), NEW ev, ev = Evidence(cve, assets)
  PROVE  /\ ev = <<>> <=> X = {}
         /\ \A why : why \in Reasons(ev) <=> \E x \in X : why = assess_one(x.version, x.range)
<1> DEFINE matches(i, j, m) == products_match(assets[i].software[j].product, cve.affected[m].product)
           of(s, g) == [product |-> s.product, version |-> s.version, range |-> g]
           at(i, j, m) == of(assets[i].software[j], cve.affected[m])
           shown(i, j, m) == Shown(assets[i].host, assets[i].software[j], cve.affected[m])
<1>1. \A x : x \in X <=>
        \E i \in DOMAIN assets : \E j \in DOMAIN assets[i].software : \E m \in DOMAIN cve.affected :
          matches(i, j, m) /\ x = at(i, j, m)
  BY ExposuresListed
<1>2. IsSeq(ev) /\ \A e : e \in ToSet(ev) <=>
        \E i \in DOMAIN assets : \E j \in DOMAIN assets[i].software : \E m \in DOMAIN cve.affected :
          matches(i, j, m) /\ e = shown(i, j, m)
  BY EvidenceShown DEF CveOK
<1>3. \A i, j, m : shown(i, j, m).reason = assess_one(at(i, j, m).version, at(i, j, m).range)
  BY DEF Shown
<1> HIDE DEF matches, at, shown
<1>4. ToSet(ev) = {} <=> X = {}
  <2>1. (\E e : e \in ToSet(ev)) <=>
        \E i \in DOMAIN assets : \E j \in DOMAIN assets[i].software : \E m \in DOMAIN cve.affected : matches(i, j, m)
    BY <1>2
  <2>2. (\E x : x \in X) <=>
        \E i \in DOMAIN assets : \E j \in DOMAIN assets[i].software : \E m \in DOMAIN cve.affected : matches(i, j, m)
    BY <1>1
  <2> QED  BY <2>1, <2>2
<1>5. ev = <<>> <=> ToSet(ev) = {}
  <2>1. ev # <<>> => ToSet(ev) # {}
    <3>1. DOMAIN ev = 1..Len(ev) /\ Len(ev) \in Nat
      BY <1>2, FiniteList
    <3>2. ev \in Seq(ToSet(ev))
      BY <1>2 DEF IsSeq
    <3>3. ev # <<>> => Len(ev) # 0
      BY <3>2, EmptySeq
    <3>4. ev # <<>> => 1 \in DOMAIN ev
      BY <3>1, <3>3
    <3> QED  BY <3>4 DEF ToSet
  <2> QED  BY <2>1, SmallLists
<1>6. ASSUME NEW why  PROVE why \in Reasons(ev) <=> \E x \in X : why = assess_one(x.version, x.range)
  <2>1. why \in Reasons(ev) <=> \E e \in ToSet(ev) : why = e.reason
    BY DEF Reasons
  <2>2. (\E e \in ToSet(ev) : why = e.reason) <=>
        \E i \in DOMAIN assets : \E j \in DOMAIN assets[i].software : \E m \in DOMAIN cve.affected :
          matches(i, j, m) /\ why = shown(i, j, m).reason
    BY <1>2
  <2>3. (\E x \in X : why = assess_one(x.version, x.range)) <=>
        \E i \in DOMAIN assets : \E j \in DOMAIN assets[i].software : \E m \in DOMAIN cve.affected :
          matches(i, j, m) /\ why = assess_one(at(i, j, m).version, at(i, j, m).range)
    BY <1>1
  <2> QED  BY <1>3, <2>1, <2>2, <2>3
<1> QED  BY <1>4, <1>5, <1>6

\* The versions of an inventory are installed ones.
LEMMA Installed ==
  ASSUME NEW k \in Cases, NEW assets, assets = Seeded(k).assets, NEW cve, NEW x \in Exposures(cve, assets)
  PROVE  x.version \in InstalledVersions
<1>1. assets = k.assets
  BY DEF Seeded
<1>2. PICK i \in DOMAIN assets : \E j \in DOMAIN assets[i].software : x.version = assets[i].software[j].version
  BY ExposuresListed
<1>3. PICK j \in DOMAIN assets[i].software : x.version = assets[i].software[j].version
  BY <1>2
<1>4. assets[i] \in UNION {ToSet(c.assets) : c \in Cases}
  BY <1>1, <1>2 DEF ToSet
<1>5. assets[i].software[j] \in UNION {ToSet(a.software) : a \in UNION {ToSet(c.assets) : c \in Cases}}
  BY <1>3, <1>4 DEF ToSet
<1> QED  BY <1>3, <1>5 DEF InstalledVersions

\* What is concluded of a vulnerability is where the installed versions stand.
LEMMA Applicability ==
  ASSUME VersionsAgree, NEW k \in Cases, NEW assets, assets = Seeded(k).assets, NEW cve, CveOK(cve),
         NEW X, X = Exposures(cve, assets), \A x \in X : Plain(x)
  PROVE  LET said == assess_applicability(cve, assets).applicability IN
         /\ said = "confirmed" <=> \E x \in X : Inside(x)
         /\ said = "not_applicable" => X # {} /\ \A x \in X : Outside(x)
         /\ (X # {} /\ \A x \in X : Outside(x) /\ Legible(x)) => said = "not_applicable"
<1>1. PICK a : a = assess_applicability(cve, assets)
  OBVIOUS
<1>2. PICK seen : seen = Reasons(a.evidence)
  OBVIOUS
<1>3. IsSeq(assets) /\ \A i \in DOMAIN assets : IsSeq(assets[i].software)
  BY Seeds
<1>4. /\ a.evidence = IF cve.affected = <<>> THEN <<>> ELSE Evidence(cve, assets)
      /\ a.applicability = "confirmed" <=> a.evidence # <<>> /\ "in_range" \in seen
      /\ a.applicability = "not_applicable" <=> a.evidence # <<>> /\ seen = {"not_in_range"}
  BY <1>1, <1>2, Judged DEF Reasons
<1>5. PICK ev : ev = Evidence(cve, assets)
  OBVIOUS
<1>6. /\ ev = <<>> <=> X = {}
      /\ \A why : why \in Reasons(ev) <=> \E x \in X : why = assess_one(x.version, x.range)
  BY <1>3, <1>5, ExposureReasons
<1>7. a.evidence = ev
  <2>1. cve.affected = <<>> => X = {}
    <3>1. cve.affected = <<>> => ToSet(cve.affected) = {}
      BY SmallLists
    <3>2. cve.affected = <<>> => DOMAIN cve.affected = {}
      OBVIOUS
    <3> QED  BY <3>2, ExposuresListed
  <2> QED  BY <1>4, <1>5, <1>6, <2>1
<1>8. \A why : why \in seen <=> \E x \in X : why = assess_one(x.version, x.range)
  BY <1>2, <1>6, <1>7
<1>9. ASSUME NEW x \in X
      PROVE  LET reason == assess_one(x.version, x.range) IN
             /\ reason = "in_range" <=> Inside(x)
             /\ reason = "not_in_range" => Outside(x)
             /\ Outside(x) /\ Legible(x) => reason = "not_in_range"
  <2>1. x.version \in InstalledVersions
    BY Installed
  <2>2. FromFeed(x.range)
    <3>1. PICK m \in DOMAIN cve.affected : x.range = cve.affected[m]
      BY ExposuresListed
    <3> QED  BY <3>1 DEF CveOK, ToSet
  <2> QED  BY <2>1, <2>2, ReasonShown
<1>10. a.applicability = "confirmed" <=> \E x \in X : Inside(x)
  <2>1. "in_range" \in seen <=> \E x \in X : Inside(x)
    BY <1>8, <1>9
  <2>2. "in_range" \in seen => ev # <<>>
    BY <1>6, <1>8
  <2> QED  BY <1>4, <1>7, <2>1, <2>2
<1>11. a.applicability = "not_applicable" => X # {} /\ \A x \in X : Outside(x)
  <2>1. ASSUME a.applicability = "not_applicable", NEW x \in X  PROVE Outside(x)
    <3>1. assess_one(x.version, x.range) \in seen
      BY <1>8
    <3> QED  BY <1>4, <1>9, <2>1, <3>1
  <2> QED  BY <1>4, <1>6, <1>7, <2>1
<1>12. (X # {} /\ \A x \in X : Outside(x) /\ Legible(x)) => a.applicability = "not_applicable"
  <2>1. ASSUME X # {}, \A x \in X : Outside(x) /\ Legible(x)  PROVE ev # <<>> /\ seen = {"not_in_range"}
    <3>1. \A x \in X : assess_one(x.version, x.range) = "not_in_range"
      BY <1>9, <2>1
    <3>2. \A why : why \in seen <=> why = "not_in_range"
      BY <1>8, <2>1, <3>1
    <3>3. seen = {"not_in_range"}
      BY <3>2
    <3> QED  BY <1>6, <2>1, <3>3
  <2> QED  BY <1>4, <1>7, <2>1
<1> QED  BY <1>1, <1>10, <1>11, <1>12

-----------------------------------------------------------------------------
(* The report                                                              *)

\* A timeline that is cut keeps the most notable events and says that it was cut.
LEMMA TimelineKept ==
  ASSUME NEW events, EventsOK(events)
  PROVE  LET t == assemble_timeline(events) IN
         \A e \in events \ t.entries : t.omitted > 0 /\ \A f \in t.entries : f.notability >= e.notability
<1> DEFINE notable(e, f) == e.notability > f.notability \/ (e.notability = f.notability /\ Earlier(e, f))
           over(e) == {f \in events : notable(f, e)}
           kept == {e \in events : Cardinality(over(e)) < MaxTimeline}
<1>1. PICK t : t = assemble_timeline(events)
  OBVIOUS
<1>2. t.entries = kept /\ t.omitted = Cardinality(events) - Cardinality(kept)
  BY <1>1 DEF assemble_timeline
<1>3. ASSUME NEW e \in events, e \notin kept  PROVE Cardinality(events) - Cardinality(kept) > 0
  <2>1. IsFiniteSet(events) /\ kept \subseteq events /\ events # kept
    BY <1>3 DEF EventsOK
  <2> HIDE DEF kept
  <2>2. /\ IsFiniteSet(kept) /\ Cardinality(kept) <= Cardinality(events)
        /\ Cardinality(events) # Cardinality(kept)
    BY <2>1, FS_Subset
  <2>3. Cardinality(kept) \in Nat /\ Cardinality(events) \in Nat
    BY <2>1, <2>2, FS_CardinalityType
  <2> QED  BY <2>2, <2>3
<1>4. ASSUME NEW e \in events, e \notin kept, NEW f \in kept  PROVE f.notability >= e.notability
  <2>1. SUFFICES ASSUME ~(f.notability >= e.notability)  PROVE FALSE
    OBVIOUS
  <2>2. e.notability \in Int /\ f.notability \in Int /\ f \in events /\ \A g \in events : g.notability \in Int
    BY DEF EventsOK
  <2>3. over(e) \subseteq over(f)
    <3>1. ASSUME NEW g \in events, notable(g, e)  PROVE notable(g, f)
      <4>1. g.notability > f.notability
        BY <2>1, <2>2, <3>1
      <4> QED  BY <4>1
    <3> QED  BY <3>1
  <2>4. over(f) \subseteq events /\ over(e) \subseteq events
    OBVIOUS
  <2>5. Cardinality(over(f)) < MaxTimeline /\ ~(Cardinality(over(e)) < MaxTimeline)
    BY <1>4
  <2> HIDE DEF over
  <2>6. IsFiniteSet(over(f)) /\ IsFiniteSet(over(e))
    BY <2>4, FS_Subset DEF EventsOK
  <2>7. Cardinality(over(e)) <= Cardinality(over(f))
    BY <2>3, <2>6, FS_Subset
  <2>8. Cardinality(over(e)) \in Nat /\ Cardinality(over(f)) \in Nat
    BY <2>6, FS_CardinalityType
  <2>9. MaxTimeline \in Nat
    BY TimelineLimit
  <2> QED  BY <2>5, <2>7, <2>8, <2>9
<1> HIDE DEF kept
<1>5. \A e \in events \ t.entries : t.omitted > 0 /\ \A f \in t.entries : f.notability >= e.notability
  BY <1>2, <1>3, <1>4
<1> QED  BY <1>1, <1>5

\* The sections a report is expected to have.
LEMMA ExpectedSections ==
  ASSUME NEW t, NEW present
  PROVE  LET E == sections_expected(t) IN
         /\ Cardinality(E) \in Nat \ {0} /\ Cardinality(present \cap E) \in 0..Cardinality(E)
<1>1. PICK E : E = sections_expected(t)
  OBVIOUS
<1>2. E \subseteq {"evidence", "threat", "vulnerability"} /\ "threat" \in E
  BY <1>1 DEF sections_expected
<1>3. IsFiniteSet(E)
  <2>1. IsFiniteSet({"evidence"})
    BY FS_Singleton
  <2>2. IsFiniteSet({"evidence"} \cup {"threat"})
    BY <2>1, FS_AddElement
  <2>3. IsFiniteSet(({"evidence"} \cup {"threat"}) \cup {"vulnerability"})
    BY <2>2, FS_AddElement
  <2>4. E \subseteq ({"evidence"} \cup {"threat"}) \cup {"vulnerability"}
    BY <1>2
  <2> QED  BY <2>3, <2>4, FS_Subset
<1>4. IsFiniteSet(present \cap E) /\ Cardinality(present \cap E) <= Cardinality(E)
  BY <1>3, FS_Subset
<1>5. Cardinality(E) \in Nat /\ Cardinality(present \cap E) \in Nat /\ Cardinality(E) # 0
  BY <1>2, <1>3, <1>4, FS_CardinalityType, FS_EmptySet
<1> QED  BY <1>1, <1>4, <1>5

\* The mean of the stages that answered, by the share of the sections.
StageMean(x, y, u, m, n) == RoundDiv((x + y) * m, u * n)

\* It is a confidence.
LEMMA MeanOfStages ==
  ASSUME NEW x \in Scale, NEW y \in Scale, NEW u, u = 2 \/ (u = 1 /\ y = 0),
         NEW n \in Nat \ {0}, NEW m \in 0..n
  PROVE  StageMean(x, y, u, m, n) \in Scale
<1>0. x \in 0..10000 /\ y \in 0..10000
  BY DEF Scale
<1>1. PICK s, w, p, b : s = x + y /\ w = 10000 * u /\ p = s * m /\ b = u * n
  OBVIOUS
<1>2. s \in 0..w /\ w \in Nat
  <2>1. CASE u = 2
    BY SMTT(30), <1>0, <1>1, <2>1
  <2>2. CASE u = 1 /\ y = 0
    BY <1>0, <1>1, <2>2
  <2> QED  BY SMTT(30), <2>1, <2>2
<1>3. p \in 0..(w * n)
  BY <1>1, <1>2, ProductBound
<1>4. b \in Nat \ {0} /\ p \in Nat /\ p <= 10000 * b
  <2>1. CASE u = 1
    BY <1>1, <1>3, <2>1
  <2>2. CASE u = 2
    BY <1>1, <1>3, <2>2
  <2> QED  BY <2>1, <2>2
<1>5. RoundDiv(p, b) \in Scale
  BY <1>4, RoundedConfidence
<1> QED  BY <1>1, <1>5 DEF StageMean

\* The confidence in a report.
LEMMA ReportConfidenceBound ==
  ASSUME NEW t, NEW events, ThreatOK(t, events), NEW d, NEW assets, DossierOK(d, assets), NEW present
  PROVE  report_confidence(t, d, sections_expected(t), present) \in Scale
<1>1. PICK n, m : n = Cardinality(sections_expected(t)) /\ m = Cardinality(present \cap sections_expected(t))
  OBVIOUS
<1>2. n \in Nat \ {0} /\ m \in 0..n
  BY <1>1, ExpectedSections
<1>3. PICK x, y, u : x = t.confidence /\ y = d.confidence /\ u = (IF t.ran THEN 1 ELSE 0) + (IF d.ran THEN 1 ELSE 0)
  OBVIOUS
<1>4. t.ran = TRUE /\ x \in Scale /\ y \in Scale /\ (d.ran = TRUE \/ d = NoDossier)
  BY <1>3 DEF ThreatOK, DossierOK
<1>5. CASE d.ran = TRUE
  <2>1. u = 2
    BY <1>3, <1>4, <1>5
  <2>2. StageMean(x, y, u, m, n) \in Scale
    BY <1>2, <1>4, <2>1, MeanOfStages
  <2>3. report_confidence(t, d, sections_expected(t), present) = StageMean(x, y, u, m, n)
    BY <1>1, <1>3, <2>1 DEF report_confidence, StageMean
  <2> QED  BY <2>2, <2>3
<1>6. CASE d = NoDossier
  <2>1. d.ran = FALSE /\ d.confidence = 0
    BY <1>6 DEF NoDossier
  <2>2. u = 1 /\ y = 0
    BY <1>3, <1>4, <2>1
  <2>3. StageMean(x, y, u, m, n) \in Scale
    BY <1>2, <1>4, <2>2, MeanOfStages
  <2>4. report_confidence(t, d, sections_expected(t), present) = StageMean(x, y, u, m, n)
    BY <1>1, <1>3, <2>2 DEF report_confidence, StageMean
  <2> QED  BY <2>3, <2>4
<1> QED  BY <1>4, <1>5, <1>6

\* Nothing observed gives no confidence.
LEMMA NoConfidence ==
  ASSUME NEW t, t.ran = TRUE, t.confidence = 0, NEW present
  PROVE  report_confidence(t, NoDossier, sections_expected(t), present) = 0
<1>1. PICK n, m : n = Cardinality(sections_expected(t)) /\ m = Cardinality(present \cap sections_expected(t))
  OBVIOUS
<1>2. n \in Nat \ {0} /\ m \in 0..n
  BY <1>1, ExpectedSections
<1>3. NoDossier.ran = FALSE /\ NoDossier.confidence = 0
  BY DEF NoDossier
<1>4. report_confidence(t, NoDossier, sections_expected(t), present) = RoundDiv((0 + 0) * m, (1 + 0) * n)
  BY <1>1, <1>3 DEF report_confidence
<1>5. RoundDiv((0 + 0) * m, (1 + 0) * n) = 0
  BY <1>2 DEF RoundDiv
<1> QED  BY <1>4, <1>5

\* A report states a kind of caveat.
States(r, kind) == \E c \in r.caveats : c.kind = kind

\* What a report owes its reader.
ReportOK(r, events, gaps, t, d) ==
  /\ r.confidence \in Scale
  /\ \A g \in gaps :
       \/ \E c \in r.caveats : c.kind = "coverage_gap" /\ c.of.kind = g.kind /\ c.of.source = g.source
       \/ events = {} /\ States(r, "missing_section") /\ r.confidence = 0
  /\ (\E i \in t.iocs : i.type \in ENRICHABLE_TYPES /\ ~i.internal /\ ~i.enriched) => States(r, "degraded_enrichment")
  /\ (\E a \in d.confirmed \cup d.candidates \cup d.ruledOut : a.record.stale) => States(r, "stale_research")
  /\ d.candidates # {} => States(r, "unconfirmed_applicability")
  /\ \A e \in events \ r.body.timeline :
       States(r, "timeline_truncated") /\ \A f \in r.body.timeline : f.notability >= e.notability
  /\ \A f \in r.body.findings : f.events \subseteq Ids(events) /\ (f.events # {} \/ f.cves \subseteq r.body.cves)
  /\ \A a \in d.confirmed : a.record.id \in r.body.cves

\* A condition that holds is stated.
LEMMA ConditionStated ==
  ASSUME NEW conditions, NEW k \in DOMAIN conditions, conditions[k]
  PROVE  \E c \in Caveats(conditions) : c.kind = k
<1>1. [kind |-> k, of |-> None] \in Caveats(conditions)
  BY DEF Caveats
<1> QED  BY <1>1

\* What a draft says.
LEMMA ReportFacts ==
  ASSUME NEW a, EventsOK(a.events), NEW t, ThreatOK(t, a.events), NEW d, NEW assets, DossierOK(d, assets),
         SupportedBy(d, t), t.verdict = "benign" => d = NoDossier, NEW critical
  PROVE  ReportOK(draft_report(log_for_report(a), t, d, critical), a.events, a.gaps, t, d)
<1>1. PICK events, gaps : events = a.events /\ gaps = a.gaps
  OBVIOUS
<1>2. PICK lgaps, r : lgaps = (IF events = {} THEN {} ELSE gaps) /\ r = draft_report(log_for_report(a), t, d, critical)
  OBVIOUS
<1>3. PICK log : log = log_for_report(a)
  OBVIOUS
<1>4. log.ran = (events # {}) /\ log.events = events /\ log.gaps = lgaps
  BY <1>1, <1>2, <1>3 DEF log_for_report
<1>5. PICK present, expected, line :
        /\ present = sections_present(log, t, d) /\ expected = sections_expected(t) /\ line = assemble_timeline(events)
  OBVIOUS
<1>6. PICK cut : cut = [timeline_truncated |-> line.omitted > 0]
  OBVIOUS
<1>7. /\ r.confidence = report_confidence(t, d, expected, present)
      /\ r.caveats = missing_section_caveats(expected \ present) \cup Caveats(cut) \cup evidence_caveats(lgaps)
                     \cup threat_caveats(t) \cup vulnerability_caveats(d)
      /\ r.body.timeline = line.entries
      /\ r.body.findings = evidence_findings(events) \cup threat_findings(t) \cup vulnerability_findings(d)
      /\ r.body.cves = {x.record.id : x \in d.confirmed}
  BY <1>2, <1>3, <1>4, <1>5, <1>6 DEF draft_report, render_technical_body
<1>8. r.confidence \in Scale
  BY <1>5, <1>7, ReportConfidenceBound
<1>9. events = {} => States(r, "missing_section") /\ r.confidence = 0
  <2>1. SUFFICES ASSUME events = {}  PROVE States(r, "missing_section") /\ r.confidence = 0
    OBVIOUS
  <2>2. log.ran = FALSE
    BY <1>4, <2>1
  <2>3. "evidence" \in expected \ present
    BY <1>5, <2>2 DEF sections_present, sections_expected
  <2>4. [kind |-> "missing_section", of |-> [section |-> "evidence"]] \in r.caveats
    BY <1>7, <2>3 DEF missing_section_caveats
  <2>5. States(r, "missing_section")
    BY <2>4 DEF States
  <2>6. t.ran = TRUE /\ t.confidence = 0 /\ t.verdict = "benign"
    BY <1>1, <2>1 DEF ThreatOK
  <2>7. d = NoDossier
    BY <2>6
  <2>8. report_confidence(t, NoDossier, sections_expected(t), present) = 0
    BY <2>6, NoConfidence
  <2> QED  BY <1>5, <1>7, <2>5, <2>7, <2>8
<1>10. ASSUME NEW g \in gaps
       PROVE  \/ \E c \in r.caveats : c.kind = "coverage_gap" /\ c.of.kind = g.kind /\ c.of.source = g.source
              \/ events = {} /\ States(r, "missing_section") /\ r.confidence = 0
  <2>1. CASE events = {}
    BY <1>9, <2>1
  <2>2. CASE events # {}
    <3>1. g \in lgaps
      BY <1>2, <2>2
    <3>2. PICK c : c = [kind |-> "coverage_gap", of |-> [section |-> "evidence", kind |-> g.kind, source |-> g.source]]
      OBVIOUS
    <3>3. c \in r.caveats
      BY <1>7, <3>1, <3>2 DEF evidence_caveats
    <3>4. c.kind = "coverage_gap" /\ c.of.kind = g.kind /\ c.of.source = g.source
      BY <3>2
    <3> QED  BY <3>3, <3>4
  <2> QED  BY <2>1, <2>2
<1>11. (\E i \in t.iocs : i.type \in ENRICHABLE_TYPES /\ ~i.internal /\ ~i.enriched) => States(r, "degraded_enrichment")
  <2>1. SUFFICES ASSUME \E i \in t.iocs : i.type \in ENRICHABLE_TYPES /\ ~i.internal /\ ~i.enriched
                 PROVE  States(r, "degraded_enrichment")
    OBVIOUS
  <2>2. t.ran = TRUE /\ t.enrichment # "complete"
    BY <2>1 DEF ThreatOK
  <2>3. PICK cs : cs = [low_confidence      |-> t.confidence < LOW_CONFIDENCE_THRESHOLD,
                        degraded_enrichment |-> t.enrichment # "complete",
                        escalation_required |-> t.escalate]
    OBVIOUS
  <2>4. threat_caveats(t) = Caveats(cs)
    BY <2>2, <2>3 DEF threat_caveats
  <2>5. "degraded_enrichment" \in DOMAIN cs /\ cs["degraded_enrichment"]
    BY <2>2, <2>3
  <2>6. \E c \in Caveats(cs) : c.kind = "degraded_enrichment"
    BY <2>5, ConditionStated
  <2> QED  BY <1>7, <2>4, <2>6 DEF States
<1>12. ASSUME d.ran = TRUE
       PROVE  /\ d.stale => States(r, "stale_research")
              /\ d.candidates # {} => States(r, "unconfirmed_applicability")
  <2>1. PICK cs : cs = [stale_research |-> d.stale, unconfirmed_applicability |-> d.candidates # {}]
    OBVIOUS
  <2>2. vulnerability_caveats(d) = Caveats(cs)
    BY <1>12, <2>1 DEF vulnerability_caveats
  <2>3. /\ "stale_research" \in DOMAIN cs /\ "unconfirmed_applicability" \in DOMAIN cs
        /\ d.stale => cs["stale_research"]
        /\ d.candidates # {} => cs["unconfirmed_applicability"]
    BY <2>1
  <2>4. /\ d.stale => \E c \in Caveats(cs) : c.kind = "stale_research"
        /\ d.candidates # {} => \E c \in Caveats(cs) : c.kind = "unconfirmed_applicability"
    BY <2>3, ConditionStated
  <2> QED  BY <1>7, <2>2, <2>4 DEF States
<1>13. /\ (\E x \in d.confirmed \cup d.candidates \cup d.ruledOut : x.record.stale) => States(r, "stale_research")
       /\ d.candidates # {} => States(r, "unconfirmed_applicability")
  <2>1. CASE d.ran = TRUE
    <3>1. \A x \in d.confirmed \cup d.candidates \cup d.ruledOut : x.record.stale => d.stale
      BY DEF DossierOK, AssessedOK
    <3> QED  BY <1>12, <2>1, <3>1
  <2>2. CASE d = NoDossier
    BY <2>2 DEF NoDossier
  <2> QED  BY <2>1, <2>2 DEF DossierOK
<1>14. ASSUME NEW e \in events \ r.body.timeline
       PROVE  States(r, "timeline_truncated") /\ \A f \in r.body.timeline : f.notability >= e.notability
  <2>1. line.omitted > 0 /\ \A f \in line.entries : f.notability >= e.notability
    BY <1>1, <1>5, <1>7, TimelineKept
  <2>2. "timeline_truncated" \in DOMAIN cut /\ cut["timeline_truncated"]
    BY <1>6, <2>1
  <2>3. \E c \in Caveats(cut) : c.kind = "timeline_truncated"
    BY <2>2, ConditionStated
  <2>4. States(r, "timeline_truncated")
    BY <1>7, <2>3 DEF States
  <2> QED  BY <1>7, <2>1, <2>4
<1>15. ASSUME NEW f \in r.body.findings
       PROVE  f.events \subseteq Ids(events) /\ (f.events # {} \/ f.cves \subseteq r.body.cves)
  <2>1. CASE f \in evidence_findings(events)
    BY <2>1 DEF evidence_findings, Finding, Ids
  <2>2. CASE f \in threat_findings(t)
    <3>1. \/ \E s \in t.signals : f.events = s.events
          \/ \E i \in t.iocs : f.events = i.events
      BY <2>2 DEF threat_findings, Finding
    <3>2. (\A s \in t.signals : SignalOK(s, events)) /\ (\A i \in t.iocs : IocOK(i, events))
      BY <1>1 DEF ThreatOK
    <3> QED  BY <3>1, <3>2 DEF SignalOK, IocOK
  <2>3. CASE f \in vulnerability_findings(d)
    <3>1. PICK x \in d.confirmed : f.events = x.mapping.events /\ f.cves = {x.record.id}
      BY <2>3 DEF vulnerability_findings, Finding
    <3>2. \A s \in t.signals : s.events \subseteq Ids(events)
      BY <1>1 DEF ThreatOK, SignalOK
    <3>3. f.events \subseteq Ids(events)
      BY <3>1, <3>2 DEF SupportedBy
    <3> QED  BY <1>7, <3>1, <3>3
  <2> QED  BY <1>7, <2>1, <2>2, <2>3
<1>16. \A x \in d.confirmed : x.record.id \in r.body.cves
  BY <1>7
<1>17. ReportOK(r, events, gaps, t, d)
  BY <1>8, <1>10, <1>11, <1>13, <1>14, <1>15, <1>16 DEF ReportOK
<1> QED  BY <1>1, <1>2, <1>17

-----------------------------------------------------------------------------
(* The remediation plan                                                    *)

\* Only what is confirmed is patched.
ConfirmedOnly(action, d) == action.kind = "patch" => \E a \in d.confirmed : a.record.id = action.of

\* What is relied on in a recommendation.
RecOK(r, d, inventory) ==
  /\ r.risk \in Risks /\ r.priority \in DOMAIN PriorityRank /\ r.grounding \in DOMAIN GroundingWeight
  /\ r.targets \subseteq inventory /\ r.citations # {}
  /\ ConfirmedOnly(r.action, d)

\* A risk stays within its scale.
LEMMA RiskBound ==
  ASSUME NEW severity \in Nat, NEW confirmed, NEW exploited, NEW reachable, NEW critical
  PROVE  score_risk(severity, confirmed, exploited, reachable, critical) \in Risks
<1>1. PICK x : x = severity + (IF exploited THEN 15 ELSE 0) + (IF reachable THEN 10 ELSE 0) + (IF critical THEN 10 ELSE 0)
  OBVIOUS
<1>2. x \in Nat
  BY <1>1
<1>3. PICK y : y = IF confirmed THEN x ELSE RoundDiv(x * 6, 10)
  OBVIOUS
<1>4. y \in Nat
  BY <1>2, <1>3 DEF RoundDiv
<1>5. Min({100, y}) = IF 100 <= y THEN 100 ELSE y
  <2>1. 100 \in Int /\ y \in Int
    BY <1>4
  <2> QED  BY <2>1, OfTwo
<1>6. score_risk(severity, confirmed, exploited, reachable, critical) = Min({100, y})
  BY <1>1, <1>3 DEF score_risk
<1>7. PICK z : z = score_risk(severity, confirmed, exploited, reachable, critical)
  OBVIOUS
<1>8. z = IF 100 <= y THEN 100 ELSE y
  BY <1>5, <1>6, <1>7
<1>9. z \in 0..100
  BY <1>4, <1>8
<1> QED  BY <1>7, <1>9 DEF Risks

\* A priority is one of the four.
LEMMA PriorityKnown ==
  ASSUME NEW risk, NEW exploited
  PROVE  derive_priority(risk, exploited) \in DOMAIN PriorityRank
BY DEF derive_priority, PriorityRank

\* The risk of a technique.
LEMMA TechniqueRiskBound ==
  ASSUME NEW t, NEW events, ThreatOK(t, events), NEW touches, NEW signals, signals \subseteq t.signals
  PROVE  technique_risk(t, touches, signals) \in Risks
<1>1. PICK s : s = IF signals = {} THEN t.score ELSE Max({x.weight : x \in signals})
  OBVIOUS
<1>2. s \in 0..100
  <2>1. t.score \in 0..100 /\ \A x \in signals : SignalOK(x, events)
    BY DEF ThreatOK
  <2>2. signals # {} => Max({x.weight : x \in signals}) \in 0..100
    BY <2>1, StrongestSignal
  <2> QED  BY <1>1, <2>1, <2>2
<1>3. PICK v : v = verdict_severity_floor(t.verdict)
  OBVIOUS
<1>4. v \in Nat
  BY <1>3 DEF verdict_severity_floor
<1>5. PICK m : m = Max({s, v})
  OBVIOUS
<1>6. s \in Int /\ v \in Int
  BY <1>2, <1>4
<1>7. Max({s, v}) = IF s <= v THEN v ELSE s
  BY <1>6, OfTwo
<1>8. m \in Nat
  BY <1>2, <1>4, <1>5, <1>7
<1>9. technique_risk(t, touches, signals) = score_risk(m, TRUE, TRUE, FALSE, touches)
  BY <1>1, <1>3, <1>5 DEF technique_risk
<1> QED  BY <1>8, <1>9, RiskBound

\* The recommendation for a vulnerability.
LEMMA Built ==
  ASSUME NEW a, NEW assets, NEW stale, AssessedOK(a, assets, stale), NEW template,
         template.grounding \in DOMAIN GroundingWeight, NEW d,
         ConfirmedOnly(template.action, d),
         NEW critical, NEW confirmed
  PROVE  LET r == build(template, a, critical, confirmed) IN
         RecOK(r, d, {h.host : h \in ToSet(assets)}) /\ r.cves = {a.record.id}
<1>1. PICK v, hosts, sev, remote, ex :
        /\ v = a.record.cvss /\ hosts = {e.host : e \in ToSet(a.evidence)} /\ ex = Mapped(a)
        /\ sev = (IF v = None THEN 50 ELSE v.score) /\ remote = (IF v = None THEN FALSE ELSE v.remote)
  OBVIOUS
<1>2. PICK risk : risk = score_risk(sev, confirmed, ex, remote, hosts \cap critical # {})
  OBVIOUS
<1>3. PICK r : r = build(template, a, critical, confirmed)
  OBVIOUS
<1>4. /\ r.action = template.action /\ r.risk = risk /\ r.priority = derive_priority(risk, ex)
      /\ r.targets = hosts /\ r.cves = {a.record.id} /\ r.grounding = template.grounding
      /\ r.citations = template.cites \cup a.citations
  BY <1>1, <1>2, <1>3 DEF build
<1>5. sev \in Nat
  <2>1. v # None => v.score \in Nat
    BY <1>1 DEF AssessedOK, CveOK
  <2> QED  BY <1>1, <2>1
<1>6. risk \in Risks
  BY <1>2, <1>5, RiskBound
<1>7. r.priority \in DOMAIN PriorityRank
  BY <1>4, PriorityKnown
<1>8. r.targets \subseteq {h.host : h \in ToSet(assets)} /\ r.citations # {}
  BY <1>1, <1>4 DEF AssessedOK
<1>9. RecOK(r, d, {h.host : h \in ToSet(assets)})
  BY <1>4, <1>6, <1>7, <1>8 DEF RecOK
<1> QED  BY <1>3, <1>4, <1>9

\* The recommendations for vulnerabilities: only a confirmed one is patched, and
\* each that was not ruled out has one.
LEMMA ForCves ==
  ASSUME NEW d, NEW assets, DossierOK(d, assets), NEW critical, NEW advisories
  PROVE  LET recs == from_cves(d, critical, advisories) IN
         /\ IsFiniteSet(recs)
         /\ \A r \in recs : RecOK(r, d, {h.host : h \in ToSet(assets)})
         /\ \A a \in d.confirmed \cup d.candidates : \E r \in recs : a.record.id \in r.cves
         /\ d = NoDossier => recs = {}
<1> DEFINE p(a) == build(patch_template(a, advisories), a, critical, TRUE)
           v(a) == build(verification_template(a), a, critical, FALSE)
           inventory == {h.host : h \in ToSet(assets)}
<1>1. PICK recs : recs = from_cves(d, critical, advisories)
  OBVIOUS
<1>2. recs = {p(a) : a \in d.confirmed} \cup {v(a) : a \in d.candidates}
  BY <1>1 DEF from_cves
<1>3. ASSUME NEW a \in d.confirmed  PROVE RecOK(p(a), d, inventory) /\ a.record.id \in p(a).cves
  <2>1. PICK t : t = patch_template(a, advisories)
    OBVIOUS
  <2>2. t.action.kind = "patch" /\ t.action.of = a.record.id /\ t.grounding \in {"class_specific", "vendor_specific"}
    BY <2>1 DEF patch_template, patch_guidance
  <2>3. t.grounding \in DOMAIN GroundingWeight
    BY <2>2 DEF GroundingWeight
  <2>4. AssessedOK(a, assets, d.stale)
    BY DEF DossierOK
  <2>5. RecOK(build(t, a, critical, TRUE), d, inventory) /\ build(t, a, critical, TRUE).cves = {a.record.id}
    <3>1. ConfirmedOnly(t.action, d)
      BY <2>2 DEF ConfirmedOnly
    <3> QED  BY <2>3, <2>4, <3>1, Built
  <2> QED  BY <2>1, <2>5
<1>4. ASSUME NEW a \in d.candidates  PROVE RecOK(v(a), d, inventory) /\ a.record.id \in v(a).cves
  <2>1. PICK t : t = verification_template(a)
    OBVIOUS
  <2>2. t.action.kind = "verify" /\ t.grounding = "class_specific"
    BY <2>1 DEF verification_template
  <2>3. t.grounding \in DOMAIN GroundingWeight /\ ConfirmedOnly(t.action, d)
    BY <2>2 DEF GroundingWeight, ConfirmedOnly
  <2>4. AssessedOK(a, assets, d.stale)
    BY DEF DossierOK
  <2>5. RecOK(build(t, a, critical, FALSE), d, inventory) /\ build(t, a, critical, FALSE).cves = {a.record.id}
    BY <2>3, <2>4, Built
  <2> QED  BY <2>1, <2>5
<1> HIDE DEF p, v
<1>5. IsFiniteSet({p(a) : a \in d.confirmed})
  <2>1. PICK f : f = [a \in d.confirmed |-> p(a)]
    OBVIOUS
  <2>2. \A r \in {p(a) : a \in d.confirmed} : \E a \in d.confirmed : f[a] = r
    BY <2>1
  <2>3. IsFiniteSet(d.confirmed)
    BY DEF DossierOK
  <2> QED  BY <2>2, <2>3, FiniteImage
<1>6. IsFiniteSet({v(a) : a \in d.candidates})
  <2>1. PICK f : f = [a \in d.candidates |-> v(a)]
    OBVIOUS
  <2>2. \A r \in {v(a) : a \in d.candidates} : \E a \in d.candidates : f[a] = r
    BY <2>1
  <2>3. IsFiniteSet(d.candidates)
    BY DEF DossierOK
  <2> QED  BY <2>2, <2>3, FiniteImage
<1>7. IsFiniteSet(recs)
  BY <1>2, <1>5, <1>6, FS_Union
<1>8. \A r \in recs : RecOK(r, d, inventory)
  BY <1>2, <1>3, <1>4
<1>9. \A a \in d.confirmed \cup d.candidates : \E r \in recs : a.record.id \in r.cves
  BY <1>2, <1>3, <1>4
<1>10. d = NoDossier => recs = {}
  BY <1>2 DEF NoDossier
<1> QED  BY <1>1, <1>7, <1>8, <1>9, <1>10

\* Every technique of the catalogue has guidance.
LEMMA TechniquesGuided ==
  ASSUME NEW x \in TECHNIQUES
  PROVE  for_technique(x) # None
<1>1. PICK row : row = CASE x = "T1059.001" -> "T1059" [] x = "T1070.001" -> "T1070" [] OTHER -> x
  OBVIOUS
<1>2. row \in DOMAIN TECHNIQUE_TEMPLATES
  BY <1>1 DEF TECHNIQUES, TECHNIQUE_TEMPLATES
<1>3. for_technique(x) = TECHNIQUE_TEMPLATES[row]
  BY <1>1, <1>2 DEF for_technique
<1>4. TECHNIQUE_TEMPLATES[row] \in DOMAIN TECHNIQUE_GUIDANCE
  BY <1>2 DEF TECHNIQUE_TEMPLATES, TECHNIQUE_GUIDANCE
<1> QED  BY <1>3, <1>4, NoneIsNoTemplate

\* What guidance is for is in the inventory.
LEMMA HostsKnown ==
  ASSUME NEW d, NEW assets, DossierOK(d, assets)
  PROVE  LET inventory == {h.host : h \in ToSet(assets)} IN affected_hosts(d, inventory) \subseteq inventory
<1>1. PICK inventory : inventory = {h.host : h \in ToSet(assets)}
  OBVIOUS
<1>2. \A a \in d.confirmed : \A e \in ToSet(a.evidence) : e.host \in inventory
  BY <1>1 DEF DossierOK, AssessedOK
<1>3. affected_hosts(d, inventory) \subseteq inventory
  BY <1>2 DEF affected_hosts
<1> QED  BY <1>1, <1>3

\* The recommendations for techniques: each technique has one.
LEMMA ForTechniques ==
  ASSUME NEW t, NEW events, ThreatOK(t, events), NEW d, NEW assets, DossierOK(d, assets), NEW critical
  PROVE  LET inventory == {h.host : h \in ToSet(assets)}
             recs == from_techniques(t, d, critical, inventory)
         IN  /\ IsFiniteSet(recs)
             /\ \A r \in recs : RecOK(r, d, inventory)
             /\ \A x \in t.techniques : \E r \in recs : x.id \in r.techniques
             /\ t.techniques = {} => recs = {}
<1>1. PICK inventory : inventory = {h.host : h \in ToSet(assets)}
  OBVIOUS
<1>2. PICK targets : targets = affected_hosts(d, inventory)
  OBVIOUS
<1> DEFINE signals(x) == {s \in t.signals : x.id \in s.techniques}
           risk(x) == technique_risk(t, targets \cap critical # {}, signals(x))
           name(x) == for_technique(x.id)
           made(x) ==
             [action |-> [kind |-> "guidance", of |-> name(x), product |-> None, to |-> None],
              type |-> Template(name(x)).type, then |-> None, risk |-> risk(x), priority |-> derive_priority(risk(x), TRUE),
              targets |-> targets, cves |-> {}, techniques |-> {x.id}, rules |-> {s.rule : s \in signals(x)},
              grounding |-> "class_specific",
              citations |-> template_citations(name(x)) \cup {<<"attack", x.id>>}, approval |-> "pending"]
<1>3. PICK recs : recs = from_techniques(t, d, critical, inventory)
  OBVIOUS
<1>4. recs = {made(x) : x \in {u \in t.techniques : for_technique(u.id) # None}}
  BY <1>2, <1>3 DEF from_techniques
<1>5. ASSUME NEW x \in t.techniques  PROVE RecOK(made(x), d, inventory) /\ x.id \in made(x).techniques
  <2>1. PICK m, k : m = made(x) /\ k = risk(x)
    OBVIOUS
  <2>2. /\ m.action.kind = "guidance" /\ m.risk = k /\ m.priority = derive_priority(k, TRUE) /\ m.targets = targets
        /\ m.techniques = {x.id} /\ m.grounding = "class_specific" /\ <<"attack", x.id>> \in m.citations
    BY <2>1
  <2>3. k \in Risks
    <3>1. signals(x) \subseteq t.signals
      OBVIOUS
    <3> HIDE DEF signals
    <3> QED  BY <2>1, <3>1, TechniqueRiskBound
  <2>4. m.priority \in DOMAIN PriorityRank
    BY <2>2, PriorityKnown
  <2>5. m.targets \subseteq inventory
    BY <1>1, <1>2, <2>2, HostsKnown
  <2>6. m.grounding \in DOMAIN GroundingWeight
    BY <2>2 DEF GroundingWeight
  <2>7. ConfirmedOnly(m.action, d)
    BY <2>2 DEF ConfirmedOnly
  <2>8. RecOK(m, d, inventory)
    BY <2>2, <2>3, <2>4, <2>5, <2>6, <2>7 DEF RecOK
  <2> QED  BY <2>1, <2>2, <2>8
<1> HIDE DEF made
<1>6. IsFiniteSet(t.techniques) /\ \A x \in t.techniques : x.id \in TECHNIQUES
  BY DEF ThreatOK
<1>7. recs = {made(x) : x \in t.techniques}
  BY <1>4, <1>6, TechniquesGuided
<1>8. IsFiniteSet(recs)
  <2>1. PICK f : f = [x \in t.techniques |-> made(x)]
    OBVIOUS
  <2>2. \A r \in recs : \E x \in t.techniques : f[x] = r
    BY <1>7, <2>1
  <2> QED  BY <1>6, <2>2, FiniteImage
<1>9. /\ \A r \in recs : RecOK(r, d, inventory)
      /\ \A x \in t.techniques : \E r \in recs : x.id \in r.techniques
      /\ t.techniques = {} => recs = {}
  BY <1>5, <1>7
<1> QED  BY <1>1, <1>3, <1>8, <1>9

\* Hardening when nothing specific is known.
LEMMA Hardening ==
  ASSUME NEW t, NEW events, ThreatOK(t, events), NEW d, NEW assets, NEW critical
  PROVE  LET inventory == {h.host : h \in ToSet(assets)} IN RecOK(generic(t, critical, inventory), d, inventory)
<1>1. PICK inventory : inventory = {h.host : h \in ToSet(assets)}
  OBVIOUS
<1>2. PICK r, targets, risk :
        /\ r = generic(t, critical, inventory) /\ targets = affected_hosts(NoDossier, inventory)
        /\ risk = technique_risk(t, targets \cap critical # {}, {})
  OBVIOUS
<1>3. /\ r.action.kind = "guidance" /\ r.risk = risk /\ r.priority = derive_priority(risk, FALSE) /\ r.targets = targets
      /\ r.grounding = "generic" /\ r.citations = template_citations("generic_hardening")
  BY <1>2 DEF generic
<1>4. risk \in Risks
  <2>1. {} \subseteq t.signals
    OBVIOUS
  <2> QED  BY <1>2, <2>1, TechniqueRiskBound
<1>5. r.priority \in DOMAIN PriorityRank
  BY <1>3, PriorityKnown
<1>6. r.targets \subseteq inventory
  <2>1. DossierOK(NoDossier, assets)
    BY NoResearch
  <2> QED  BY <1>1, <1>2, <1>3, <2>1, HostsKnown
<1>7. r.citations # {}
  <2>1. template_citations("generic_hardening") # {}
    <3>1. PICK c : c = Template("generic_hardening").cites
      OBVIOUS
    <3>2. CASE c = {}
      BY <3>1, <3>2 DEF template_citations
    <3>3. CASE c # {}
      BY <3>1, <3>3 DEF template_citations
    <3> QED  BY <3>2, <3>3
  <2> QED  BY <1>3, <2>1
<1>8. ConfirmedOnly(r.action, d) /\ r.grounding \in DOMAIN GroundingWeight
  BY <1>3 DEF ConfirmedOnly, GroundingWeight
<1>9. RecOK(r, d, inventory)
  BY <1>3, <1>4, <1>5, <1>6, <1>7, <1>8 DEF RecOK
<1> QED  BY <1>1, <1>2, <1>9

\* Recommendations of one action become one, and no support is lost.
LEMMA Deduplicated ==
  ASSUME NEW recs, IsFiniteSet(recs), NEW d, NEW inventory, \A r \in recs : RecOK(r, d, inventory)
  PROVE  LET all == deduplicate(recs) IN
         /\ IsFiniteSet(all)
         /\ \A r \in all : RecOK(r, d, inventory)
         /\ \A r, q \in all : r.action = q.action => r = q
         /\ \A r \in recs : \E q \in all : r.cves \subseteq q.cves /\ r.techniques \subseteq q.techniques
         /\ recs = {} => all = {}
<1> DEFINE same(a) == {r \in recs : r.action = a}
           one(a) == CHOOSE r \in same(a) : TRUE
           merged(a) ==
             [action |-> a, type |-> one(a).type, then |-> one(a).then, risk |-> Max({r.risk : r \in same(a)}),
              priority |-> one(a).priority, targets |-> UNION {r.targets : r \in same(a)},
              cves |-> UNION {r.cves : r \in same(a)}, techniques |-> UNION {r.techniques : r \in same(a)},
              rules |-> UNION {r.rules : r \in same(a)}, grounding |-> one(a).grounding,
              citations |-> UNION {r.citations : r \in same(a)}, approval |-> "pending"]
<1>1. PICK all, A : all = deduplicate(recs) /\ A = {r.action : r \in recs}
  OBVIOUS
<1>2. all = {merged(a) : a \in A}
  BY <1>1 DEF deduplicate
<1>3. ASSUME NEW a \in A
      PROVE  /\ RecOK(merged(a), d, inventory) /\ merged(a).action = a
             /\ \A r \in same(a) : r.cves \subseteq merged(a).cves /\ r.techniques \subseteq merged(a).techniques
  <2>1. same(a) # {} /\ \A r \in same(a) : RecOK(r, d, inventory) /\ r.action = a
    BY <1>1
  <2>2. one(a) \in same(a)
    BY <2>1
  <2>3. PICK m : m = merged(a)
    OBVIOUS
  <2>4. /\ m.action = a /\ m.risk = Max({r.risk : r \in same(a)}) /\ m.priority = one(a).priority
        /\ m.targets = UNION {r.targets : r \in same(a)} /\ m.cves = UNION {r.cves : r \in same(a)}
        /\ m.techniques = UNION {r.techniques : r \in same(a)} /\ m.grounding = one(a).grounding
        /\ m.citations = UNION {r.citations : r \in same(a)}
    BY <2>3
  <2> HIDE DEF same, one
  <2>5. m.risk \in Risks
    <3>1. PICK K : K = {r.risk : r \in same(a)}
      OBVIOUS
    <3>2. K \subseteq Risks /\ K # {}
      BY <2>1, <3>1 DEF RecOK
    <3>3. K \subseteq 0..100 /\ 100 \in Nat
      BY <3>2 DEF Risks
    <3>4. Max(K) \in K
      BY <3>2, <3>3, MaxIn
    <3> QED  BY <2>4, <3>1, <3>2, <3>4
  <2>6. m.priority \in DOMAIN PriorityRank /\ m.grounding \in DOMAIN GroundingWeight /\ ConfirmedOnly(m.action, d)
    BY <2>1, <2>2, <2>4 DEF RecOK
  <2>7. m.targets \subseteq inventory /\ m.citations # {}
    BY <2>1, <2>2, <2>4 DEF RecOK
  <2>8. RecOK(m, d, inventory)
    BY <2>5, <2>6, <2>7 DEF RecOK
  <2>9. \A r \in same(a) : r.cves \subseteq m.cves /\ r.techniques \subseteq m.techniques
    BY <2>4
  <2> QED  BY <2>3, <2>4, <2>8, <2>9
<1>4. \A r \in recs : r.action \in A /\ r \in same(r.action)
  BY <1>1
<1> HIDE DEF merged, same
<1>5. IsFiniteSet(all)
  <2>1. PICK f : f = [r \in recs |-> merged(r.action)]
    OBVIOUS
  <2>2. \A x \in all : \E r \in recs : f[r] = x
    BY <1>1, <1>2, <2>1
  <2> QED  BY <2>2, FiniteImage
<1>6. (\A r \in all : RecOK(r, d, inventory)) /\ \A r, q \in all : r.action = q.action => r = q
  BY <1>2, <1>3
<1>7. \A r \in recs : \E q \in all : r.cves \subseteq q.cves /\ r.techniques \subseteq q.techniques
  BY <1>2, <1>3, <1>4
<1>8. recs = {} => all = {}
  BY <1>1, <1>2
<1> QED  BY <1>1, <1>5, <1>6, <1>7, <1>8

\* A finite set as a list has each element at one place.
LEMMA ListedOnce ==
  ASSUME NEW S, IsFiniteSet(S)
  PROVE  LET w == SetToSeq(S) IN
         /\ \A i, j \in DOMAIN w : w[i] = w[j] => i = j
         /\ \A x \in S : \E i \in DOMAIN w : w[i] = x
         /\ DOMAIN w = 1..Cardinality(S)
<1>1. PICK w : w = SetToSeq(S)
  OBVIOUS
<1>2. Cardinality(S) \in Nat /\ ExistsBijection(1..Cardinality(S), S)
  BY FS_CardinalityType
<1>3. PICK f : f \in Bijection(1..Cardinality(S), S)
  BY <1>2 DEF ExistsBijection
<1>4. f \in [1..Cardinality(S) -> S] /\ IsInjective(f)
  BY <1>3 DEF Bijection, Injection
<1>5. w \in [1..Cardinality(S) -> S] /\ IsInjective(w)
  BY <1>1, <1>4 DEF SetToSeq
<1>6. w \in Injection(1..Cardinality(S), S)
  BY <1>5 DEF Injection
<1>7. Cardinality(1..Cardinality(S)) = Cardinality(S)
  <2>1. PICK n \in Nat : n = Cardinality(S)
    BY <1>2
  <2>2. Cardinality(1..n) = n
    BY FS_Interval
  <2> QED  BY <2>1, <2>2
<1>8. w \in Surjection(1..Cardinality(S), S)
  BY <1>6, <1>7, FS_Injection
<1>9. /\ \A i, j \in DOMAIN w : w[i] = w[j] => i = j
      /\ \A x \in S : \E i \in DOMAIN w : w[i] = x
      /\ DOMAIN w = 1..Cardinality(S)
  <2>1. \A i, j \in DOMAIN w : w[i] = w[j] => i = j
    BY <1>5 DEF IsInjective
  <2>2. \A x \in S : \E i \in 1..Cardinality(S) : w[i] = x
    BY <1>8 DEF Surjection
  <2>3. DOMAIN w = 1..Cardinality(S)
    BY <1>5
  <2> QED  BY <2>1, <2>2, <2>3
<1> QED  BY <1>1, <1>9

\* Recommendations are ordered one after the other, the most urgent first.
LEMMA PriorityOrder ==
  ASSUME NEW recs, IsFiniteSet(recs), NEW d, NEW inventory, \A r \in recs : RecOK(r, d, inventory),
         \A r, q \in recs : r.action = q.action => r = q
  PROVE  /\ OrdersAll(recs, by_priority(recs))
         /\ \A r, q \in recs : <<r, q>> \in by_priority(recs) => PriorityRank[r.priority] <= PriorityRank[q.priority]
<1>1. PICK A, words : A = {r.action : r \in recs} /\ words = SetToSeq(A)
  OBVIOUS
<1>2. IsFiniteSet(A)
  <2>1. PICK f : f = [r \in recs |-> r.action]
    OBVIOUS
  <2>2. \A a \in A : \E r \in recs : f[r] = a
    BY <1>1, <2>1
  <2> QED  BY <2>2, FiniteImage
<1>3. /\ \A i, j \in DOMAIN words : words[i] = words[j] => i = j
      /\ \A x \in A : \E i \in DOMAIN words : words[i] = x
      /\ DOMAIN words = 1..Cardinality(A) /\ Cardinality(A) \in Nat
  BY <1>1, <1>2, ListedOnce, FS_CardinalityType
<1>4. PICK place : place = [r \in recs |-> CHOOSE i \in DOMAIN words : words[i] = r.action]
  OBVIOUS
<1>5. \A r \in recs : place[r] \in DOMAIN words /\ words[place[r]] = r.action
  <2>1. SUFFICES ASSUME NEW r \in recs  PROVE place[r] \in DOMAIN words /\ words[place[r]] = r.action
    OBVIOUS
  <2>2. \E i \in DOMAIN words : words[i] = r.action
    BY <1>1, <1>3
  <2>3. place[r] = CHOOSE i \in DOMAIN words : words[i] = r.action
    BY <1>4
  <2> QED  BY <2>2, <2>3
<1>6. \A r \in recs : place[r] \in Int
  BY <1>3, <1>5
<1>7. \A r, q \in recs : place[r] = place[q] => r = q
  BY <1>5
<1>8. PICK rank : rank = [r \in recs |-> PriorityRank[r.priority]]
  OBVIOUS
<1>9. \A r \in recs : rank[r] \in 0..3 /\ r.risk \in 0..100
  BY <1>8 DEF RecOK, PriorityRank, Risks
<1>10. \A r, q \in recs : r.priority = q.priority <=> rank[r] = rank[q]
  BY <1>8 DEF RecOK, PriorityRank
<1> DEFINE before(r, q) ==
             \/ rank[r] < rank[q]
             \/ rank[r] = rank[q] /\ r.risk > q.risk
             \/ rank[r] = rank[q] /\ r.risk = q.risk /\ place[r] < place[q]
<1>11. PICK R : R = by_priority(recs)
  OBVIOUS
<1>12. R = {p \in recs \X recs :
              \/ PriorityRank[p[1].priority] < PriorityRank[p[2].priority]
              \/ p[1].priority = p[2].priority /\ p[1].risk > p[2].risk
              \/ /\ p[1].priority = p[2].priority /\ p[1].risk = p[2].risk
                 /\ (CHOOSE i \in DOMAIN words : words[i] = p[1].action) < (CHOOSE i \in DOMAIN words : words[i] = p[2].action)}
  BY <1>1, <1>11 DEF by_priority
<1>13. ASSUME NEW r \in recs, NEW q \in recs  PROVE <<r, q>> \in R <=> before(r, q)
  <2>1. <<r, q>> \in R <=>
              \/ PriorityRank[r.priority] < PriorityRank[q.priority]
              \/ r.priority = q.priority /\ r.risk > q.risk
              \/ /\ r.priority = q.priority /\ r.risk = q.risk
                 /\ (CHOOSE i \in DOMAIN words : words[i] = r.action) < (CHOOSE i \in DOMAIN words : words[i] = q.action)
    BY <1>12
  <2>2. /\ place[r] = (CHOOSE i \in DOMAIN words : words[i] = r.action)
        /\ place[q] = (CHOOSE i \in DOMAIN words : words[i] = q.action)
    BY <1>4
  <2>3. <<r, q>> \in R <=>
              \/ PriorityRank[r.priority] < PriorityRank[q.priority]
              \/ r.priority = q.priority /\ r.risk > q.risk
              \/ r.priority = q.priority /\ r.risk = q.risk /\ place[r] < place[q]
    BY <2>1, <2>2
  <2> QED  BY <1>8, <1>10, <2>3
<1>14. \A x \in recs : ~before(x, x)
  BY <1>6, <1>9
<1>15. \A x, y \in recs : x # y => before(x, y) \/ before(y, x)
  BY SMTT(30), <1>6, <1>7, <1>9
<1>16. \A x, y, z \in recs : before(x, y) /\ before(y, z) => before(x, z)
  <2>1. SUFFICES ASSUME NEW x \in recs, NEW y \in recs, NEW z \in recs, before(x, y), before(y, z)
                 PROVE  before(x, z)
    OBVIOUS
  <2>2. /\ rank[x] \in Int /\ rank[y] \in Int /\ rank[z] \in Int
        /\ x.risk \in Int /\ y.risk \in Int /\ z.risk \in Int
        /\ place[x] \in Int /\ place[y] \in Int /\ place[z] \in Int
    BY <1>6, <1>9
  <2> QED  BY <2>1, <2>2
<1>17. \A r, q \in recs : before(r, q) => PriorityRank[r.priority] <= PriorityRank[q.priority]
  BY <1>8, <1>9
<1> HIDE DEF before
<1>18. OrdersAll(recs, R)
  BY <1>13, <1>14, <1>15, <1>16 DEF OrdersAll
<1>19. \A r, q \in recs : <<r, q>> \in R => PriorityRank[r.priority] <= PriorityRank[q.priority]
  BY <1>13, <1>17
<1> QED  BY <1>11, <1>18, <1>19

\* The confidence in a plan.
LEMMA PlanConfidenceBound ==
  ASSUME NEW recs, IsFiniteSet(recs), NEW d, NEW inventory, \A r \in recs : RecOK(r, d, inventory),
         NEW t, t.confidence \in Scale, d.confidence \in Scale
  PROVE  plan_confidence(recs, t, d) \in Scale
<1>1. CASE recs = {}
  <2>1. plan_confidence(recs, t, d) = 0
    BY <1>1 DEF plan_confidence
  <2>2. 0 \in Scale
    BY DEF Scale
  <2> QED  BY <2>1, <2>2
<1>2. CASE recs # {}
  <2>1. PICK up, w, f :
          /\ up = [r \in recs |-> IF r.cves # {} /\ d.ran THEN d.confidence ELSE t.confidence]
          /\ w = [r \in recs |-> GroundingWeight[r.grounding]]
          /\ f = [r \in recs |-> up[r] * w[r]]
    OBVIOUS
  <2>2. PICK n, sum, b : n = Cardinality(recs) /\ sum = Total(f) /\ b = n * 100
    OBVIOUS
  <2>3. n \in Nat \ {0}
    BY <1>2, <2>2, FS_CardinalityType, FS_EmptySet
  <2>4. \A r \in recs : up[r] \in Scale
    BY <2>1
  <2>5. \A r \in recs : w[r] \in 0..100
    BY <2>1 DEF RecOK, GroundingWeight
  <2>6. PICK c \in Nat : c = 10000
    OBVIOUS
  <2>13. PICK m \in Nat : m = c * 100
    BY SMTT(30), <2>6
  <2>14. Scale = 0..c
    BY SMTT(30), <2>6 DEF Scale
  <2>7. \A r \in recs : up[r] * w[r] \in 0..m
    <3>1. SUFFICES ASSUME NEW r \in recs  PROVE up[r] * w[r] \in 0..m
      OBVIOUS
    <3>2. up[r] \in 0..c
      BY <2>4, <2>14
    <3>3. w[r] \in 0..100 /\ 100 \in Nat
      BY <2>5
    <3>4. up[r] * w[r] \in 0..(c * 100)
      BY <3>2, <3>3, ProductBound
    <3> QED  BY <2>13, <3>4
  <2>8. f \in [recs -> 0..m]
    BY <2>1, <2>7
  <2>9. sum \in 0..(m * n)
    BY <2>2, <2>8, TotalBound
  <2>10. b \in Nat \ {0} /\ sum \in Nat /\ sum <= 10000 * b
    BY <2>2, <2>3, <2>6, <2>13, <2>9
  <2>11. RoundDiv(sum, b) \in Scale
    BY <2>10, RoundedConfidence
  <2>12. plan_confidence(recs, t, d) = RoundDiv(sum, b)
    <3>1. f = [r \in recs |-> (IF r.cves # {} /\ d.ran THEN d.confidence ELSE t.confidence) * GroundingWeight[r.grounding]]
      BY <2>1
    <3> QED  BY <1>2, <2>2, <3>1 DEF plan_confidence
  <2> QED  BY <2>11, <2>12
<1> QED  BY SMTT(30), <1>1, <1>2

\* What a plan promises.
PlanOK(p, t, d, inventory) ==
  LET kept == ToSet(p.recommendations)
      all  == kept \cup p.heldBack
  IN  /\ p.confidence \in Scale /\ p.overall \in Risks
      /\ t.verdict = "benign" <=> kept = {}
      /\ \A r \in all : RecOK(r, d, inventory)
      /\ \A x \in t.techniques : \E r \in all : x.id \in r.techniques
      /\ \A a \in d.confirmed \cup d.candidates : \E r \in all : a.record.id \in r.cves
      /\ \A r \in kept, h \in p.heldBack : PriorityRank[r.priority] <= PriorityRank[h.priority]

\* Cutting a list in order keeps what comes first.
LEMMA CutInOrder ==
  ASSUME NEW recs, IsFiniteSet(recs), NEW d, NEW inventory, \A r \in recs : RecOK(r, d, inventory),
         \A r, q \in recs : r.action = q.action => r = q
  PROVE  LET s == Sorted(recs, by_priority(recs))
             kept == ToSet(SubSeq(s, 1, IF MaxRecommendations < Len(s) THEN MaxRecommendations ELSE Len(s)))
             held == ToSet(SubSeq(s, MaxRecommendations + 1, Len(s)))
         IN  /\ kept \cup held = recs /\ (recs # {} => kept # {})
             /\ \A r \in kept, h \in held : PriorityRank[r.priority] <= PriorityRank[h.priority]
<1>1. PICK R, s, n : R = by_priority(recs) /\ s = Sorted(recs, R) /\ n = Cardinality(recs)
  OBVIOUS
<1>2. OrdersAll(recs, R) /\ \A r, q \in recs : <<r, q>> \in R => PriorityRank[r.priority] <= PriorityRank[q.priority]
  BY <1>1, PriorityOrder
<1>3. s \in Seq(recs) /\ Len(s) = n /\ ToSet(s) = recs /\ \A i, j \in 1..n : i < j => <<s[i], s[j]>> \in R
  BY <1>1, <1>2, SortedOrder
<1>4. n \in Nat /\ DOMAIN s = 1..n /\ \A i \in 1..n : s[i] \in recs
  BY <1>1, <1>3, FS_CardinalityType
<1>5. IsSeq(s)
  BY <1>3 DEF IsSeq
<1>6. PICK b \in Nat \ {0} : b = MaxRecommendations
  BY PlanBudget
<1>7. PICK m : m = IF b < n THEN b ELSE n
  OBVIOUS
<1>8. PICK kept, held : /\ kept = ToSet(SubSeq(s, 1, IF MaxRecommendations < Len(s) THEN MaxRecommendations ELSE Len(s)))
                        /\ held = ToSet(SubSeq(s, MaxRecommendations + 1, Len(s)))
  OBVIOUS
<1>9. kept = {s[i] : i \in 1..m} /\ held = {s[i] : i \in (b + 1)..n}
  <2>1. /\ ToSet(SubSeq(s, 1, IF b < Len(s) THEN b ELSE Len(s))) = {s[i] : i \in 1..(IF b < Len(s) THEN b ELSE Len(s))}
        /\ ToSet(SubSeq(s, b + 1, Len(s))) = {s[i] : i \in (b + 1)..Len(s)}
    BY ZenonT(60), <1>5, <1>6, CutList
  <2> QED  BY <1>3, <1>6, <1>7, <1>8, <2>1
<1>10. \A i \in 1..n : i \in 1..m \/ i \in (b + 1)..n
  BY <1>4, <1>6, <1>7
<1>11. (\A i \in 1..m : i \in 1..n) /\ (\A i \in (b + 1)..n : i \in 1..n)
  BY <1>4, <1>6, <1>7
<1>12. \A i \in 1..m, j \in (b + 1)..n : i < j
  BY <1>4, <1>6, <1>7
<1>13. recs = {s[i] : i \in 1..n}
  BY <1>3, <1>4 DEF ToSet
<1>14. kept \cup held = recs
  <2>1. \A i \in 1..n : s[i] \in kept \cup held
    BY <1>9, <1>10
  <2>2. kept \cup held \subseteq recs
    BY <1>4, <1>9, <1>11
  <2> QED  BY <1>13, <2>1, <2>2
<1>15. recs # {} => kept # {}
  <2>1. SUFFICES ASSUME recs # {}  PROVE kept # {}
    OBVIOUS
  <2>2. n # 0
    BY <1>1, <2>1, FS_EmptySet
  <2>3. 1 \in 1..m
    BY <1>4, <1>6, <1>7, <2>2
  <2> QED  BY <1>9, <2>3
<1>16. ASSUME NEW r \in kept, NEW h \in held  PROVE PriorityRank[r.priority] <= PriorityRank[h.priority]
  <2>1. PICK i \in 1..m : r = s[i]
    BY <1>9
  <2>2. PICK j \in (b + 1)..n : h = s[j]
    BY <1>9
  <2>3. i \in 1..n /\ j \in 1..n /\ i < j
    BY <1>11, <1>12
  <2>4. <<r, h>> \in R /\ r \in recs /\ h \in recs
    BY <1>3, <1>4, <2>1, <2>2, <2>3
  <2> QED  BY <1>2, <2>4
<1> QED  BY <1>1, <1>8, <1>14, <1>15, <1>16

\* The plan made of some recommendations.
PlanOf(kept, heldBack, t, d) ==
  [recommendations |-> kept, heldBack |-> ToSet(heldBack),
   overall  |-> combine_risk({r.risk : r \in ToSet(kept)}),
   limited  |-> kept # <<>> /\ \A r \in ToSet(kept) : r.grounding = "generic",
   confidence |-> plan_confidence(ToSet(kept), t, d)]

\* Every plan is sound, whatever the advisories say.
LEMMA PlanFacts ==
  ASSUME NEW t, NEW events, ThreatOK(t, events), NEW d, NEW assets, DossierOK(d, assets),
         t.verdict = "benign" => d = NoDossier, NEW critical, NEW advisories
  PROVE  PlanOK(recommend(t, d, assets, critical, advisories), t, d, {h.host : h \in ToSet(assets)})
<1>1. PICK inventory : inventory = {h.host : h \in ToSet(assets)}
  OBVIOUS
<1>2. PICK rc, rt, some : /\ rc = from_cves(d, critical, advisories)
                          /\ rt = from_techniques(t, d, critical, inventory) /\ some = rc \cup rt
  OBVIOUS
<1>3. PICK specific, hard : specific = deduplicate(some) /\ hard = generic(t, critical, inventory)
  OBVIOUS
<1>4. PICK recs : recs = IF specific = {} /\ t.verdict # "benign" THEN {hard} ELSE specific
  OBVIOUS
<1>5. PICK s : s = Sorted(recs, by_priority(recs))
  OBVIOUS
<1>6. PICK first, rest : /\ first = SubSeq(s, 1, IF MaxRecommendations < Len(s) THEN MaxRecommendations ELSE Len(s))
                         /\ rest = SubSeq(s, MaxRecommendations + 1, Len(s))
  OBVIOUS
<1>7. PICK p : p = recommend(t, d, assets, critical, advisories)
  OBVIOUS
<1>8. p = PlanOf(first, rest, t, d)
  BY <1>1, <1>2, <1>3, <1>4, <1>5, <1>6, <1>7 DEF recommend, PlanOf
<1>9. /\ IsFiniteSet(rc) /\ \A r \in rc : RecOK(r, d, inventory)
      /\ \A a \in d.confirmed \cup d.candidates : \E r \in rc : a.record.id \in r.cves
      /\ d = NoDossier => rc = {}
  BY <1>1, <1>2, ForCves
<1>10. /\ IsFiniteSet(rt) /\ \A r \in rt : RecOK(r, d, inventory)
       /\ \A x \in t.techniques : \E r \in rt : x.id \in r.techniques
       /\ t.techniques = {} => rt = {}
  BY <1>1, <1>2, ForTechniques
<1>11. IsFiniteSet(some) /\ \A r \in some : RecOK(r, d, inventory)
  BY <1>2, <1>9, <1>10, FS_Union
<1>12. /\ IsFiniteSet(specific)
       /\ \A r \in specific : RecOK(r, d, inventory)
       /\ \A r, q \in specific : r.action = q.action => r = q
       /\ \A r \in some : \E q \in specific : r.cves \subseteq q.cves /\ r.techniques \subseteq q.techniques
       /\ some = {} => specific = {}
  BY <1>3, <1>11, Deduplicated
<1>13. RecOK(hard, d, inventory)
  BY <1>1, <1>3, Hardening
<1>14. /\ IsFiniteSet(recs) /\ \A r \in recs : RecOK(r, d, inventory)
       /\ \A r, q \in recs : r.action = q.action => r = q
       /\ specific \subseteq recs
  <2>1. CASE specific = {} /\ t.verdict # "benign"
    <3>1. recs = {hard} /\ IsFiniteSet({hard})
      BY <1>4, <2>1, FS_Singleton
    <3> QED  BY <1>13, <2>1, <3>1
  <2>2. CASE ~(specific = {} /\ t.verdict # "benign")
    <3>1. recs = specific
      BY <1>4, <2>2
    <3> QED  BY <1>12, <3>1
  <2> QED  BY <2>1, <2>2
<1>15. PICK kept, held : kept = ToSet(first) /\ held = ToSet(rest)
  OBVIOUS
<1>16. /\ kept \cup held = recs /\ (recs # {} => kept # {})
       /\ \A r \in kept, h \in held : PriorityRank[r.priority] <= PriorityRank[h.priority]
  BY <1>5, <1>6, <1>14, <1>15, CutInOrder
<1>17. /\ ToSet(p.recommendations) = kept /\ p.heldBack = held /\ p.overall = combine_risk({r.risk : r \in kept})
       /\ p.confidence = plan_confidence(kept, t, d)
  BY <1>8, <1>15 DEF PlanOf
<1>18. t.verdict = "benign" <=> kept = {}
  <2>1. ASSUME t.verdict = "benign"  PROVE kept = {}
    <3>1. d = NoDossier /\ t.techniques = {}
      BY <2>1 DEF ThreatOK
    <3>2. specific = {}
      BY <1>2, <1>9, <1>10, <1>12, <3>1
    <3> QED  BY <1>4, <1>16, <2>1, <3>2
  <2>2. ASSUME t.verdict # "benign"  PROVE kept # {}
    <3>1. recs # {}
      BY <1>4, <2>2
    <3> QED  BY <1>16, <3>1
  <2> QED  BY <2>1, <2>2
<1>19. \A x \in t.techniques : \E r \in kept \cup held : x.id \in r.techniques
  BY <1>2, <1>10, <1>12, <1>14, <1>16
<1>20. \A a \in d.confirmed \cup d.candidates : \E r \in kept \cup held : a.record.id \in r.cves
  BY <1>2, <1>9, <1>12, <1>14, <1>16
<1>21. IsFiniteSet(kept) /\ \A r \in kept : RecOK(r, d, inventory)
  BY <1>14, <1>16, FS_Subset
<1>22. p.confidence \in Scale
  <2>1. t.confidence \in Scale /\ d.confidence \in Scale
    BY DEF ThreatOK, DossierOK
  <2> QED  BY <1>17, <1>21, <2>1, PlanConfidenceBound
<1>23. p.overall \in Risks
  <2>1. PICK K : K = {r.risk : r \in kept}
    OBVIOUS
  <2>2. K \subseteq 0..100
    BY <1>21, <2>1 DEF RecOK, Risks
  <2>3. combine_risk(K) \in 0..100
    <3>1. CASE K = {}
      <4>1. combine_risk(K) = 0
        BY <3>1 DEF combine_risk
      <4> QED  BY <4>1
    <3>2. CASE K # {}
      <4>1. 100 \in Nat
        OBVIOUS
      <4>2. Max(K) \in K
        BY <2>2, <3>2, <4>1, MaxIn
      <4>3. combine_risk(K) = Max(K)
        BY <3>2 DEF combine_risk
      <4> QED  BY <2>2, <4>2, <4>3
    <3> QED  BY <3>1, <3>2
  <2> QED  BY <1>17, <2>1, <2>3 DEF Risks
<1>24. \A r \in kept \cup held : RecOK(r, d, inventory)
  BY <1>14, <1>16
<1>25. PlanOK(p, t, d, inventory)
  BY <1>16, <1>17, <1>18, <1>19, <1>20, <1>22, <1>23, <1>24 DEF PlanOK
<1> QED  BY <1>1, <1>7, <1>25

-----------------------------------------------------------------------------
(* Decisions on recommendations                                            *)

\* A row of recommendations.
IsRow(x) == x = [action |-> x.action, priority |-> x.priority, approval |-> x.approval]

\* The rows and the requests are well formed, and nothing is decided before the plan
\* is on record.
DecisionInv ==
  /\ record = [events |-> record.events, verdict |-> record.verdict, findings |-> record.findings,
               report |-> record.report, decisions |-> record.decisions]
  /\ record.decisions = [i \in DOMAIN record.decisions |-> record.decisions[i]]
  /\ \A i \in DOMAIN record.decisions : IsRow(record.decisions[i])
  /\ request \in [Reviewers -> [at : {"idle", "loaded", "refused", "done"},
                                decision : _DECIDABLE \cup {None}]]
  /\ stage \in {"log_analysis", "threat_detection", "cve_research", "report", "remediation"} =>
       record.decisions = <<>>

\* The nodes before the plan leave decisions and requests alone.
LEMMA EarlyNodes ==
  ASSUME DecisionInv, log_analysis \/ log_analysis_fails \/ threat_detection \/ cve_research \/ draft \/ triage
  PROVE  DecisionInv' /\ record'.decisions = record.decisions /\ request' = request
<1>1. record'.decisions = record.decisions /\ request' = request
  BY DEF DecisionInv, log_analysis, log_analysis_fails, threat_detection, cve_research, draft, triage
<1> QED  BY <1>1 DEF DecisionInv, log_analysis, log_analysis_fails, threat_detection, cve_research, draft, triage, route_after_threat

\* The rows of a plan all start pending, and no row was there before.
LEMMA PlanOnRecord ==
  ASSUME DecisionInv, remediation
  PROVE  /\ DecisionInv' /\ record.decisions = <<>> /\ request' = request
         /\ \A i \in DOMAIN record'.decisions : record'.decisions[i].approval = "pending"
<1>1. record.decisions = <<>> /\ request' = request /\ stage' = "triage"
  BY DEF DecisionInv, remediation
<1>2. PICK rows, D : /\ record' = [record EXCEPT !.decisions = rows]
                     /\ D = DOMAIN plan'.recommendations
                     /\ rows = [i \in D |-> to_recommendation(plan'.recommendations[i])]
  BY DEF remediation
<1>3. record'.decisions = rows
  BY <1>2 DEF DecisionInv
<1>4. \A i \in DOMAIN rows : rows[i].approval = "pending"
  BY <1>2 DEF to_recommendation
<1>5. \A i \in DOMAIN rows : IsRow(rows[i])
  BY <1>2 DEF to_recommendation, IsRow
<1>6. rows = [i \in DOMAIN rows |-> rows[i]]
  BY <1>2
<1>7. DecisionInv'
  BY <1>1, <1>2, <1>3, <1>5, <1>6 DEF DecisionInv
<1> QED  BY <1>1, <1>3, <1>4, <1>7

\* A request that loads the row changes nothing but itself.
LEMMA LoadStep ==
  ASSUME DecisionInv, NEW r \in Reviewers, decide_loads(r)
  PROVE  /\ DecisionInv' /\ record' = record /\ request[r].at = "idle"
         /\ \A q \in Reviewers \ {r} : request'[q] = request[q]
<1>1. record' = record /\ stage' = stage /\ request[r].at = "idle"
  BY DEF decide_loads
<1>2. PICK o \in {"loaded", "refused"} : request' = [request EXCEPT ![r] = [at |-> o, decision |-> None]]
  BY DEF decide_loads
<1>4. \A q \in Reviewers \ {r} : request'[q] = request[q]
  BY <1>2 DEF DecisionInv
<1>5. request'[r] = [at |-> o, decision |-> None]
  BY <1>2 DEF DecisionInv
<1>6. request' \in [Reviewers -> [at : {"idle", "loaded", "refused", "done"},
                                 decision : _DECIDABLE \cup {None}]]
  BY <1>2 DEF DecisionInv
<1> QED  BY <1>1, <1>4, <1>5, <1>6 DEF DecisionInv

\* A request writes one row, with the decision it then has.
LEMMA WriteStep ==
  ASSUME DecisionInv, NEW r \in Reviewers, decide_writes(r)
  PROVE  /\ DecisionInv'
         /\ request[r].at = "loaded" /\ request'[r].at = "done"
         /\ \A q \in Reviewers \ {r} : request'[q] = request[q]
         /\ DOMAIN record'.decisions = DOMAIN record.decisions
         /\ \A i \in DOMAIN record.decisions :
              IF i = 1 THEN record'.decisions[i].approval = request'[r].decision
                       ELSE record'.decisions[i] = record.decisions[i]
<1>1. request[r].at = "loaded" /\ stage' = stage
  BY DEF decide_writes
<1>2. PICK d \in _DECIDABLE : /\ record' = [record EXCEPT !.decisions[1].approval = d]
                              /\ request' = [request EXCEPT ![r].at = "done", ![r].decision = d]
  BY DEF decide_writes
<1>3. /\ request' \in [Reviewers -> [at : {"idle", "loaded", "refused", "done"},
                                   decision : _DECIDABLE \cup {None}]]
      /\ request'[r].at = "done" /\ request'[r].decision = d
      /\ \A q \in Reviewers \ {r} : request'[q] = request[q]
  BY <1>2 DEF DecisionInv
<1>4. PICK rows : rows = record.decisions
  OBVIOUS
<1>5. record'.decisions = [rows EXCEPT ![1].approval = d]
  BY <1>2, <1>4 DEF DecisionInv
<1>6. record' = [events |-> record'.events, verdict |-> record'.verdict, findings |-> record'.findings,
                 report |-> record'.report, decisions |-> record'.decisions]
  BY <1>2 DEF DecisionInv
<1>7. /\ DOMAIN record'.decisions = DOMAIN rows
      /\ record'.decisions = [i \in DOMAIN record'.decisions |-> record'.decisions[i]]
      /\ \A i \in DOMAIN rows \ {1} : record'.decisions[i] = rows[i]
      /\ 1 \in DOMAIN rows => record'.decisions[1] = [rows[1] EXCEPT !.approval = d]
  BY <1>4, <1>5 DEF DecisionInv
<1>8. 1 \in DOMAIN rows => IsRow(record'.decisions[1]) /\ record'.decisions[1].approval = d
  BY <1>4, <1>7 DEF DecisionInv, IsRow
<1>9. rows = <<>> => record'.decisions = <<>>
  BY <1>5
<1>10. DecisionInv'
  BY SMTT(30), <1>1, <1>3, <1>4, <1>6, <1>7, <1>8, <1>9 DEF DecisionInv
<1> QED  BY <1>1, <1>3, <1>4, <1>7, <1>8, <1>10 DEF DecisionInv

\* Every step keeps the invariant.
LEMMA DecisionStep ==
  /\ Init => DecisionInv
  /\ DecisionInv /\ [Next]_vars => DecisionInv'
<1>1. Init => DecisionInv
  BY DEF Init, NoRows, DecisionInv
<1>2. ASSUME DecisionInv, UNCHANGED vars  PROVE DecisionInv'
  BY <1>2 DEF vars, DecisionInv
<1> QED  BY <1>1, <1>2, EarlyNodes, PlanOnRecord, LoadStep, WriteStep DEF Next

\* Nothing but a reviewer decides: whatever the plan says of a recommendation, its row
\* is pending until a request has written a decision, and then shows that one
\* (to_recommendation, decide_recommendation).
THEOREM OnlyPeopleDecide == Spec => []DecidedByAPerson
<1>1. Init => DecidedByAPerson
  <2>1. Init => record.decisions = <<>>
    BY DEF Init, NoRows
  <2> QED  BY <2>1 DEF DecidedByAPerson
<1>2. ASSUME DecisionInv, DecidedByAPerson, Next  PROVE DecidedByAPerson'
  <2>1. CASE log_analysis \/ log_analysis_fails \/ threat_detection \/ cve_research \/ draft \/ triage
    BY <1>2, <2>1, EarlyNodes DEF DecidedByAPerson
  <2>2. CASE remediation
    BY <1>2, <2>2, PlanOnRecord DEF DecidedByAPerson
  <2>3. ASSUME NEW r \in Reviewers, decide_loads(r)  PROVE DecidedByAPerson'
    BY <1>2, <2>3, LoadStep DEF DecidedByAPerson
  <2>4. ASSUME NEW r \in Reviewers, decide_writes(r)  PROVE DecidedByAPerson'
    BY <1>2, <2>4, WriteStep DEF DecidedByAPerson
  <2> QED  BY <1>2, <2>1, <2>2, <2>3, <2>4 DEF Next
<1>3. DecidedByAPerson /\ UNCHANGED vars => DecidedByAPerson'
  BY DEF vars, DecidedByAPerson
<1> QED  BY <1>1, <1>2, <1>3, DecisionStep, PTL DEF Spec

-----------------------------------------------------------------------------
(* The run                                                                 *)

\* What an analysis promises.
AnalysisOK(a, c) ==
  /\ EventsOK(a.events) /\ IsFiniteSet(a.gaps)
  /\ \A r \in c.records : (r.id \in Ids(a.events)) # (r \in a.quarantined)
  /\ \A s \in c.sources \cup c.failures : (\E e \in a.events : e.source = s) \/ (\E g \in a.gaps : g.source = s)
  /\ \A e, f \in a.events : \A k \in BucketKeys(e) \cap BucketKeys(f) :
       e # f /\ e.time - f.time \in -Window..Window =>
       \E x \in a.correlations : x.kind = k[1] /\ x.key = k[2] /\ {e.id, f.id} \subseteq x.events
  /\ \A x \in a.correlations : Chained({e \in a.events : e.id \in x.events})

\* The analysis of the evidence of any case.
LEMMA AnalysisFacts ==
  ASSUME NEW k \in Cases, NEW c, c = Seeded(k), NEW a, a = analyze(c, c.failures)
  PROVE  AnalysisOK(a, c)
<1>1. EventsOK(a.events) /\ \A r \in c.records : (r.id \in Ids(a.events)) # (r \in a.quarantined)
  BY EventsOfAnalysis
<1>2. PICK events, quarantined, failures, gaps :
        events = a.events /\ quarantined = a.quarantined /\ failures = c.failures /\ gaps = a.gaps
  OBVIOUS
<1>3. gaps = coverage_gaps(c, events, quarantined, failures) /\ a.correlations = correlate_events(events)
  BY <1>2, AnalysisParts
<1>4. IsFiniteSet(c.sources) /\ IsFiniteSet(failures) /\ IsFiniteSet(c.records)
  BY <1>2, Seeds
<1>5. IsFiniteSet(quarantined)
  <2>1. quarantined \subseteq c.records
    BY <1>2, AnalysisParts
  <2> QED  BY <1>4, <2>1, FS_Subset
<1>6. IsFiniteSet(gaps) /\ \A s \in c.sources \cup failures : (\E e \in events : e.source = s) \/ (\E g \in gaps : g.source = s)
  BY <1>3, <1>4, <1>5, GapsOfAnalysis
<1>7. ASSUME NEW e \in events, NEW f \in events, NEW key \in BucketKeys(e) \cap BucketKeys(f), e # f,
             e.time - f.time \in -Window..Window
      PROVE  \E x \in a.correlations : x.kind = key[1] /\ x.key = key[2] /\ {e.id, f.id} \subseteq x.events
  <2>1. EventsOK(events)
    BY <1>1, <1>2
  <2>2. Window \in Nat /\ e.time \in Int /\ f.time \in Int
    BY <2>1, AnalysisTimes DEF EventsOK
  <2>3. e.time - f.time <= Window /\ f.time - e.time <= Window
    BY <1>7, <2>2
  <2>4. Earlier(e, f) \/ Earlier(f, e)
    BY <1>7, <2>1, EarlierOrder
  <2>5. CASE Earlier(e, f)
    BY <1>3, <2>1, <2>3, <2>5, NearCorrelated
  <2>6. CASE Earlier(f, e)
    <3>1. key \in BucketKeys(f) \cap BucketKeys(e)
      OBVIOUS
    <3>2. \E x \in correlate_events(events) : x.kind = key[1] /\ x.key = key[2] /\ {f.id, e.id} \subseteq x.events
      BY <2>1, <2>3, <2>6, <3>1, NearCorrelated
    <3> QED  BY <1>3, <3>2
  <2> QED  BY <2>4, <2>5, <2>6
<1>8. \A x \in a.correlations : Chained({e \in events : e.id \in x.events})
  BY <1>1, <1>2, <1>3, CorrelationsChained
<1> QED  BY <1>1, <1>2, <1>6, <1>7, <1>8 DEF AnalysisOK

\* The stages after each agent.
Analysed == {"threat_detection", "cve_research", "report", "remediation", "triage", "awaiting_approval"}
Assessed == {"cve_research", "report", "remediation", "triage", "awaiting_approval"}
Drafted == {"remediation", "triage", "awaiting_approval"}
Planned == {"triage", "awaiting_approval"}

Inventory == {h.host : h \in ToSet(case.assets)}

\* The findings on record are the vulnerabilities of the dossier.
FindingsOnRecord ==
  record.findings = {to_cve_finding(a) : a \in dossier.confirmed \cup dossier.candidates \cup dossier.ruledOut}

\* What each agent left is what its tools promise of the results it was given, and an
\* agent that has not run left nothing.
ResultsInv ==
  /\ stage \in {"log_analysis", "failed"} \cup Analysed
  /\ \E k \in Cases : case = Seeded(k)
  /\ stage \in Analysed => AnalysisOK(analysis, case)
  /\ stage \notin Analysed => analysis = None
  /\ stage \in Assessed => ThreatOK(threat, analysis.events)
  /\ stage \notin Assessed => threat = NoThreat
  /\ DossierOK(dossier, case.assets) /\ SupportedBy(dossier, threat)
  /\ threat.verdict = "benign" => dossier = NoDossier
  /\ stage \notin Drafted \cup {"report"} => dossier = NoDossier
  /\ FindingsOnRecord
  /\ stage \in Drafted => ReportOK(report, analysis.events, analysis.gaps, threat, dossier)
  /\ stage \notin Drafted => report = None
  /\ stage \in Planned => PlanOK(plan, threat, dossier, Inventory)
  /\ stage \notin Planned => plan = None
  /\ stage = "cve_research" => threat.verdict # "benign"

\* Where the stages stand.
LEMMA Stages ==
  /\ Planned \subseteq Drafted /\ Drafted \subseteq Assessed /\ Assessed \subseteq Analysed
  /\ "log_analysis" \notin Analysed /\ "failed" \notin Analysed
  /\ "threat_detection" \in Analysed \ Assessed
  /\ "cve_research" \in Assessed \ Drafted /\ "report" \in Assessed \ Drafted /\ "remediation" \in Drafted \ Planned
  /\ "triage" \in Planned /\ "awaiting_approval" \in Planned
  /\ {"threat_detection", "cve_research", "log_analysis", "failed"} \cap (Drafted \cup {"report"}) = {}
BY DEF Analysed, Assessed, Drafted, Planned

\* Nothing is known at the start.
LEMMA NothingKnown == Init => ResultsInv
<1> SUFFICES ASSUME Init  PROVE ResultsInv
  OBVIOUS
<1>1. /\ stage = "log_analysis" /\ (\E k \in Cases : case = Seeded(k))
      /\ analysis = None /\ threat = NoThreat /\ dossier = NoDossier /\ report = None /\ plan = None /\ record = NoRows
  BY DEF Init
<1>2. stage \notin Analysed /\ stage \notin Assessed /\ stage \notin Drafted /\ stage \notin Planned /\ stage # "cve_research"
  BY <1>1 DEF Analysed, Assessed, Drafted, Planned
<1>3. FindingsOnRecord
  <2>1. record.findings = {}
    BY <1>1 DEF NoRows
  <2>2. dossier.confirmed = {} /\ dossier.candidates = {} /\ dossier.ruledOut = {}
    BY <1>1 DEF NoDossier
  <2> QED  BY <2>1, <2>2 DEF FindingsOnRecord
<1>4. DossierOK(dossier, case.assets) /\ SupportedBy(dossier, threat)
  BY <1>1, NoResearch
<1> QED  BY <1>1, <1>2, <1>3, <1>4 DEF ResultsInv

\* The first agent.
LEMMA AnalysisStep ==
  ASSUME DecisionInv, ResultsInv, log_analysis
  PROVE  ResultsInv'
<1>1. /\ stage = "log_analysis" /\ stage' = "threat_detection" /\ analysis' = analyze(case, case.failures)
      /\ record' = [record EXCEPT !.events = {to_log_event(e) : e \in analysis'.events}]
      /\ case' = case /\ threat' = threat /\ dossier' = dossier /\ report' = report /\ plan' = plan
  BY DEF log_analysis
<1>2. record'.findings = record.findings
  BY <1>1 DEF DecisionInv
<1>3. PICK k \in Cases : case = Seeded(k)
  BY DEF ResultsInv
<1>4. AnalysisOK(analysis', case)
  BY <1>1, <1>3, AnalysisFacts
<1> QED  BY <1>1, <1>2, <1>4, Stages DEF ResultsInv, FindingsOnRecord

\* The run ends when a record's time cannot be built.
LEMMA FailureStep ==
  ASSUME ResultsInv, log_analysis_fails
  PROVE  ResultsInv'
<1>1. /\ stage = "log_analysis" /\ stage' = "failed" /\ analysis' = analysis /\ record' = record
      /\ case' = case /\ threat' = threat /\ dossier' = dossier /\ report' = report /\ plan' = plan
  BY DEF log_analysis_fails
<1> QED  BY <1>1, Stages DEF ResultsInv, FindingsOnRecord

\* The second agent.
LEMMA ThreatStep ==
  ASSUME DecisionInv, ResultsInv, threat_detection
  PROVE  ResultsInv'
<1>1. /\ stage = "threat_detection" /\ stage' = route_after_threat(threat') /\ analysis' = analysis
      /\ record' = [record EXCEPT !.verdict = to_threat_assessment(threat')]
      /\ case' = case /\ dossier' = dossier /\ report' = report /\ plan' = plan
  BY DEF threat_detection
<1>2. PICK i \in Intel : threat' = assess(analysis.events, analysis.gaps, i.provider, i.chunks, case.critical)
  BY DEF threat_detection
<1>3. record'.findings = record.findings
  BY <1>1 DEF DecisionInv
<1>4. AnalysisOK(analysis, case)
  BY <1>1, Stages DEF ResultsInv
<1>5. ThreatOK(threat', analysis.events)
  <2>1. EventsOK(analysis.events) /\ IsFiniteSet(analysis.gaps)
    BY <1>4 DEF AnalysisOK
  <2> QED  BY <1>2, <2>1, ThreatFacts
<1>6. stage' \in {"report", "cve_research"} /\ (stage' = "cve_research" => threat'.verdict # "benign")
  BY <1>1 DEF route_after_threat
<1>7. /\ stage' \in Analysed /\ stage' \in Assessed /\ stage' \notin Drafted /\ stage' \notin Planned
  BY <1>6, Stages
<1>8. stage \notin Drafted \cup {"report"} /\ stage \notin Drafted /\ stage \notin Planned
  BY <1>1, Stages
<1>9. dossier = NoDossier /\ report = None /\ plan = None
  BY <1>8 DEF ResultsInv
<1> QED  BY <1>1, <1>3, <1>4, <1>5, <1>6, <1>7, <1>9, NoResearch DEF ResultsInv, FindingsOnRecord

\* The third agent.
LEMMA ResearchStep ==
  ASSUME DecisionInv, ResultsInv, cve_research
  PROVE  ResultsInv'
<1>1. /\ stage = "cve_research" /\ stage' = "report" /\ analysis' = analysis /\ threat' = threat
      /\ record' = [record EXCEPT !.findings =
                      {to_cve_finding(a) : a \in dossier'.confirmed \cup dossier'.candidates \cup dossier'.ruledOut}]
      /\ case' = case /\ report' = report /\ plan' = plan
  BY DEF cve_research
<1>2. PICK f \in Feeds : dossier' = research(threat, case.assets, analysis.events, f.feed, f.corpus)
  BY DEF cve_research
<1>3. FindingsOnRecord'
  BY <1>1 DEF DecisionInv, FindingsOnRecord
<1>4. AnalysisOK(analysis, case) /\ ThreatOK(threat, analysis.events) /\ threat.verdict # "benign"
  BY <1>1, Stages DEF ResultsInv
<1>5. PICK k \in Cases : case = Seeded(k)
  BY DEF ResultsInv
<1>6. DossierOK(dossier', case.assets) /\ SupportedBy(dossier', threat)
  <2>1. EventsOK(analysis.events)
    BY <1>4 DEF AnalysisOK
  <2> QED  BY <1>2, <1>5, <2>1, ResearchFacts
<1>7. report = None /\ plan = None
  <2>1. stage \notin Drafted /\ stage \notin Planned
    BY <1>1, Stages
  <2> QED  BY <2>1 DEF ResultsInv
<1> QED  BY <1>1, <1>3, <1>4, <1>5, <1>6, <1>7, Stages DEF ResultsInv

\* The fourth agent.
LEMMA DraftStep ==
  ASSUME DecisionInv, ResultsInv, draft
  PROVE  ResultsInv'
<1>1. /\ stage = "report" /\ stage' = "remediation" /\ analysis' = analysis /\ threat' = threat /\ dossier' = dossier
      /\ report' = draft_report(log_for_report(analysis), threat, dossier, case.critical)
      /\ record' = [record EXCEPT !.report = to_report(report')]
      /\ case' = case /\ plan' = plan
  BY DEF draft
<1>2. record'.findings = record.findings
  BY <1>1 DEF DecisionInv
<1>3. AnalysisOK(analysis, case) /\ ThreatOK(threat, analysis.events) /\ plan = None
  BY <1>1, Stages DEF ResultsInv
<1>4. DossierOK(dossier, case.assets) /\ (threat.verdict = "benign" => dossier = NoDossier)
      /\ SupportedBy(dossier, threat)
  BY DEF ResultsInv
<1>5. ReportOK(report', analysis.events, analysis.gaps, threat, dossier)
  <2>1. EventsOK(analysis.events)
    BY <1>3 DEF AnalysisOK
  <2> QED  BY <1>1, <1>3, <1>4, <2>1, ReportFacts
<1> QED  BY <1>1, <1>2, <1>3, <1>4, <1>5, Stages DEF ResultsInv, FindingsOnRecord

\* The fifth agent.
LEMMA PlanStep ==
  ASSUME DecisionInv, ResultsInv, remediation
  PROVE  ResultsInv'
<1>1. /\ stage = "remediation" /\ stage' = "triage" /\ analysis' = analysis /\ threat' = threat /\ dossier' = dossier
      /\ record' = [record EXCEPT !.decisions = [i \in DOMAIN plan'.recommendations |->
                                                   to_recommendation(plan'.recommendations[i])]]
      /\ case' = case /\ report' = report
  BY DEF remediation
<1>2. PICK a \in Advisories : plan' = recommend(threat, dossier, case.assets, case.critical, a)
  BY DEF remediation
<1>3. record'.findings = record.findings
  BY <1>1 DEF DecisionInv
<1>4. AnalysisOK(analysis, case) /\ ThreatOK(threat, analysis.events)
      /\ ReportOK(report, analysis.events, analysis.gaps, threat, dossier)
  BY <1>1, Stages DEF ResultsInv
<1>5. DossierOK(dossier, case.assets) /\ (threat.verdict = "benign" => dossier = NoDossier)
  BY DEF ResultsInv
<1>6. PlanOK(plan', threat, dossier, Inventory)
  BY <1>2, <1>4, <1>5, PlanFacts DEF Inventory
<1> QED  BY <1>1, <1>3, <1>4, <1>5, <1>6, Stages DEF ResultsInv, FindingsOnRecord, Inventory

\* Every step keeps what is known.
LEMMA ResultsStep ==
  ASSUME DecisionInv, ResultsInv, [Next]_vars
  PROVE  ResultsInv'
<1>1. CASE UNCHANGED vars
  BY <1>1 DEF vars, ResultsInv, FindingsOnRecord, Inventory
<1>2. CASE triage
  <2>1. /\ stage = "triage" /\ stage' = "awaiting_approval" /\ analysis' = analysis /\ threat' = threat
        /\ dossier' = dossier /\ record' = record /\ case' = case /\ report' = report /\ plan' = plan
    BY <1>2 DEF triage
  <2> QED  BY <2>1, Stages DEF ResultsInv, FindingsOnRecord, Inventory
<1>3. ASSUME NEW r \in Reviewers, decide_loads(r)  PROVE ResultsInv'
  <2>1. UNCHANGED <<stage, case, analysis, threat, dossier, report, plan, record>>
    BY <1>3 DEF decide_loads
  <2> QED  BY <2>1 DEF ResultsInv, FindingsOnRecord, Inventory
<1>4. ASSUME NEW r \in Reviewers, decide_writes(r)  PROVE ResultsInv'
  <2>1. UNCHANGED <<stage, case, analysis, threat, dossier, report, plan>>
    BY <1>4 DEF decide_writes
  <2>2. PICK d \in _DECIDABLE : record' = [record EXCEPT !.decisions[1].approval = d]
    BY <1>4 DEF decide_writes
  <2>3. record'.findings = record.findings
    BY <2>2 DEF DecisionInv
  <2> QED  BY <2>1, <2>3 DEF ResultsInv, FindingsOnRecord, Inventory
<1>5. CASE log_analysis
  BY <1>5, AnalysisStep
<1>6. CASE log_analysis_fails
  BY <1>6, FailureStep
<1>7. CASE threat_detection
  BY <1>7, ThreatStep
<1>8. CASE cve_research
  BY <1>8, ResearchStep
<1>9. CASE draft
  BY <1>9, DraftStep
<1>10. CASE remediation
  BY <1>10, PlanStep
<1> QED  BY <1>1, <1>2, <1>3, <1>4, <1>5, <1>6, <1>7, <1>8, <1>9, <1>10 DEF Next

\* What the agents leave fits together in every state.
THEOREM ResultsFit == Spec => [](DecisionInv /\ ResultsInv)
<1>1. Init => DecisionInv /\ ResultsInv
  BY DecisionStep, NothingKnown
<1>2. DecisionInv /\ ResultsInv /\ [Next]_vars => (DecisionInv /\ ResultsInv)'
  BY DecisionStep, ResultsStep
<1> QED  BY <1>1, <1>2, PTL DEF Spec

\* The results are of their types.
LEMMA Typed == DecisionInv /\ ResultsInv => TypeOK
<1> SUFFICES ASSUME DecisionInv, ResultsInv  PROVE TypeOK
  OBVIOUS
<1>1. stage \in {"log_analysis", "threat_detection", "cve_research", "report", "remediation",
                 "triage", "awaiting_approval", "failed"}
  BY DEF ResultsInv, Analysed
<1>2. \A r \in Reviewers : request[r].at \in {"idle", "loaded", "refused", "done"}
  BY DEF DecisionInv
<1>3. threat.confidence \in Scale /\ threat.score \in Risks
  <2>1. stage \in Assessed => threat.confidence \in Scale /\ threat.score \in Risks
    BY DEF ResultsInv, ThreatOK, Risks
  <2>2. stage \notin Assessed => threat.confidence \in Scale /\ threat.score \in Risks
    <3>1. NoThreat.confidence = 0 /\ NoThreat.score = 0
      BY DEF NoThreat
    <3>2. 0 \in Scale /\ 0 \in Risks
      BY DEF Scale, Risks
    <3> QED  BY <3>1, <3>2 DEF ResultsInv
  <2> QED  BY <2>1, <2>2
<1>4. dossier.confidence \in Scale
  BY DEF ResultsInv, DossierOK
<1>5. report # None => report.confidence \in Scale
  BY DEF ResultsInv, ReportOK
<1>6. plan # None => plan.confidence \in Scale /\ plan.overall \in Risks
  BY DEF ResultsInv, PlanOK
<1> QED  BY <1>1, <1>2, <1>3, <1>4, <1>5, <1>6 DEF TypeOK

\* For any evidence, the analysis loses no record, says which sources it did not see and
\* puts what happened together in one correlation (analyzer.py analyze,
\* correlation.py correlate_events).
THEOREM AnalysisIsSound == Spec => []AnalysisSound
<1>1. ASSUME DecisionInv, ResultsInv  PROVE AnalysisSound
  <2>1. TypeOK
    BY <1>1, Typed
  <2>2. stage \in Analysed => AnalysisOK(analysis, case)
    BY <1>1 DEF ResultsInv
  <2>3. stage \notin Analysed => analysis = None
    BY <1>1 DEF ResultsInv
  <2>4. CASE stage \in Analysed
    BY <2>1, <2>2, <2>4 DEF AnalysisSound, AnalysisOK
  <2>5. CASE stage \notin Analysed
    BY <2>1, <2>3, <2>5 DEF AnalysisSound
  <2> QED  BY <2>4, <2>5
<1> QED  BY <1>1, ResultsFit, PTL

\* Whatever the evidence, the threat intelligence and the feeds, the report states what
\* the stages did not see or could not check (reporter.py report).
THEOREM UncertaintyIsReported == Spec => []UncertaintyReported
<1>1. ASSUME ResultsInv  PROVE UncertaintyReported
  <2>1. CASE stage \notin Drafted
    <3>1. report = None
      BY <1>1, <2>1 DEF ResultsInv
    <3> QED  BY <3>1 DEF UncertaintyReported
  <2>2. CASE stage \in Drafted
    <3>1. ReportOK(report, analysis.events, analysis.gaps, threat, dossier) /\ DossierOK(dossier, case.assets) /\ FindingsOnRecord
      BY <1>1, <2>2 DEF ResultsInv
    <3>2. \A k : States(report, k) <=> HasCaveat(k)
      BY DEF States, HasCaveat
    <3>3. \A f \in record.findings : \E a \in dossier.confirmed \cup dossier.candidates \cup dossier.ruledOut :
            f.stale = a.record.stale /\ f.applicability = a.applicability /\ f.id = a.record.id
      BY <3>1 DEF FindingsOnRecord, to_cve_finding
    <3>4. (\E f \in record.findings : f.stale) => HasCaveat("stale_research")
      <4>1. (\E f \in record.findings : f.stale) =>
               \E a \in dossier.confirmed \cup dossier.candidates \cup dossier.ruledOut : a.record.stale
        BY <3>1 DEF FindingsOnRecord, to_cve_finding
      <4> QED  BY <3>1, <3>2, <4>1 DEF ReportOK
    <3>5. (\E f \in record.findings : f.applicability = "candidate") => HasCaveat("unconfirmed_applicability")
      <4>1. \A f \in record.findings : f.applicability = "candidate" => dossier.candidates # {}
        BY <3>1, <3>3 DEF DossierOK
      <4> QED  BY <3>1, <3>2, <4>1 DEF ReportOK
    <3>6. \A v \in {f.id : f \in {g \in record.findings : g.applicability = "confirmed"}} : v \in report.body.cves
      <4>1. ASSUME NEW f \in record.findings, f.applicability = "confirmed"  PROVE f.id \in report.body.cves
        <5>1. PICK a \in dossier.confirmed \cup dossier.candidates \cup dossier.ruledOut :
                f.applicability = a.applicability /\ f.id = a.record.id
          BY <3>3
        <5>2. a \in dossier.confirmed
          BY <3>1, <4>1, <5>1 DEF DossierOK
        <5> QED  BY <3>1, <5>1, <5>2 DEF ReportOK
      <4> QED  BY <4>1
    <3>7. \A g \in analysis.gaps :
             \/ \E c \in report.caveats : c.kind = "coverage_gap" /\ c.of.kind = g.kind /\ c.of.source = g.source
             \/ analysis.events = {} /\ HasCaveat("missing_section") /\ report.confidence = 0
      BY <3>1, <3>2 DEF ReportOK
    <3>8. /\ (\E i \in threat.iocs : i.type \in ENRICHABLE_TYPES /\ ~i.internal /\ ~i.enriched) =>
               HasCaveat("degraded_enrichment")
          /\ \A e \in analysis.events \ report.body.timeline :
               /\ HasCaveat("timeline_truncated")
               /\ \A f \in report.body.timeline : f.notability >= e.notability
          /\ \A f \in report.body.findings :
               f.events \subseteq Ids(analysis.events) /\ (f.events # {} \/ f.cves \subseteq report.body.cves)
      BY <3>1, <3>2 DEF ReportOK
    <3> QED  BY <3>4, <3>5, <3>6, <3>7, <3>8 DEF UncertaintyReported
  <2> QED  BY <2>1, <2>2
<1> QED  BY <1>1, ResultsFit, PTL

\* Whatever was found and whatever the advisories say, the plan answers the findings and
\* no more, and waits for people (recommender.py recommend).
THEOREM PlanIsSound == Spec => []PlanSound
<1>1. ASSUME ResultsInv, DecidedByAPerson  PROVE PlanSound
  <2>1. CASE stage \notin Planned
    <3>1. plan = None
      BY <1>1, <2>1 DEF ResultsInv
    <3> QED  BY <3>1 DEF PlanSound
  <2>2. CASE stage \in Planned
    <3>1. PICK kept, held, all : kept = ToSet(plan.recommendations) /\ held = plan.heldBack /\ all = kept \cup held
      OBVIOUS
    <3>2. PlanOK(plan, threat, dossier, Inventory)
      BY <1>1, <2>2 DEF ResultsInv
    <3>3. /\ threat.verdict = "benign" <=> kept = {}
          /\ \A r \in all : RecOK(r, dossier, Inventory)
          /\ \A x \in threat.techniques : \E r \in all : x.id \in r.techniques
          /\ \A a \in dossier.confirmed \cup dossier.candidates : \E r \in all : a.record.id \in r.cves
          /\ \A r \in kept, h \in held : PriorityRank[r.priority] <= PriorityRank[h.priority]
      BY <3>1, <3>2 DEF PlanOK
    <3>4. \A r \in all : r.action.kind = "patch" => \E a \in dossier.confirmed : a.record.id = r.action.of
      BY <3>3 DEF RecOK, ConfirmedOnly
    <3>5. \A r \in all : r.targets \subseteq {a.host : a \in ToSet(case.assets)} /\ r.citations # {}
      BY <3>3 DEF RecOK, Inventory
    <3>6. {t.id : t \in threat.techniques} \subseteq UNION {r.techniques : r \in all}
      BY <3>3
    <3>7. {a.record.id : a \in dossier.confirmed \cup dossier.candidates} \subseteq UNION {r.cves : r \in all}
      BY <3>3
    <3> QED  BY <1>1, <3>1, <3>3, <3>4, <3>5, <3>6, <3>7 DEF PlanSound
  <2> QED  BY <2>1, <2>2
<1> QED  BY <1>1, ResultsFit, OnlyPeopleDecide, PTL

\* Wherever the code reads and orders the versions that occur as the list does, a
\* vulnerability is confirmed, left open or ruled out by where the installed versions stand
\* (versions.py in_vulnerable_range, assess_applicability).
THEOREM ApplicabilityIsSound == VersionsAgree => (Spec => []ApplicabilitySound)
<1>1. ASSUME VersionsAgree, ResultsInv  PROVE ApplicabilitySound
  <2>1. PICK k \in Cases : case = Seeded(k)
    BY <1>1 DEF ResultsInv
  <2>2. DossierOK(dossier, case.assets)
    BY <1>1 DEF ResultsInv
  <2>3. SUFFICES ASSUME NEW a \in dossier.confirmed \cup dossier.candidates \cup dossier.ruledOut,
                        \A x \in Exposures(a.record, case.assets) : Plain(x)
                 PROVE  LET X == Exposures(a.record, case.assets) IN
                        /\ (a \in dossier.confirmed) <=> (\E x \in X : Inside(x))
                        /\ a \in dossier.ruledOut => X # {} /\ \A x \in X : Outside(x)
                        /\ (X # {} /\ \A x \in X : Outside(x) /\ Legible(x)) => a \in dossier.ruledOut
    BY DEF ApplicabilitySound
  <2>4. PICK X, said : X = Exposures(a.record, case.assets) /\ said = assess_applicability(a.record, case.assets).applicability
    OBVIOUS
  <2>5. a.applicability = said /\ CveOK(a.record)
    BY <2>2, <2>4 DEF DossierOK, AssessedOK
  <2>6. /\ a \in dossier.confirmed <=> said = "confirmed"
        /\ a \in dossier.ruledOut <=> said = "not_applicable"
    BY <2>2, <2>5 DEF DossierOK
  <2>7. /\ said = "confirmed" <=> \E x \in X : Inside(x)
        /\ said = "not_applicable" => X # {} /\ \A x \in X : Outside(x)
        /\ (X # {} /\ \A x \in X : Outside(x) /\ Legible(x)) => said = "not_applicable"
    BY <1>1, <2>1, <2>3, <2>4, <2>5, Applicability
  <2> QED  BY <2>4, <2>6, <2>7
<1> SUFFICES ASSUME VersionsAgree  PROVE Spec => []ApplicabilitySound
  OBVIOUS
<1>2. ResultsInv => ApplicabilitySound
  BY <1>1
<1> QED  BY <1>2, ResultsFit, PTL
=============================================================================
