---------------------------- MODULE Walks_proof ----------------------------
(***************************************************************************)
(* What the proofs about images need to know of two kinds of definition:   *)
(* the element of a finite ordered set that has a given number of elements *)
(* before it, and the value that is reached by taking steps, as in a walk  *)
(* along the links of a disk, or when the parts of a sequence are put one  *)
(* after the other.  Induction is over sets of naturals: a set that is not *)
(* empty has a least element.                                              *)
(***************************************************************************)
EXTENDS Integers, SequencesExt, SequenceTheorems, FiniteSetTheorems, WellFoundedInduction, TLAPS

LEMMA LeastNatural ==
    ASSUME NEW S \in SUBSET Nat, S # {}
    PROVE  \E n \in S : \A m \in S : n <= m
<1>1. \E n \in S : \A m \in S : ~(<<m, n>> \in OpToRel(<, Nat))
    BY NatLessThanWellFounded, WFMin, Zenon
<1>2. \E n \in S : \A m \in S : ~(m < n)
    BY <1>1, Zenon DEF OpToRel
<1> QED
    BY <1>2

\* A set of naturals that has 0 and each successor has all of them.
LEMMA Induct ==
    ASSUME NEW n \in Nat, NEW S, 0 \in S, \A i \in 1 .. n : i - 1 \in S => i \in S
    PROVE  \A i \in 0 .. n : i \in S
<1> DEFINE bad == {i \in 0 .. n : i \notin S}
<1> SUFFICES ASSUME bad # {} PROVE FALSE
    OBVIOUS
<1>1. bad \in SUBSET Nat
    OBVIOUS
<1>2. PICK k \in bad : \A m \in bad : k <= m
    BY <1>1, LeastNatural
<1>3. k \in 1 .. n /\ k - 1 \in 0 .. n /\ ~(k <= k - 1)
    BY <1>2
<1>4. k - 1 \in S
    BY <1>2, <1>3
<1> QED
    BY <1>2, <1>3, <1>4

-----------------------------------------------------------------------------
(* Ranks *)

\* In a finite ordered set, where below gives what is before an element, each number of
\* elements is before exactly one of them.
LEMMA Ranks ==
    ASSUME NEW S, IsFiniteSet(S), NEW below \in [S -> SUBSET S],
           \A x \in S : x \notin below[x],
           \A x, y \in S : x \in below[y] => below[x] \subseteq below[y],
           \A x, y \in S : x # y => x \in below[y] \/ y \in below[x]
    PROVE  /\ Cardinality(S) \in Nat
           /\ \A x \in S : Cardinality(below[x]) \in 0 .. Cardinality(S) - 1
           /\ \A x, y \in S : x \in below[y] => Cardinality(below[x]) < Cardinality(below[y])
           /\ \A x, y \in S : Cardinality(below[x]) = Cardinality(below[y]) => x = y
           /\ \A k \in 0 .. Cardinality(S) - 1 : \E x \in S : Cardinality(below[x]) = k
<1> DEFINE rank(x) == Cardinality(below[x])
           N == Cardinality(S)
           r == [x \in S |-> rank(x)]
<1>1. N \in Nat
    BY FS_CardinalityType
<1>2. ASSUME NEW x \in S PROVE IsFiniteSet(below[x]) /\ rank(x) \in 0 .. N - 1
    <2>1. below[x] \in SUBSET S /\ x \notin below[x]
        OBVIOUS
    <2>2. IsFiniteSet(below[x]) /\ rank(x) <= N /\ rank(x) # N
        BY <2>1, FS_Subset
    <2>3. rank(x) \in Nat
        BY <2>2, FS_CardinalityType
    <2> QED
        BY <1>1, <2>2, <2>3
<1>3. ASSUME NEW x \in S, NEW y \in S, x \in below[y] PROVE rank(x) < rank(y)
    <2>1. below[x] \in SUBSET below[y] /\ x \notin below[x]
        BY <1>3
    <2>2. IsFiniteSet(below[y]) /\ rank(x) \in Nat /\ rank(y) \in Nat
        BY <1>1, <1>2
    <2>3. rank(x) <= rank(y) /\ rank(x) # rank(y)
        BY <1>3, <2>1, <2>2, FS_Subset
    <2> QED
        BY <2>2, <2>3
<1>4. ASSUME NEW x \in S, NEW y \in S, rank(x) = rank(y) PROVE x = y
    <2> SUFFICES ASSUME x # y PROVE FALSE
        OBVIOUS
    <2>1. rank(x) < rank(y) \/ rank(y) < rank(x)
        BY <1>3
    <2>2. rank(x) \in 0 .. N - 1
        BY <1>2
    <2> HIDE DEF rank, N
    <2> QED
        BY <1>1, <1>4, <2>1, <2>2
<1>5. r \in [S -> 0 .. N - 1]
    BY <1>2
<1>6. \A x, y \in S : r[x] = r[y] => x = y
    BY <1>4
<1>7. r \in Injection(S, 0 .. N - 1)
    <2> HIDE DEF r
    <2> QED
        BY <1>5, <1>6 DEF Injection, IsInjective
<1>8. IsFiniteSet(0 .. N - 1) /\ Cardinality(0 .. N - 1) = N
    <2>1. 0 \in Int /\ N - 1 \in Int
        BY <1>1
    <2>2. /\ IsFiniteSet(0 .. N - 1)
          /\ Cardinality(0 .. N - 1) = IF 0 > N - 1 THEN 0 ELSE N - 1 - 0 + 1
        BY <2>1, FS_Interval
    <2> QED
        BY <1>1, <2>2
<1>9. r \in Surjection(S, 0 .. N - 1)
    <2> HIDE DEF r
    <2> QED
        BY <1>7, <1>8, FS_Injection
<1>10. \A k \in 0 .. N - 1 : \E x \in S : rank(x) = k
    BY <1>9 DEF Surjection
<1> QED
    BY <1>1, <1>2, <1>3, <1>4, <1>10

-----------------------------------------------------------------------------
(* Steps taken n times *)

\* What a step keeps, n steps keep.
LEMMA IteratesIn ==
    ASSUME NEW V, NEW n \in Nat, NEW g, g[0] \in V,
           \A i \in 1 .. n : g[i - 1] \in V => g[i] \in V
    PROVE  \A i \in 0 .. n : g[i] \in V
<1> DEFINE S == {i \in 0 .. n : g[i] \in V}
<1>1. 0 \in S /\ \A i \in 1 .. n : i - 1 \in S => i \in S
    OBVIOUS
<1> HIDE DEF S
<1>2. \A i \in 0 .. n : i \in S
    BY <1>1, Induct
<1> QED
    BY <1>2 DEF S

\* The values that n steps lead through.
Visits(g, F, v, n, V) ==
    g \in [0 .. n -> V] /\ g[0] = v /\ \A i \in 1 .. n : g[i] = F[g[i - 1]]

\* A step can be taken n times.
LEMMA Iterates ==
    ASSUME NEW V, NEW F \in [V -> V], NEW v \in V, NEW n \in Nat
    PROVE  \E g : Visits(g, F, v, n, V)
<1> DEFINE G(m) == {g \in [0 .. m -> V] : g[0] = v /\ \A i \in 1 .. m : g[i] = F[g[i - 1]]}
           S == {m \in 0 .. n : G(m) # {}}
<1>1. 0 \in S
    <2> DEFINE g == [i \in 0 .. 0 |-> v]
    <2>1. g \in [0 .. 0 -> V] /\ g[0] = v /\ \A i \in 1 .. 0 : g[i] = F[g[i - 1]]
        OBVIOUS
    <2>2. g \in G(0)
        BY <2>1
    <2> QED
        BY <2>2
<1>2. ASSUME NEW m \in 1 .. n, m - 1 \in S PROVE m \in S
    <2>1. PICK g \in [0 .. m - 1 -> V] : g[0] = v /\ \A i \in 1 .. m - 1 : g[i] = F[g[i - 1]]
        BY <1>2
    <2> DEFINE h == [i \in 0 .. m |-> IF i = m THEN F[g[m - 1]] ELSE g[i]]
    <2>2. m - 1 \in 0 .. m - 1 /\ g[m - 1] \in V
        OBVIOUS
    <2>3. h \in [0 .. m -> V]
        <3>1. \A i \in 0 .. m : i # m => i \in 0 .. m - 1
            OBVIOUS
        <3> QED
            BY <2>2, <3>1
    <2>4. h[0] = v
        BY <2>1
    <2>5. ASSUME NEW i \in 1 .. m PROVE h[i] = F[h[i - 1]]
        <3>1. i - 1 \in 0 .. m /\ i - 1 # m /\ i \in 0 .. m /\ h[i - 1] = g[i - 1]
            OBVIOUS
        <3>2. CASE i = m
            BY <3>1, <3>2
        <3>3. CASE i # m
            <4>1. i \in 1 .. m - 1
                BY <3>3
            <4> QED
                BY <2>1, <3>1, <3>3, <4>1
        <3> QED
            BY <3>2, <3>3
    <2> HIDE DEF h
    <2>6. h \in G(m)
        BY <2>3, <2>4, <2>5
    <2> QED
        BY <2>6
<1> HIDE DEF S
<1>3. n \in S
    BY <1>1, <1>2, Induct
<1>4. \E g : g \in G(n)
    BY <1>3 DEF S
<1> QED
    BY <1>4 DEF Visits

\* The values that n steps lead through, each of which may differ.
Takes(g, F, v, n, V) ==
    g \in [0 .. n -> V] /\ g[0] = v /\ \A i \in 1 .. n : g[i] = F[<<i, g[i - 1]>>]

\* Steps that differ can be taken one after the other.
LEMMA StepsInOrder ==
    ASSUME NEW V, NEW v \in V, NEW n \in Nat, NEW F \in [(1 .. n) \X V -> V]
    PROVE  \E g : Takes(g, F, v, n, V)
<1> DEFINE G(m) == {g \in [0 .. m -> V] : g[0] = v /\ \A i \in 1 .. m : g[i] = F[<<i, g[i - 1]>>]}
           S == {m \in 0 .. n : G(m) # {}}
<1>1. 0 \in S
    <2> DEFINE g == [i \in 0 .. 0 |-> v]
    <2>1. g \in [0 .. 0 -> V] /\ g[0] = v /\ \A i \in 1 .. 0 : g[i] = F[<<i, g[i - 1]>>]
        OBVIOUS
    <2>2. g \in G(0)
        BY <2>1
    <2> QED
        BY <2>2
<1>2. ASSUME NEW m \in 1 .. n, m - 1 \in S PROVE m \in S
    <2>1. PICK g \in [0 .. m - 1 -> V] : g[0] = v /\ \A i \in 1 .. m - 1 : g[i] = F[<<i, g[i - 1]>>]
        BY <1>2
    <2>2. m - 1 \in 0 .. m - 1 /\ g[m - 1] \in V
        OBVIOUS
    <2>3. PICK x \in V : x = F[<<m, g[m - 1]>>]
        BY <2>2
    <2> DEFINE h == [i \in 0 .. m |-> IF i = m THEN x ELSE g[i]]
    <2>4. h \in [0 .. m -> V]
        <3>1. \A i \in 0 .. m : i # m => i \in 0 .. m - 1
            OBVIOUS
        <3> QED
            BY <3>1
    <2>5. h[0] = v
        BY <2>1
    <2>6. ASSUME NEW i \in 1 .. m PROVE h[i] = F[<<i, h[i - 1]>>]
        <3>1. i - 1 \in 0 .. m /\ i - 1 # m /\ i \in 0 .. m /\ h[i - 1] = g[i - 1]
            OBVIOUS
        <3>2. CASE i = m
            BY <2>3, <3>1, <3>2
        <3>3. CASE i # m
            <4>1. i \in 1 .. m - 1
                BY <3>3
            <4>2. h[i] = g[i]
                BY <3>1, <3>3
            <4> QED
                BY <2>1, <3>1, <4>1, <4>2
        <3> QED
            BY <3>2, <3>3
    <2> HIDE DEF h
    <2>7. h \in G(m)
        BY <2>4, <2>5, <2>6
    <2> QED
        BY <2>7
<1> HIDE DEF S
<1>3. n \in S
    BY <1>1, <1>2, Induct
<1>4. \E g : g \in G(n)
    BY <1>3 DEF S
<1> QED
    BY <1>4 DEF Takes

\* FlattenSeq puts one sequence after the other.
LEMMA FlatSteps ==
    ASSUME NEW S, NEW ss \in Seq(Seq(S)), ss # <<>>
    PROVE  \E g : /\ g \in [1 .. Len(ss) -> Seq(S)] /\ g[1] = ss[1]
                  /\ \A i \in 2 .. Len(ss) : g[i] = g[i - 1] \o ss[i]
                  /\ FlattenSeq(ss) = g[Len(ss)]
<1> DEFINE n == Len(ss)
           V == (1 .. n) \X Seq(S)
           F == [v \in V |-> IF v[1] < n THEN <<v[1] + 1, v[2] \o ss[v[1] + 1]>> ELSE v]
           Eq(h) == h = [i \in 1 .. n |-> IF i = 1 THEN ss[i] ELSE h[i - 1] \o ss[i]]
           g == CHOOSE h : Eq(h)
<1>0. n \in Nat /\ n > 0 /\ 1 \in 1 .. n /\ n \in 1 .. n /\ n - 1 \in Nat
    BY EmptySeq
<1>1. \A i \in 1 .. n : ss[i] \in Seq(S)
    OBVIOUS
<1> HIDE DEF n
<1>2. F \in [V -> V]
    <2>1. ASSUME NEW v \in V, v[1] < n PROVE <<v[1] + 1, v[2] \o ss[v[1] + 1]>> \in V
        <3>1. v[1] + 1 \in 1 .. n /\ v[2] \in Seq(S)
            BY <1>0, <2>1
        <3>2. v[2] \o ss[v[1] + 1] \in Seq(S)
            BY <1>1, <3>1, ConcatProperties
        <3> QED
            BY <3>1, <3>2
    <2> QED
        BY <2>1
<1>3. <<1, ss[1]>> \in V
    BY <1>0, <1>1
<1>4. PICK e : Visits(e, F, <<1, ss[1]>>, n - 1, V)
    <2> HIDE DEF F, V
    <2> QED
        BY <1>0, <1>2, <1>3, Iterates, Zenon
<1>5. \A i \in 0 .. n - 1 : e[i] \in V
    BY <1>4 DEF Visits
<1>6. \A i \in 1 .. n - 1 : e[i] = F[e[i - 1]]
    BY <1>4 DEF Visits
<1>7. \A i \in 0 .. n - 1 : i \in {k \in 0 .. n - 1 : e[k][1] = k + 1}
    <2> DEFINE T == {k \in 0 .. n - 1 : e[k][1] = k + 1}
    <2>1. 0 \in T
        <3>1. e[0] = <<1, ss[1]>> /\ 0 \in 0 .. n - 1
            BY <1>0, <1>4 DEF Visits
        <3> QED
            BY <3>1
    <2>2. ASSUME NEW i \in 1 .. n - 1, i - 1 \in T PROVE i \in T
        <3>1. e[i - 1][1] = i /\ i < n /\ i - 1 \in 0 .. n - 1 /\ e[i - 1] \in V
            BY <1>0, <1>5, <2>2
        <3>2. e[i] = <<i + 1, e[i - 1][2] \o ss[i + 1]>>
            BY <1>6, <3>1
        <3> QED
            BY <1>0, <3>2
    <2> HIDE DEF T
    <2>3. \A i \in 0 .. n - 1 : i \in T
        BY <1>0, <2>1, <2>2, Induct
    <2> QED
        BY <2>3 DEF T
<1>8. ASSUME NEW i \in 1 .. n - 1 PROVE e[i][2] = e[i - 1][2] \o ss[i + 1]
    <2>1. e[i - 1][1] = i /\ i < n /\ i - 1 \in 0 .. n - 1 /\ e[i - 1] \in V
        BY <1>0, <1>5, <1>7
    <2>2. e[i] = <<i + 1, e[i - 1][2] \o ss[i + 1]>>
        BY <1>0, <1>6, <2>1
    <2>3. <<i + 1, e[i - 1][2] \o ss[i + 1]>>[2] = e[i - 1][2] \o ss[i + 1]
        OBVIOUS
    <2> QED
        BY <2>2, <2>3
<1>9. e[0][2] = ss[1]
    BY <1>4 DEF Visits
<1> HIDE DEF F
<1>10. \E h : Eq(h)
    <2> DEFINE h == [i \in 1 .. n |-> e[i - 1][2]]
    <2>1. h[1] = ss[1]
        BY <1>0, <1>9
    <2>2. ASSUME NEW i \in 2 .. n PROVE h[i] = h[i - 1] \o ss[i]
        <3>1. i - 1 \in 1 .. n - 1 /\ i - 1 + 1 = i /\ i \in 1 .. n
            BY <1>0
        <3>2. e[i - 1][2] = e[i - 1 - 1][2] \o ss[i - 1 + 1]
            BY <1>8, <3>1
        <3>3. h[i] = e[i - 1][2] /\ h[i - 1] = e[i - 1 - 1][2]
            BY <1>0, <3>1
        <3> QED
            BY <3>1, <3>2, <3>3
    <2>3. h = [i \in 1 .. n |-> h[i]]
        OBVIOUS
    <2> HIDE DEF h
    <2>4. ASSUME NEW i \in 1 .. n PROVE h[i] = IF i = 1 THEN ss[i] ELSE h[i - 1] \o ss[i]
        <3>1. i # 1 => i \in 2 .. n
            BY <1>0
        <3> QED
            BY <2>1, <2>2, <3>1
    <2>5. Eq(h)
        BY <2>3, <2>4
    <2> QED
        BY <2>5
<1>11. Eq(g)
    BY <1>10
<1>12. FlattenSeq(ss) = g[n]
    BY <1>0 DEF FlattenSeq, n
<1> HIDE DEF g
<1>13. g[1] = ss[1] /\ \A i \in 2 .. n : g[i] = g[i - 1] \o ss[i]
    <2>1. \A i \in 1 .. n : g[i] = IF i = 1 THEN ss[i] ELSE g[i - 1] \o ss[i]
        BY <1>11
    <2>2. ASSUME NEW i \in 2 .. n PROVE g[i] = g[i - 1] \o ss[i]
        <3>1. i # 1 /\ i \in 1 .. n
            BY <1>0
        <3> QED
            BY <2>1, <3>1
    <2>3. g[1] = ss[1]
        BY <1>0, <2>1
    <2> QED
        BY <2>2, <2>3
<1>14. \A i \in 1 .. n : g[i] \in Seq(S)
    <2> DEFINE T == {k \in 0 .. n - 1 : g[k + 1] \in Seq(S)}
    <2>1. 0 \in T
        BY <1>0, <1>1, <1>13
    <2>2. ASSUME NEW k \in 1 .. n - 1, k - 1 \in T PROVE k \in T
        <3>1. k + 1 \in 2 .. n /\ k + 1 - 1 = k /\ k - 1 + 1 = k /\ k + 1 \in 1 .. n /\ k \in 0 .. n - 1
            BY <1>0
        <3>2. g[k - 1 + 1] \in Seq(S)
            BY <2>2
        <3>3. g[k] \in Seq(S)
            BY <3>1, <3>2
        <3>4. PICK i : i = k + 1
            OBVIOUS
        <3>8. i \in 2 .. n /\ i - 1 = k
            BY <3>1, <3>4
        <3>9. g[i] = g[i - 1] \o ss[i]
            BY <1>13, <3>8
        <3>5. g[k + 1] = g[k] \o ss[k + 1]
            BY <3>4, <3>8, <3>9
        <3>6. ss[k + 1] \in Seq(S)
            BY <1>1, <3>1
        <3>7. g[k + 1] \in Seq(S)
            BY <3>3, <3>5, <3>6, ConcatProperties
        <3> QED
            BY <3>1, <3>7
    <2> HIDE DEF T
    <2>3. \A i \in 0 .. n - 1 : i \in T
        BY <1>0, <2>1, <2>2, Induct
    <2>4. ASSUME NEW i \in 1 .. n PROVE g[i] \in Seq(S)
        <3>1. i - 1 \in 0 .. n - 1 /\ i - 1 + 1 = i
            BY <1>0
        <3> QED
            BY <2>3, <3>1 DEF T
    <2> QED
        BY <2>4
<1>15. g \in [1 .. n -> Seq(S)]
    BY <1>11, <1>14
<1> QED
    BY <1>12, <1>13, <1>15 DEF n
=============================================================================
