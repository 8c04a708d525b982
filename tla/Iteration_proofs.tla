-------------------------- MODULE Iteration_proofs --------------------------
(***************************************************************************)
(* What repeated application of a function does, for every number of       *)
(* rounds.  The induction principle of the library takes an operator as    *)
(* its parameter; NatSubsetInduction states it for a set, by way of the    *)
(* least element of the set of counterexamples.                            *)
(***************************************************************************)
EXTENDS Iteration, Integers, FiniteSets, FiniteSetTheorems, WellFoundedInduction, TLAPS

(* A set that holds 0 and with every number its successor holds them all.  *)
THEOREM NatSubsetInduction ==
  ASSUME NEW S, 0 \in S, \A n \in Nat : n \in S => n+1 \in S
  PROVE  Nat \subseteq S
<1> DEFINE T == {n \in Nat : n \notin S}
<1>1. SUFFICES ASSUME T # {} PROVE FALSE
  OBVIOUS
<1>2. IsWellFoundedOn(OpToRel(<,Nat), Nat)
  BY NatLessThanWellFounded
<1>3. PICK x \in T : \A y \in T : ~ (<<y, x>> \in OpToRel(<,Nat))
  <2> HIDE DEF T
  <2>1. T \subseteq Nat BY DEF T
  <2> QED BY <1>1, <1>2, <2>1, WFMin
<1>4. \A y \in T : ~(y < x)
  BY <1>3 DEF OpToRel
<1>5. x \in Nat /\ x # 0
  OBVIOUS
<1>6. x - 1 \in Nat /\ x - 1 < x
  BY <1>5
<1>7. x - 1 \in S
  BY <1>4, <1>6
<1>8. (x - 1) + 1 \in S
  BY <1>6, <1>7
<1> QED BY <1>5, <1>8

(* A non-empty set of numbers has a least element.                         *)
LEMMA LeastElement ==
  ASSUME NEW S, S \subseteq Nat, S # {}
  PROVE  \E k \in S : \A i \in S : k <= i
<1>1. IsWellFoundedOn(OpToRel(<,Nat), Nat)
  BY NatLessThanWellFounded
<1>2. PICK k \in S : \A i \in S : ~(<<i, k>> \in OpToRel(<,Nat))
  BY <1>1, WFMin
<1>3. \A i \in S : ~(i < k)
  BY <1>2 DEF OpToRel
<1> QED BY <1>3

(* The functions that agree with the first n rounds of the loop.           *)
Approx(n, f, s, S) == {g \in [0..n -> S] : g[0] = s /\ \A i \in 0..(n-1) : g[i+1] = f[g[i]]}

(* There is such a function for every n.                                   *)
LEMMA ApproxExists ==
  ASSUME NEW S, NEW f \in [S -> S], NEW s \in S
  PROVE  \A n \in Nat : Approx(n, f, s, S) # {}
<1> DEFINE G == {n \in Nat : Approx(n, f, s, S) # {}}
<1>1. 0 \in G
  <2>1. [i \in 0..0 |-> s] \in Approx(0, f, s, S)
    BY DEF Approx
  <2> QED BY <2>1
<1>2. ASSUME NEW n \in Nat, n \in G PROVE n+1 \in G
  <2>1. PICK g \in [0..n -> S] : g[0] = s /\ \A i \in 0..(n-1) : g[i+1] = f[g[i]]
    BY <1>2 DEF Approx
  <2> DEFINE h == [i \in 0..(n+1) |-> IF i = n+1 THEN f[g[n]] ELSE g[i]]
  <2>2. h \in [0..(n+1) -> S]
    BY <2>1
  <2>3. h[0] = s
    BY <2>1
  <2>4. \A i \in 0..n : h[i+1] = f[h[i]]
    BY <2>1
  <2>5. h \in Approx(n+1, f, s, S)
    <3>1. (n+1)-1 = n OBVIOUS
    <3> HIDE DEF h
    <3> QED BY <2>2, <2>3, <2>4, <3>1 DEF Approx
  <2> QED BY <2>5
<1>3. Nat \subseteq G
  <2> HIDE DEF G
  <2> QED BY <1>1, <1>2, NatSubsetInduction
<1> QED BY <1>3

(* Two of them agree as far as both are defined.                           *)
LEMMA ApproxUnique ==
  ASSUME NEW S, NEW f \in [S -> S], NEW s \in S,
         NEW n \in Nat, NEW m \in Nat, n <= m,
         NEW g \in Approx(n, f, s, S), NEW h \in Approx(m, f, s, S)
  PROVE  \A i \in 0..n : g[i] = h[i]
<1> DEFINE E == {i \in Nat : i <= n => g[i] = h[i]}
<1>1. 0 \in E
  BY DEF Approx
<1>2. ASSUME NEW i \in Nat, i \in E PROVE i+1 \in E
  BY <1>2 DEF Approx
<1>3. Nat \subseteq E
  <2> HIDE DEF E
  <2> QED BY <1>1, <1>2, NatSubsetInduction
<1> QED BY <1>3

(* The recursive definition of Iterate has a solution: it is a function    *)
(* that starts at s and goes on by f.                                      *)
THEOREM IterateDef ==
  ASSUME NEW S, NEW f \in [S -> S], NEW s \in S
  PROVE  /\ Iterate(f, s) \in [Nat -> S]
         /\ Iterate(f, s)[0] = s
         /\ \A n \in Nat : Iterate(f, s)[n+1] = f[Iterate(f, s)[n]]
<1> DEFINE A(n) == CHOOSE g : g \in Approx(n, f, s, S)
           F == [n \in Nat |-> A(n)[n]]
<1>1. \A n \in Nat : A(n) \in Approx(n, f, s, S)
  BY ApproxExists
<1>2. F[0] = s
  BY <1>1 DEF Approx
<1>3. ASSUME NEW n \in Nat PROVE F[n] \in S /\ F[n+1] = f[F[n]]
  <2> HIDE DEF A
  <2>1. A(n) \in Approx(n, f, s, S) /\ A(n+1) \in Approx(n+1, f, s, S)
    BY <1>1
  <2>2. A(n)[n] = A(n+1)[n]
    BY <2>1, ApproxUnique, n \in 0..n, n <= n+1
  <2>3. A(n+1)[n+1] = f[A(n+1)[n]]
    BY <2>1 DEF Approx
  <2>4. A(n)[n] \in S
    BY <2>1 DEF Approx
  <2> QED BY <2>2, <2>3, <2>4
<1> HIDE DEF F
<1>4. F = [n \in Nat |-> IF n = 0 THEN s ELSE f[F[n-1]]]
  <2>1. ASSUME NEW n \in Nat PROVE F[n] = IF n = 0 THEN s ELSE f[F[n-1]]
    <3>1. CASE n = 0 BY <3>1, <1>2
    <3>2. CASE n # 0
      <4>1. n-1 \in Nat /\ (n-1)+1 = n BY <3>2
      <4> QED BY <4>1, <1>3, <3>2
    <3> QED BY <3>1, <3>2
  <2>2. F = [n \in Nat |-> F[n]] BY DEF F
  <2> QED BY <2>1, <2>2
<1>5. Iterate(f, s) = CHOOSE g : g = [n \in Nat |-> IF n = 0 THEN s ELSE f[g[n-1]]]
  BY DEF Iterate
<1>6. Iterate(f, s) = [n \in Nat |-> IF n = 0 THEN s ELSE f[Iterate(f, s)[n-1]]]
  BY <1>4, <1>5
<1> DEFINE I == Iterate(f, s)
<1>7. I[0] = s
  BY <1>6
<1>8. \A n \in Nat : I[n+1] = f[I[n]]
  <2> TAKE n \in Nat
  <2>1. n + 1 \in Nat /\ n + 1 # 0 /\ (n+1)-1 = n OBVIOUS
  <2> HIDE DEF I
  <2>2. I[n+1] = IF n+1 = 0 THEN s ELSE f[I[(n+1)-1]]
    BY <2>1, <1>6 DEF I
  <2> QED BY <2>1, <2>2
<1>9. I \in [Nat -> S]
  <2> DEFINE D == {n \in Nat : I[n] \in S}
  <2> HIDE DEF I
  <2>1. 0 \in D BY <1>7
  <2>2. \A n \in Nat : n \in D => n+1 \in D BY <1>8
  <2>3. Nat \subseteq D
    <3> HIDE DEF D
    <3> QED BY <2>1, <2>2, NatSubsetInduction
  <2>4. \A n \in Nat : I[n] \in S BY <2>3
  <2>5. I = [n \in Nat |-> I[n]] BY <1>6 DEF I
  <2> QED BY <2>4, <2>5
<1> QED BY <1>7, <1>8, <1>9

(* A set closed under the body of a loop and holding its entry value holds *)
(* the value of the loop after any number of rounds.                       *)
THEOREM IterateInvariant ==
  ASSUME NEW S, NEW f \in [S -> S], NEW s \in S,
         NEW G, s \in G, \A x \in S : x \in G => f[x] \in G
  PROVE  \A n \in Nat : Iterate(f, s)[n] \in S \cap G
<1> DEFINE I == Iterate(f, s)
           D == {n \in Nat : I[n] \in S \cap G}
<1>1. I \in [Nat -> S] /\ I[0] = s /\ \A n \in Nat : I[n+1] = f[I[n]]
  BY IterateDef
<1> HIDE DEF I
<1>2. 0 \in D
  BY <1>1
<1>3. ASSUME NEW n \in Nat, n \in D PROVE n + 1 \in D
  BY <1>1, <1>3
<1>4. Nat \subseteq D
  <2> HIDE DEF D
  <2> QED BY <1>2, <1>3, NatSubsetInduction
<1> QED BY <1>4 DEF I

(* There are n numbers from 1 to n.                                        *)
LEMMA CountUpTo ==
  ASSUME NEW n \in Nat
  PROVE  IsFiniteSet(1 .. n) /\ Cardinality(1 .. n) = n
BY FS_Interval

(* The values of the first n rounds.                                       *)
Visited(f, s, n) == {Iterate(f, s)[k] : k \in 0 .. n}

(* A round that meets a value seen before goes round in a circle: until    *)
(* the values visited are closed under f, every round adds a new one.      *)
LEMMA VisitedGrows ==
  ASSUME NEW S, NEW f \in [S -> S], NEW s \in S, NEW n \in Nat
  PROVE  /\ IsFiniteSet(Visited(f, s, n))
         /\ \/ \A x \in Visited(f, s, n) : f[x] \in Visited(f, s, n)
            \/ Cardinality(Visited(f, s, n)) = n + 1
<1> DEFINE I == Iterate(f, s)
           V(m) == {I[k] : k \in 0 .. m}
           Closed(m) == \A x \in V(m) : f[x] \in V(m)
           D == {m \in Nat : IsFiniteSet(V(m)) /\ (Closed(m) \/ Cardinality(V(m)) = m + 1)}
<1>1. I \in [Nat -> S] /\ I[0] = s /\ \A m \in Nat : I[m+1] = f[I[m]]
  BY IterateDef
<1> HIDE DEF I
<1>2. 0 \in D
  <2>1. V(0) = {I[0]}
    OBVIOUS
  <2>2. IsFiniteSet(V(0)) /\ Cardinality(V(0)) = 0 + 1
    <3>1. IsFiniteSet({I[0]}) /\ Cardinality({I[0]}) = 1
      BY FS_Singleton
    <3> HIDE DEF V
    <3> QED BY <2>1, <3>1
  <2> QED BY <2>2
<1>3. ASSUME NEW m \in Nat, m \in D PROVE m + 1 \in D
  <2>1. V(m+1) = V(m) \cup {I[m+1]}
    OBVIOUS
  <2>2. /\ IsFiniteSet(V(m+1))
        /\ Cardinality(V(m+1)) = IF I[m+1] \in V(m) THEN Cardinality(V(m)) ELSE Cardinality(V(m)) + 1
    <3>1. IsFiniteSet(V(m))
      BY <1>3
    <3> HIDE DEF V
    <3> QED BY <2>1, <3>1, FS_AddElement
  <2>3. CASE I[m+1] \in V(m)
    <3>1. V(m+1) = V(m)
      BY <2>1, <2>3
    <3>2. \A x \in V(m) : f[x] \in V(m)
      <4> SUFFICES ASSUME NEW k \in 0 .. m PROVE f[I[k]] \in V(m)
        OBVIOUS
      <4>1. f[I[k]] = I[k+1]
        BY <1>1
      <4> QED BY <4>1, <2>3
    <3> HIDE DEF V
    <3> QED BY <2>2, <3>1, <3>2
  <2>4. CASE I[m+1] \notin V(m)
    <3>1. ~Closed(m)
      <4>1. I[m] \in V(m) /\ f[I[m]] = I[m+1]
        BY <1>1
      <4> QED BY <4>1, <2>4
    <3>2. Cardinality(V(m)) = m + 1
      BY <1>3, <3>1
    <3>3. Cardinality(V(m+1)) = (m + 1) + 1
      BY <2>2, <2>4, <3>2
    <3> QED BY <2>2, <3>3
  <2> QED BY <2>3, <2>4
<1>4. Nat \subseteq D
  <2> HIDE DEF D
  <2> QED BY <1>2, <1>3, NatSubsetInduction
<1> QED BY <1>4 DEF Visited, I

(* What follows a value visited is the value of a round.                   *)
LEMMA VisitedNext ==
  ASSUME NEW S, NEW f \in [S -> S], NEW s \in S, NEW n \in Nat
  PROVE  \A x \in Visited(f, s, n) : \E k \in Nat : f[x] = Iterate(f, s)[k]
<1> DEFINE I == Iterate(f, s)
<1>1. I \in [Nat -> S] /\ I[0] = s /\ \A k \in Nat : I[k+1] = f[I[k]]
  BY IterateDef
<1> SUFFICES ASSUME NEW k \in 0 .. n PROVE \E j \in Nat : f[Iterate(f, s)[k]] = Iterate(f, s)[j]
  BY DEF Visited
<1>2. k \in Nat /\ k + 1 \in Nat
  OBVIOUS
<1> WITNESS k + 1 \in Nat
<1> QED BY <1>1, <1>2

(* So as many rounds as Q has elements visit a closed set, if they stay in *)
(* Q: the walk has gone round, or it has met them all.                     *)
THEOREM VisitedCloses ==
  ASSUME NEW S, NEW f \in [S -> S], NEW s \in S, NEW n \in Nat,
         NEW Q, IsFiniteSet(Q), Cardinality(Q) <= n + 1,
         \A k \in Nat : Iterate(f, s)[k] \in Q
  PROVE  \A x \in Visited(f, s, n) : f[x] \in Visited(f, s, n)
<1>1. IsFiniteSet(Visited(f, s, n)) /\ Visited(f, s, n) \in SUBSET Q
  <2>1. IsFiniteSet(Visited(f, s, n))
    BY VisitedGrows
  <2> QED BY <2>1 DEF Visited
<1>2. CASE Cardinality(Visited(f, s, n)) = n + 1
  <2>1. Visited(f, s, n) = Q
    <3>1. Cardinality(Q) \in Nat
      BY FS_CardinalityType
    <3> QED BY <1>1, <1>2, <3>1, FS_Subset
  <2> SUFFICES ASSUME NEW x \in Visited(f, s, n) PROVE f[x] \in Q
    BY <2>1
  <2>2. PICK k \in Nat : f[x] = Iterate(f, s)[k]
    BY VisitedNext
  <2> QED BY <2>2
<1>3. CASE Cardinality(Visited(f, s, n)) # n + 1
  BY <1>3, VisitedGrows
<1> QED BY <1>2, <1>3

=============================================================================
