---------------------------- MODULE LoopTheorems ----------------------------
(***************************************************************************)
(* What the proofs about loops, maps and sums rest on.  The models are     *)
(* written with recursive functions, so the first part shows that          *)
(* functions defined by recursion exist and what holds along them, by      *)
(* induction over sets of naturals.                                        *)
(***************************************************************************)
EXTENDS PartialMaps, Integers, Sequences, SequencesExt, FiniteSetsExt, Functions,
        FiniteSetTheorems, SequenceTheorems, NaturalsInduction, WellFoundedInduction, TLAPS

\* A set of naturals that is not empty has a least element.
LEMMA LeastElement ==
  ASSUME NEW T, T \subseteq Nat, T # {}
  PROVE  \E n \in T : \A m \in T : n <= m
<1>1. PICK n \in T : \A m \in T : ~(<<m, n>> \in OpToRel(<, Nat))
  BY WFMin, NatLessThanWellFounded
<1>2. ASSUME NEW m \in T PROVE n <= m
  <2>1. m \in Nat /\ n \in Nat
    OBVIOUS
  <2>2. ~(m < n)
    BY <1>1, <2>1, Zenon DEF OpToRel
  <2> QED BY <2>1, <2>2
<1>3. n \in T /\ \A m \in T : n <= m
  BY <1>2
<1> QED BY <1>3, Zenon

\* Induction over the naturals, with sets in the place of predicates.
LEMMA StrongInduction ==
  ASSUME NEW T, \A n \in Nat : (\A m \in 0 .. n - 1 : m \in T) => n \in T
  PROVE  \A n \in Nat : n \in T
<1> DEFINE Bad == Nat \ T
<1> SUFFICES ASSUME Bad # {} PROVE FALSE
  OBVIOUS
<1>1. PICK n \in Bad : \A m \in Bad : n <= m
  BY LeastElement
<1>2. \A m \in 0 .. n - 1 : m \in T
  BY <1>1
<1> QED BY <1>2

\* The same, one number at a time.
LEMMA Induction ==
  ASSUME NEW T, 0 \in T, \A n \in Nat : n \in T => n + 1 \in T
  PROVE  \A n \in Nat : n \in T
<1>1. ASSUME NEW n \in Nat, \A m \in 0 .. n - 1 : m \in T PROVE n \in T
  <2>1. CASE n = 0
    BY <2>1
  <2>2. CASE n # 0
    <3>1. n - 1 \in Nat /\ n - 1 \in T /\ (n - 1) + 1 = n
      BY <1>1, <2>2
    <3> QED BY <3>1
  <2> QED BY <2>1, <2>2
<1> QED BY <1>1, StrongInduction

\* Max of a bounded set.
LEMMA GreatestElement ==
  ASSUME NEW T, NEW n \in Nat, T \subseteq 0 .. n, T # {}
  PROVE  Max(T) \in T /\ \A y \in T : Max(T) >= y
<1> DEFINE D == {n - x : x \in T}
<1>1. D \subseteq Nat /\ D # {}
  <2>1. PICK x : x \in T
    OBVIOUS
  <2>2. n - x \in D
    BY <2>1
  <2>3. ASSUME NEW y \in T PROVE n - y \in Nat
    OBVIOUS
  <2> QED BY <2>2, <2>3
<1>2. PICK m \in D : \A y \in D : m <= y
  <2> HIDE DEF D
  <2> QED BY <1>1, LeastElement
<1>3. PICK x \in T : m = n - x
  OBVIOUS
<1>4. ASSUME NEW y \in T PROVE x >= y
  <2>1. n - y \in D /\ m <= n - y /\ x \in Nat /\ y \in Nat
    BY <1>2
  <2> QED BY <1>3, <2>1
<1>5. \E z \in T : \A y \in T : z >= y
  BY <1>4
<1> QED BY <1>5, Zenon DEF Max

\* What holds before a loop and is kept by its body holds throughout.
LEMMA LoopInvariant ==
  ASSUME NEW S, NEW N \in Nat, NEW f, f[0] \in S,
         \A n \in 1 .. N : f[n - 1] \in S => f[n] \in S
  PROVE  \A n \in 0 .. N : f[n] \in S
<1> DEFINE T == {n \in Nat : n <= N => f[n] \in S}
<1>1. 0 \in T
  OBVIOUS
<1>2. ASSUME NEW n \in Nat, n \in T PROVE n + 1 \in T
  <2> SUFFICES ASSUME n + 1 <= N PROVE f[n + 1] \in S
    OBVIOUS
  <2>1. n + 1 \in 1 .. N /\ (n + 1) - 1 = n /\ f[n] \in S
    BY <1>2
  <2> QED BY <2>1
<1>3. \A n \in Nat : n \in T
  <2> HIDE DEF T
  <2> QED BY <1>1, <1>2, Induction
<1> QED BY <1>3

\* Two loops with the same body have the same result.
LEMMA SameLoop ==
  ASSUME NEW N \in Nat, NEW f, NEW g, f[0] = g[0],
         \A n \in 1 .. N : f[n - 1] = g[n - 1] => f[n] = g[n]
  PROVE  f[N] = g[N]
<1> DEFINE T == {n \in Nat : n <= N => f[n] = g[n]}
<1>1. 0 \in T
  OBVIOUS
<1>2. ASSUME NEW n \in Nat, n \in T PROVE n + 1 \in T
  <2> SUFFICES ASSUME n + 1 <= N PROVE f[n + 1] = g[n + 1]
    OBVIOUS
  <2>1. n + 1 \in 1 .. N /\ (n + 1) - 1 = n /\ f[n] = g[n]
    BY <1>2
  <2> QED BY <2>1
<1>3. \A n \in Nat : n \in T
  <2> HIDE DEF T
  <2> QED BY <1>1, <1>2, Induction
<1> QED BY <1>3

\* Functions defined by recursion exist.  f[x] is base[x] where x has rank 0,
\* and is computed by step[x] from f[next[x]], of a smaller rank, elsewhere.
Recursion(D, S, N, rank, base, next, step) ==
  /\ N \in Nat
  /\ rank \in [D -> 0 .. N]
  /\ base \in [D -> S] /\ next \in [D -> D] /\ step \in [D -> [S -> S]]
  /\ \A x \in D : rank[x] > 0 => rank[next[x]] < rank[x]

Solves(f, D, S, rank, base, next, step) ==
  /\ f \in [D -> S]
  /\ \A x \in D : f[x] = IF rank[x] = 0 THEN base[x] ELSE step[x][f[next[x]]]

\* By building it rank by rank.
LEMMA RecursiveFunction ==
  ASSUME NEW D, NEW S, NEW N, NEW rank, NEW base, NEW next, NEW step,
         Recursion(D, S, N, rank, base, next, step)
  PROVE  \E f : Solves(f, D, S, rank, base, next, step)
<1> USE DEF Recursion
<1> DEFINE
  Below(n) == {x \in D : rank[x] < n}
  Sol(n) == {h \in [Below(n) -> S] :
               \A x \in Below(n) :
                 h[x] = IF rank[x] = 0 THEN base[x] ELSE step[x][h[next[x]]]}
  Solvable == {n \in Nat : Sol(n) # {}}
<1>1. Sol(0) # {}
  <2>1. Below(0) = {}
    OBVIOUS
  <2>2. [x \in {} |-> base[x]] \in Sol(0)
    BY <2>1
  <2> QED BY <2>2
<1>2. ASSUME NEW n \in Nat, Sol(n) # {} PROVE Sol(n + 1) # {}
  <2>1. PICK h : h \in Sol(n)
    BY <1>2
  <2> DEFINE g == [x \in Below(n + 1) |-> IF rank[x] = 0 THEN base[x] ELSE step[x][h[next[x]]]]
  <2>2. ASSUME NEW x \in Below(n + 1), rank[x] # 0 PROVE next[x] \in Below(n)
    BY <2>2
  <2>3. ASSUME NEW x \in Below(n) PROVE x \in Below(n + 1) /\ g[x] = h[x]
    BY <2>1
  <2>4. g \in [Below(n + 1) -> S]
    <3> SUFFICES ASSUME NEW x \in Below(n + 1), rank[x] # 0
                 PROVE step[x][h[next[x]]] \in S
      OBVIOUS
    <3>1. h[next[x]] \in S
      BY <2>1, <2>2
    <3> QED BY <3>1
  <2>5. ASSUME NEW x \in Below(n + 1)
        PROVE  g[x] = IF rank[x] = 0 THEN base[x] ELSE step[x][g[next[x]]]
    BY <2>2, <2>3
  <2>6. g \in Sol(n + 1)
    BY <2>4, <2>5
  <2> QED BY <2>6
<1>3. N + 1 \in Solvable
  <2>1. 0 \in Solvable
    BY <1>1
  <2>2. \A n \in Nat : n \in Solvable => n + 1 \in Solvable
    <3> HIDE DEF Sol
    <3> QED BY <1>2
  <2> HIDE DEF Solvable
  <2>3. \A n \in Nat : n \in Solvable
    BY <2>1, <2>2, Induction
  <2> QED BY <2>3
<1>4. Below(N + 1) = D
  OBVIOUS
<1> QED BY <1>3, <1>4 DEF Solves

\* The same for a loop over 1 .. N.
Loop(S, N, init, step) == N \in Nat /\ init \in S /\ step \in [1 .. N -> [S -> S]]
Loops(f, S, N, init, step) ==
  /\ f \in [0 .. N -> S]
  /\ f[0] = init
  /\ \A n \in 1 .. N : f[n] = step[n][f[n - 1]]

\* A loop is a recursion whose ranks are the positions.
LEMMA Iteration ==
  ASSUME NEW S, NEW N, NEW init, NEW step, Loop(S, N, init, step)
  PROVE  \E f : Loops(f, S, N, init, step)
<1> USE DEF Loop
<1> DEFINE D == 0 .. N
           rank == [n \in D |-> n]
           base == [n \in D |-> init]
           next == [n \in D |-> IF n = 0 THEN 0 ELSE n - 1]
           stp == [n \in D |-> IF n = 0 THEN [s \in S |-> s] ELSE step[n]]
<1>1. rank \in [D -> 0 .. N] /\ base \in [D -> S] /\ next \in [D -> D]
  OBVIOUS
<1>2. stp \in [D -> [S -> S]]
  OBVIOUS
<1>3. \A x \in D : rank[x] > 0 => rank[next[x]] < rank[x]
  OBVIOUS
<1> HIDE DEF D, rank, base, next, stp
<1>0. Recursion(D, S, N, rank, base, next, stp)
  BY <1>1, <1>2, <1>3 DEF Recursion
<1>4. PICK f : Solves(f, D, S, rank, base, next, stp)
  BY <1>0, RecursiveFunction
<1>5. f \in [0 .. N -> S]
  BY <1>4 DEF D, Solves
<1>6. f[0] = init
  BY <1>4 DEF D, rank, base, Solves
<1>7. ASSUME NEW n \in 1 .. N PROVE f[n] = step[n][f[n - 1]]
  BY <1>4 DEF D, rank, next, stp, Solves
<1> QED BY <1>5, <1>6, <1>7 DEF Loops

-----------------------------------------------------------------------------
(* Sums over finite sets (SumFunction of the community modules).           *)

\* The element the folds of the community modules take next.
Pick(s) == CHOOSE x \in s : TRUE

\* g has the sum of f over each subset of S, one picked element at a time.
IsSum(g, f, S) ==
  /\ g \in [SUBSET S -> Int]
  /\ g[{}] = 0
  /\ \A s \in SUBSET S : s # {} => g[s] = f[Pick(s)] + g[s \ {Pick(s)}]

\* SumFunctionOnSet is such a sum.
LEMMA SumOnSet ==
  ASSUME NEW S, IsFiniteSet(S), NEW f, \A x \in S : f[x] \in Int
  PROVE  \E g : IsSum(g, f, S) /\ SumFunctionOnSet(f, S) = g[S]
<1> DEFINE D == SUBSET S
           N == Cardinality(S)
           rank == [s \in D |-> Cardinality(s)]
           base == [s \in D |-> 0]
           next == [s \in D |-> s \ {Pick(s)}]
           step == [s \in D |-> [v \in Int |-> IF s = {} THEN v ELSE f[Pick(s)] + v]]
           Eqn(g) == g = [s \in D |-> IF s = {} THEN 0 ELSE f[Pick(s)] + g[s \ {Pick(s)}]]
<1>1. ASSUME NEW s \in D
      PROVE  /\ IsFiniteSet(s) /\ Cardinality(s) \in 0 .. N /\ Cardinality(s) \in Nat /\ s \ {Pick(s)} \in D
             /\ Cardinality(s) = 0 <=> s = {}
             /\ s # {} => Cardinality(s \ {Pick(s)}) < Cardinality(s) /\ f[Pick(s)] \in Int
  <2>1. IsFiniteSet(s) /\ Cardinality(s) <= N
    BY FS_Subset
  <2>2. Cardinality(s) \in Nat /\ N \in Nat
    BY <2>1, FS_CardinalityType
  <2>3. Cardinality(s) = 0 <=> s = {}
    BY <2>1, FS_EmptySet
  <2>4. s # {} => Pick(s) \in s
    BY DEF Pick
  <2>5. s # {} => Cardinality(s \ {Pick(s)}) = Cardinality(s) - 1
    BY <2>1, <2>4, FS_RemoveElement
  <2> QED BY <2>1, <2>2, <2>3, <2>4, <2>5
<1>2. Recursion(D, Int, N, rank, base, next, step)
  <2>1. N \in Nat
    BY FS_CardinalityType
  <2>2. rank \in [D -> 0 .. N] /\ base \in [D -> Int] /\ next \in [D -> D]
    <3>1. \A s \in D : Cardinality(s) \in 0 .. N /\ s \ {Pick(s)} \in D
      BY <1>1, Zenon
    <3>2. rank \in [D -> 0 .. N]
      <4> HIDE DEF D, N
      <4> QED BY <3>1, Zenon
    <3>3. next \in [D -> D]
      <4> HIDE DEF D
      <4> QED BY <3>1, Zenon
    <3> QED BY <3>2, <3>3
  <2>3. step \in [D -> [Int -> Int]]
    <3>1. \A s \in D : s # {} => f[Pick(s)] \in Int
      BY <1>1, Zenon
    <3>2. \A s \in D, v \in Int : (IF s = {} THEN v ELSE f[Pick(s)] + v) \in Int
      <4> HIDE DEF D
      <4> QED BY <3>1
    <3> HIDE DEF D, N
    <3> QED BY <3>2
  <2>4. \A s \in D : rank[s] > 0 => rank[next[s]] < rank[s]
    <3> HIDE DEF D, N
    <3> QED BY <1>1
  <2> QED BY <2>1, <2>2, <2>3, <2>4 DEF Recursion
<1>3. \E g : Eqn(g)
  <2> HIDE DEF rank, base, next, step, N
  <2>1. PICK g : Solves(g, D, Int, rank, base, next, step)
    BY <1>2, RecursiveFunction
  <2>2. g \in [D -> Int]
    BY <2>1 DEF Solves
  <2>3. ASSUME NEW s \in D
        PROVE  g[s] = IF s = {} THEN 0 ELSE f[Pick(s)] + g[s \ {Pick(s)}]
    <3> HIDE DEF D
    <3>1. g[s] = IF rank[s] = 0 THEN base[s] ELSE step[s][g[next[s]]]
      BY <2>1 DEF Solves
    <3>2. rank[s] = 0 <=> s = {}
      BY <1>1 DEF rank
    <3>3. next[s] = s \ {Pick(s)} /\ g[next[s]] \in Int
      BY <1>1, <2>2 DEF next
    <3> QED BY <3>1, <3>2, <3>3 DEF base, step
  <2> QED BY <2>2, <2>3
<1> DEFINE h == CHOOSE g : Eqn(g)
<1>4. Eqn(h)
  BY <1>3
<1>5. SumFunctionOnSet(f, S) = h[S]
  BY Zenon DEF SumFunctionOnSet, FoldFunctionOnSet, MapThenFoldSet, Pick
<1> HIDE DEF h
<1>6. h[{}] = 0 /\ \A s \in D : s # {} => h[s] = f[Pick(s)] + h[s \ {Pick(s)}]
  <2>1. ASSUME NEW g, Eqn(g)
        PROVE  g[{}] = 0 /\ \A s \in D : s # {} => g[s] = f[Pick(s)] + g[s \ {Pick(s)}]
    BY <2>1
  <2> QED BY <1>4, <2>1
<1>7. h = [s \in D |-> h[s]]
  <2>1. ASSUME NEW g, Eqn(g) PROVE g = [s \in D |-> g[s]]
    BY <2>1
  <2> QED BY <1>4, <2>1
<1>8. \A s \in D : h[s] \in Int
  <2> DEFINE T == {n \in Nat : \A s \in D : Cardinality(s) = n => h[s] \in Int}
  <2>1. ASSUME NEW n \in Nat, \A m \in 0 .. n - 1 : m \in T PROVE n \in T
    <3> SUFFICES ASSUME NEW s \in D, Cardinality(s) = n PROVE h[s] \in Int
      OBVIOUS
    <3>1. CASE s = {}
      <4>1. h[s] = 0
        BY <1>6, <3>1, Zenon
      <4> QED BY <4>1
    <3>2. CASE s # {}
      <4> DEFINE r == s \ {Pick(s)}
      <4>1. r \in D /\ Cardinality(r) < n /\ f[Pick(s)] \in Int
        BY <1>1, <3>2
      <4>2. Cardinality(r) \in Nat
        BY <1>1, <4>1
      <4>3. h[r] \in Int
        <5> HIDE DEF r, D
        <5> QED BY <2>1, <4>1, <4>2
      <4>4. h[s] = f[Pick(s)] + h[r]
        BY <1>6, <3>2
      <4> HIDE DEF r
      <4> QED BY <4>1, <4>3, <4>4
    <3> QED BY <3>1, <3>2
  <2>2. \A n \in Nat : n \in T
    <3> HIDE DEF T
    <3> QED BY <2>1, StrongInduction
  <2>3. ASSUME NEW s \in D PROVE h[s] \in Int
    <3>1. Cardinality(s) \in Nat
      <4> HIDE DEF D
      <4> QED BY <1>1
    <3>2. Cardinality(s) \in T
      <4> HIDE DEF T
      <4> QED BY <2>2, <3>1
    <3> QED BY <3>2
  <2> QED BY <2>3
<1>9. h \in [SUBSET S -> Int]
  BY <1>7, <1>8
<1> QED BY <1>5, <1>6, <1>9 DEF IsSum

\* SumFunction is one over the whole domain.
LEMMA SumExists ==
  ASSUME NEW S, IsFiniteSet(S), NEW f \in [S -> Int]
  PROVE  \E g : IsSum(g, f, S) /\ SumFunction(f) = g[S]
<1>1. DOMAIN f = S /\ \A x \in S : f[x] \in Int
  OBVIOUS
<1>2. SumFunction(f) = SumFunctionOnSet(f, S)
  BY <1>1 DEF SumFunction
<1>3. PICK g : IsSum(g, f, S) /\ SumFunctionOnSet(f, S) = g[S]
  BY <1>1, SumOnSet
<1> QED BY <1>2, <1>3

\* g has the sum of f over each subset of S, whichever element comes first.
Sums(g, f, S) ==
  /\ IsFiniteSet(S)
  /\ g \in [SUBSET S -> Int]
  /\ g[{}] = 0
  /\ \A x \in S : f[x] \in Int
  /\ \A s \in SUBSET S : \A x \in s : g[s] = f[x] + g[s \ {x}]

\* The order in which elements are added does not matter.
LEMMA SumAny ==
  ASSUME NEW S, IsFiniteSet(S), NEW f, \A x \in S : f[x] \in Int, NEW g, IsSum(g, f, S)
  PROVE  Sums(g, f, S)
<1> DEFINE T == {n \in Nat : \A s \in SUBSET S : Cardinality(s) = n =>
                               \A x \in s : g[s] = f[x] + g[s \ {x}]}
<1>1. ASSUME NEW s \in SUBSET S
      PROVE  Cardinality(s) \in Nat /\ \A x \in s : Cardinality(s \ {x}) = Cardinality(s) - 1
  <2>1. IsFiniteSet(s)
    BY FS_Subset
  <2> QED BY <2>1, FS_CardinalityType, FS_RemoveElement
<1>2. ASSUME NEW n \in Nat, \A m \in 0 .. n - 1 : m \in T PROVE n \in T
  <2> SUFFICES ASSUME NEW s \in SUBSET S, Cardinality(s) = n, NEW x \in s
               PROVE  g[s] = f[x] + g[s \ {x}]
    OBVIOUS
  <2> DEFINE p == Pick(s)
  <2>1. p \in s /\ g[s] = f[p] + g[s \ {p}]
    BY DEF IsSum, Pick
  <2> HIDE DEF p
  <2>2. CASE x = p
    BY <2>1, <2>2
  <2>3. CASE x # p
    <3> DEFINE r == s \ {p}
               q == s \ {x}
               b == s \ {p, x}
    <3>1. r \in SUBSET S /\ x \in r /\ r \ {x} = b /\ q \in SUBSET S /\ p \in q /\ q \ {p} = b
      BY <2>1, <2>3
    <3>2. Cardinality(r) = n - 1 /\ Cardinality(q) = n - 1 /\ n - 1 \in 0 .. n - 1
      <4>1. Cardinality(r) = n - 1 /\ Cardinality(q) = n - 1
        BY <1>1, <2>1
      <4>2. Cardinality(r) \in Nat
        BY <1>1, <3>1
      <4> HIDE DEF r
      <4> QED BY <4>1, <4>2
    <3>3. n - 1 \in T
      BY <1>2, <3>2
    <3> HIDE DEF r, q, b
    <3>4. g[r] = f[x] + g[b] /\ g[q] = f[p] + g[b]
      BY <3>1, <3>2, <3>3
    <3>5. f[x] \in Int /\ f[p] \in Int /\ g[b] \in Int
      BY <2>1, <3>1 DEF IsSum
    <3> QED BY <2>1, <3>4, <3>5 DEF r, q
  <2> QED BY <2>2, <2>3
<1>3. \A n \in Nat : n \in T
  <2> HIDE DEF T
  <2> QED BY <1>2, StrongInduction
<1>4. ASSUME NEW s \in SUBSET S, NEW x \in s PROVE g[s] = f[x] + g[s \ {x}]
  <2>1. Cardinality(s) \in T
    <3> HIDE DEF T
    <3> QED BY <1>1, <1>3
  <2> QED BY <2>1
<1> QED BY <1>4 DEF Sums, IsSum

\* Equal terms have equal sums.
LEMMA SumTwo ==
  ASSUME NEW S, IsFiniteSet(S), NEW f, \A x \in S : f[x] \in Int, NEW g, IsSum(g, f, S),
         NEW S2, IsFiniteSet(S2), NEW f2, \A x \in S2 : f2[x] \in Int, NEW g2, IsSum(g2, f2, S2),
         NEW U, U \subseteq S, U \subseteq S2, \A x \in U : f[x] = f2[x]
  PROVE  g[U] = g2[U]
<1> DEFINE T == {n \in Nat : \A s \in SUBSET U : Cardinality(s) = n => g[s] = g2[s]}
<1>1. ASSUME NEW s \in SUBSET U
      PROVE  Cardinality(s) \in Nat /\ \A x \in s : Cardinality(s \ {x}) = Cardinality(s) - 1
  <2>1. IsFiniteSet(s)
    <3>1. s \in SUBSET S
      OBVIOUS
    <3> QED BY <3>1, FS_Subset
  <2> QED BY <2>1, FS_CardinalityType, FS_RemoveElement
<1>2. ASSUME NEW n \in Nat, \A m \in 0 .. n - 1 : m \in T PROVE n \in T
  <2> SUFFICES ASSUME NEW s \in SUBSET U, Cardinality(s) = n PROVE g[s] = g2[s]
    OBVIOUS
  <2>1. CASE s = {}
    BY <2>1 DEF IsSum
  <2>2. CASE s # {}
    <3> DEFINE p == Pick(s)
               r == s \ {p}
    <3>1. p \in s
      BY <2>2 DEF Pick
    <3>2. g[s] = f[p] + g[r] /\ g2[s] = f2[p] + g2[r]
      <4>1. s \in SUBSET S /\ s \in SUBSET S2
        OBVIOUS
      <4> QED BY <2>2, <4>1 DEF IsSum
    <3> HIDE DEF p
    <3>3. r \in SUBSET U /\ Cardinality(r) = n - 1 /\ n - 1 \in 0 .. n - 1
      <4>1. r \in SUBSET U /\ Cardinality(r) = n - 1
        BY <1>1, <3>1
      <4>2. Cardinality(r) \in Nat
        BY <1>1, <4>1
      <4> HIDE DEF r
      <4> QED BY <4>1, <4>2
    <3> HIDE DEF r
    <3>4. g[r] = g2[r]
      BY <1>2, <3>3
    <3> QED BY <3>1, <3>2, <3>4
  <2> QED BY <2>1, <2>2
<1>3. \A n \in Nat : n \in T
  <2> HIDE DEF T
  <2> QED BY <1>2, StrongInduction
<1>4. Cardinality(U) \in T
  <2> HIDE DEF T
  <2> QED BY <1>1, <1>3
<1> QED BY <1>4

\* One more term, or one that changes.
LEMMA SumPut ==
  ASSUME NEW S, IsFiniteSet(S), NEW f \in [S -> Int], NEW x, NEW v \in Int
  PROVE  /\ SumFunction(f) \in Int
         /\ SumFunction(Put(f, x, v)) \in Int
         /\ x \in S => SumFunction(Put(f, x, v)) = SumFunction(f) + v - f[x]
         /\ x \notin S => SumFunction(Put(f, x, v)) = SumFunction(f) + v
<1> DEFINE S2 == S \cup {x}
           f2 == Put(f, x, v)
           U == S \ {x}
<1>1. IsFiniteSet(S2) /\ f2 \in [S2 -> Int] /\ f2[x] = v /\ \A y \in U : f[y] = f2[y]
  <2>1. IsFiniteSet(S2)
    BY FS_AddElement
  <2> QED BY <2>1 DEF Put
<1>2. PICK g : IsSum(g, f, S) /\ SumFunction(f) = g[S]
  BY SumExists
<1> HIDE DEF f2
<1>3. PICK g2 : IsSum(g2, f2, S2) /\ SumFunction(f2) = g2[S2]
  <2> HIDE DEF S2
  <2> QED BY <1>1, SumExists
<1>4. U \subseteq S /\ U \subseteq S2
  OBVIOUS
<1>5. g[U] = g2[U]
  <2> HIDE DEF U, S2
  <2> QED BY <1>1, <1>2, <1>3, <1>4, SumTwo
<1>6. g2[S2] = v + g2[U]
  <2>1. S2 \in SUBSET S2 /\ x \in S2 /\ S2 \ {x} = U
    OBVIOUS
  <2> HIDE DEF U, S2
  <2>2. Sums(g2, f2, S2)
    BY <1>1, <1>3, SumAny
  <2> QED BY <1>1, <2>1, <2>2 DEF Sums
<1>7. x \in S => g[S] = f[x] + g[U]
  <2>1. S \in SUBSET S
    OBVIOUS
  <2>2. Sums(g, f, S)
    BY <1>2, SumAny
  <2> QED BY <2>1, <2>2 DEF Sums
<1>8. x \notin S => U = S
  OBVIOUS
<1>9. g[S] \in Int /\ g[U] \in Int /\ g2[S2] \in Int /\ (x \in S => f[x] \in Int)
  BY <1>2, <1>3, <1>4 DEF IsSum
<1> HIDE DEF U, S2
<1> QED BY <1>2, <1>3, <1>5, <1>6, <1>7, <1>8, <1>9 DEF f2

\* A sum after one of its terms grew by d.
Grows(f, g, S, x, d) ==
  /\ IsFiniteSet(S) /\ f \in [S -> Int] /\ g \in [S \cup {x} -> Int] /\ d \in Int
  /\ g[x] = (IF x \in S THEN f[x] ELSE 0) + d
  /\ \A y \in S : y # x => g[y] = f[y]

\* By SumPut.
LEMMA SumGrows ==
  ASSUME NEW S, NEW f, NEW g, NEW x, NEW d, Grows(f, g, S, x, d)
  PROVE  SumFunction(g) = SumFunction(f) + d
<1> USE DEF Grows
<1> DEFINE v == g[x]
<1>1. v \in Int
  OBVIOUS
<1>2. g = Put(f, x, v)
  BY DEF Put
<1>3. /\ SumFunction(f) \in Int
      /\ x \in S => SumFunction(Put(f, x, v)) = SumFunction(f) + v - f[x]
      /\ x \notin S => SumFunction(Put(f, x, v)) = SumFunction(f) + v
  <2> HIDE DEF v
  <2> QED BY <1>1, SumPut
<1>4. x \in S => f[x] \in Int
  OBVIOUS
<1>5. CASE x \in S
  <2>1. SumFunction(g) = SumFunction(f) + v - f[x] /\ v = f[x] + d
    BY <1>2, <1>3, <1>5
  <2> HIDE DEF v
  <2> QED BY <1>1, <1>3, <1>4, <1>5, <2>1
<1>6. CASE x \notin S
  <2>1. SumFunction(g) = SumFunction(f) + v /\ v = 0 + d
    BY <1>2, <1>3, <1>6
  <2> HIDE DEF v
  <2> QED BY <1>1, <1>3, <2>1
<1> QED BY <1>5, <1>6

-----------------------------------------------------------------------------
(* Permutations.                                                           *)

\* A permutation of a finite set has its elements and no others.
LEMMA OrderCovers ==
  ASSUME NEW C, IsFiniteSet(C), NEW order \in SetToSeqs(C)
  PROVE  order \in Seq(C) /\ \A x \in C : \E n \in 1 .. Len(order) : order[n] = x
<1> DEFINE N == Cardinality(C)
           D == 1 .. N
<1>1. N \in Nat
  BY FS_CardinalityType
<1>2. order \in [D -> C] /\ \A i, j \in D : i # j => order[i] # order[j]
  BY DEF SetToSeqs
<1>3. order \in Injection(D, C)
  <2> HIDE DEF D
  <2> QED BY <1>2 DEF Injection, IsInjective
<1>4. Cardinality(D) = N
  <2>1. Cardinality(1 .. N) = IF 1 > N THEN 0 ELSE N - 1 + 1
    <3> HIDE DEF N
    <3> QED BY <1>1, FS_Interval
  <2> HIDE DEF N
  <2> QED BY <1>1, <2>1
<1>5. order \in Surjection(D, C)
  <2>1. Cardinality(D) = Cardinality(C)
    BY <1>4
  <2> HIDE DEF D
  <2>2. Cardinality(D) = Cardinality(C) <=> order \in Surjection(D, C)
    BY <1>3, FS_Injection, Zenon
  <2> QED BY <2>1, <2>2
<1>6. \A x \in C : \E n \in D : order[n] = x
  <2> HIDE DEF D
  <2> QED BY <1>5 DEF Surjection
<1> HIDE DEF N
<1>7. order \in Seq(C) /\ Len(order) = N
  BY <1>1, <1>2
<1> QED BY <1>6, <1>7

-----------------------------------------------------------------------------
(* Sums over the subsets of a finite set.                                  *)

\* What holds of {} and of a set if of the set without one of its elements,
\* holds of every subset of a finite set.
LEMMA SetInduction ==
  ASSUME NEW S, IsFiniteSet(S), NEW T, {} \in T,
         \A s \in SUBSET S : \A x \in s : s \ {x} \in T => s \in T
  PROVE  \A s \in SUBSET S : s \in T
<1> DEFINE P == {n \in Nat : \A s \in SUBSET S : Cardinality(s) = n => s \in T}
<1>1. ASSUME NEW s \in SUBSET S
      PROVE  /\ Cardinality(s) \in Nat /\ (Cardinality(s) = 0 <=> s = {})
             /\ \A x \in s : Cardinality(s \ {x}) = Cardinality(s) - 1
  <2>1. IsFiniteSet(s)
    BY FS_Subset
  <2> QED BY <2>1, FS_CardinalityType, FS_RemoveElement, FS_EmptySet
<1>2. 0 \in P
  BY <1>1
<1>3. ASSUME NEW n \in Nat, n \in P PROVE n + 1 \in P
  <2> SUFFICES ASSUME NEW s \in SUBSET S, Cardinality(s) = n + 1 PROVE s \in T
    OBVIOUS
  <2>1. s # {}
    <3>1. CASE s = {}
      <4>1. Cardinality(s) = 0
        BY <1>1, <3>1
      <4> QED BY <4>1
    <3> QED BY <3>1
  <2>2. PICK x : x \in s
    BY <2>1
  <2>3. Cardinality(s \ {x}) = n /\ s \ {x} \in SUBSET S
    BY <1>1, <2>2
  <2>4. s \ {x} \in T
    BY <1>3, <2>3
  <2> QED BY <2>2, <2>4
<1>4. \A n \in Nat : n \in P
  <2> HIDE DEF P
  <2> QED BY <1>2, <1>3, Induction
<1>5. ASSUME NEW s \in SUBSET S PROVE s \in T
  <2>1. Cardinality(s) \in Nat
    BY <1>1
  <2>2. Cardinality(s) \in P
    <3> HIDE DEF P
    <3> QED BY <1>4, <2>1
  <2> QED BY <2>2
<1> QED BY <1>5

\* SumFunctionOnSet has these sums.
LEMMA SumsExist ==
  ASSUME NEW S, IsFiniteSet(S), NEW f, \A x \in S : f[x] \in Int
  PROVE  \E g : Sums(g, f, S) /\ \A U \in SUBSET S : SumFunctionOnSet(f, U) = g[U]
<1>1. PICK g : IsSum(g, f, S)
  BY SumOnSet
<1>2. Sums(g, f, S)
  BY <1>1, SumAny
<1>3. ASSUME NEW U \in SUBSET S PROVE SumFunctionOnSet(f, U) = g[U]
  <2>1. IsFiniteSet(U) /\ \A x \in U : f[x] \in Int
    BY FS_Subset
  <2>2. PICK h : IsSum(h, f, U) /\ SumFunctionOnSet(f, U) = h[U]
    BY <2>1, SumOnSet
  <2>3. h[U] = g[U]
    <3>1. U \subseteq S /\ U \subseteq U /\ \A x \in U : f[x] = f[x]
      OBVIOUS
    <3> QED BY <1>1, <2>1, <2>2, <3>1, SumTwo
  <2> QED BY <2>2, <2>3
<1> QED BY <1>2, <1>3

\* Equal terms have equal sums.
LEMMA SumsEqual ==
  ASSUME NEW S, NEW f, NEW g, Sums(g, f, S), NEW S2, NEW f2, NEW g2, Sums(g2, f2, S2),
         NEW U \in SUBSET S, U \in SUBSET S2, \A x \in U : f[x] = f2[x]
  PROVE  g[U] = g2[U]
<1> DEFINE T == {s \in SUBSET U : g[s] = g2[s]}
<1>1. IsFiniteSet(U)
  BY FS_Subset DEF Sums
<1>2. {} \in T
  BY DEF Sums
<1>3. ASSUME NEW s \in SUBSET U, NEW x \in s, s \ {x} \in T PROVE s \in T
  <2>1. g[s] = f[x] + g[s \ {x}] /\ g2[s] = f2[x] + g2[s \ {x}]
    <3>1. s \in SUBSET S /\ s \in SUBSET S2
      OBVIOUS
    <3> QED BY <3>1 DEF Sums
  <2> QED BY <1>3, <2>1
<1>4. \A s \in SUBSET U : s \in T
  <2> HIDE DEF T
  <2> QED BY <1>1, <1>2, <1>3, SetInduction
<1> QED BY <1>4

\* Terms that are 0 do not count.
LEMMA SumsZero ==
  ASSUME NEW S, NEW f, NEW g, Sums(g, f, S), NEW U \in SUBSET S, \A x \in U : f[x] = 0
  PROVE  g[U] = 0
<1> DEFINE T == {s \in SUBSET U : g[s] = 0}
<1>1. IsFiniteSet(U)
  BY FS_Subset DEF Sums
<1>2. {} \in T
  BY DEF Sums
<1>3. ASSUME NEW s \in SUBSET U, NEW x \in s, s \ {x} \in T PROVE s \in T
  <2>1. g[s] = f[x] + g[s \ {x}] /\ f[x] = 0 /\ g[s \ {x}] = 0
    <3>1. s \in SUBSET S
      OBVIOUS
    <3> QED BY <1>3, <3>1 DEF Sums
  <2> QED BY <2>1
<1>4. \A s \in SUBSET U : s \in T
  <2> HIDE DEF T
  <2> QED BY <1>1, <1>2, <1>3, SetInduction
<1> QED BY <1>4

\* The sum of sums.
LEMMA SumsPlus ==
  ASSUME NEW S, NEW f, NEW g, Sums(g, f, S), NEW f1, NEW g1, Sums(g1, f1, S),
         NEW f2, NEW g2, Sums(g2, f2, S), \A x \in S : f[x] = f1[x] + f2[x]
  PROVE  \A s \in SUBSET S : g[s] = g1[s] + g2[s]
<1> DEFINE T == {s \in SUBSET S : g[s] = g1[s] + g2[s]}
<1>1. IsFiniteSet(S)
  BY DEF Sums
<1>2. {} \in T
  BY DEF Sums
<1>3. ASSUME NEW s \in SUBSET S, NEW x \in s, s \ {x} \in T PROVE s \in T
  <2> DEFINE r == s \ {x}
  <2>1. g[s] = f[x] + g[r] /\ g1[s] = f1[x] + g1[r] /\ g2[s] = f2[x] + g2[r]
    BY DEF Sums
  <2>2. f[x] = f1[x] + f2[x] /\ g[r] = g1[r] + g2[r] /\ f1[x] \in Int /\ f2[x] \in Int
    BY <1>3 DEF Sums
  <2>3. g1[r] \in Int /\ g2[r] \in Int
    BY DEF Sums
  <2> HIDE DEF r
  <2>4. g[s] = g1[s] + g2[s]
    BY <2>1, <2>2, <2>3
  <2> QED BY <2>4
<1>4. \A s \in SUBSET S : s \in T
  <2> HIDE DEF T
  <2> QED BY <1>1, <1>2, <1>3, SetInduction
<1> QED BY <1>4

\* Two sets without a common element.
LEMMA SumsUnion ==
  ASSUME NEW S, NEW f, NEW g, Sums(g, f, S), NEW A \in SUBSET S, NEW B \in SUBSET S, A \cap B = {},
         NEW V, V = A \cup B
  PROVE  g[V] = g[A] + g[B]
<1> DEFINE T == {s \in SUBSET B : g[A \cup s] = g[A] + g[s]}
<1>1. IsFiniteSet(B)
  BY FS_Subset DEF Sums
<1>2. {} \in T
  <2>1. A \cup {} = A /\ g[A] \in Int /\ g[{}] = 0
    BY DEF Sums
  <2> QED BY <2>1
<1>3. ASSUME NEW s \in SUBSET B, NEW x \in s, s \ {x} \in T PROVE s \in T
  <2> DEFINE r == s \ {x}
             u == A \cup s
             v == A \cup r
  <2>1. u \in SUBSET S /\ s \in SUBSET S /\ x \in u /\ u \ {x} = v /\ r \in SUBSET S
    OBVIOUS
  <2>2. g[u] = f[x] + g[v] /\ g[s] = f[x] + g[r] /\ f[x] \in Int /\ g[A] \in Int /\ g[r] \in Int
    <3> HIDE DEF u, v
    <3> QED BY <2>1 DEF Sums
  <2>3. g[v] = g[A] + g[r]
    BY <1>3
  <2>4. g[u] = g[A] + g[s]
    <3> HIDE DEF u, v, r
    <3> QED BY <2>2, <2>3
  <2> QED BY <2>4
<1>4. \A s \in SUBSET B : s \in T
  <2> HIDE DEF T
  <2> QED BY <1>1, <1>2, <1>3, SetInduction
<1>5. g[A \cup B] = g[A] + g[B]
  BY <1>4
<1> QED BY <1>5

\* A sum by parts: parts[c] are sets without common elements, and h adds the
\* sums over them.
Parts(parts, C, S) ==
  /\ parts \in [C -> SUBSET S]
  /\ \A c \in C, d \in C : c # d => parts[c] \cap parts[d] = {}

AllParts(parts, C) == UNION {parts[c] : c \in C}

LEMMA SumsByParts ==
  ASSUME NEW S, NEW f, NEW g, Sums(g, f, S), NEW C, NEW parts, Parts(parts, C, S),
         NEW e, NEW h, Sums(h, e, C), \A c \in C : e[c] = g[parts[c]]
  PROVE  h[C] = g[AllParts(parts, C)]
<1> USE DEF AllParts
<1> DEFINE All(s) == UNION {parts[c] : c \in s}
           T == {s \in SUBSET C : h[s] = g[All(s)]}
<1>1. IsFiniteSet(C)
  BY DEF Sums
<1>2. {} \in T
  <2>1. All({}) = {}
    OBVIOUS
  <2> QED BY <2>1 DEF Sums
<1>3. ASSUME NEW s \in SUBSET C, NEW x \in s, s \ {x} \in T PROVE s \in T
  <2> DEFINE r == s \ {x}
             A == All(r)
             B == parts[x]
  <2>1. A \in SUBSET S /\ B \in SUBSET S /\ A \cap B = {} /\ All(s) = A \cup B
    <3>1. \A c \in C : parts[c] \in SUBSET S
      BY DEF Parts
    <3>2. A \cap B = {}
      BY DEF Parts
    <3> QED BY <3>1, <3>2
  <2>2. g[All(s)] = g[A] + g[B] /\ g[A] \in Int /\ g[B] \in Int
    <3>1. g[A] \in Int /\ g[B] \in Int
      <4> HIDE DEF A, B
      <4> QED BY <2>1 DEF Sums
    <3> HIDE DEF A, B, All
    <3>2. g[All(s)] = g[A] + g[B]
      BY <2>1, SumsUnion
    <3> QED BY <3>1, <3>2
  <2>3. h[s] = e[x] + h[r] /\ e[x] = g[B] /\ h[r] = g[A]
    <3>1. h[r] = g[A]
      BY <1>3
    <3>2. h[s] = e[x] + h[r] /\ e[x] = g[B]
      BY DEF Sums
    <3> QED BY <3>1, <3>2
  <2>4. h[s] = g[All(s)]
    <3> HIDE DEF A, B, All, r
    <3> QED BY <2>2, <2>3
  <2> QED BY <2>4
<1>4. \A s \in SUBSET C : s \in T
  <2> HIDE DEF T
  <2> QED BY <1>1, <1>2, <1>3, SetInduction
<1>5. C \in T
  <2> HIDE DEF T
  <2> QED BY <1>4
<1> QED BY <1>5
=============================================================================
