----------------------------- MODULE Induction ------------------------------
(***************************************************************************)
(* Induction over the natural numbers, stated with sets instead of         *)
(* predicates, and what it gives of the folds and the recursive functions  *)
(* of the models: that they exist, and that a fold over a sequence of n    *)
(* elements goes through n steps, one per element, in their order.         *)
(***************************************************************************)
EXTENDS Integers, FiniteSetsExt, WellFoundedInduction, TLAPS

(* A nonempty set of natural numbers has a least element.                  *)
LEMMA LeastNumber ==
    ASSUME NEW T \in SUBSET Nat, T # {}
    PROVE  \E n \in T : \A m \in T : n <= m
<1> DEFINE R == OpToRel(<, Nat)
<1>1. IsWellFoundedOn(R, Nat)
  BY NatLessThanWellFounded
<1>2. \A m, n \in T : m < n => <<m, n>> \in R
  BY DEF OpToRel
<1> HIDE DEF R
<1>3. PICK n \in T : \A m \in T : ~(<<m, n>> \in R)
  BY <1>1, WFMin
<1>4. \A m \in T : ~(m < n)
  BY <1>2, <1>3
<1>5. \A m \in T : n <= m
  BY <1>4
<1> QED BY <1>5

(* Induction: a set that holds the numbers up to n one after the other.    *)
LEMMA UpTo ==
    ASSUME NEW n \in Nat, NEW T, 0 \in T, \A k \in 0..n : k \in T /\ k < n => k + 1 \in T
    PROVE  0..n \subseteq T
<1> DEFINE Missing == {k \in 0..n : k \notin T}
<1>1. CASE Missing = {}
  BY <1>1
<1>2. CASE Missing # {}
  <2>0. Missing \in SUBSET Nat
    OBVIOUS
  <2> HIDE DEF Missing
  <2>1. PICK k \in Missing : \A m \in Missing : k <= m
    BY <1>2, <2>0, LeastNumber
  <2> USE DEF Missing
  <2>2. k # 0 /\ k - 1 \in 0..n /\ k - 1 \notin Missing /\ k - 1 < n
    BY <2>1
  <2> QED
    BY <2>1, <2>2
<1> QED BY <1>1, <1>2

(***************************************************************************)
(* The functions by which the folds of the community modules are defined:  *)
(* from the last element of a set of positions back to none of them.       *)
(***************************************************************************)
Iterates(f, n, base, G) ==
    f = [s \in SUBSET (1..n) |-> IF s = {} THEN base ELSE G[Max(s)][f[s \ {Max(s)}]]]

LEMMA LastPosition ==
    ASSUME NEW k \in Nat, NEW s \in SUBSET (1..k + 1), k + 1 \in s
    PROVE  Max(s) = k + 1
<1>1. \A y \in s : k + 1 >= y
  OBVIOUS
<1>2. \A x \in s : (\A y \in s : x >= y) => x = k + 1
  OBVIOUS
<1> QED BY <1>1, <1>2 DEF Max

LEMMA LastExists ==
    ASSUME NEW n \in Nat, NEW s \in SUBSET (1..n), s # {}
    PROVE  Max(s) \in s
<1> DEFINE Bounds == {k \in 0..n : \A y \in s : y <= k}
<1>1. n \in Bounds /\ Bounds \in SUBSET Nat
  OBVIOUS
<1>2. PICK k \in Bounds : \A m \in Bounds : k <= m
  <2> HIDE DEF Bounds
  <2> QED BY <1>1, LeastNumber
<1>3. k \in s
  <2> SUFFICES ASSUME k \notin s PROVE FALSE
    OBVIOUS
  <2>1. \A y \in s : y <= k - 1
    BY <1>2
  <2>2. k - 1 \in 0..n
    <3>1. PICK y \in s : y \in 1..n /\ y <= k - 1
      BY <2>1
    <3> QED BY <3>1
  <2>3. k - 1 \in Bounds /\ k \in Int
    BY <2>1, <2>2
  <2> HIDE DEF Bounds
  <2> QED BY <1>2, <2>3
<1>4. \A y \in s : k >= y
  BY <1>2
<1> QED BY <1>3, <1>4 DEF Max

(* There is such a function, whatever the steps do to the values they are  *)
(* defined on.                                                             *)
LEMMA IterationExists ==
    ASSUME NEW n \in Nat, NEW V, NEW base \in V, NEW G \in [1..n -> [V -> V]]
    PROVE  \E f \in [SUBSET (1..n) -> V] : Iterates(f, n, base, G)
<1> DEFINE Solves(f, k) ==
        \A s \in SUBSET (1..k) : f[s] = IF s = {} THEN base ELSE G[Max(s)][f[s \ {Max(s)}]]
           T == {k \in 0..n : \E f \in [SUBSET (1..k) -> V] : Solves(f, k)}
<1>1. 0 \in T
  <2> DEFINE f == [s \in SUBSET (1..0) |-> base]
  <2>1. f \in [SUBSET (1..0) -> V]
    OBVIOUS
  <2>2. \A s \in SUBSET (1..0) : s = {} /\ f[s] = base
    OBVIOUS
  <2> HIDE DEF f
  <2>3. Solves(f, 0)
    BY <2>2
  <2>4. 0 \in 0..n
    OBVIOUS
  <2> QED BY <2>1, <2>3, <2>4
<1>2. ASSUME NEW k \in 0..n, k \in T, k < n
      PROVE  k + 1 \in T
  <2>1. PICK f \in [SUBSET (1..k) -> V] : Solves(f, k)
    BY <1>2
  <2> DEFINE Before(s) == s \ {k + 1}
             g == [s \in SUBSET (1..k + 1) |->
                     IF k + 1 \in s THEN G[k + 1][f[Before(s)]] ELSE f[s]]
  <2>2. \A s \in SUBSET (1..k + 1) : Before(s) \in SUBSET (1..k)
    OBVIOUS
  <2>3. k + 1 \in 1..n
    BY <1>2
  <2>4. g \in [SUBSET (1..k + 1) -> V]
    <3> SUFFICES ASSUME NEW s \in SUBSET (1..k + 1)
                 PROVE  (IF k + 1 \in s THEN G[k + 1][f[Before(s)]] ELSE f[s]) \in V
      OBVIOUS
    <3>1. CASE k + 1 \in s
      BY <2>2, <2>3, <3>1
    <3>2. CASE k + 1 \notin s
      <4>1. s \in SUBSET (1..k)
        BY <3>2
      <4> QED BY <3>2, <4>1
    <3> QED BY <3>1, <3>2
  <2>5. ASSUME NEW s \in SUBSET (1..k + 1)
        PROVE  g[s] = IF s = {} THEN base ELSE G[Max(s)][g[s \ {Max(s)}]]
    <3>1. CASE k + 1 \in s
      <4>1. Max(s) = k + 1 /\ k + 1 \notin Before(s) /\ Before(s) \in SUBSET (1..k + 1)
        BY <3>1, LastPosition
      <4>2. g[Before(s)] = f[Before(s)] /\ g[s] = G[k + 1][f[Before(s)]]
        BY <2>2, <3>1, <4>1
      <4> HIDE DEF g
      <4> QED BY <3>1, <4>1, <4>2
    <3>2. CASE k + 1 \notin s
      <4>0. \A x \in s : x \in 1..k
        BY <3>2
      <4>1. s \in SUBSET (1..k) /\ s \ {Max(s)} \in SUBSET (1..k)
        BY <4>0
      <4>2. k + 1 \notin s \ {Max(s)} /\ s \ {Max(s)} \in SUBSET (1..k + 1)
        BY <3>2
      <4>3. g[s] = f[s] /\ g[s \ {Max(s)}] = f[s \ {Max(s)}]
        BY <3>2, <4>2
      <4> HIDE DEF g
      <4> QED BY <2>1, <4>1, <4>3
    <3> QED BY <3>1, <3>2
  <2> HIDE DEF g
  <2>6. Solves(g, k + 1)
    BY <2>5
  <2>7. k + 1 \in 0..n
    BY <1>2
  <2> HIDE DEF Solves
  <2> QED BY <2>4, <2>6, <2>7
<1>3. n \in T
  <2> HIDE DEF T
  <2>1. 0..n \subseteq T
    BY <1>1, <1>2, UpTo
  <2> QED BY <2>1
<1>4. PICK f \in [SUBSET (1..n) -> V] : Solves(f, n)
  BY <1>3
<1>5. Iterates(f, n, base, G)
  BY <1>4 DEF Iterates
<1> QED BY <1>5

(* It takes one step per element, in their order.                          *)
LEMMA FirstPositions ==
    ASSUME NEW n \in Nat, NEW k \in 0..n, k < n
    PROVE  /\ 1..k \in SUBSET (1..n) /\ 1..k + 1 \in SUBSET (1..n)
           /\ 1..k + 1 # {}
           /\ Max(1..k + 1) = k + 1
           /\ (1..k + 1) \ {k + 1} = 1..k
<1>1. 1..k \in SUBSET (1..n) /\ 1..k + 1 \in SUBSET (1..n) /\ k + 1 \in 1..k + 1 /\ k \in Nat
  OBVIOUS
<1>2. Max(1..k + 1) = k + 1
  BY <1>1, LastPosition
<1>3. (1..k + 1) \ {k + 1} = 1..k
  BY <1>1
<1> QED BY <1>1, <1>2, <1>3

(***************************************************************************)
(* The recursive functions of the models: there is one whatever the steps  *)
(* do to the values they are defined on, from the first argument to the    *)
(* last.                                                                   *)
(***************************************************************************)
Recurs(f, a, b, base, G) == f = [k \in a..b |-> IF k = a THEN base ELSE G[k][f[k - 1]]]

LEMMA RecursionExists ==
    ASSUME NEW a \in Int, NEW b \in Int, a <= b, NEW V, NEW base \in V,
           NEW G \in [a + 1..b -> [V -> V]]
    PROVE  \E f \in [a..b -> V] : Recurs(f, a, b, base, G)
<1> DEFINE n == b - a
           H == [m \in 1..n |-> G[a + m]]
<1>1. n \in Nat /\ \A m \in 1..n : a + m \in a + 1..b
  OBVIOUS
<1>2. H \in [1..n -> [V -> V]]
  BY <1>1
<1>3. PICK F \in [SUBSET (1..n) -> V] : Iterates(F, n, base, H)
  <2> HIDE DEF n, H
  <2> QED BY <1>1, <1>2, IterationExists
<1> DEFINE f == [k \in a..b |-> F[1..k - a]]
<1>4. \A k \in a..b : 1..k - a \in SUBSET (1..n) /\ k - a \in 0..n
  OBVIOUS
<1>5. f \in [a..b -> V]
  BY <1>4
<1>6. ASSUME NEW k \in a..b
      PROVE  f[k] = IF k = a THEN base ELSE G[k][f[k - 1]]
  <2>1. CASE k = a
    <3>1. 1..k - a = {} /\ f[k] = F[1..k - a]
      BY <2>1
    <3>2. F[{}] = base
      BY <1>3 DEF Iterates
    <3> QED BY <2>1, <3>1, <3>2
  <2>2. CASE k # a
    <3> DEFINE m == k - 1 - a
    <3>1. m \in 0..n /\ m < n /\ k - 1 \in a..b /\ m + 1 = k - a /\ a + (m + 1) = k
      BY <2>2
    <3>2. f[k] = F[1..m + 1] /\ f[k - 1] = F[1..m]
      BY <3>1
    <3> HIDE DEF f, m
    <3>3. F[1..m + 1] = H[m + 1][F[1..m]]
      <4> HIDE DEF H, n
      <4>1. /\ 1..m + 1 \in SUBSET (1..n) /\ 1..m + 1 # {} /\ Max(1..m + 1) = m + 1
            /\ (1..m + 1) \ {m + 1} = 1..m
        BY <1>1, <3>1, FirstPositions
      <4> QED BY <1>3, <4>1 DEF Iterates
    <3>4. H[m + 1] = G[k]
      BY <3>1
    <3> QED BY <2>2, <3>2, <3>3, <3>4
  <2> QED BY <2>1, <2>2
<1>7. f = [k \in a..b |-> IF k = a THEN base ELSE G[k][f[k - 1]]]
  <2>1. \A k \in a..b : f[k] = [j \in a..b |-> IF j = a THEN base ELSE G[j][f[j - 1]]][k]
    BY <1>6
  <2> HIDE DEF f
  <2> QED BY <1>5, <2>1
<1> QED BY <1>5, <1>7 DEF Recurs
=============================================================================
