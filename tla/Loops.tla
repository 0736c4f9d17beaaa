------------------------------- MODULE Loops --------------------------------
(***************************************************************************)
(* What a loop with an early return makes of its nodes, for any round.     *)
(* Config's Each is such a loop; the module that uses it gives the round   *)
(* with what it captures, what holds of the value after i nodes, and what  *)
(* holds of a result that is not "ok".                                     *)
(***************************************************************************)
EXTENDS Induction, Sequences

CONSTANTS
    Round(_, _, _),             \* captured, value, node -> result
    Holds(_, _, _, _, _),       \* captured, start, nodes, value, i
    Failed(_, _, _)             \* captured, nodes, result

Loop(ctx, start, nodes) ==
    LET Upto[i \in 0..Len(nodes)] ==
            IF i = 0 THEN [status |-> "ok", value |-> start]
            ELSE LET r == Upto[i - 1]
                 IN  IF r.status = "ok" THEN Round(ctx, r.value, nodes[i]) ELSE r
    IN  Upto[Len(nodes)]

Outcome(ctx, start, nodes, r, i) ==
    IF r.status = "ok" THEN Holds(ctx, start, nodes, r.value, i) ELSE Failed(ctx, nodes, r)

(* The recursion that defines the loop has a solution.                     *)
Solves(f, n, ctx, start, nodes) ==
    f = [i \in 0..n |->
            IF i = 0 THEN [status |-> "ok", value |-> start]
            ELSE IF f[i - 1].status = "ok" THEN Round(ctx, f[i - 1].value, nodes[i]) ELSE f[i - 1]]

LEMMA LoopExists ==
    ASSUME NEW n \in Nat, NEW ctx, NEW start, NEW nodes
    PROVE  \E f : Solves(f, n, ctx, start, nodes)
<1> DEFINE T == {k \in 0..n : \E f : Solves(f, k, ctx, start, nodes)}
           Next(r, i) == IF r.status = "ok" THEN Round(ctx, r.value, nodes[i]) ELSE r
<1>1. 0 \in T
  <2> DEFINE f == [i \in 0..0 |-> [status |-> "ok", value |-> start]]
  <2>1. Solves(f, 0, ctx, start, nodes)
    <3>1. \A i \in 0..0 : i = 0
      OBVIOUS
    <3> QED BY <3>1 DEF Solves
  <2>2. 0 \in 0..n
    OBVIOUS
  <2> HIDE DEF f
  <2> QED BY <2>1, <2>2
<1>2. ASSUME NEW k \in 0..n, k \in T, k < n
      PROVE  k + 1 \in T
  <2>1. PICK f : Solves(f, k, ctx, start, nodes)
    BY <1>2
  <2> DEFINE g == [i \in 0..k + 1 |-> IF i = k + 1 THEN Next(f[k], k + 1) ELSE f[i]]
  <2>2. \A i \in 0..k + 1 : i = k + 1 \/ (i \in 0..k /\ i # k + 1)
    OBVIOUS
  <2>3. ASSUME NEW i \in 0..k
        PROVE  i \in 0..k + 1 /\ i # k + 1 /\ (i # 0 => i - 1 \in 0..k + 1 /\ i - 1 # k + 1)
    <3>1. k \in Nat /\ i \in Nat /\ i <= k
      OBVIOUS
    <3> HIDE DEF T
    <3> QED BY ONLY <3>1
  <2>4. /\ k + 1 \in 0..k + 1 /\ k + 1 # 0 /\ (k + 1) - 1 = k
        /\ k \in 0..k /\ k + 1 \in 0..n
    <3>1. k \in Nat /\ n \in Nat /\ k < n
      BY <1>2
    <3> QED BY ONLY <3>1
  <2>5. \A i \in 0..k : f[i] = IF i = 0 THEN [status |-> "ok", value |-> start] ELSE Next(f[i - 1], i)
    BY <2>1 DEF Solves
  <2> HIDE DEF Next
  <2>6. \A i \in 0..k : g[i] = f[i]
    BY <2>3
  <2>7. \A i \in 0..k : i # 0 => g[i - 1] = f[i - 1]
    BY <2>3
  <2>8. ASSUME NEW i \in 0..k + 1
        PROVE  g[i] = IF i = 0 THEN [status |-> "ok", value |-> start] ELSE Next(g[i - 1], i)
    <3>1. CASE i = k + 1
      <4>1. g[i] = Next(f[k], k + 1)
        BY <2>4, <3>1
      <4>2. g[i - 1] = f[k]
        BY <2>4, <2>6, <3>1
      <4> HIDE DEF g
      <4> QED BY <2>4, <3>1, <4>1, <4>2
    <3>2. CASE i \in 0..k
      <4> HIDE DEF g
      <4> QED BY <2>5, <2>6, <2>7, <3>2
    <3> QED BY <2>2, <3>1, <3>2
  <2>9. DOMAIN g = 0..k + 1 /\ g = [i \in DOMAIN g |-> g[i]]
    OBVIOUS
  <2> HIDE DEF g
  <2>10. g = [i \in 0..k + 1 |->
                IF i = 0 THEN [status |-> "ok", value |-> start] ELSE Next(g[i - 1], i)]
    BY <2>8, <2>9, Zenon
  <2>11. Solves(g, k + 1, ctx, start, nodes)
    BY <2>10 DEF Solves, Next
  <2> QED BY <2>4, <2>11
<1>3. n \in T
  <2> HIDE DEF T
  <2> QED BY <1>1, <1>2, UpTo
<1> QED BY <1>3

LEMMA LoopIs ==
    ASSUME NEW ctx, NEW start, NEW nodes, Len(nodes) \in Nat
    PROVE  \E f : Solves(f, Len(nodes), ctx, start, nodes) /\ Loop(ctx, start, nodes) = f[Len(nodes)]
<1> DEFINE f == CHOOSE f : f = [i \in 0..Len(nodes) |->
                    IF i = 0 THEN [status |-> "ok", value |-> start]
                    ELSE IF f[i - 1].status = "ok" THEN Round(ctx, f[i - 1].value, nodes[i]) ELSE f[i - 1]]
<1>1. Loop(ctx, start, nodes) = f[Len(nodes)]
  BY DEF Loop
<1>2. \E g : Solves(g, Len(nodes), ctx, start, nodes)
  BY LoopExists
<1>3. Solves(f, Len(nodes), ctx, start, nodes)
  BY <1>2, Zenon DEF Solves
<1> HIDE DEF f
<1> QED BY <1>1, <1>3

(* What each round preserves holds at the end, and of every early return.  *)
LEMMA LoopInvariant ==
    ASSUME NEW ctx, NEW start, NEW nodes, Len(nodes) \in Nat,
           Holds(ctx, start, nodes, start, 0),
           \A i \in 1..Len(nodes) : \A c :
              Holds(ctx, start, nodes, c, i - 1) =>
                  Outcome(ctx, start, nodes, Round(ctx, c, nodes[i]), i)
    PROVE  Outcome(ctx, start, nodes, Loop(ctx, start, nodes), Len(nodes))
<1> DEFINE n == Len(nodes)
<1>1. PICK f : Solves(f, n, ctx, start, nodes) /\ Loop(ctx, start, nodes) = f[n]
  BY LoopIs
<1> DEFINE T == {k \in 0..n : Outcome(ctx, start, nodes, f[k], k)}
<1>2. /\ \A i \in 0..n : f[i] = IF i = 0 THEN [status |-> "ok", value |-> start]
             ELSE IF f[i - 1].status = "ok" THEN Round(ctx, f[i - 1].value, nodes[i]) ELSE f[i - 1]
      /\ n \in Nat
  <2> HIDE DEF n
  <2>1. \A i \in 0..n : f[i] = [j \in 0..n |->
            IF j = 0 THEN [status |-> "ok", value |-> start]
            ELSE IF f[j - 1].status = "ok" THEN Round(ctx, f[j - 1].value, nodes[j]) ELSE f[j - 1]][i]
    BY <1>1, Zenon DEF Solves
  <2>2. n \in Nat
    BY DEF n
  <2> QED BY <2>1, <2>2
<1> HIDE DEF n
<1>3. 0 \in T
  <2>1. 0 \in 0..n
    BY <1>2
  <2>2. f[0].status = "ok" /\ f[0].value = start
    BY <1>2, <2>1
  <2> QED BY <2>1, <2>2 DEF Outcome
<1>4. ASSUME NEW k \in 0..n, k \in T, k < n
      PROVE  k + 1 \in T
  <2>1. k + 1 \in 1..n /\ k + 1 \in 0..n /\ k + 1 # 0 /\ (k + 1) - 1 = k
    BY <1>2, <1>4
  <2>2. f[k + 1] = IF f[k].status = "ok" THEN Round(ctx, f[k].value, nodes[k + 1]) ELSE f[k]
    BY <1>2, <2>1
  <2>3. CASE f[k].status = "ok"
    <3>1. Holds(ctx, start, nodes, f[k].value, k)
      BY <1>4, <2>3 DEF Outcome
    <3>2. Outcome(ctx, start, nodes, Round(ctx, f[k].value, nodes[k + 1]), k + 1)
      BY <2>1, <3>1 DEF n
    <3> QED BY <2>1, <2>2, <2>3, <3>2
  <2>4. CASE f[k].status # "ok"
    <3>1. Failed(ctx, nodes, f[k])
      BY <1>4, <2>4 DEF Outcome
    <3> QED BY <2>1, <2>2, <2>4, <3>1 DEF Outcome
  <2> QED BY <2>3, <2>4
<1>5. n \in T
  <2>1. n \in Nat /\ n \in 0..n
    BY <1>2
  <2> HIDE DEF T
  <2> QED BY ONLY <2>1, <1>3, <1>4, UpTo
<1> QED BY <1>1, <1>5 DEF n
=============================================================================
