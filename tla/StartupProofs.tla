---------------------------- MODULE StartupProofs ---------------------------
(***************************************************************************)
(* Theorems about Startup, for any documents and clock: when the timer     *)
(* fires, what the resources become, and what a document that is accepted  *)
(* means.                                                                  *)
(*                                                                         *)
(* Every loop of config.cc is an instance of Loops. What holds of its      *)
(* value after i nodes is its ...Holds, and the lemma that it does is      *)
(* ...Follow; they are put together from the leaves of the tree upwards.   *)
(***************************************************************************)
EXTENDS Startup, Induction, SequenceTheorems, FiniteSetTheorems, TLAPS

-----------------------------------------------------------------------------
(* Arithmetic.                                                             *)

LEMMA Numbers ==
    /\ \A t \in DOMAIN Number : Number[t] \in Int /\ Number[t] < ULongRange
    /\ \A t : Atol(t) \in Int
<1>1. \A t \in DOMAIN Number : Number[t] \in Int
  BY DEF Number
<1>2. \A t \in DOMAIN Number : Number[t] < ULongRange
  BY <1>1, ClockAssumption
<1> QED BY <1>1, <1>2 DEF Atol

LEMMA DivMod ==
    ASSUME NEW a \in Int, NEW d \in Nat \ {0}
    PROVE  /\ a \div d \in Int /\ a % d \in Int
           /\ a = (a \div d) * d + (a % d)
           /\ 0 <= a % d /\ a % d < d
OBVIOUS

LEMMA MultipleMod ==
    ASSUME NEW q \in Int, NEW d \in Nat \ {0}
    PROVE  (q * d) % d = 0
OBVIOUS

(* From a reference time that lies before the start, the next due time is  *)
(* the first multiple of the interval after the start.                     *)
LEMMA NextDueIsNext ==
    ASSUME started \in Int, Interval \in Nat \ {0}, NEW ref \in Int, ref <= started
    PROVE  /\ NextDue(ref) \in started + 1..started + Interval
           /\ (NextDue(ref) - ref) % Interval = 0
<1> DEFINE a == started - ref
           q == a \div Interval
           r == a % Interval
<1>1. a \in Int /\ a >= 0 /\ started = ref + a
  OBVIOUS
<1>2. q \in Int /\ r \in Int /\ a = (q * Interval) + r /\ 0 <= r /\ r < Interval
  <2> HIDE DEF a
  <2> QED BY <1>1, DivMod
<1>3. NextDue(ref) = ref + (q * Interval) + Interval
  <2>1. Quot(a, Interval) = q
    <3> HIDE DEF a
    <3> QED BY <1>1 DEF Quot, Abs
  <2> QED BY <2>1 DEF NextDue
<1> HIDE DEF a, q, r
<1>4. q * Interval \in Int
  BY <1>2
<1>5. NextDue(ref) = (started - r) + Interval
  BY <1>1, <1>2, <1>3, <1>4
<1>6. NextDue(ref) - ref = (q + 1) * Interval
  BY <1>2, <1>3, <1>4
<1>7. ((q + 1) * Interval) % Interval = 0
  BY <1>2, MultipleMod
<1> QED BY <1>2, <1>5, <1>6, <1>7

-----------------------------------------------------------------------------
(* The schedule.                                                           *)

(* Outside the loop that may never end, the reference time is the offset   *)
(* on the day the clock was read; a timer is only set up from there.       *)
ClockInv ==
    /\ now \in Nat /\ started \in Int /\ reference \in Int
    /\ due_time \in Int /\ td \in Int /\ fired \in Nat
    /\ timer \in {"none", "sleeping", "calling", "ended"}
    /\ timer # "none" => pc = "running" /\ IntervalText \in DOMAIN Number
    /\ timer = "none" => pc # "running" /\ fired = 0
    /\ pc = "yesterday" =>
          /\ IntervalText \in DOMAIN Number
          /\ BeforeFirstInterval \/ reference = (started \div Day) * Day + Offset

(* The timer keeps to the grid, a whole number of intervals at a time.     *)
GridInv == DueOnGrid /\ (timer # "none" /\ Interval > 0 => td = Interval)

LEMMA ClockStep == ClockInv /\ [Next]_vars => ClockInv'
<1> SUFFICES ASSUME ClockInv, [Next]_vars PROVE ClockInv'
  OBVIOUS
<1> USE DEF ClockInv
<1>0. Day \in Nat \ {0} /\ Offset \in Int /\ (IntervalText \in DOMAIN Number => Interval \in Int)
  BY Numbers, ClockAssumption DEF Offset, Interval
<1>1. CASE PluginInit \/ Run
  <2>1. /\ pc = "parse" /\ pc' \in {"streams", "failed", "thrown", "crashed"}
        /\ UNCHANGED timeVars
    BY <1>1 DEF PluginInit, Run, Parsed, After
  <2> QED BY <2>1 DEF timeVars
<1>2. CASE AddResource \/ CreateItemStreamFails \/ StreamsDone \/ TimerThrows
  <2>1. /\ pc \in {"streams", "interval"} /\ pc' \in {"streams", "interval", "failed"}
        /\ UNCHANGED <<timeVars, config>>
    BY <1>2 DEF AddResource, CreateItemStreamFails, StreamsDone, TimerThrows, Goto
  <2> QED BY <2>1 DEF timeVars
<1>3. CASE ReadClock
  <2>1. /\ pc = "interval" /\ IntervalText \in DOMAIN Number /\ started' = now
        /\ reference' = (now \div Day) * Day + Offset /\ pc' = "yesterday"
        /\ UNCHANGED <<config, now, timer, due_time, td, fired>>
    BY <1>3 DEF ReadClock, TextsConvert, Goto, Midnight
  <2>2. now \div Day \in Int
    BY <1>0, DivMod
  <2>3. (now \div Day) * Day \in Int
    BY <1>0, <2>2
  <2>4. Offset' = Offset /\ IntervalText' = IntervalText
    BY <2>1 DEF Offset, OffsetText, IntervalText
  <2> QED BY <1>0, <2>1, <2>3, <2>4
<1>4. CASE Yesterday
  <2>1. /\ pc = "yesterday" /\ BeforeFirstInterval /\ reference' = reference - Day
        /\ UNCHANGED <<config, pc, started, now, timer, due_time, td, fired>>
    BY <1>4 DEF Yesterday, startVars
  <2>2. BeforeFirstInterval'
    BY <2>1 DEF BeforeFirstInterval, Offset, Interval, OffsetText, IntervalText
  <2> QED BY <1>0, <2>1, <2>2 DEF IntervalText
<1>5. CASE CreateTimer
  <2>1. /\ pc = "yesterday" /\ ~BeforeFirstInterval /\ Interval # 0
        /\ due_time' = NextDue(reference) /\ td' = Interval % ULongRange
        /\ timer' = "sleeping" /\ pc' = "running"
        /\ UNCHANGED <<config, now, started, reference, fired>>
    BY <1>5 DEF CreateTimer, Goto
  <2>2. Interval \in Int /\ Interval # 0
    BY <1>0, <2>1
  <2>3. Interval % ULongRange \in Int
    BY <2>2, ClockAssumption
  <2>4. NextDue(reference) \in Int
    <3>1. started - reference \in Int
      OBVIOUS
    <3>2. \A a, b \in Nat : b # 0 => a \div b \in Int
      OBVIOUS
    <3>3. \A a \in Int : Abs(a) \in Nat /\ (a # 0 => Abs(a) # 0)
      BY DEF Abs
    <3>4. Abs(started - reference) \div Abs(Interval) \in Int
      BY <2>2, <3>1, <3>2, <3>3
    <3>5. Quot(started - reference, Interval) \in Int
      BY <3>4 DEF Quot
    <3> QED BY <2>2, <3>5 DEF NextDue
  <2> QED BY <2>1, <2>3, <2>4 DEF IntervalText
<1>6. CASE DivideByZero
  BY <1>6 DEF DivideByZero, Goto, timeVars
<1>7. CASE Wake \/ OnTimerReturns
  <2>1. UNCHANGED <<config, pc, now, started, reference, td>> /\ timer # "none"
    BY <1>7 DEF Wake, OnTimerReturns, startVars
  <2>2. due_time' \in Int /\ fired' \in Nat /\ timer' \in {"sleeping", "calling", "ended"}
    BY <1>7 DEF Wake, OnTimerReturns
  <2> QED BY <2>1, <2>2 DEF IntervalText
<1>8. CASE Tick
  <2>1. now' = now + 1 /\ UNCHANGED <<config, pc, started, reference, timer, due_time, td, fired>>
    BY <1>8 DEF Tick, startVars
  <2> QED BY <2>1 DEF BeforeFirstInterval, Offset, Interval, OffsetText, IntervalText
<1>9. CASE UNCHANGED vars
  BY <1>9 DEF vars, startVars, timeVars, BeforeFirstInterval, Offset, Interval, OffsetText, IntervalText
<1> QED BY <1>1, <1>2, <1>3, <1>4, <1>5, <1>6, <1>7, <1>8, <1>9 DEF Next, MainThread, TimerThread

LEMMA GridStep ==
    ASSUME ClockInv, GridInv, [Next]_vars
    PROVE  GridInv'
<1>0. Day \in Nat \ {0} /\ Offset \in Int /\ (IntervalText \in DOMAIN Number => Interval \in Int)
  BY Numbers, ClockAssumption DEF Offset, Interval
<1>a. /\ now \in Nat /\ started \in Int /\ reference \in Int
      /\ due_time \in Int /\ td \in Int /\ fired \in Nat
  BY DEF ClockInv
<1>b. started \div Day \in Int /\ (started \div Day) * Day \in Int /\ started % Day \in Int
      /\ started = ((started \div Day) * Day) + (started % Day)
  <2>1. started \div Day \in Int /\ started % Day \in Int
        /\ started = ((started \div Day) * Day) + (started % Day)
    BY <1>0, <1>a, DivMod
  <2> QED BY <1>0, <2>1
<1>c. ASSUME UNCHANGED <<config, started, due_time, td, fired>>, timer # "none",
             now' >= now, timer' = timer \/ now >= due_time
      PROVE  GridInv'
  <2>1. UNCHANGED <<Interval, Offset>>
    BY <1>c DEF Interval, Offset, IntervalText, OffsetText
  <2>2. CASE Interval > 0
    <3>1. Interval \in Int /\ now' \in Int
      BY <1>0, <1>a, <1>c, ClockStep DEF ClockInv
    <3>2. /\ fired > 0 => due_time - Interval <= now
          /\ timer \in {"calling", "ended"} => due_time <= now
          /\ due_time - fired * Interval \in started + 1..started + Interval
          /\ ((due_time - fired * Interval) - ((started \div Day) * Day + Offset)) % Interval = 0
          /\ td = Interval
      BY <1>c, <2>2 DEF GridInv, DueOnGrid
    <3>3. due_time - Interval \in Int
      BY <1>a, <3>1
    <3>4. /\ fired > 0 => due_time - Interval <= now'
          /\ timer' \in {"calling", "ended"} => due_time <= now'
      BY <1>a, <1>c, <3>1, <3>2, <3>3
    <3> QED BY <1>c, <2>1, <3>2, <3>4 DEF GridInv, DueOnGrid
  <2>3. CASE ~(Interval > 0)
    BY <2>1, <2>3 DEF GridInv, DueOnGrid
  <2> QED BY <2>2, <2>3
<1>d. ASSUME timer' = "none" PROVE GridInv'
  BY <1>d DEF GridInv, DueOnGrid
<1>1. CASE CreateTimer
  <2>1. /\ pc = "yesterday" /\ ~BeforeFirstInterval /\ timer = "none"
        /\ due_time' = NextDue(reference) /\ td' = Interval % ULongRange
        /\ timer' = "sleeping"
        /\ UNCHANGED <<config, now, started, reference, fired>>
    BY <1>1 DEF CreateTimer, Goto, ClockInv
  <2>2. UNCHANGED <<Interval, Offset>>
    BY <2>1 DEF Interval, Offset, IntervalText, OffsetText
  <2>3. /\ IntervalText \in DOMAIN Number /\ fired = 0
        /\ reference = (started \div Day) * Day + Offset
    BY <2>1 DEF ClockInv
  <2>4. CASE Interval > 0
    <3>1. Interval \in Nat \ {0} /\ Interval < ULongRange
      BY <1>0, <2>3, <2>4, Numbers DEF Interval
    <3>2. reference <= started
      BY <1>0, <1>a, <1>b, <2>1, <2>3, <3>1 DEF BeforeFirstInterval
    <3>3. /\ NextDue(reference) \in started + 1..started + Interval
          /\ (NextDue(reference) - reference) % Interval = 0
      BY <1>a, <3>1, <3>2, NextDueIsNext
    <3>4. td' = Interval
      BY <2>1, <3>1, ClockAssumption
    <3>5. due_time' - fired' * Interval = due_time'
      BY <1>a, <2>1, <2>3, <3>1, <3>3
    <3> QED BY <2>1, <2>2, <2>3, <3>3, <3>4, <3>5 DEF GridInv, DueOnGrid
  <2>5. CASE ~(Interval > 0)
    BY <2>2, <2>5 DEF GridInv, DueOnGrid
  <2> QED BY <2>4, <2>5
<1>2. CASE Wake
  <2>1. /\ timer # "none" /\ timer' = "calling" /\ now >= due_time /\ now' = now
        /\ UNCHANGED <<config, started, due_time, td, fired>>
    BY <1>2 DEF Wake, startVars
  <2> QED BY <1>a, <1>c, <2>1
<1>3. CASE OnTimerReturns
  <2>1. timer = "calling" /\ UNCHANGED <<config, now, started, reference, td>>
    BY <1>3 DEF OnTimerReturns, startVars
  <2>2. UNCHANGED <<Interval, Offset>>
    BY <2>1 DEF Interval, Offset, IntervalText, OffsetText
  <2>3. CASE Interval > 0
    <3>1. Interval \in Int
      BY <1>0, <2>1 DEF ClockInv
    <3>2. /\ due_time <= now /\ td = Interval
          /\ fired > 0 => due_time - Interval <= now
          /\ due_time - fired * Interval \in started + 1..started + Interval
          /\ ((due_time - fired * Interval) - ((started \div Day) * Day + Offset)) % Interval = 0
      BY <2>1, <2>3 DEF GridInv, DueOnGrid
    <3>3. CASE timer' = "sleeping" /\ due_time' = due_time + td /\ fired' = fired + 1
      <4>1. due_time' - Interval = due_time
        BY <1>a, <3>1, <3>2, <3>3
      <4>2. fired' * Interval = (fired * Interval) + Interval /\ fired * Interval \in Int
        BY <1>a, <3>1, <3>3
      <4>3. due_time' - fired' * Interval = due_time - fired * Interval
        BY <1>a, <3>1, <3>2, <3>3, <4>2
      <4> QED BY <2>1, <2>2, <3>2, <3>3, <4>1, <4>3 DEF GridInv, DueOnGrid
    <3>4. CASE timer' = "ended" /\ UNCHANGED <<due_time, fired>>
      BY <2>1, <2>2, <3>2, <3>4 DEF GridInv, DueOnGrid
    <3> QED BY <1>3, <3>3, <3>4 DEF OnTimerReturns
  <2>4. CASE ~(Interval > 0)
    BY <2>2, <2>4 DEF GridInv, DueOnGrid
  <2> QED BY <2>3, <2>4
<1>4. CASE Tick
  <2>1. now' = now + 1 /\ timer' = timer /\ UNCHANGED <<config, started, due_time, td, fired>>
    BY <1>4 DEF Tick, startVars
  <2>2. now' >= now
    BY <1>a, <2>1
  <2>3. CASE timer # "none"
    BY <1>c, <2>1, <2>2, <2>3
  <2> QED BY <1>d, <2>1, <2>3
<1>5. CASE UNCHANGED vars
  <2>1. now' >= now /\ timer' = timer /\ UNCHANGED <<config, started, due_time, td, fired>>
    BY <1>5, <1>a DEF vars, startVars, timeVars
  <2>2. CASE timer # "none"
    BY <1>c, <2>1, <2>2
  <2> QED BY <1>d, <2>1, <2>2
<1>6. CASE PluginInit \/ Run \/ AddResource \/ CreateItemStreamFails \/ StreamsDone \/ TimerThrows
           \/ ReadClock \/ Yesterday \/ DivideByZero
  <2>1. pc # "running" /\ timer' = timer
    BY <1>6 DEF PluginInit, Run, Parsed, AddResource, CreateItemStreamFails, StreamsDone, TimerThrows,
            ReadClock, Yesterday, DivideByZero, Goto, timeVars
  <2> QED BY <1>d, <2>1 DEF ClockInv
<1> QED BY <1>1, <1>2, <1>3, <1>4, <1>5, <1>6 DEF Next, MainThread, TimerThread

(* Whatever the documents say and whenever it is started: OnTimer is       *)
(* called for every multiple of a positive interval after the start, not   *)
(* before it is due and not twice (psych.cc:739-768, psych.hh:176-188).    *)
THEOREM ScheduleKept == Spec => []DueOnGrid
<1>1. Init => ClockInv /\ GridInv
  <2> SUFFICES ASSUME Init PROVE ClockInv /\ GridInv
    OBVIOUS
  <2>1. now \in 0..Day - 1 /\ Day \in Nat
    BY ClockAssumption DEF Init
  <2> QED BY <2>1 DEF Init, ClockInv, GridInv, DueOnGrid
<1>2. ClockInv /\ GridInv /\ [Next]_vars => (ClockInv /\ GridInv)'
  BY ClockStep, GridStep
<1>3. GridInv => DueOnGrid
  BY DEF GridInv
<1> QED BY <1>1, <1>2, <1>3, PTL DEF Spec
-----------------------------------------------------------------------------
(* What an XML tree means, node by node.                                   *)
Before(nodes, i) == SubSeq(nodes, 1, i)

(* The nodes of a loop come one after the other.                           *)
LEMMA AllNodes ==
    ASSUME NEW S, NEW s \in Seq(S), NEW nodes \in Seq(S)
    PROVE  s \o Before(nodes, 0) = s /\ s \o Before(nodes, Len(nodes)) = s \o nodes
<1>1. s \o Before(nodes, 0) = s
  <2>1. Before(nodes, 0) = <<>>
    BY SubSeqEmpty DEF Before
  <2> QED BY <2>1, ConcatEmptySeq
<1>2. Before(nodes, Len(nodes)) = nodes
  BY SubSeqFull DEF Before
<1> QED BY <1>1, <1>2

LEMMA NodeByNode ==
    ASSUME NEW S, NEW s \in Seq(S), NEW nodes \in Seq(S), NEW i \in 1..Len(nodes)
    PROVE  /\ nodes[i] \in S
           /\ s \o Before(nodes, i - 1) \in Seq(S)
           /\ s \o Before(nodes, i) = Append(s \o Before(nodes, i - 1), nodes[i])
<1>1. nodes[i] \in S /\ Len(nodes) \in Nat
  BY ElementOfSeq, LenProperties
<1>2. i - 1 \in Int /\ 1 \in 1..Len(nodes) /\ \A j \in 1..i - 1 : j \in 1..Len(nodes)
  BY <1>1
<1>3. Before(nodes, i - 1) \in Seq(S)
  <2>1. \A j \in 1..i - 1 : nodes[j] \in S
    BY <1>2, ElementOfSeq
  <2> QED BY <1>2, <2>1, SubSeqProperties DEF Before
<1>4. Before(nodes, i) = Before(nodes, i - 1) \o <<nodes[i]>>
  BY <1>2, SubSeqRecursiveSecond DEF Before
<1>5. <<nodes[i]>> \in Seq(S)
  BY <1>1
<1>6. s \o Before(nodes, i - 1) \in Seq(S)
  BY <1>3, ConcatProperties
<1>7. s \o Before(nodes, i) = (s \o Before(nodes, i - 1)) \o <<nodes[i]>>
  BY <1>3, <1>4, <1>5, ConcatAssociative
<1> QED BY <1>1, <1>6, <1>7, AppendIsConcat

(* The descendants of one more parent follow those of the parents before.  *)
LEMMA NodesOfNone == \A tag : Nodes(<<>>, tag) = <<>>
<1> SUFFICES ASSUME NEW tag PROVE Nodes(<<>>, tag) = <<>>
  OBVIOUS
<1> DEFINE lists == [i \in DOMAIN <<>> |-> <<>>[i][tag]]
<1>1. lists = <<>>
  OBVIOUS
<1>2. Len(lists) = 0
  BY <1>1
<1> QED BY <1>1, <1>2 DEF Nodes, FlattenSeq

(* FlattenSeq goes through the lists in order.                             *)
Flattens(f, lists, n) == f = [i \in 1..n |-> IF i = 1 THEN lists[i] ELSE f[i - 1] \o lists[i]]

LEMMA FlattenExists ==
    ASSUME NEW T, NEW n \in Nat \ {0}, NEW lists, \A i \in 1..n : lists[i] \in Seq(T)
    PROVE  \E f \in [1..n -> Seq(T)] : Flattens(f, lists, n)
<1> DEFINE G == [i \in 2..n |-> [s \in Seq(T) |-> s \o lists[i]]]
<1>1. \A i \in 2..n : i \in 1..n /\ i # 1
  OBVIOUS
<1>2. G \in [2..n -> [Seq(T) -> Seq(T)]]
  BY <1>1, ConcatProperties
<1>3. 1 \in Int /\ n \in Int /\ 1 <= n /\ 1 + 1 = 2 /\ 1 \in 1..n
  OBVIOUS
<1>4. lists[1] \in Seq(T)
  BY <1>3
<1>5. PICK f \in [1..n -> Seq(T)] : Recurs(f, 1, n, lists[1], G)
  <2> HIDE DEF G
  <2> QED BY <1>2, <1>3, <1>4, RecursionExists
<1>6. ASSUME NEW i \in 1..n
      PROVE  f[i] = IF i = 1 THEN lists[i] ELSE f[i - 1] \o lists[i]
  <2>1. f[i] = IF i = 1 THEN lists[1] ELSE G[i][f[i - 1]]
    <3> HIDE DEF G
    <3> QED BY <1>5 DEF Recurs
  <2>2. ASSUME i # 1 PROVE i \in 2..n /\ i - 1 \in 1..n
    BY <2>2
  <2>3. i # 1 => f[i - 1] \in Seq(T)
    BY <1>5, <2>2
  <2> QED BY <2>1, <2>2, <2>3
<1>7. f = [i \in 1..n |-> IF i = 1 THEN lists[i] ELSE f[i - 1] \o lists[i]]
  BY <1>5, <1>6, Zenon
<1> QED BY <1>5, <1>7 DEF Flattens

LEMMA FlattenIs ==
    ASSUME NEW T, NEW lists, Len(lists) \in Nat \ {0}, \A i \in 1..Len(lists) : lists[i] \in Seq(T)
    PROVE  \E f : Flattens(f, lists, Len(lists)) /\ FlattenSeq(lists) = f[Len(lists)]
<1> DEFINE f == CHOOSE f : f = [i \in 1..Len(lists) |-> IF i = 1 THEN lists[i] ELSE f[i - 1] \o lists[i]]
<1>1. FlattenSeq(lists) = f[Len(lists)]
  BY DEF FlattenSeq
<1>2. \E g : Flattens(g, lists, Len(lists))
  BY FlattenExists
<1>3. Flattens(f, lists, Len(lists))
  BY <1>2, Zenon DEF Flattens
<1> HIDE DEF f
<1> QED BY <1>1, <1>3

LEMMA FlattenNext ==
    ASSUME NEW T, NEW lists \in Seq(Seq(T)), NEW list \in Seq(T)
    PROVE  FlattenSeq(Append(lists, list)) = FlattenSeq(lists) \o list
<1> DEFINE n == Len(lists)
           more == Append(lists, list)
<1>1. /\ n \in Nat /\ Len(more) = n + 1 /\ more[n + 1] = list
      /\ \A i \in 1..n : more[i] = lists[i] /\ lists[i] \in Seq(T)
  BY AppendProperties, LenProperties, ElementOfSeq
<1>2. \A i \in 1..n + 1 : more[i] \in Seq(T)
  <2>1. \A i \in 1..n + 1 : i \in 1..n \/ i = n + 1
    BY <1>1
  <2> QED BY <1>1, <2>1
<1>3. n + 1 \in Nat \ {0} /\ n + 1 \in 1..n + 1
  BY <1>1
<1> HIDE DEF n, more
<1>4. PICK g : Flattens(g, more, n + 1) /\ FlattenSeq(more) = g[n + 1]
  BY <1>1, <1>2, <1>3, FlattenIs
<1>5. \A i \in 1..n + 1 : g[i] = IF i = 1 THEN more[i] ELSE g[i - 1] \o more[i]
  BY <1>4 DEF Flattens
<1>6. CASE n = 0
  <2>1. lists = <<>>
    BY <1>6, EmptySeq DEF n
  <2>2. FlattenSeq(lists) = <<>>
    BY <2>1, <1>6 DEF FlattenSeq, n
  <2>3. g[n + 1] = list
    BY <1>1, <1>3, <1>5, <1>6
  <2> QED BY <1>4, <2>2, <2>3, ConcatEmptySeq DEF more
<1>7. CASE n # 0
  <2>1. n \in Nat \ {0} /\ Len(lists) = n
    BY <1>1, <1>7 DEF n
  <2>2. PICK f : Flattens(f, lists, n) /\ FlattenSeq(lists) = f[n]
    BY <1>1, <2>1, FlattenIs
  <2>3. \A i \in 1..n : f[i] = IF i = 1 THEN lists[i] ELSE f[i - 1] \o lists[i]
    BY <2>2 DEF Flattens
  <2> DEFINE P == {0} \cup {i \in 1..n : f[i] = g[i]}
  <2>4. ASSUME NEW k \in 0..n, k \in P, k < n
        PROVE  k + 1 \in P
    <3>1. k + 1 \in 1..n /\ k + 1 \in 1..n + 1 /\ (k # 0 => k + 1 # 1) /\ (k + 1) - 1 = k /\ k \in Nat
      BY <2>1, <2>4
    <3>2. k # 0 => f[k] = g[k]
      BY <2>4
    <3>3. /\ f[k + 1] = IF k + 1 = 1 THEN lists[k + 1] ELSE f[k] \o lists[k + 1]
          /\ g[k + 1] = IF k + 1 = 1 THEN lists[k + 1] ELSE g[k] \o lists[k + 1]
      BY <1>1, <1>5, <2>3, <3>1
    <3>4. k = 0 => k + 1 = 1
      OBVIOUS
    <3> QED BY <3>1, <3>2, <3>3, <3>4
  <2>5. n \in P
    <3>1. 0 \in P /\ n \in 0..n /\ n \in Nat
      BY <2>1
    <3> HIDE DEF P
    <3> QED BY ONLY <2>4, <3>1, UpTo
  <2>6. g[n] = f[n]
    BY <1>7, <2>5
  <2>7. g[n + 1] = g[n] \o list
    <3>1. n + 1 # 1 /\ (n + 1) - 1 = n
      BY <2>1
    <3>2. g[n + 1] = g[n] \o more[n + 1]
      BY <1>3, <1>5, <3>1
    <3> QED BY <1>1, <3>2
  <2> QED BY <1>4, <2>2, <2>6, <2>7 DEF more
<1> QED BY <1>6, <1>7

LEMMA FlattenType ==
    ASSUME NEW T, NEW lists \in Seq(Seq(T))
    PROVE  FlattenSeq(lists) \in Seq(T)
<1>1. Len(lists) \in Nat /\ \A i \in 1..Len(lists) : lists[i] \in Seq(T)
  BY LenProperties, ElementOfSeq
<1>2. CASE Len(lists) = 0
  <2>1. lists = <<>>
    BY <1>2, EmptySeq
  <2> QED BY <1>2, <2>1, EmptySeq DEF FlattenSeq
<1>3. CASE Len(lists) # 0
  <2> DEFINE n == Len(lists)
  <2>1. n \in Nat \ {0} /\ 1 \in 1..n /\ n \in 1..n
    BY <1>1, <1>3
  <2>2. PICK f : Flattens(f, lists, n) /\ FlattenSeq(lists) = f[n]
    BY <1>1, <2>1, FlattenIs
  <2>3. \A i \in 1..n : f[i] = IF i = 1 THEN lists[i] ELSE f[i - 1] \o lists[i]
    BY <2>2 DEF Flattens
  <2> DEFINE P == {0} \cup {i \in 1..n : f[i] \in Seq(T)}
  <2> HIDE DEF n
  <2>4. ASSUME NEW k \in 0..n, k \in P, k < n
        PROVE  k + 1 \in P
    <3>1. k + 1 \in 1..n /\ (k # 0 => k + 1 # 1) /\ (k + 1) - 1 = k /\ k \in Nat
      BY <2>1, <2>4
    <3>2. k # 0 => f[k] \in Seq(T)
      BY <2>4
    <3>3. f[k + 1] = IF k + 1 = 1 THEN lists[k + 1] ELSE f[k] \o lists[k + 1]
      BY <2>3, <3>1
    <3>4. (k = 0 => k + 1 = 1) /\ lists[k + 1] \in Seq(T)
      BY <1>1, <3>1 DEF n
    <3> QED BY <3>1, <3>2, <3>3, <3>4, ConcatProperties
  <2>5. n \in P
    <3>1. 0 \in P /\ n \in 0..n /\ n \in Nat
      BY <2>1
    <3> HIDE DEF P
    <3> QED BY ONLY <2>4, <3>1, UpTo
  <2> QED BY <2>1, <2>2, <2>5
<1> QED BY <1>2, <1>3

LEMMA NodesNext ==
    ASSUME NEW S, NEW T, NEW nodes \in Seq(S), NEW node \in S, NEW tag,
           \A x \in S : x[tag] \in Seq(T)
    PROVE  /\ Nodes(nodes, tag) \in Seq(T)
           /\ Nodes(Append(nodes, node), tag) = Nodes(nodes, tag) \o node[tag]
<1> DEFINE n == Len(nodes)
           more == Append(nodes, node)
           lists == [i \in DOMAIN nodes |-> nodes[i][tag]]
<1>1. /\ n \in Nat /\ DOMAIN nodes = 1..n /\ more \in Seq(S) /\ Len(more) = n + 1
      /\ DOMAIN more = 1..n + 1 /\ more[n + 1] = node
      /\ \A i \in 1..n : more[i] = nodes[i] /\ nodes[i] \in S
  BY AppendProperties, LenProperties, ElementOfSeq
<1>2. lists \in Seq(Seq(T)) /\ Len(lists) = n
  BY <1>1
<1>3. [i \in DOMAIN more |-> more[i][tag]] = Append(lists, node[tag])
  <2>1. node[tag] \in Seq(T)
    OBVIOUS
  <2>2. \A i \in 1..n + 1 : i \in 1..n \/ i = n + 1
    BY <1>1
  <2>3. /\ Append(lists, node[tag]) \in Seq(Seq(T)) /\ Len(Append(lists, node[tag])) = n + 1
        /\ \A i \in 1..n : Append(lists, node[tag])[i] = nodes[i][tag]
        /\ Append(lists, node[tag])[n + 1] = node[tag]
    BY <1>1, <1>2, <2>1, AppendProperties
  <2>4. DOMAIN Append(lists, node[tag]) = 1..n + 1
    BY <2>3, LenProperties
  <2> DEFINE l == [i \in DOMAIN more |-> more[i][tag]]
  <2>5. \A i \in 1..n + 1 : l[i] = Append(lists, node[tag])[i]
    BY <1>1, <2>2, <2>3
  <2>6. l \in Seq(Seq(T)) /\ Len(l) = n + 1
    BY <1>1, <2>1, <2>2
  <2> HIDE DEF l, lists, more
  <2>7. l = Append(lists, node[tag])
    BY <2>3, <2>5, <2>6, SeqEqual
  <2> QED BY <2>7 DEF l
<1> HIDE DEF lists
<1>4. FlattenSeq(Append(lists, node[tag])) = FlattenSeq(lists) \o node[tag]
  BY <1>2, FlattenNext
<1> QED BY <1>2, <1>3, <1>4, FlattenType DEF Nodes, lists

(* The last text given, with one more.                                     *)
LEMMA LastGivenNone == LastGiven(<<>>) = ""
BY DEF LastGiven

LEMMA LastGivenNext ==
    ASSUME NEW T, NEW texts \in Seq(T), NEW text \in T
    PROVE  LastGiven(Append(texts, text)) = IF text # "" THEN text ELSE LastGiven(texts)
<1> DEFINE n == Len(texts)
           more == Append(texts, text)
           Given(ts) == {i \in DOMAIN ts : ts[i] # ""}
<1>1. /\ n \in Nat /\ more \in Seq(T) /\ DOMAIN texts = 1..n /\ DOMAIN more = 1..n + 1 /\ more[n + 1] = text
      /\ \A i \in 1..n : more[i] = texts[i]
  <2>1. /\ n \in Nat /\ more \in Seq(T) /\ Len(more) = n + 1 /\ more[n + 1] = text
        /\ \A i \in 1..n : more[i] = texts[i]
    BY AppendProperties, LenProperties
  <2>2. DOMAIN texts = 1..n /\ DOMAIN more = 1..Len(more)
    <3> HIDE DEF more
    <3> QED BY <2>1, LenProperties
  <2> QED BY <2>1, <2>2
<1> HIDE DEF n, more
<1>2. CASE text # ""
  <2>1. n + 1 \in Given(more) /\ Given(more) \in SUBSET (1..n + 1)
    <3>1. n + 1 \in 1..n + 1
      BY <1>1
    <3> QED BY <1>1, <1>2, <3>1
  <2>2. Max(Given(more)) = n + 1
    <3> HIDE DEF Given
    <3> QED BY <1>1, <2>1, LastPosition
  <2> QED BY <1>1, <1>2, <2>1, <2>2 DEF LastGiven, more
<1>3. CASE text = ""
  <2>1. Given(more) = Given(texts)
    <3>1. \A i : i \in 1..n + 1 <=> i \in 1..n \/ i = n + 1
      BY <1>1
    <3> QED BY <1>1, <1>3, <3>1
  <2>2. Given(texts) # {} => Max(Given(texts)) \in 1..n
    <3>1. Given(texts) \in SUBSET (1..n)
      BY <1>1
    <3> HIDE DEF Given
    <3> QED BY <1>1, <3>1, LastExists
  <2> QED BY <1>1, <1>3, <2>1, <2>2 DEF LastGiven, more
<1> QED BY <1>2, <1>3

LEMMA AttributesNext ==
    ASSUME NEW S, NEW nodes \in Seq(S), NEW node \in S, NEW k,
           \A x \in S : x.attrs[k] \in Text
    PROVE  /\ Attributes(nodes, k) \in Seq(Text)
           /\ Attributes(Append(nodes, node), k) = Append(Attributes(nodes, k), node.attrs[k])
<1> DEFINE n == Len(nodes)
           more == Append(nodes, node)
           l == Attributes(more, k)
           m == Append(Attributes(nodes, k), node.attrs[k])
<1>1. /\ n \in Nat /\ DOMAIN nodes = 1..n /\ more \in Seq(S)
      /\ DOMAIN more = 1..n + 1 /\ more[n + 1] = node
      /\ \A i \in 1..n : more[i] = nodes[i] /\ nodes[i] \in S
  BY AppendProperties, LenProperties, ElementOfSeq
<1>2. \A i \in 1..n + 1 : i \in 1..n \/ i = n + 1
  BY <1>1
<1>3. Attributes(nodes, k) \in Seq(Text) /\ Len(Attributes(nodes, k)) = n
  BY <1>1 DEF Attributes
<1>4. /\ m \in Seq(Text) /\ Len(m) = n + 1 /\ m[n + 1] = node.attrs[k]
      /\ \A i \in 1..n : m[i] = nodes[i].attrs[k]
  <2>1. \A i \in 1..n : Attributes(nodes, k)[i] = nodes[i].attrs[k]
    BY <1>1 DEF Attributes
  <2> QED BY <1>3, <2>1, AppendProperties
<1>5. l \in Seq(Text) /\ Len(l) = n + 1 /\ \A i \in 1..n + 1 : l[i] = more[i].attrs[k]
  BY <1>1, <1>2 DEF Attributes
<1>6. \A i \in 1..n + 1 : l[i] = m[i]
  BY <1>1, <1>2, <1>4, <1>5
<1> HIDE DEF l, m, more
<1>7. l = m
  BY <1>4, <1>5, <1>6, SeqEqual
<1> QED BY <1>3, <1>7 DEF l, m, more

-----------------------------------------------------------------------------
(* Configurations and what the loops of the parsers do to them.            *)
Maps(Value) == UNION {[D -> Value] : D \in SUBSET Text}
Sessions == [text : [SessionKeys -> Text], rssl_servers : Seq(Text)]
Resources == [name : Text, source : Text, path : Text, fields : Maps(Int),
              items : Maps([RIC : Text, topic : Text])]

IsConfig(c) ==
    /\ {"text", "sessions", "resources", "is_snmp_enabled", "is_agentx_subagent"} \subseteq DOMAIN c
    /\ c.text \in [TextKeys -> Text]
    /\ c.sessions \in Seq(Sessions)
    /\ c.resources \in Seq(Resources)

(* The texts of which XmlMeaning speaks.                                   *)
RfaTexts == {"maximum_data_size", "service_name"}
SameTexts(c, d, keys) == \A k \in keys : c.text[k] = d.text[k]

LEMMA TextKeysAre ==
    /\ PsychKeys \subseteq TextKeys /\ RfaTexts \subseteq TextKeys
    /\ "key" \in TextKeys /\ PsychKeys \cap {"key", "maximum_data_size", "service_name"} = {}
    /\ \A k \in {"snmp_filelog", "agentx_socket", "dacs_id", "monitor_name", "event_queue_name", "vendor_name"} :
          k \in TextKeys /\ k \notin PsychKeys \cup RfaTexts
BY DEF TextKeys, PsychKeys, RfaKeys, RfaTexts

LEMMA WithText ==
    ASSUME NEW c, IsConfig(c), NEW t \in [TextKeys -> Text]
    PROVE  /\ IsConfig([c EXCEPT !.text = t])
           /\ [c EXCEPT !.text = t].text = t
           /\ [c EXCEPT !.text = t].sessions = c.sessions
           /\ [c EXCEPT !.text = t].resources = c.resources
BY DEF IsConfig

LEMMA WithSessions ==
    ASSUME NEW c, IsConfig(c), NEW s \in Seq(Sessions)
    PROVE  /\ IsConfig([c EXCEPT !.sessions = s])
           /\ [c EXCEPT !.sessions = s].sessions = s
           /\ [c EXCEPT !.sessions = s].text = c.text
           /\ [c EXCEPT !.sessions = s].resources = c.resources
BY DEF IsConfig

LEMMA WithResources ==
    ASSUME NEW c, IsConfig(c), NEW rs \in Seq(Resources)
    PROVE  /\ IsConfig([c EXCEPT !.resources = rs])
           /\ [c EXCEPT !.resources = rs].resources = rs
           /\ [c EXCEPT !.resources = rs].text = c.text
           /\ [c EXCEPT !.resources = rs].sessions = c.sessions
BY DEF IsConfig

LEMMA OverrideIs ==
    ASSUME NEW text \in [TextKeys -> Text], NEW attrs, \A k \in DOMAIN attrs : attrs[k] \in Text
    PROVE  /\ Override(text, attrs) \in [TextKeys -> Text]
           /\ \A k \in TextKeys :
                 Override(text, attrs)[k] = IF k \in DOMAIN attrs /\ attrs[k] # "" THEN attrs[k] ELSE text[k]
BY DEF Override

LEMMA EmplaceType ==
    ASSUME NEW V, NEW map \in Maps(V), NEW key \in Text, NEW value \in V
    PROVE  Emplace(map, key, value) \in Maps(V)
<1>1. PICK D \in SUBSET Text : map \in [D -> V]
  BY DEF Maps
<1>2. CASE key \in D
  BY <1>1, <1>2 DEF Emplace
<1>3. CASE key \notin D
  <2>1. D \cup {key} \in SUBSET Text
    OBVIOUS
  <2>2. Emplace(map, key, value) \in [D \cup {key} -> V]
    BY <1>1, <1>3 DEF Emplace
  <2> QED BY <2>1, <2>2 DEF Maps
<1> QED BY <1>2, <1>3

LEMMA NoMap == \A V : <<>> \in Maps(V)
<1> SUFFICES ASSUME NEW V PROVE <<>> \in Maps(V)
  OBVIOUS
<1>1. <<>> \in [{} -> V]
  OBVIOUS
<1> QED BY <1>1 DEF Maps

LEMMA Outcomes ==
    /\ \A s, v : Result(s, v).status = s /\ Result(s, v).value = v
    /\ \A v : Ok(v).status = "ok" /\ Ok(v).value = v
BY DEF Result, Ok

(* A loop over nodes is left early for what is invalid, or by an exception *)
(* that only a field id is the reason for.                                 *)
Odd(text) == text \notin DOMAIN Number \cup {""}
OddFields(fields) == \E i \in DOMAIN fields : Odd(fields[i].id)
OddResources(nodes) == \E i \in DOMAIN nodes : OddFields(nodes[i].field)
OddPsychs(nodes) == \E i \in DOMAIN nodes : OddResources(nodes[i].resource)
OddTree(nodes) == \E i \in DOMAIN nodes : OddPsychs(nodes[i].psych)

Refused(r) == r.status = "false" /\ IsConfig(r.value)
Stopped(odd, r) == Refused(r) \/ (r.status = "thrown" /\ odd /\ IsConfig(r.value))

XmlFailed(ctx, nodes, r) == Refused(r)
PartFailed(ctx, nodes, r) == r.status = "false"
FieldFailed(ctx, nodes, r) == r.status = "false" \/ (r.status = "thrown" /\ OddFields(nodes))
ResourceFailed(ctx, nodes, r) == Stopped(OddResources(nodes), r)
PsychFailed(ctx, nodes, r) == Stopped(OddPsychs(nodes), r)
TreeFailed(ctx, nodes, r) == Stopped(OddTree(nodes), r)

(* Loops that change nothing XmlMeaning speaks of.                         *)
Same(ctx, start, nodes, c, i) ==
    /\ IsConfig(c)
    /\ c.sessions = start.sessions /\ c.resources = start.resources
    /\ SameTexts(c, start, PsychKeys \cup RfaTexts)

AgentXRound(ctx, c, node) == ParseAgentXNode(c, node)
SnmpRound(ctx, c, node) == ParseSnmpNode(c, node)
DacsRound(ctx, c, id) == ParseDacsNode(c, id)
MonitorRound(ctx, c, name) == ParseMonitorNode(c, name)
EventQueueRound(ctx, c, name) == ParseEventQueueNode(c, name)
VendorRound(ctx, c, name) == ParseVendorNode(c, name)
AgentX == INSTANCE Loops WITH Round <- AgentXRound, Holds <- Same, Failed <- XmlFailed
Snmp == INSTANCE Loops WITH Round <- SnmpRound, Holds <- Same, Failed <- XmlFailed
Dacs == INSTANCE Loops WITH Round <- DacsRound, Holds <- Same, Failed <- XmlFailed
Monitor == INSTANCE Loops WITH Round <- MonitorRound, Holds <- Same, Failed <- XmlFailed
EventQueue == INSTANCE Loops WITH Round <- EventQueueRound, Holds <- Same, Failed <- XmlFailed
Vendor == INSTANCE Loops WITH Round <- VendorRound, Holds <- Same, Failed <- XmlFailed

LEMMA OverrideSame ==
    ASSUME NEW c, IsConfig(c), NEW attrs, \A k \in DOMAIN attrs : attrs[k] \in Text,
           DOMAIN attrs \cap (PsychKeys \cup RfaTexts) = {}
    PROVE  /\ IsConfig([c EXCEPT !.text = Override(@, attrs)])
           /\ [c EXCEPT !.text = Override(@, attrs)].sessions = c.sessions
           /\ [c EXCEPT !.text = Override(@, attrs)].resources = c.resources
           /\ SameTexts([c EXCEPT !.text = Override(@, attrs)], c, PsychKeys \cup RfaTexts)
<1> DEFINE t == Override(c.text, attrs)
<1>1. c.text \in [TextKeys -> Text]
  BY DEF IsConfig
<1>2. t \in [TextKeys -> Text] /\ \A k \in PsychKeys \cup RfaTexts : t[k] = c.text[k]
  <2>1. /\ t \in [TextKeys -> Text]
        /\ \A k \in TextKeys : t[k] = IF k \in DOMAIN attrs /\ attrs[k] # "" THEN attrs[k] ELSE c.text[k]
    BY <1>1, OverrideIs
  <2>2. PsychKeys \cup RfaTexts \subseteq TextKeys
    BY TextKeysAre
  <2> HIDE DEF t
  <2> QED BY <2>1, <2>2
<1> HIDE DEF t
<1>3. [c EXCEPT !.text = Override(@, attrs)] = [c EXCEPT !.text = t]
  BY DEF t
<1> DEFINE d == [c EXCEPT !.text = t]
<1>4. IsConfig(d) /\ d.text = t /\ d.sessions = c.sessions /\ d.resources = c.resources
  BY <1>2, WithText
<1> HIDE DEF d
<1>5. SameTexts(d, c, PsychKeys \cup RfaTexts)
  BY <1>2, <1>4 DEF SameTexts
<1> QED BY <1>3, <1>4, <1>5 DEF d

LEMMA AgentXSame ==
    ASSUME NEW start, IsConfig(start), NEW nodes \in Seq([subagent : Text, socket : Text])
    PROVE  AgentX!Outcome(0, start, nodes, AgentX!Loop(0, start, nodes), Len(nodes))
<1>1. Same(0, start, nodes, start, 0)
  BY DEF Same, SameTexts
<1>2. ASSUME NEW i \in 1..Len(nodes), NEW c, Same(0, start, nodes, c, i - 1)
      PROVE  AgentX!Outcome(0, start, nodes, AgentXRound(0, c, nodes[i]), i)
  <2> DEFINE node == nodes[i]
             d == [c EXCEPT !.text = Override(@, [agentx_socket |-> node.socket])]
             e == AgentXRound(0, c, node).value
  <2>1. node \in [subagent : Text, socket : Text]
    BY ElementOfSeq
  <2>2. IsConfig(d) /\ d.sessions = c.sessions /\ d.resources = c.resources /\ SameTexts(d, c, PsychKeys \cup RfaTexts)
    <3> DEFINE attrs == [agentx_socket |-> node.socket]
    <3>1. (\A k \in DOMAIN attrs : attrs[k] \in Text) /\ DOMAIN attrs \cap (PsychKeys \cup RfaTexts) = {}
      BY <2>1, TextKeysAre
    <3> HIDE DEF attrs
    <3>2. IsConfig(c)
      BY <1>2 DEF Same
    <3>3. d = [c EXCEPT !.text = Override(@, attrs)]
      BY DEF attrs
    <3> HIDE DEF d
    <3> QED BY <3>1, <3>2, <3>3, OverrideSame
  <2>3. AgentXRound(0, c, node).status = "ok"
    BY DEF AgentXRound, ParseAgentXNode, Ok, Result
  <2>4. DOMAIN e = DOMAIN d /\ e.text = d.text /\ e.sessions = d.sessions /\ e.resources = d.resources
    <3>1. IsConfig(c)
      BY <1>2 DEF Same
    <3> QED BY <3>1 DEF AgentXRound, ParseAgentXNode, Ok, Result, IsConfig
  <2>5. Same(0, start, nodes, e, i)
    BY <1>2, <2>2, <2>4 DEF Same, SameTexts, IsConfig
  <2> QED BY <2>3, <2>5 DEF AgentX!Outcome
<1>3. Len(nodes) \in Nat
  BY LenProperties
<1> QED BY <1>1, <1>2, <1>3, AgentX!LoopInvariant

(* One more text that XmlMeaning does not speak of.                        *)
LEMMA SameNext ==
    ASSUME NEW start, NEW nodes, NEW c, NEW i, NEW j, Same(0, start, nodes, c, i),
           NEW attrs, \A k \in DOMAIN attrs : attrs[k] \in Text,
           DOMAIN attrs \cap (PsychKeys \cup RfaTexts) = {}
    PROVE  Same(0, start, nodes, [c EXCEPT !.text = Override(@, attrs)], j)
<1> DEFINE d == [c EXCEPT !.text = Override(@, attrs)]
<1>1. IsConfig(d) /\ d.sessions = c.sessions /\ d.resources = c.resources /\ SameTexts(d, c, PsychKeys \cup RfaTexts)
  <2>1. IsConfig(c)
    BY DEF Same
  <2> QED BY <2>1, OverrideSame
<1> HIDE DEF d
<1>2. Same(0, start, nodes, d, j)
  BY <1>1 DEF Same, SameTexts
<1> QED BY <1>2 DEF d

LEMMA SameStart == ASSUME NEW start, IsConfig(start), NEW nodes PROVE Same(0, start, nodes, start, 0)
BY DEF Same, SameTexts

LEMMA DacsSame ==
    ASSUME NEW start, IsConfig(start), NEW nodes \in Seq(Text)
    PROVE  Dacs!Outcome(0, start, nodes, Dacs!Loop(0, start, nodes), Len(nodes))
<1>1. ASSUME NEW i \in 1..Len(nodes), NEW c, Same(0, start, nodes, c, i - 1)
      PROVE  Dacs!Outcome(0, start, nodes, DacsRound(0, c, nodes[i]), i)
  <2> DEFINE attrs == [dacs_id |-> nodes[i]]
  <2>1. nodes[i] \in Text
    BY ElementOfSeq
  <2>2. (\A k \in DOMAIN attrs : attrs[k] \in Text) /\ DOMAIN attrs \cap (PsychKeys \cup RfaTexts) = {}
    BY <2>1, TextKeysAre
  <2>3. DacsRound(0, c, nodes[i]) = Ok([c EXCEPT !.text = Override(@, attrs)])
    BY DEF DacsRound, ParseDacsNode
  <2> HIDE DEF attrs
  <2>4. Same(0, start, nodes, [c EXCEPT !.text = Override(@, attrs)], i)
    BY <1>1, <2>2, SameNext
  <2> QED BY <2>3, <2>4, Outcomes DEF Dacs!Outcome
<1> QED BY <1>1, SameStart, LenProperties, Dacs!LoopInvariant

LEMMA MonitorSame ==
    ASSUME NEW start, IsConfig(start), NEW nodes \in Seq(Text)
    PROVE  Monitor!Outcome(0, start, nodes, Monitor!Loop(0, start, nodes), Len(nodes))
<1>1. ASSUME NEW i \in 1..Len(nodes), NEW c, Same(0, start, nodes, c, i - 1)
      PROVE  Monitor!Outcome(0, start, nodes, MonitorRound(0, c, nodes[i]), i)
  <2> DEFINE attrs == [monitor_name |-> nodes[i]]
  <2>1. nodes[i] \in Text
    BY ElementOfSeq
  <2>2. (\A k \in DOMAIN attrs : attrs[k] \in Text) /\ DOMAIN attrs \cap (PsychKeys \cup RfaTexts) = {}
    BY <2>1, TextKeysAre
  <2>3. MonitorRound(0, c, nodes[i]) = Ok([c EXCEPT !.text = Override(@, attrs)])
    BY DEF MonitorRound, ParseMonitorNode
  <2> HIDE DEF attrs
  <2>4. Same(0, start, nodes, [c EXCEPT !.text = Override(@, attrs)], i)
    BY <1>1, <2>2, SameNext
  <2> QED BY <2>3, <2>4, Outcomes DEF Monitor!Outcome
<1> QED BY <1>1, SameStart, LenProperties, Monitor!LoopInvariant

LEMMA EventQueueSame ==
    ASSUME NEW start, IsConfig(start), NEW nodes \in Seq(Text)
    PROVE  EventQueue!Outcome(0, start, nodes, EventQueue!Loop(0, start, nodes), Len(nodes))
<1>1. ASSUME NEW i \in 1..Len(nodes), NEW c, Same(0, start, nodes, c, i - 1)
      PROVE  EventQueue!Outcome(0, start, nodes, EventQueueRound(0, c, nodes[i]), i)
  <2> DEFINE attrs == [event_queue_name |-> nodes[i]]
  <2>1. nodes[i] \in Text
    BY ElementOfSeq
  <2>2. (\A k \in DOMAIN attrs : attrs[k] \in Text) /\ DOMAIN attrs \cap (PsychKeys \cup RfaTexts) = {}
    BY <2>1, TextKeysAre
  <2>3. EventQueueRound(0, c, nodes[i]) = Ok([c EXCEPT !.text = Override(@, attrs)])
    BY DEF EventQueueRound, ParseEventQueueNode
  <2> HIDE DEF attrs
  <2>4. Same(0, start, nodes, [c EXCEPT !.text = Override(@, attrs)], i)
    BY <1>1, <2>2, SameNext
  <2> QED BY <2>3, <2>4, Outcomes DEF EventQueue!Outcome
<1> QED BY <1>1, SameStart, LenProperties, EventQueue!LoopInvariant

LEMMA VendorSame ==
    ASSUME NEW start, IsConfig(start), NEW nodes \in Seq(Text)
    PROVE  Vendor!Outcome(0, start, nodes, Vendor!Loop(0, start, nodes), Len(nodes))
<1>1. ASSUME NEW i \in 1..Len(nodes), NEW c, Same(0, start, nodes, c, i - 1)
      PROVE  Vendor!Outcome(0, start, nodes, VendorRound(0, c, nodes[i]), i)
  <2> DEFINE attrs == [vendor_name |-> nodes[i]]
  <2>1. nodes[i] \in Text
    BY ElementOfSeq
  <2>2. (\A k \in DOMAIN attrs : attrs[k] \in Text) /\ DOMAIN attrs \cap (PsychKeys \cup RfaTexts) = {}
    BY <2>1, TextKeysAre
  <2>3. VendorRound(0, c, nodes[i]) = Ok([c EXCEPT !.text = Override(@, attrs)])
    BY DEF VendorRound, ParseVendorNode
  <2> HIDE DEF attrs
  <2>4. Same(0, start, nodes, [c EXCEPT !.text = Override(@, attrs)], i)
    BY <1>1, <2>2, SameNext
  <2> QED BY <2>3, <2>4, Outcomes DEF Vendor!Outcome
<1> QED BY <1>1, SameStart, LenProperties, Vendor!LoopInvariant

LEMMA SnmpSame ==
    ASSUME NEW start, IsConfig(start), NEW nodes \in Seq(SnmpNode)
    PROVE  Snmp!Outcome(0, start, nodes, Snmp!Loop(0, start, nodes), Len(nodes))
<1>1. ASSUME NEW i \in 1..Len(nodes), NEW c, Same(0, start, nodes, c, i - 1)
      PROVE  Snmp!Outcome(0, start, nodes, SnmpRound(0, c, nodes[i]), i)
  <2> DEFINE node == nodes[i]
             attrs == [snmp_filelog |-> node.filelog]
             d == [c EXCEPT !.text = Override(@, attrs)]
             r == AgentX!Loop(0, d, node.agentX)
             e == [r.value EXCEPT !.is_snmp_enabled = TRUE]
  <2>1. node \in SnmpNode
    BY ElementOfSeq
  <2>2. (\A k \in DOMAIN attrs : attrs[k] \in Text) /\ DOMAIN attrs \cap (PsychKeys \cup RfaTexts) = {}
    BY <2>1, TextKeysAre DEF SnmpNode
  <2>3. SnmpRound(0, c, node) = IF r.status = "ok" THEN Ok(e) ELSE r
    BY DEF SnmpRound, ParseSnmpNode, Then, Each, AgentX!Loop, AgentXRound, Ok, Result
  <2> HIDE DEF attrs
  <2>4. Same(0, start, nodes, d, i)
    BY <1>1, <2>2, SameNext
  <2>5. node.agentX \in Seq([subagent : Text, socket : Text])
    BY <2>1 DEF SnmpNode
  <2> HIDE DEF d
  <2>6. AgentX!Outcome(0, d, node.agentX, r, Len(node.agentX))
    <3>1. IsConfig(d)
      BY <2>4 DEF Same
    <3> QED BY <2>5, <3>1, AgentXSame
  <2> HIDE DEF r, node
  <2>7. CASE r.status = "ok"
    <3>1. Same(0, d, node.agentX, r.value, Len(node.agentX))
      BY <2>6, <2>7 DEF AgentX!Outcome
    <3>2. DOMAIN e = DOMAIN r.value /\ e.text = r.value.text /\ e.sessions = r.value.sessions /\ e.resources = r.value.resources
      BY <3>1 DEF Same, IsConfig
    <3> HIDE DEF e
    <3>3. Same(0, start, nodes, e, i)
      BY <2>4, <3>1, <3>2 DEF Same, SameTexts, IsConfig
    <3> QED BY <2>3, <2>7, <3>3, Outcomes DEF Snmp!Outcome, node
  <2>8. CASE r.status # "ok"
    BY <2>3, <2>6, <2>8 DEF Snmp!Outcome, AgentX!Outcome, XmlFailed, Refused, node
  <2> QED BY <2>7, <2>8
<1> QED BY <1>1, SameStart, LenProperties, Snmp!LoopInvariant

(* The services: the last name, all of which are given.                    *)
ServiceHolds(services, start, nodes, c, i) ==
    /\ IsConfig(c)
    /\ c.sessions = start.sessions /\ c.resources = start.resources
    /\ SameTexts(c, start, PsychKeys \cup {"maximum_data_size"})
    /\ c.text.service_name = LastGiven(services \o Before(nodes, i))
ServiceRound(services, c, name) == ParseServiceNode(c, name)
Service == INSTANCE Loops WITH Round <- ServiceRound, Holds <- ServiceHolds, Failed <- XmlFailed

LEMMA ServicesFollow ==
    ASSUME NEW services \in Seq(Text), NEW start, IsConfig(start),
           start.text.service_name = LastGiven(services), NEW nodes \in Seq(Text)
    PROVE  Service!Outcome(services, start, nodes, Service!Loop(services, start, nodes), Len(nodes))
<1>1. ServiceHolds(services, start, nodes, start, 0)
  BY AllNodes DEF ServiceHolds, SameTexts
<1>2. ASSUME NEW i \in 1..Len(nodes), NEW c, ServiceHolds(services, start, nodes, c, i - 1)
      PROVE  Service!Outcome(services, start, nodes, ServiceRound(services, c, nodes[i]), i)
  <2>0. PICK name, before, r : /\ name = nodes[i] /\ before = services \o Before(nodes, i - 1)
                               /\ r = ServiceRound(services, c, nodes[i])
    OBVIOUS
  <2> DEFINE t == [c.text EXCEPT !.service_name = name]
             d == [c EXCEPT !.text = t]
  <2>1. name \in Text /\ before \in Seq(Text) /\ services \o Before(nodes, i) = Append(before, name)
    BY <2>0, NodeByNode
  <2>2. r = IF name = "" THEN Result("false", c) ELSE Ok(d)
    BY <2>0 DEF ServiceRound, ParseServiceNode
  <2>3. IsConfig(c) /\ c.text \in [TextKeys -> Text]
    BY <1>2 DEF ServiceHolds, IsConfig
  <2> SUFFICES Service!Outcome(services, start, nodes, r, i)
    BY <2>0
  <2>4. CASE name = ""
    BY <2>2, <2>3, <2>4 DEF Service!Outcome, XmlFailed, Refused, Result
  <2>5. CASE name # ""
    <3>1. /\ t \in [TextKeys -> Text] /\ t.service_name = name
          /\ \A k \in PsychKeys \cup {"maximum_data_size"} : t[k] = c.text[k]
      BY <2>1, <2>3, TextKeysAre DEF RfaTexts
    <3> HIDE DEF t
    <3>2. IsConfig(d) /\ d.text = t /\ d.sessions = c.sessions /\ d.resources = c.resources
      BY <2>3, <3>1, WithText
    <3> HIDE DEF d
    <3>3. LastGiven(services \o Before(nodes, i)) = name
      <4>1. LastGiven(Append(before, name)) = IF name # "" THEN name ELSE LastGiven(before)
        BY <2>1, LastGivenNext
      <4> QED BY <2>1, <2>5, <4>1
    <3>4. ServiceHolds(services, start, nodes, d, i)
      BY <1>2, <3>1, <3>2, <3>3 DEF ServiceHolds, SameTexts
    <3> QED BY <2>2, <2>5, <3>4, Outcomes DEF Service!Outcome
  <2> QED BY <2>4, <2>5
<1> QED BY <1>1, <1>2, LenProperties, Service!LoopInvariant

(* A session: all servers of all its connections.                          *)
PublisherHolds(ctx, start, nodes, s, i) == s \in Sessions /\ s.rssl_servers = start.rssl_servers
PublisherRound(ctx, s, name) == ParsePublisherNode(s, name)
LoginRound(ctx, s, login) == ParseLoginNode(s, login)
Publisher == INSTANCE Loops WITH Round <- PublisherRound, Holds <- PublisherHolds, Failed <- PartFailed
Login == INSTANCE Loops WITH Round <- LoginRound, Holds <- PublisherHolds, Failed <- PartFailed

ServerHolds(servers, start, nodes, s, i) == s \in Sessions /\ s.rssl_servers = servers \o Before(nodes, i)
ServerRound(servers, s, server) == ParseServerNode(s, server)
Server == INSTANCE Loops WITH Round <- ServerRound, Holds <- ServerHolds, Failed <- PartFailed

ConnectionHolds(ctx, start, nodes, s, i) ==
    s \in Sessions /\ s.rssl_servers = Nodes(ctx \o Before(nodes, i), "server")
ConnectionRound(ctx, s, node) == ParseConnectionNode(s, node)
Connection == INSTANCE Loops WITH Round <- ConnectionRound, Holds <- ConnectionHolds, Failed <- PartFailed

LEMMA SessionKeysAre ==
    /\ {"publisher_name", "connection_name", "rssl_default_port", "session_name"} \subseteq SessionKeys
    /\ LoginKeys \subseteq SessionKeys
BY DEF SessionKeys, LoginKeys

LEMMA PublishersKeep ==
    ASSUME NEW start \in Sessions, NEW nodes \in Seq(Text)
    PROVE  Publisher!Outcome(0, start, nodes, Publisher!Loop(0, start, nodes), Len(nodes))
<1>1. ASSUME NEW i \in 1..Len(nodes), NEW s, PublisherHolds(0, start, nodes, s, i - 1)
      PROVE  Publisher!Outcome(0, start, nodes, PublisherRound(0, s, nodes[i]), i)
  <2> DEFINE d == [s EXCEPT !.text.publisher_name = nodes[i]]
  <2>1. nodes[i] \in Text
    BY ElementOfSeq
  <2>2. d \in Sessions /\ d.rssl_servers = s.rssl_servers
    BY <1>1, <2>1, SessionKeysAre DEF PublisherHolds, Sessions
  <2>3. PublisherRound(0, s, nodes[i]) = Ok(d)
    BY DEF PublisherRound, ParsePublisherNode
  <2> HIDE DEF d
  <2> QED BY <1>1, <2>2, <2>3, Outcomes DEF Publisher!Outcome, PublisherHolds
<1>2. PublisherHolds(0, start, nodes, start, 0)
  BY DEF PublisherHolds
<1> QED BY <1>1, <1>2, LenProperties, Publisher!LoopInvariant

LEMMA LoginsKeep ==
    ASSUME NEW start \in Sessions, NEW nodes \in Seq([LoginKeys -> Text])
    PROVE  Login!Outcome(0, start, nodes, Login!Loop(0, start, nodes), Len(nodes))
<1>1. ASSUME NEW i \in 1..Len(nodes), NEW s, PublisherHolds(0, start, nodes, s, i - 1)
      PROVE  Login!Outcome(0, start, nodes, LoginRound(0, s, nodes[i]), i)
  <2> DEFINE t == [k \in DOMAIN s.text |-> IF k \in LoginKeys THEN nodes[i][k] ELSE s.text[k]]
             d == [s EXCEPT !.text = t]
  <2>1. nodes[i] \in [LoginKeys -> Text]
    BY ElementOfSeq
  <2>2. t \in [SessionKeys -> Text]
    BY <1>1, <2>1, SessionKeysAre DEF PublisherHolds, Sessions
  <2>3. LoginRound(0, s, nodes[i]) = Ok(d)
    BY DEF LoginRound, ParseLoginNode
  <2> HIDE DEF t
  <2>4. d \in Sessions /\ d.rssl_servers = s.rssl_servers
    BY <1>1, <2>2 DEF PublisherHolds, Sessions
  <2> HIDE DEF d
  <2> QED BY <1>1, <2>3, <2>4, Outcomes DEF Login!Outcome, PublisherHolds
<1>2. PublisherHolds(0, start, nodes, start, 0)
  BY DEF PublisherHolds
<1> QED BY <1>1, <1>2, LenProperties, Login!LoopInvariant

LEMMA ServersFollow ==
    ASSUME NEW servers \in Seq(Text), NEW start \in Sessions, start.rssl_servers = servers,
           NEW nodes \in Seq(Text)
    PROVE  Server!Outcome(servers, start, nodes, Server!Loop(servers, start, nodes), Len(nodes))
<1>1. ServerHolds(servers, start, nodes, start, 0)
  BY AllNodes DEF ServerHolds
<1>2. ASSUME NEW i \in 1..Len(nodes), NEW s, ServerHolds(servers, start, nodes, s, i - 1)
      PROVE  Server!Outcome(servers, start, nodes, ServerRound(servers, s, nodes[i]), i)
  <2>0. PICK server, before, r : /\ server = nodes[i] /\ before = servers \o Before(nodes, i - 1)
                                 /\ r = ServerRound(servers, s, nodes[i])
    OBVIOUS
  <2> SUFFICES Server!Outcome(servers, start, nodes, r, i)
    BY <2>0
  <2> DEFINE d == [s EXCEPT !.rssl_servers = Append(@, server)]
  <2>1. server \in Text /\ before \in Seq(Text) /\ servers \o Before(nodes, i) = Append(before, server)
    BY <2>0, NodeByNode
  <2>2. r = IF server = "" THEN Result("false", s) ELSE Ok(d)
    BY <2>0 DEF ServerRound, ParseServerNode
  <2>3. s \in Sessions /\ s.rssl_servers = before
    BY <1>2, <2>0 DEF ServerHolds
  <2>4. d.rssl_servers = Append(before, server) /\ Append(before, server) \in Seq(Text)
    BY <2>1, <2>3, AppendProperties DEF Sessions
  <2>5. d \in Sessions
    BY <2>3, <2>4 DEF Sessions
  <2> HIDE DEF d
  <2>6. CASE server = ""
    BY <2>2, <2>6 DEF Server!Outcome, PartFailed, Result
  <2>7. CASE server # ""
    <3>1. ServerHolds(servers, start, nodes, d, i)
      BY <2>1, <2>4, <2>5 DEF ServerHolds
    <3> QED BY <2>2, <2>7, <3>1, Outcomes DEF Server!Outcome
  <2> QED BY <2>6, <2>7
<1> QED BY <1>1, <1>2, LenProperties, Server!LoopInvariant

LEMMA ConnectionsFollow ==
    ASSUME NEW start \in Sessions, start.rssl_servers = <<>>, NEW nodes \in Seq(ConnectionNode)
    PROVE  Connection!Outcome(<<>>, start, nodes, Connection!Loop(<<>>, start, nodes), Len(nodes))
<1>0. <<>> \in Seq(ConnectionNode)
  BY EmptySeq
<1>1. ConnectionHolds(<<>>, start, nodes, start, 0)
  <2>1. <<>> \o Before(nodes, 0) = <<>>
    BY <1>0, AllNodes
  <2> QED BY <2>1, NodesOfNone DEF ConnectionHolds
<1>2. ASSUME NEW i \in 1..Len(nodes), NEW s, ConnectionHolds(<<>>, start, nodes, s, i - 1)
      PROVE  Connection!Outcome(<<>>, start, nodes, ConnectionRound(<<>>, s, nodes[i]), i)
  <2>0. PICK node, before, q : /\ node = nodes[i] /\ before = <<>> \o Before(nodes, i - 1)
                               /\ q = ConnectionRound(<<>>, s, nodes[i])
    OBVIOUS
  <2> SUFFICES Connection!Outcome(<<>>, start, nodes, q, i)
    BY <2>0
  <2> DEFINE servers == Nodes(before, "server")
             d == [s EXCEPT !.text.connection_name = node.name, !.text.rssl_default_port = node.defaultPort]
             r == Server!Loop(servers, d, node.server)
  <2>1. /\ node \in ConnectionNode /\ before \in Seq(ConnectionNode)
        /\ <<>> \o Before(nodes, i) = Append(before, node)
    BY <1>0, <2>0, NodeByNode
  <2>2. q = IF node.name = "" THEN Result("false", s) ELSE r
    <3>1. ConnectionRound(<<>>, s, node) = IF node.name = "" THEN Result("false", s) ELSE r
      BY DEF ConnectionRound, ParseConnectionNode, Each, Server!Loop, ServerRound, Ok, Result
    <3> HIDE DEF r
    <3> QED BY <2>0, <3>1
  <2>3. node.name \in Text /\ node.defaultPort \in Text /\ node.server \in Seq(Text)
    BY <2>1 DEF ConnectionNode
  <2>4. s \in Sessions /\ s.rssl_servers = servers
    BY <1>2, <2>0 DEF ConnectionHolds
  <2>5. servers \in Seq(Text) /\ Nodes(Append(before, node), "server") = servers \o node.server
    <3>1. \A x \in ConnectionNode : x["server"] \in Seq(Text)
      BY DEF ConnectionNode
    <3> QED BY <2>1, <3>1, NodesNext
  <2> HIDE DEF servers
  <2>6. d \in Sessions /\ d.rssl_servers = servers
    BY <2>3, <2>4, SessionKeysAre DEF Sessions
  <2> HIDE DEF d
  <2>7. Server!Outcome(servers, d, node.server, r, Len(node.server))
    BY <2>3, <2>5, <2>6, ServersFollow
  <2> HIDE DEF r
  <2>8. CASE node.name # "" /\ r.status = "ok"
    <3>1. r.value \in Sessions /\ r.value.rssl_servers = servers \o node.server
      <4>1. servers \o Before(node.server, Len(node.server)) = servers \o node.server
        BY <2>3, <2>5, AllNodes
      <4> QED BY <2>7, <2>8, <4>1 DEF Server!Outcome, ServerHolds
    <3>2. ConnectionHolds(<<>>, start, nodes, r.value, i)
      BY <2>1, <2>5, <3>1 DEF ConnectionHolds
    <3> QED BY <2>2, <2>8, <3>2 DEF Connection!Outcome
  <2>9. CASE node.name # "" /\ r.status # "ok"
    BY <2>2, <2>7, <2>9 DEF Connection!Outcome, Server!Outcome, PartFailed
  <2>10. CASE node.name = ""
    BY <2>2, <2>10 DEF Connection!Outcome, PartFailed, Result
  <2> QED BY <2>8, <2>9, <2>10
<1> QED BY <1>1, <1>2, LenProperties, Connection!LoopInvariant

LEMMA BlankText == "" \in Text
BY DocumentsAssumption

(* One <session>.                                                          *)
LEMMA SessionParsed ==
    ASSUME NEW c, NEW node \in SessionNode
    PROVE  \E p : /\ p.status = "ok" =>
                        p.value \in Sessions /\ p.value.rssl_servers = Nodes(node.connection, "server")
                  /\ p.status # "ok" => p.status = "false"
                  /\ ParseSessionNode(c, node) =
                        IF node.name = "" THEN Result("false", c)
                        ELSE Result(p.status, IF p.status = "ok"
                                              THEN [c EXCEPT !.sessions = Append(@, p.value)] ELSE c)
<1> DEFINE named == [NewSession EXCEPT !.text.session_name = node.name]
           p1 == Publisher!Loop(0, named, node.publisher)
           p2 == IF p1.status = "ok" THEN Connection!Loop(<<>>, p1.value, node.connection) ELSE p1
           p3 == IF p2.status = "ok" THEN Login!Loop(0, p2.value, node.login) ELSE p2
<1>1. ParseSessionNode(c, node) =
        IF node.name = "" THEN Result("false", c)
        ELSE Result(p3.status, IF p3.status = "ok" THEN [c EXCEPT !.sessions = Append(@, p3.value)] ELSE c)
  BY DEF ParseSessionNode, Then, Each, Ok, Publisher!Loop, Connection!Loop, Login!Loop,
         PublisherRound, ConnectionRound, LoginRound, Result
<1>2. /\ node.name \in Text /\ node.publisher \in Seq(Text) /\ node.connection \in Seq(ConnectionNode)
      /\ node.login \in Seq([LoginKeys -> Text])
  BY DEF SessionNode
<1>3. named \in Sessions /\ named.rssl_servers = <<>>
  <2>1. <<>> \in Seq(Text)
    BY EmptySeq
  <2>2. NewSession \in Sessions /\ NewSession.rssl_servers = <<>>
    BY <2>1, BlankText DEF NewSession, Sessions
  <2> QED BY <1>2, <2>2, SessionKeysAre DEF Sessions
<1> HIDE DEF named
<1>4. Publisher!Outcome(0, named, node.publisher, p1, Len(node.publisher))
  BY <1>2, <1>3, PublishersKeep
<1> HIDE DEF p1
<1>5. /\ p1.status = "ok" => p1.value \in Sessions /\ p1.value.rssl_servers = <<>>
      /\ p1.status # "ok" => p1.status = "false"
  BY <1>3, <1>4 DEF Publisher!Outcome, PublisherHolds, PartFailed
<1>6. p1.status = "ok" =>
        Connection!Outcome(<<>>, p1.value, node.connection,
                           Connection!Loop(<<>>, p1.value, node.connection), Len(node.connection))
  BY <1>2, <1>5, ConnectionsFollow
<1>7. /\ p2.status = "ok" => p2.value \in Sessions /\ p2.value.rssl_servers = Nodes(node.connection, "server")
      /\ p2.status # "ok" => p2.status = "false"
  <2>1. <<>> \o Before(node.connection, Len(node.connection)) = node.connection
    <3>1. <<>> \in Seq(ConnectionNode)
      BY EmptySeq
    <3>2. <<>> \o Before(node.connection, Len(node.connection)) = <<>> \o node.connection
      BY <1>2, <3>1, AllNodes
    <3> QED BY <1>2, <3>2, ConcatEmptySeq
  <2> QED BY <1>5, <1>6, <2>1 DEF Connection!Outcome, ConnectionHolds, PartFailed
<1> HIDE DEF p2
<1>8. p2.status = "ok" =>
        Login!Outcome(0, p2.value, node.login, Login!Loop(0, p2.value, node.login), Len(node.login))
  BY <1>2, <1>7, LoginsKeep
<1>9. /\ p3.status = "ok" => p3.value \in Sessions /\ p3.value.rssl_servers = Nodes(node.connection, "server")
      /\ p3.status # "ok" => p3.status = "false"
  BY <1>7, <1>8 DEF Login!Outcome, PublisherHolds, PartFailed
<1> HIDE DEF p3
<1> QED BY <1>1, <1>9

(* The sessions, each with all its servers.                                *)
SessionsOf(sessions, nodes) ==
    /\ Len(sessions) = Len(nodes)
    /\ \A i \in 1..Len(nodes) : sessions[i].rssl_servers = Nodes(nodes[i].connection, "server")

SessionHolds(before, start, nodes, c, i) ==
    /\ IsConfig(c)
    /\ c.text = start.text /\ c.resources = start.resources
    /\ SessionsOf(c.sessions, before \o Before(nodes, i))
SessionRound(before, c, node) == ParseSessionNode(c, node)
Session == INSTANCE Loops WITH Round <- SessionRound, Holds <- SessionHolds, Failed <- XmlFailed

LEMMA SessionsFollow ==
    ASSUME NEW before \in Seq(SessionNode), NEW start, IsConfig(start), SessionsOf(start.sessions, before),
           NEW nodes \in Seq(SessionNode)
    PROVE  Session!Outcome(before, start, nodes, Session!Loop(before, start, nodes), Len(nodes))
<1>1. SessionHolds(before, start, nodes, start, 0)
  BY AllNodes DEF SessionHolds
<1>2. ASSUME NEW i \in 1..Len(nodes), NEW c, SessionHolds(before, start, nodes, c, i - 1)
      PROVE  Session!Outcome(before, start, nodes, SessionRound(before, c, nodes[i]), i)
  <2>0. PICK node, most, r : /\ node = nodes[i] /\ most = before \o Before(nodes, i - 1)
                             /\ r = SessionRound(before, c, nodes[i])
    OBVIOUS
  <2> SUFFICES Session!Outcome(before, start, nodes, r, i)
    BY <2>0
  <2>1. node \in SessionNode /\ most \in Seq(SessionNode) /\ before \o Before(nodes, i) = Append(most, node)
    BY <2>0, NodeByNode
  <2>2. IsConfig(c) /\ c.sessions \in Seq(Sessions) /\ SessionsOf(c.sessions, most)
    BY <1>2, <2>0 DEF SessionHolds, IsConfig
  <2>3. PICK p : /\ p.status = "ok" =>
                        p.value \in Sessions /\ p.value.rssl_servers = Nodes(node.connection, "server")
                 /\ p.status # "ok" => p.status = "false"
                 /\ ParseSessionNode(c, node) =
                       IF node.name = "" THEN Result("false", c)
                       ELSE Result(p.status, IF p.status = "ok"
                                             THEN [c EXCEPT !.sessions = Append(@, p.value)] ELSE c)
    BY <2>1, SessionParsed
  <2>4. r = ParseSessionNode(c, node)
    BY <2>0 DEF SessionRound
  <2>5. CASE node.name = ""
    <3>1. r = Result("false", c)
      BY <2>3, <2>4, <2>5
    <3> QED BY <2>2, <3>1 DEF Session!Outcome, XmlFailed, Refused, Result
  <2>6. CASE node.name # "" /\ p.status # "ok"
    <3>1. r = Result(p.status, c)
      BY <2>3, <2>4, <2>6
    <3> QED BY <2>2, <2>3, <2>6, <3>1 DEF Session!Outcome, XmlFailed, Refused, Result
  <2>7. CASE node.name # "" /\ p.status = "ok"
    <3> DEFINE ss == Append(c.sessions, p.value)
               d == [c EXCEPT !.sessions = ss]
    <3>1. ss \in Seq(Sessions) /\ Len(ss) = Len(c.sessions) + 1 /\ ss[Len(c.sessions) + 1] = p.value
          /\ \A j \in 1..Len(c.sessions) : ss[j] = c.sessions[j]
      <4>1. p.value \in Sessions
        BY <2>3, <2>7
      <4> QED BY ONLY <2>2, <4>1, AppendProperties
    <3>2. r.status = "ok" /\ r.value = d
      <4>1. r = Result(p.status, d)
        BY <2>3, <2>4, <2>7
      <4> HIDE DEF d
      <4> QED BY <2>7, <4>1 DEF Result
    <3> HIDE DEF ss
    <3>3. IsConfig(d) /\ d.sessions = ss /\ d.text = c.text /\ d.resources = c.resources
      BY <2>2, <3>1, WithSessions
    <3> HIDE DEF d
    <3>4. SessionsOf(ss, Append(most, node))
      <4> DEFINE n == Len(most)
                 more == Append(most, node)
      <4>1. /\ n \in Nat /\ Len(more) = n + 1 /\ more[n + 1] = node
            /\ \A j \in 1..n : more[j] = most[j]
        BY <2>1, AppendProperties, LenProperties
      <4>2. Len(c.sessions) = n /\ \A j \in 1..n : c.sessions[j].rssl_servers = Nodes(most[j].connection, "server")
        BY <2>2 DEF SessionsOf
      <4> HIDE DEF n, more
      <4>3. \A j \in 1..n + 1 : j \in 1..n \/ j = n + 1
        BY <4>1
      <4>4. ASSUME NEW j \in 1..n + 1 PROVE ss[j].rssl_servers = Nodes(more[j].connection, "server")
        <5>1. CASE j \in 1..n
          BY <3>1, <4>1, <4>2, <5>1
        <5>2. CASE j = n + 1
          BY <2>3, <2>7, <3>1, <4>1, <4>2, <5>2
        <5> QED BY <4>3, <5>1, <5>2
      <4>5. Len(ss) = n + 1
        BY <3>1, <4>1, <4>2
      <4> QED BY <4>1, <4>4, <4>5 DEF SessionsOf, more
    <3>5. SessionHolds(before, start, nodes, d, i)
      BY <1>2, <2>1, <3>3, <3>4 DEF SessionHolds
    <3> QED BY <3>2, <3>5 DEF Session!Outcome
  <2> QED BY <2>5, <2>6, <2>7
<1> QED BY <1>1, <1>2, LenProperties, Session!LoopInvariant

(* What all <Rfa> nodes mean.                                              *)
RfaMeans(c, rfa) ==
    /\ c.text.maximum_data_size = LastGiven(Attributes(rfa, "maximum_data_size"))
    /\ c.text.service_name = LastGiven(Nodes(rfa, "service"))
    /\ SessionsOf(c.sessions, Nodes(rfa, "session"))

RfaHolds(rfa, start, nodes, c, i) ==
    /\ IsConfig(c)
    /\ c.resources = start.resources /\ SameTexts(c, start, PsychKeys)
    /\ RfaMeans(c, rfa \o Before(nodes, i))
RfaRound(rfa, c, node) == ParseRfaNode(c, node)
Rfa == INSTANCE Loops WITH Round <- RfaRound, Holds <- RfaHolds, Failed <- XmlFailed

LEMMA RfaParsed ==
    ASSUME NEW rfa \in Seq(RfaNode), NEW c, IsConfig(c), RfaMeans(c, rfa), NEW node \in RfaNode
    PROVE  \E r : /\ r = ParseRfaNode(c, node)
                  /\ r.status = "ok" =>
                        /\ IsConfig(r.value) /\ RfaMeans(r.value, Append(rfa, node))
                        /\ r.value.resources = c.resources /\ SameTexts(r.value, c, PsychKeys)
                  /\ r.status # "ok" => Refused(r)
<1> DEFINE start == [c EXCEPT !.text = Override(@, node.attrs)]
           services == Nodes(rfa, "service")
           before == Nodes(rfa, "session")
           sizes == Attributes(rfa, "maximum_data_size")
           size == node.attrs.maximum_data_size
           r1 == Service!Loop(services, start, node.service)
           r2 == IF r1.status = "ok" THEN Dacs!Loop(0, r1.value, node.DACS) ELSE r1
           r3 == IF r2.status = "ok" THEN Session!Loop(before, r2.value, node.session) ELSE r2
           r4 == IF r3.status = "ok" THEN Monitor!Loop(0, r3.value, node.monitor) ELSE r3
           r5 == IF r4.status = "ok" THEN EventQueue!Loop(0, r4.value, node.eventQueue) ELSE r4
           r6 == IF r5.status = "ok" THEN Vendor!Loop(0, r5.value, node.vendor) ELSE r5
<1>1. ParseRfaNode(c, node) = r6
  BY DEF ParseRfaNode, Then, Each, Ok, Result, Service!Loop, Dacs!Loop, Session!Loop, Monitor!Loop,
         EventQueue!Loop, Vendor!Loop, ServiceRound, DacsRound, SessionRound, MonitorRound,
         EventQueueRound, VendorRound
<1>2. /\ node.attrs \in [{"key", "maximum_data_size"} -> Text]
      /\ node.service \in Seq(Text) /\ node.DACS \in Seq(Text) /\ node.session \in Seq(SessionNode)
      /\ node.monitor \in Seq(Text) /\ node.eventQueue \in Seq(Text) /\ node.vendor \in Seq(Text)
  BY DEF RfaNode
<1>3. /\ services \in Seq(Text) /\ Nodes(Append(rfa, node), "service") = services \o node.service
      /\ before \in Seq(SessionNode) /\ Nodes(Append(rfa, node), "session") = before \o node.session
  <2>1. \A x \in RfaNode : x["service"] \in Seq(Text) /\ x["session"] \in Seq(SessionNode)
    BY DEF RfaNode
  <2> QED BY <2>1, NodesNext
<1>4. /\ sizes \in Seq(Text) /\ size \in Text
      /\ Attributes(Append(rfa, node), "maximum_data_size") = Append(sizes, size)
  <2>1. \A x \in RfaNode : x.attrs["maximum_data_size"] \in Text
    BY DEF RfaNode
  <2>2. /\ sizes \in Seq(Text)
        /\ Attributes(Append(rfa, node), "maximum_data_size") = Append(sizes, node.attrs["maximum_data_size"])
    BY <2>1, AttributesNext
  <2> QED BY <1>2, <2>2
<1>5. LastGiven(Append(sizes, size)) = IF size # "" THEN size ELSE LastGiven(sizes)
  BY <1>4, LastGivenNext
<1>6. /\ IsConfig(start) /\ start.sessions = c.sessions /\ start.resources = c.resources
      /\ SameTexts(start, c, PsychKeys) /\ start.text.service_name = c.text.service_name
      /\ start.text.maximum_data_size = LastGiven(Append(sizes, size))
  <2> DEFINE t == Override(c.text, node.attrs)
  <2>1. c.text \in [TextKeys -> Text] /\ c.text.maximum_data_size = LastGiven(sizes)
    BY DEF IsConfig, RfaMeans
  <2>2. DOMAIN node.attrs = {"key", "maximum_data_size"} /\ \A k \in DOMAIN node.attrs : node.attrs[k] \in Text
    BY <1>2
  <2>3. /\ t \in [TextKeys -> Text]
        /\ \A k \in TextKeys : t[k] = IF k \in DOMAIN node.attrs /\ node.attrs[k] # "" THEN node.attrs[k] ELSE c.text[k]
    BY <2>1, <2>2, OverrideIs
  <2> HIDE DEF t
  <2>4. /\ \A k \in PsychKeys : t[k] = c.text[k]
        /\ t.service_name = c.text.service_name
        /\ t.maximum_data_size = IF size # "" THEN size ELSE c.text.maximum_data_size
    BY <2>2, <2>3, TextKeysAre DEF RfaTexts
  <2> DEFINE d == [c EXCEPT !.text = t]
  <2>5. start = d
    BY DEF t
  <2>6. IsConfig(d) /\ d.text = t /\ d.sessions = c.sessions /\ d.resources = c.resources
    BY <2>3, WithText
  <2> HIDE DEF d, start
  <2> QED BY <1>5, <2>1, <2>4, <2>5, <2>6 DEF SameTexts
<1> DEFINE Kept(d) == /\ IsConfig(d) /\ d.resources = c.resources /\ SameTexts(d, c, PsychKeys)
                      /\ d.text.maximum_data_size = LastGiven(Append(sizes, size))
                      /\ d.text.service_name = LastGiven(services \o node.service)
           Kept1(d) == Kept(d) /\ d.sessions = c.sessions
           Kept2(d) == Kept(d) /\ SessionsOf(d.sessions, before \o node.session)
<1>7. ASSUME NEW d, NEW nodes, NEW e, NEW i, Same(0, d, nodes, e, i)
      PROVE  (Kept1(d) => Kept1(e)) /\ (Kept2(d) => Kept2(e))
  BY <1>7 DEF Same, SameTexts, RfaTexts
<1>8. /\ c.text.service_name = LastGiven(services) /\ SessionsOf(c.sessions, before)
  BY DEF RfaMeans
<1> HIDE DEF start, services, before, sizes, size
<1>9. (r1.status = "ok" => Kept1(r1.value)) /\ (r1.status # "ok" => Refused(r1))
  <2>1. Service!Outcome(services, start, node.service, r1, Len(node.service))
    BY <1>2, <1>3, <1>6, <1>8, ServicesFollow
  <2>2. services \o Before(node.service, Len(node.service)) = services \o node.service
    BY <1>2, <1>3, AllNodes
  <2> HIDE DEF r1
  <2> QED BY <1>6, <2>1, <2>2 DEF Service!Outcome, ServiceHolds, SameTexts, XmlFailed, Refused
<1> HIDE DEF r1
<1>10. (r2.status = "ok" => Kept1(r2.value)) /\ (r2.status # "ok" => Refused(r2))
  <2> DEFINE q == Dacs!Loop(0, r1.value, node.DACS)
  <2>1. r1.status = "ok" => Dacs!Outcome(0, r1.value, node.DACS, q, Len(node.DACS))
    BY <1>2, <1>9, DacsSame
  <2>2. r2 = IF r1.status = "ok" THEN q ELSE r1
    OBVIOUS
  <2> HIDE DEF q, r2, Kept1, Kept2
  <2>3. r1.status = "ok" => (q.status = "ok" => Kept1(q.value)) /\ (q.status # "ok" => Refused(q))
    BY <1>7, <1>9, <2>1 DEF Dacs!Outcome, XmlFailed
  <2> QED BY <1>9, <2>2, <2>3
<1> HIDE DEF r2
<1>11. (r3.status = "ok" => Kept2(r3.value)) /\ (r3.status # "ok" => Refused(r3))
  <2> DEFINE q == Session!Loop(before, r2.value, node.session)
  <2>1. r2.status = "ok" => Session!Outcome(before, r2.value, node.session, q, Len(node.session))
    BY <1>2, <1>3, <1>8, <1>10, SessionsFollow
  <2>2. r3 = IF r2.status = "ok" THEN q ELSE r2
    OBVIOUS
  <2>3. before \o Before(node.session, Len(node.session)) = before \o node.session
    BY <1>2, <1>3, AllNodes
  <2> HIDE DEF q, r3
  <2>4. r2.status = "ok" => (q.status = "ok" => Kept2(q.value)) /\ (q.status # "ok" => Refused(q))
    BY <1>10, <2>1, <2>3 DEF Session!Outcome, SessionHolds, SameTexts, XmlFailed, Refused
  <2> QED BY <1>10, <2>2, <2>4
<1> HIDE DEF r3
<1>12. (r4.status = "ok" => Kept2(r4.value)) /\ (r4.status # "ok" => Refused(r4))
  <2> DEFINE q == Monitor!Loop(0, r3.value, node.monitor)
  <2>1. r3.status = "ok" => Monitor!Outcome(0, r3.value, node.monitor, q, Len(node.monitor))
    BY <1>2, <1>11, MonitorSame
  <2>2. r4 = IF r3.status = "ok" THEN q ELSE r3
    OBVIOUS
  <2> HIDE DEF q, r4, Kept1, Kept2
  <2>3. r3.status = "ok" => (q.status = "ok" => Kept2(q.value)) /\ (q.status # "ok" => Refused(q))
    BY <1>7, <1>11, <2>1 DEF Monitor!Outcome, XmlFailed
  <2> QED BY <1>11, <2>2, <2>3
<1> HIDE DEF r4
<1>13. (r5.status = "ok" => Kept2(r5.value)) /\ (r5.status # "ok" => Refused(r5))
  <2> DEFINE q == EventQueue!Loop(0, r4.value, node.eventQueue)
  <2>1. r4.status = "ok" => EventQueue!Outcome(0, r4.value, node.eventQueue, q, Len(node.eventQueue))
    BY <1>2, <1>12, EventQueueSame
  <2>2. r5 = IF r4.status = "ok" THEN q ELSE r4
    OBVIOUS
  <2> HIDE DEF q, r5, Kept1, Kept2
  <2>3. r4.status = "ok" => (q.status = "ok" => Kept2(q.value)) /\ (q.status # "ok" => Refused(q))
    BY <1>7, <1>12, <2>1 DEF EventQueue!Outcome, XmlFailed
  <2> QED BY <1>12, <2>2, <2>3
<1> HIDE DEF r5
<1>14. (r6.status = "ok" => Kept2(r6.value)) /\ (r6.status # "ok" => Refused(r6))
  <2> DEFINE q == Vendor!Loop(0, r5.value, node.vendor)
  <2>1. r5.status = "ok" => Vendor!Outcome(0, r5.value, node.vendor, q, Len(node.vendor))
    BY <1>2, <1>13, VendorSame
  <2>2. r6 = IF r5.status = "ok" THEN q ELSE r5
    OBVIOUS
  <2> HIDE DEF q, r6, Kept1, Kept2
  <2>3. r5.status = "ok" => (q.status = "ok" => Kept2(q.value)) /\ (q.status # "ok" => Refused(q))
    BY <1>7, <1>13, <2>1 DEF Vendor!Outcome, XmlFailed
  <2> QED BY <1>13, <2>2, <2>3
<1> HIDE DEF r6
<1>15. r6.status = "ok" => RfaMeans(r6.value, Append(rfa, node))
  BY <1>3, <1>4, <1>14 DEF RfaMeans, services, before, sizes, size
<1> QED BY <1>1, <1>14, <1>15

LEMMA RfasFollow ==
    ASSUME NEW rfa \in Seq(RfaNode), NEW start, IsConfig(start), RfaMeans(start, rfa),
           NEW nodes \in Seq(RfaNode)
    PROVE  Rfa!Outcome(rfa, start, nodes, Rfa!Loop(rfa, start, nodes), Len(nodes))
<1>1. RfaHolds(rfa, start, nodes, start, 0)
  BY AllNodes DEF RfaHolds, SameTexts
<1>2. ASSUME NEW i \in 1..Len(nodes), NEW c, RfaHolds(rfa, start, nodes, c, i - 1)
      PROVE  Rfa!Outcome(rfa, start, nodes, RfaRound(rfa, c, nodes[i]), i)
  <2>0. PICK node, most : node = nodes[i] /\ most = rfa \o Before(nodes, i - 1)
    OBVIOUS
  <2>1. node \in RfaNode /\ most \in Seq(RfaNode) /\ rfa \o Before(nodes, i) = Append(most, node)
    BY <2>0, NodeByNode
  <2>2. IsConfig(c) /\ RfaMeans(c, most)
    BY <1>2, <2>0 DEF RfaHolds
  <2>3. PICK r : /\ r = ParseRfaNode(c, node)
                 /\ r.status = "ok" =>
                        /\ IsConfig(r.value) /\ RfaMeans(r.value, Append(most, node))
                        /\ r.value.resources = c.resources /\ SameTexts(r.value, c, PsychKeys)
                 /\ r.status # "ok" => Refused(r)
    BY <2>1, <2>2, RfaParsed
  <2>4. r = RfaRound(rfa, c, nodes[i])
    BY <2>0, <2>3 DEF RfaRound
  <2>5. r.status = "ok" => RfaHolds(rfa, start, nodes, r.value, i)
    BY <1>2, <2>1, <2>3 DEF RfaHolds, SameTexts
  <2>6. Rfa!Outcome(rfa, start, nodes, r, i)
    BY <2>3, <2>5 DEF Rfa!Outcome, XmlFailed, Refused
  <2> QED BY <2>4, <2>6
<1> QED BY <1>1, <1>2, LenProperties, Rfa!LoopInvariant

(* Fields and items of a resource.                                         *)
FieldHolds(ctx, start, nodes, fields, i) == fields \in Maps(Int)
FieldRound(ctx, fields, node) == ParseFieldNode(fields, node)
Field == INSTANCE Loops WITH Round <- FieldRound, Holds <- FieldHolds, Failed <- FieldFailed
ItemHolds(ctx, start, nodes, items, i) == items \in Maps([RIC : Text, topic : Text])
ItemRound(ctx, items, node) == ParseItemNode(items, node)
Item == INSTANCE Loops WITH Round <- ItemRound, Holds <- ItemHolds, Failed <- PartFailed

LEMMA FieldsType ==
    ASSUME NEW nodes \in Seq([name : Text, id : Text])
    PROVE  Field!Outcome(0, <<>>, nodes, Field!Loop(0, <<>>, nodes), Len(nodes))
<1>1. FieldHolds(0, <<>>, nodes, <<>>, 0)
  BY NoMap DEF FieldHolds
<1>2. ASSUME NEW i \in 1..Len(nodes), NEW fields, FieldHolds(0, <<>>, nodes, fields, i - 1)
      PROVE  Field!Outcome(0, <<>>, nodes, FieldRound(0, fields, nodes[i]), i)
  <2>0. PICK node, r : node = nodes[i] /\ r = FieldRound(0, fields, nodes[i])
    OBVIOUS
  <2>1. node.name \in Text /\ i \in DOMAIN nodes
    <3>1. nodes[i] \in [name : Text, id : Text]
      BY ElementOfSeq
    <3>2. DOMAIN nodes = 1..Len(nodes)
      BY LenProperties
    <3> QED BY <2>0, <3>1, <3>2
  <2> DEFINE more == Emplace(fields, node.name, Number[node.id])
  <2>2. \/ r = Result("false", fields)
        \/ r = Result("thrown", fields) /\ Odd(node.id)
        \/ r = Ok(more) /\ node.id \in DOMAIN Number
    BY <2>0 DEF FieldRound, ParseFieldNode, Odd
  <2>3. node.id \in DOMAIN Number => more \in Maps(Int)
    BY <1>2, <2>1, Numbers, EmplaceType DEF FieldHolds
  <2> HIDE DEF more
  <2>4. Field!Outcome(0, <<>>, nodes, r, i)
    <3>1. Odd(node.id) => OddFields(nodes)
      BY <2>0, <2>1 DEF OddFields
    <3> QED BY <2>2, <2>3, <3>1 DEF Field!Outcome, FieldHolds, FieldFailed, Result, Ok
  <2> QED BY <2>0, <2>4
<1> QED BY <1>1, <1>2, LenProperties, Field!LoopInvariant

LEMMA ItemsType ==
    ASSUME NEW nodes \in Seq([name : Text, topic : Text, src : Text])
    PROVE  Item!Outcome(0, <<>>, nodes, Item!Loop(0, <<>>, nodes), Len(nodes))
<1>1. ItemHolds(0, <<>>, nodes, <<>>, 0)
  BY NoMap DEF ItemHolds
<1>2. ASSUME NEW i \in 1..Len(nodes), NEW items, ItemHolds(0, <<>>, nodes, items, i - 1)
      PROVE  Item!Outcome(0, <<>>, nodes, ItemRound(0, items, nodes[i]), i)
  <2>0. PICK node, r : node = nodes[i] /\ r = ItemRound(0, items, nodes[i])
    OBVIOUS
  <2> DEFINE names == [RIC |-> node.name, topic |-> node.topic]
             more == Emplace(items, node.src, names)
  <2>1. node.src \in Text /\ names \in [RIC : Text, topic : Text]
    <3>1. nodes[i] \in [name : Text, topic : Text, src : Text]
      BY ElementOfSeq
    <3> QED BY <2>0, <3>1
  <2>2. r = Result("false", items) \/ r = Ok(more)
    BY <2>0 DEF ItemRound, ParseItemNode
  <2> HIDE DEF names
  <2>3. more \in Maps([RIC : Text, topic : Text])
    BY <1>2, <2>1, EmplaceType DEF ItemHolds
  <2> HIDE DEF more
  <2>4. Item!Outcome(0, <<>>, nodes, r, i)
    BY <2>2, <2>3 DEF Item!Outcome, ItemHolds, PartFailed, Result, Ok
  <2> QED BY <2>0, <2>4
<1> QED BY <1>1, <1>2, LenProperties, Item!LoopInvariant

(* One resource for every link.                                            *)
LinksOf(resources, links) ==
    /\ Len(resources) = Len(links)
    /\ \A i \in 1..Len(links) : resources[i].path = links[i].href
Extends(resources, more) ==
    Len(resources) <= Len(more) /\ \A i \in 1..Len(resources) : more[i] = resources[i]

LinkHolds(node, start, nodes, c, i) ==
    /\ IsConfig(c)
    /\ c.text = start.text /\ c.sessions = start.sessions
    /\ Len(c.resources) = Len(start.resources) + i
    /\ Extends(start.resources, c.resources)
    /\ \A j \in 1..i : c.resources[Len(start.resources) + j].path = nodes[j].href
LinkRound(node, c, link) ==
    ParseLinkNode(c, link, node.name, Field!Loop(0, <<>>, node.field).value, Item!Loop(0, <<>>, node.item).value)
Link == INSTANCE Loops WITH Round <- LinkRound, Holds <- LinkHolds, Failed <- XmlFailed

LEMMA LinksFollow ==
    ASSUME NEW node \in ResourceNode, NEW start, IsConfig(start),
           Field!Loop(0, <<>>, node.field).value \in Maps(Int),
           Item!Loop(0, <<>>, node.item).value \in Maps([RIC : Text, topic : Text])
    PROVE  Link!Outcome(node, start, node.link, Link!Loop(node, start, node.link), Len(node.link))
<1> DEFINE nodes == node.link
           n == Len(start.resources)
<1>0. node.name \in Text /\ nodes \in Seq([rel : Text, name : Text, href : Text]) /\ n \in Nat
  BY LenProperties DEF ResourceNode, IsConfig
<1> HIDE DEF nodes
<1>1. LinkHolds(node, start, nodes, start, 0)
  BY <1>0 DEF LinkHolds, Extends
<1>2. ASSUME NEW i \in 1..Len(nodes), NEW c, LinkHolds(node, start, nodes, c, i - 1)
      PROVE  Link!Outcome(node, start, nodes, LinkRound(node, c, nodes[i]), i)
  <2>0. PICK link, r, fields, items :
            /\ link = nodes[i] /\ r = LinkRound(node, c, link)
            /\ fields = Field!Loop(0, <<>>, node.field).value
            /\ items = Item!Loop(0, <<>>, node.item).value
    OBVIOUS
  <2> DEFINE new == [name |-> node.name, source |-> link.name, path |-> link.href,
                     fields |-> fields, items |-> items]
             rs == Append(c.resources, new)
             d == [c EXCEPT !.resources = rs]
  <2>1. link \in [rel : Text, name : Text, href : Text] /\ i \in Nat /\ i - 1 \in Nat
    <3>1. Len(nodes) \in Nat
      BY <1>0, LenProperties
    <3>2. nodes[i] \in [rel : Text, name : Text, href : Text]
      BY <1>0, ElementOfSeq
    <3> QED BY <2>0, <3>1, <3>2
  <2>2. new \in Resources /\ new.path = link.href
    BY <1>0, <2>0, <2>1 DEF Resources
  <2>3. r = IF "" \in {link.rel, link.name, link.href} THEN Result("false", c) ELSE Ok(d)
    BY <2>0 DEF LinkRound, ParseLinkNode
  <2> HIDE DEF new
  <2>4. /\ IsConfig(c) /\ c.resources \in Seq(Resources) /\ Len(c.resources) = n + (i - 1)
        /\ Extends(start.resources, c.resources)
        /\ \A j \in 1..i - 1 : c.resources[n + j].path = nodes[j].href
    BY <1>2 DEF LinkHolds, IsConfig
  <2>5. /\ rs \in Seq(Resources) /\ Len(rs) = Len(c.resources) + 1 /\ rs[Len(c.resources) + 1] = new
        /\ \A j \in 1..Len(c.resources) : rs[j] = c.resources[j]
    BY <2>2, <2>4, AppendProperties
  <2> HIDE DEF rs, n
  <2>6. IsConfig(d) /\ d.resources = rs /\ d.text = c.text /\ d.sessions = c.sessions
    BY <2>4, <2>5, WithResources
  <2> HIDE DEF d
  <2>7. Len(rs) = n + i /\ n + i = Len(c.resources) + 1
    BY <1>0, <2>1, <2>4, <2>5
  <2>8. Extends(start.resources, rs)
    <3>1. n <= n + (i - 1) /\ n <= n + i /\ \A j \in 1..n : j \in 1..n + (i - 1)
      BY <1>0, <2>1
    <3> QED BY <2>4, <2>5, <2>7, <3>1 DEF Extends, n
  <2>9. ASSUME NEW j \in 1..i PROVE rs[n + j].path = nodes[j].href
    <3>1. j = i \/ (j \in 1..i - 1 /\ n + j \in 1..n + (i - 1))
      BY <1>0, <2>1
    <3>2. CASE j = i
      BY <2>0, <2>2, <2>5, <2>7, <3>2
    <3>3. CASE j \in 1..i - 1 /\ n + j \in 1..n + (i - 1)
      BY <2>4, <2>5, <3>3
    <3> QED BY <3>1, <3>2, <3>3
  <2>10. LinkHolds(node, start, nodes, d, i)
    BY <1>2, <2>6, <2>7, <2>8, <2>9 DEF LinkHolds, n
  <2>11. Link!Outcome(node, start, nodes, r, i)
    BY <2>3, <2>4, <2>10 DEF Link!Outcome, XmlFailed, Refused, Result, Ok
  <2> QED BY <2>0, <2>11
<1>3. Len(nodes) \in Nat
  BY <1>0, LenProperties
<1>4. Link!Outcome(node, start, nodes, Link!Loop(node, start, nodes), Len(nodes))
  BY <1>1, <1>2, <1>3, Link!LoopInvariant
<1> QED BY <1>4 DEF nodes

(* The links of one more node.                                             *)
LEMMA LinksConcat ==
    ASSUME NEW L, NEW rs \in Seq(Resources), NEW before \in Seq(L), LinksOf(rs, before),
           NEW links \in Seq(L), NEW more \in Seq(Resources),
           Len(more) = Len(rs) + Len(links), Extends(rs, more),
           \A j \in 1..Len(links) : more[Len(rs) + j].path = links[j].href
    PROVE  LinksOf(more, before \o links)
<1> DEFINE n == Len(before)
           m == Len(links)
           all == before \o links
<1>1. /\ n \in Nat /\ m \in Nat /\ Len(all) = n + m
      /\ \A i \in 1..n + m : all[i] = IF i <= n THEN before[i] ELSE links[i - n]
  BY ConcatProperties, LenProperties
<1>2. Len(rs) = n /\ \A i \in 1..n : rs[i].path = before[i].href
  BY DEF LinksOf
<1> HIDE DEF n, all, m
<1>3. ASSUME NEW i \in 1..n + m PROVE more[i].path = all[i].href
  <2>1. (i <= n /\ i \in 1..n) \/ (~(i <= n) /\ i - n \in 1..m /\ n + (i - n) = i)
    BY <1>1
  <2>2. CASE i <= n /\ i \in 1..n
    <3>1. more[i] = rs[i]
      BY <1>2, <2>2 DEF Extends
    <3> QED BY <1>1, <1>2, <2>2, <3>1
  <2>3. CASE ~(i <= n) /\ i - n \in 1..m /\ n + (i - n) = i
    <3>1. more[n + (i - n)].path = links[i - n].href
      BY <1>2, <2>3 DEF m
    <3> QED BY <1>1, <2>3, <3>1
  <2> QED BY <2>1, <2>2, <2>3
<1>4. Len(more) = n + m
  BY <1>2 DEF m
<1> QED BY <1>1, <1>3, <1>4 DEF LinksOf, all

(* The resources: one for every link of every node.                        *)
ResourceHolds(before, start, nodes, c, i) ==
    /\ IsConfig(c)
    /\ c.text = start.text /\ c.sessions = start.sessions
    /\ Extends(start.resources, c.resources)
    /\ LinksOf(c.resources, Nodes(before \o Before(nodes, i), "link"))
ResourceRound(before, c, node) == ParseResourceNode(c, node)
Resource == INSTANCE Loops WITH Round <- ResourceRound, Holds <- ResourceHolds, Failed <- ResourceFailed

LEMMA ResourceParsed ==
    ASSUME NEW before \in Seq(ResourceNode), NEW c, IsConfig(c), LinksOf(c.resources, Nodes(before, "link")),
           NEW node \in ResourceNode
    PROVE  \E r : /\ r = ParseResourceNode(c, node)
                  /\ r.status = "ok" =>
                        /\ IsConfig(r.value) /\ r.value.text = c.text /\ r.value.sessions = c.sessions
                        /\ Extends(c.resources, r.value.resources)
                        /\ LinksOf(r.value.resources, Nodes(Append(before, node), "link"))
                  /\ r.status # "ok" => Stopped(OddFields(node.field), r)
<1> DEFINE fields == Field!Loop(0, <<>>, node.field)
           items == Item!Loop(0, <<>>, node.item)
           links == Link!Loop(node, c, node.link)
           r == CASE node.name = "" -> Result("false", c)
                  [] node.name # "" /\ fields.status # "ok" -> Result(fields.status, c)
                  [] node.name # "" /\ fields.status = "ok" /\ items.status # "ok" -> Result(items.status, c)
                  [] OTHER -> links
<1>1. r = ParseResourceNode(c, node)
  BY DEF ParseResourceNode, Each, Ok, Result, Field!Loop, Item!Loop, Link!Loop, FieldRound, ItemRound, LinkRound
<1>2. /\ node.field \in Seq([name : Text, id : Text])
      /\ node.item \in Seq([name : Text, topic : Text, src : Text])
      /\ node.link \in Seq([rel : Text, name : Text, href : Text])
  BY DEF ResourceNode
<1>3. /\ fields.status = "ok" => fields.value \in Maps(Int)
      /\ fields.status # "ok" => \/ fields.status = "false"
                               \/ (fields.status = "thrown" /\ OddFields(node.field))
  <2>1. Field!Outcome(0, <<>>, node.field, fields, Len(node.field))
    BY <1>2, FieldsType
  <2> HIDE DEF fields
  <2> QED BY <2>1 DEF Field!Outcome, FieldHolds, FieldFailed
<1>4. /\ items.status = "ok" => items.value \in Maps([RIC : Text, topic : Text])
      /\ items.status # "ok" => items.status = "false"
  <2>1. Item!Outcome(0, <<>>, node.item, items, Len(node.item))
    BY <1>2, ItemsType
  <2> HIDE DEF items
  <2> QED BY <2>1 DEF Item!Outcome, ItemHolds, PartFailed
<1>5. \/ /\ r.status = "false" \/ (r.status = "thrown" /\ OddFields(node.field))
         /\ r.value = c
      \/ r = links /\ fields.status = "ok" /\ items.status = "ok"
  <2> HIDE DEF fields, items, links
  <2> QED BY <1>3, <1>4 DEF Result
<1>6. fields.status = "ok" /\ items.status = "ok" => Link!Outcome(node, c, node.link, links, Len(node.link))
  BY <1>3, <1>4, LinksFollow
<1> HIDE DEF fields, items, links, r
<1>7. CASE /\ r.status = "false" \/ (r.status = "thrown" /\ OddFields(node.field))
           /\ r.value = c
  BY <1>1, <1>7 DEF Stopped, Refused
<1>8. CASE r = links /\ Link!Outcome(node, c, node.link, links, Len(node.link)) /\ r.status # "ok"
  BY <1>1, <1>8 DEF Link!Outcome, XmlFailed, Stopped
<1>9. CASE r = links /\ Link!Outcome(node, c, node.link, links, Len(node.link)) /\ r.status = "ok"
  <2> DEFINE d == r.value
  <2>1. /\ IsConfig(d) /\ d.text = c.text /\ d.sessions = c.sessions
        /\ Len(d.resources) = Len(c.resources) + Len(node.link)
        /\ Extends(c.resources, d.resources)
        /\ \A j \in 1..Len(node.link) : d.resources[Len(c.resources) + j].path = node.link[j].href
    BY <1>9 DEF Link!Outcome, LinkHolds
  <2> HIDE DEF d
  <2>2. c.resources \in Seq(Resources) /\ d.resources \in Seq(Resources)
    BY <2>1 DEF IsConfig
  <2> DEFINE most == Nodes(before, "link")
             L == [rel : Text, name : Text, href : Text]
  <2>3. most \in Seq(L) /\ Nodes(Append(before, node), "link") = most \o node.link
    <3>1. \A x \in ResourceNode : x["link"] \in Seq(L)
      BY DEF ResourceNode
    <3> HIDE DEF L
    <3> QED BY <3>1, NodesNext
  <2>4. node.link \in Seq(L)
    BY <1>2
  <2> HIDE DEF most, L
  <2>5. LinksOf(d.resources, most \o node.link)
    <3>1. LinksOf(c.resources, most)
      BY DEF most
    <3> QED BY <2>1, <2>2, <2>3, <2>4, <3>1, LinksConcat
  <2> QED BY <1>1, <1>9, <2>1, <2>3, <2>5 DEF d
<1> QED BY <1>5, <1>6, <1>7, <1>8, <1>9

LEMMA ResourcesFollow ==
    ASSUME NEW before \in Seq(ResourceNode), NEW start, IsConfig(start),
           LinksOf(start.resources, Nodes(before, "link")), NEW nodes \in Seq(ResourceNode)
    PROVE  Resource!Outcome(before, start, nodes, Resource!Loop(before, start, nodes), Len(nodes))
<1>1. ResourceHolds(before, start, nodes, start, 0)
  <2>1. Len(start.resources) \in Nat
    BY LenProperties DEF IsConfig
  <2>2. before \o Before(nodes, 0) = before
    BY AllNodes
  <2>3. Extends(start.resources, start.resources)
    BY <2>1 DEF Extends
  <2> QED BY <2>2, <2>3 DEF ResourceHolds
<1>2. ASSUME NEW i \in 1..Len(nodes), NEW c, ResourceHolds(before, start, nodes, c, i - 1)
      PROVE  Resource!Outcome(before, start, nodes, ResourceRound(before, c, nodes[i]), i)
  <2>0. PICK node, most : node = nodes[i] /\ most = before \o Before(nodes, i - 1)
    OBVIOUS
  <2>1. node \in ResourceNode /\ most \in Seq(ResourceNode) /\ before \o Before(nodes, i) = Append(most, node)
    BY <2>0, NodeByNode
  <2>2. IsConfig(c) /\ LinksOf(c.resources, Nodes(most, "link"))
    BY <1>2, <2>0 DEF ResourceHolds
  <2>3. PICK r : /\ r = ParseResourceNode(c, node)
                 /\ r.status = "ok" =>
                        /\ IsConfig(r.value) /\ r.value.text = c.text /\ r.value.sessions = c.sessions
                        /\ Extends(c.resources, r.value.resources)
                        /\ LinksOf(r.value.resources, Nodes(Append(most, node), "link"))
                 /\ r.status # "ok" => Stopped(OddFields(node.field), r)
    BY <2>1, <2>2, ResourceParsed
  <2>4. r = ResourceRound(before, c, nodes[i])
    BY <2>0, <2>3 DEF ResourceRound
  <2>5. r.status = "ok" => ResourceHolds(before, start, nodes, r.value, i)
    <3>1. Extends(start.resources, c.resources)
      BY <1>2 DEF ResourceHolds
    <3>2. r.status = "ok" => Extends(start.resources, r.value.resources)
      <4>1. Len(start.resources) \in Nat /\ Len(c.resources) \in Nat
        BY <2>2, LenProperties DEF IsConfig
      <4>2. r.status = "ok" => Len(r.value.resources) \in Nat /\ Extends(c.resources, r.value.resources)
        BY <2>3, LenProperties DEF IsConfig
      <4> QED BY <3>1, <4>1, <4>2 DEF Extends
    <3> QED BY <1>2, <2>1, <2>3, <3>2 DEF ResourceHolds
  <2>6. Resource!Outcome(before, start, nodes, r, i)
    <3>1. i \in DOMAIN nodes
      BY LenProperties
    <3>2. OddFields(node.field) => OddResources(nodes)
      BY <2>0, <3>1 DEF OddResources
    <3> QED BY <2>3, <2>5, <3>2 DEF Resource!Outcome, ResourceFailed, Stopped
  <2> QED BY <2>4, <2>6
<1> QED BY <1>1, <1>2, LenProperties, Resource!LoopInvariant

(* What all <psych> nodes mean. The resources of all but the last are      *)
(* spent: their lists have been reset.                                     *)
Spent(resources, n) == \A i \in 1..n : DOMAIN resources[i].fields = {}
PsychMeans(c, psych) ==
    /\ \A k \in PsychKeys : c.text[k] = LastGiven(Attributes(psych, k))
    /\ LinksOf(c.resources, Links(psych))
    /\ psych # <<>> => /\ Len(Links(Front(psych))) <= Len(c.resources)
                       /\ Spent(c.resources, Len(Links(Front(psych))))

PsychHolds(psych, start, nodes, c, i) ==
    /\ IsConfig(c)
    /\ c.sessions = start.sessions /\ SameTexts(c, start, RfaTexts)
    /\ PsychMeans(c, psych \o Before(nodes, i))
PsychRound(psych, c, node) == ParsePsychNode(c, node)
Psych == INSTANCE Loops WITH Round <- PsychRound, Holds <- PsychHolds, Failed <- PsychFailed

LEMMA ResetIs ==
    ASSUME NEW c, IsConfig(c)
    PROVE  /\ IsConfig(ResetLists(c))
           /\ ResetLists(c).text = c.text /\ ResetLists(c).sessions = c.sessions
           /\ Len(ResetLists(c).resources) = Len(c.resources)
           /\ \A i \in 1..Len(c.resources) :
                 /\ ResetLists(c).resources[i].path = c.resources[i].path
                 /\ DOMAIN ResetLists(c).resources[i].fields = {}
<1> DEFINE rs == [i \in DOMAIN c.resources |-> [c.resources[i] EXCEPT !.fields = <<>>, !.items = <<>>]]
           d == [c EXCEPT !.resources = rs]
<1>1. c.resources \in Seq(Resources) /\ Len(c.resources) \in Nat /\ DOMAIN c.resources = 1..Len(c.resources)
  BY LenProperties DEF IsConfig
<1>2. ASSUME NEW i \in 1..Len(c.resources)
      PROVE  /\ rs[i] \in Resources /\ rs[i].path = c.resources[i].path
             /\ DOMAIN rs[i].fields = {}
  <2>1. c.resources[i] \in Resources
    BY <1>1, ElementOfSeq
  <2>2. <<>> \in Maps(Int) /\ <<>> \in Maps([RIC : Text, topic : Text])
    BY NoMap
  <2>3. PICK x, y : x = c.resources[i] /\ y = [x EXCEPT !.fields = <<>>, !.items = <<>>] /\ y = rs[i]
    BY <1>1
  <2> HIDE DEF rs
  <2>4. x \in Resources
    BY <2>1, <2>3
  <2>5. y = [name |-> x.name, source |-> x.source, path |-> x.path, fields |-> <<>>, items |-> <<>>]
    BY <2>3, <2>4 DEF Resources
  <2>6. y \in Resources
    BY <2>2, <2>4, <2>5 DEF Resources
  <2>7. y.path = x.path /\ y.fields = <<>> /\ DOMAIN <<>> = {}
    BY <2>5
  <2> QED BY <2>3, <2>6, <2>7
<1>3. rs \in Seq(Resources) /\ Len(rs) = Len(c.resources)
  <2>1. rs \in [1..Len(c.resources) -> Resources]
    BY <1>1, <1>2
  <2> HIDE DEF rs
  <2> QED BY <1>1, <2>1
<1>4. ResetLists(c) = d
  BY DEF ResetLists
<1> HIDE DEF rs
<1>5. IsConfig(d) /\ d.resources = rs /\ d.text = c.text /\ d.sessions = c.sessions
  BY <1>3, WithResources
<1> HIDE DEF d
<1> QED BY <1>2, <1>3, <1>4, <1>5

LEMMA PsychParsed ==
    ASSUME NEW psych \in Seq(PsychNode), NEW c, IsConfig(c), PsychMeans(c, psych), NEW node \in PsychNode
    PROVE  \E r : /\ r = ParsePsychNode(c, node)
                  /\ r.status = "ok" =>
                        /\ IsConfig(r.value) /\ PsychMeans(r.value, Append(psych, node))
                        /\ r.value.sessions = c.sessions /\ SameTexts(r.value, c, RfaTexts)
                  /\ r.status # "ok" => Stopped(OddResources(node.resource), r)
<1> DEFINE t == Override(c.text, node.attrs)
           e == [c EXCEPT !.text = t]
           start == ResetLists(e)
           before == Nodes(psych, "resource")
           r == Resource!Loop(before, start, node.resource)
           links == Links(psych)
<1>1. r = ParsePsychNode(c, node)
  BY DEF ParsePsychNode, Each, Ok, Result, Resource!Loop, ResourceRound
<1>2. node.attrs \in [PsychKeys -> Text] /\ node.resource \in Seq(ResourceNode)
  BY DEF PsychNode
<1>3. before \in Seq(ResourceNode) /\ Nodes(Append(psych, node), "resource") = before \o node.resource
  <2>1. \A x \in PsychNode : x["resource"] \in Seq(ResourceNode)
    BY DEF PsychNode
  <2> QED BY <2>1, NodesNext
<1>4. /\ t \in [TextKeys -> Text]
      /\ \A k \in PsychKeys : t[k] = LastGiven(Attributes(Append(psych, node), k))
      /\ \A k \in RfaTexts : t[k] = c.text[k]
  <2>1. c.text \in [TextKeys -> Text] /\ \A k \in PsychKeys : c.text[k] = LastGiven(Attributes(psych, k))
    BY DEF IsConfig, PsychMeans
  <2>2. DOMAIN node.attrs = PsychKeys /\ \A k \in DOMAIN node.attrs : node.attrs[k] \in Text
    BY <1>2
  <2>3. /\ t \in [TextKeys -> Text]
        /\ \A k \in TextKeys : t[k] = IF k \in DOMAIN node.attrs /\ node.attrs[k] # "" THEN node.attrs[k] ELSE c.text[k]
    BY <2>1, <2>2, OverrideIs
  <2> HIDE DEF t
  <2>4. ASSUME NEW k \in PsychKeys PROVE t[k] = LastGiven(Attributes(Append(psych, node), k))
    <3>1. \A x \in PsychNode : x.attrs[k] \in Text
      BY DEF PsychNode
    <3>2. /\ Attributes(psych, k) \in Seq(Text)
          /\ Attributes(Append(psych, node), k) = Append(Attributes(psych, k), node.attrs[k])
      BY <3>1, AttributesNext
    <3>3. node.attrs[k] \in Text
      BY <1>2
    <3>4. LastGiven(Append(Attributes(psych, k), node.attrs[k])) =
            IF node.attrs[k] # "" THEN node.attrs[k] ELSE LastGiven(Attributes(psych, k))
      BY <3>2, <3>3, LastGivenNext
    <3> QED BY <2>1, <2>2, <2>3, <3>2, <3>4, TextKeysAre
  <2>5. \A k \in RfaTexts : t[k] = c.text[k]
    <3>1. \A k \in RfaTexts : k \in TextKeys /\ k \notin PsychKeys
      BY TextKeysAre DEF RfaTexts
    <3> QED BY <2>2, <2>3, <3>1
  <2> QED BY <2>3, <2>4, <2>5
<1>5. IsConfig(e) /\ e.text = t /\ e.sessions = c.sessions /\ e.resources = c.resources
  <2> HIDE DEF t
  <2> QED BY <1>4, WithText
<1> HIDE DEF e, t
<1>6. /\ IsConfig(start) /\ start.text = t /\ start.sessions = c.sessions
      /\ Len(start.resources) = Len(c.resources)
      /\ \A i \in 1..Len(c.resources) :
            start.resources[i].path = c.resources[i].path /\ DOMAIN start.resources[i].fields = {}
  BY <1>5, ResetIs
<1> HIDE DEF start
<1>7. Len(c.resources) = Len(links) /\ LinksOf(start.resources, links)
  BY <1>6 DEF PsychMeans, LinksOf
<1>8. Resource!Outcome(before, start, node.resource, r, Len(node.resource))
  <2>1. links = Nodes(before, "link")
    BY DEF Links
  <2> HIDE DEF links, before
  <2> QED BY <1>2, <1>3, <1>6, <1>7, <2>1, ResourcesFollow
<1> HIDE DEF r
<1>9. CASE r.status # "ok"
  BY <1>1, <1>8, <1>9 DEF Resource!Outcome, ResourceFailed
<1>10. CASE r.status = "ok"
  <2> DEFINE d == r.value
  <2>1. ResourceHolds(before, start, node.resource, d, Len(node.resource))
    BY <1>8, <1>10 DEF Resource!Outcome
  <2> HIDE DEF d
  <2>2. before \o Before(node.resource, Len(node.resource)) = before \o node.resource
    BY <1>2, <1>3, AllNodes
  <2>3. LinksOf(d.resources, Links(Append(psych, node)))
    BY <1>3, <2>1, <2>2 DEF ResourceHolds, Links
  <2>4. Front(Append(psych, node)) = psych /\ Append(psych, node) # <<>>
    <3>1. Append(psych, node) \in Seq(PsychNode) /\ Len(Append(psych, node)) - 1 = Len(psych)
      BY AppendProperties, LenProperties
    <3> QED BY <3>1 DEF Front
  <2>5. Len(links) <= Len(d.resources) /\ Spent(d.resources, Len(links))
    BY <1>6, <1>7, <2>1 DEF Spent, ResourceHolds, Extends
  <2>6. PsychMeans(d, Append(psych, node))
    BY <1>4, <1>6, <2>1, <2>3, <2>4, <2>5 DEF PsychMeans, ResourceHolds
  <2>7. IsConfig(d) /\ d.sessions = c.sessions /\ SameTexts(d, c, RfaTexts)
    BY <1>4, <1>6, <2>1 DEF ResourceHolds, SameTexts
  <2> QED BY <1>1, <1>10, <2>6, <2>7 DEF d
<1> QED BY <1>9, <1>10

LEMMA PsychsFollow ==
    ASSUME NEW psych \in Seq(PsychNode), NEW start, IsConfig(start), PsychMeans(start, psych),
           NEW nodes \in Seq(PsychNode)
    PROVE  Psych!Outcome(psych, start, nodes, Psych!Loop(psych, start, nodes), Len(nodes))
<1>1. PsychHolds(psych, start, nodes, start, 0)
  BY AllNodes DEF PsychHolds, SameTexts
<1>2. ASSUME NEW i \in 1..Len(nodes), NEW c, PsychHolds(psych, start, nodes, c, i - 1)
      PROVE  Psych!Outcome(psych, start, nodes, PsychRound(psych, c, nodes[i]), i)
  <2>0. PICK node, most : node = nodes[i] /\ most = psych \o Before(nodes, i - 1)
    OBVIOUS
  <2>1. node \in PsychNode /\ most \in Seq(PsychNode) /\ psych \o Before(nodes, i) = Append(most, node)
    BY <2>0, NodeByNode
  <2>2. IsConfig(c) /\ PsychMeans(c, most)
    BY <1>2, <2>0 DEF PsychHolds
  <2>3. PICK r : /\ r = ParsePsychNode(c, node)
                 /\ r.status = "ok" =>
                        /\ IsConfig(r.value) /\ PsychMeans(r.value, Append(most, node))
                        /\ r.value.sessions = c.sessions /\ SameTexts(r.value, c, RfaTexts)
                 /\ r.status # "ok" => Stopped(OddResources(node.resource), r)
    BY <2>1, <2>2, PsychParsed
  <2>4. r = PsychRound(psych, c, nodes[i])
    BY <2>0, <2>3 DEF PsychRound
  <2>5. r.status = "ok" => PsychHolds(psych, start, nodes, r.value, i)
    BY <1>2, <2>1, <2>3 DEF PsychHolds, SameTexts
  <2>6. Psych!Outcome(psych, start, nodes, r, i)
    <3>1. i \in DOMAIN nodes
      BY LenProperties
    <3>2. OddResources(node.resource) => OddPsychs(nodes)
      BY <2>0, <3>1 DEF OddPsychs
    <3> QED BY <2>3, <2>5, <3>2 DEF Psych!Outcome, PsychFailed, Stopped
  <2> QED BY <2>4, <2>6
<1> QED BY <1>1, <1>2, LenProperties, Psych!LoopInvariant

(* What a whole tree means, before it is validated.                        *)
TreeMeans(c, nodes) == RfaMeans(c, Nodes(nodes, "Rfa")) /\ PsychMeans(c, Nodes(nodes, "psych"))

ConfigHolds(ctx, start, nodes, c, i) == IsConfig(c) /\ TreeMeans(c, Before(nodes, i))
ConfigRound(ctx, c, node) == ParseConfigNode(c, node)
Tree == INSTANCE Loops WITH Round <- ConfigRound, Holds <- ConfigHolds, Failed <- TreeFailed

LEMMA ConfigParsed ==
    ASSUME NEW before \in Seq(ConfigNode), NEW c, IsConfig(c), TreeMeans(c, before), NEW node \in ConfigNode
    PROVE  \E r : /\ r = ParseConfigNode(c, node)
                  /\ r.status = "ok" => IsConfig(r.value) /\ TreeMeans(r.value, Append(before, node))
                  /\ r.status # "ok" => Stopped(OddPsychs(node.psych), r)
<1> DEFINE rfa == Nodes(before, "Rfa")
           psych == Nodes(before, "psych")
           r1 == Snmp!Loop(0, c, node.Snmp)
           r2 == IF r1.status = "ok" THEN Rfa!Loop(rfa, r1.value, node.Rfa) ELSE r1
           r3 == IF r2.status = "ok" THEN Psych!Loop(psych, r2.value, node.psych) ELSE r2
<1>1. ParseConfigNode(c, node) = r3
  BY DEF ParseConfigNode, Then, Each, Ok, Result, Snmp!Loop, Rfa!Loop, Psych!Loop,
         SnmpRound, RfaRound, PsychRound
<1>2. node.Snmp \in Seq(SnmpNode) /\ node.Rfa \in Seq(RfaNode) /\ node.psych \in Seq(PsychNode)
  BY DEF ConfigNode
<1>3. /\ rfa \in Seq(RfaNode) /\ Nodes(Append(before, node), "Rfa") = rfa \o node.Rfa
      /\ psych \in Seq(PsychNode) /\ Nodes(Append(before, node), "psych") = psych \o node.psych
  <2>1. \A x \in ConfigNode : x["Rfa"] \in Seq(RfaNode) /\ x["psych"] \in Seq(PsychNode)
    BY DEF ConfigNode
  <2> QED BY <2>1, NodesNext
<1>4. RfaMeans(c, rfa) /\ PsychMeans(c, psych)
  BY DEF TreeMeans
<1> HIDE DEF rfa, psych
<1>5. /\ r1.status = "ok" => IsConfig(r1.value) /\ RfaMeans(r1.value, rfa) /\ PsychMeans(r1.value, psych)
      /\ r1.status # "ok" => Refused(r1)
  <2>1. Snmp!Outcome(0, c, node.Snmp, r1, Len(node.Snmp))
    BY <1>2, SnmpSame
  <2> HIDE DEF r1
  <2> QED BY <1>4, <2>1 DEF Snmp!Outcome, XmlFailed, Same, SameTexts, RfaTexts, RfaMeans, PsychMeans
<1> HIDE DEF r1
<1>6. /\ r2.status = "ok" => IsConfig(r2.value) /\ RfaMeans(r2.value, rfa \o node.Rfa) /\ PsychMeans(r2.value, psych)
      /\ r2.status # "ok" => Refused(r2)
  <2> DEFINE q == Rfa!Loop(rfa, r1.value, node.Rfa)
  <2>1. r1.status = "ok" => Rfa!Outcome(rfa, r1.value, node.Rfa, q, Len(node.Rfa))
    BY <1>2, <1>3, <1>5, RfasFollow
  <2>2. r2 = IF r1.status = "ok" THEN q ELSE r1
    OBVIOUS
  <2>3. rfa \o Before(node.Rfa, Len(node.Rfa)) = rfa \o node.Rfa
    BY <1>2, <1>3, AllNodes
  <2> HIDE DEF q, r2
  <2>4. ASSUME r1.status = "ok"
        PROVE  /\ q.status = "ok" => IsConfig(q.value) /\ RfaMeans(q.value, rfa \o node.Rfa) /\ PsychMeans(q.value, psych)
               /\ q.status # "ok" => Refused(q)
    <3>1. q.status = "ok" => RfaHolds(rfa, r1.value, node.Rfa, q.value, Len(node.Rfa))
      BY <2>1, <2>4 DEF Rfa!Outcome
    <3>2. q.status = "ok" => IsConfig(q.value) /\ RfaMeans(q.value, rfa \o node.Rfa)
      BY <2>3, <3>1 DEF RfaHolds
    <3>3. q.status = "ok" => PsychMeans(q.value, psych)
      BY <1>5, <2>4, <3>1 DEF RfaHolds, SameTexts, PsychMeans
    <3> QED BY <2>1, <2>4, <3>2, <3>3 DEF Rfa!Outcome, XmlFailed, Refused
  <2> QED BY <1>5, <2>2, <2>4
<1> HIDE DEF r2
<1>7. /\ r3.status = "ok" =>
            IsConfig(r3.value) /\ RfaMeans(r3.value, rfa \o node.Rfa) /\ PsychMeans(r3.value, psych \o node.psych)
      /\ r3.status # "ok" => Stopped(OddPsychs(node.psych), r3)
  <2> DEFINE q == Psych!Loop(psych, r2.value, node.psych)
  <2>1. r2.status = "ok" => Psych!Outcome(psych, r2.value, node.psych, q, Len(node.psych))
    BY <1>2, <1>3, <1>6, PsychsFollow
  <2>2. r3 = IF r2.status = "ok" THEN q ELSE r2
    OBVIOUS
  <2>3. psych \o Before(node.psych, Len(node.psych)) = psych \o node.psych
    BY <1>2, <1>3, AllNodes
  <2> HIDE DEF q, r3
  <2>4. ASSUME r2.status = "ok"
        PROVE  /\ q.status = "ok" =>
                     IsConfig(q.value) /\ RfaMeans(q.value, rfa \o node.Rfa) /\ PsychMeans(q.value, psych \o node.psych)
               /\ q.status # "ok" => Stopped(OddPsychs(node.psych), q)
    <3>1. q.status = "ok" => PsychHolds(psych, r2.value, node.psych, q.value, Len(node.psych))
      BY <2>1, <2>4 DEF Psych!Outcome
    <3>2. q.status = "ok" => IsConfig(q.value) /\ PsychMeans(q.value, psych \o node.psych)
      BY <2>3, <3>1 DEF PsychHolds
    <3>3. q.status = "ok" => RfaMeans(q.value, rfa \o node.Rfa)
      BY <1>6, <2>4, <3>1 DEF PsychHolds, SameTexts, RfaTexts, RfaMeans
    <3> QED BY <2>1, <2>4, <3>2, <3>3 DEF Psych!Outcome, PsychFailed
  <2> QED BY <1>6, <2>2, <2>4 DEF Stopped
<1> HIDE DEF r3
<1> QED BY <1>1, <1>3, <1>7 DEF TreeMeans

LEMMA DefaultIs ==
    /\ IsConfig(DefaultConfig)
    /\ DefaultConfig.text = [k \in TextKeys |-> ""]
    /\ DefaultConfig.sessions = <<>> /\ DefaultConfig.resources = <<>>
<1>1. <<>> \in Seq(Sessions) /\ <<>> \in Seq(Resources)
  BY EmptySeq
<1> QED BY <1>1, BlankText DEF DefaultConfig, IsConfig

LEMMA DefaultMeans == TreeMeans(DefaultConfig, <<>>)
<1>1. \A tag : Nodes(<<>>, tag) = <<>>
  BY NodesOfNone
<1>2. \A k : Attributes(<<>>, k) = <<>>
  BY DEF Attributes
<1>3. Len(<<>>) = 0 /\ 1..0 = {}
  OBVIOUS
<1>4. \A k \in TextKeys : DefaultConfig.text[k] = ""
  BY DefaultIs
<1>5. RfaMeans(DefaultConfig, <<>>)
  <2>1. SessionsOf(DefaultConfig.sessions, <<>>)
    BY <1>3, DefaultIs DEF SessionsOf
  <2> QED BY <1>1, <1>2, <1>4, <2>1, LastGivenNone, TextKeysAre DEF RfaMeans, RfaTexts
<1>6. PsychMeans(DefaultConfig, <<>>)
  <2>1. LinksOf(DefaultConfig.resources, Links(<<>>))
    BY <1>1, <1>3, DefaultIs DEF LinksOf, Links
  <2> QED BY <1>2, <1>4, <2>1, LastGivenNone, TextKeysAre DEF PsychMeans
<1> QED BY <1>1, <1>5, <1>6 DEF TreeMeans

LEMMA TreeFollows ==
    ASSUME NEW nodes \in Seq(ConfigNode)
    PROVE  Tree!Outcome(0, DefaultConfig, nodes, Tree!Loop(0, DefaultConfig, nodes), Len(nodes))
<1> DEFINE start == DefaultConfig
<1>0. \A i : <<>> \o Before(nodes, i) = Before(nodes, i)
  BY DEF Before
<1>1. ConfigHolds(0, start, nodes, start, 0)
  <2>1. Before(nodes, 0) = <<>>
    BY SubSeqEmpty DEF Before
  <2> QED BY <2>1, DefaultIs, DefaultMeans DEF ConfigHolds
<1> HIDE DEF start
<1>2. ASSUME NEW i \in 1..Len(nodes), NEW c, ConfigHolds(0, start, nodes, c, i - 1)
      PROVE  Tree!Outcome(0, start, nodes, ConfigRound(0, c, nodes[i]), i)
  <2>0. PICK node, most : node = nodes[i] /\ most = Before(nodes, i - 1)
    OBVIOUS
  <2>1. node \in ConfigNode /\ most \in Seq(ConfigNode) /\ Before(nodes, i) = Append(most, node)
    <3>1. <<>> \in Seq(ConfigNode)
      BY EmptySeq
    <3>2. /\ nodes[i] \in ConfigNode
          /\ <<>> \o Before(nodes, i - 1) \in Seq(ConfigNode)
          /\ <<>> \o Before(nodes, i) = Append(<<>> \o Before(nodes, i - 1), nodes[i])
      BY <3>1, NodeByNode
    <3>3. <<>> \o Before(nodes, i - 1) = Before(nodes, i - 1) /\ <<>> \o Before(nodes, i) = Before(nodes, i)
      BY <1>0
    <3> QED BY <2>0, <3>2, <3>3
  <2>2. IsConfig(c) /\ TreeMeans(c, most)
    BY <1>2, <2>0 DEF ConfigHolds
  <2>3. PICK r : /\ r = ParseConfigNode(c, node)
                 /\ r.status = "ok" => IsConfig(r.value) /\ TreeMeans(r.value, Append(most, node))
                 /\ r.status # "ok" => Stopped(OddPsychs(node.psych), r)
    BY <2>1, <2>2, ConfigParsed
  <2>4. r = ConfigRound(0, c, nodes[i])
    BY <2>0, <2>3 DEF ConfigRound
  <2>5. r.status = "ok" => ConfigHolds(0, start, nodes, r.value, i)
    BY <2>1, <2>3 DEF ConfigHolds
  <2>6. Tree!Outcome(0, start, nodes, r, i)
    <3>1. i \in DOMAIN nodes
      BY LenProperties
    <3>2. OddPsychs(node.psych) => OddTree(nodes)
      BY <2>0, <3>1 DEF OddTree
    <3> QED BY <2>3, <2>5, <3>2 DEF Tree!Outcome, TreeFailed, Stopped
  <2> QED BY <2>4, <2>6
<1>3. Len(nodes) \in Nat
  BY LenProperties
<1> QED BY <1>1, <1>2, <1>3, Tree!LoopInvariant DEF start

LEMMA NodesType ==
    ASSUME NEW S, NEW T, NEW nodes \in Seq(S), NEW tag, \A x \in S : x[tag] \in Seq(T)
    PROVE  Nodes(nodes, tag) \in Seq(T)
<1> DEFINE lists == [i \in DOMAIN nodes |-> nodes[i][tag]]
<1>1. lists \in Seq(Seq(T))
  <2>1. Len(nodes) \in Nat /\ DOMAIN nodes = 1..Len(nodes) /\ \A i \in 1..Len(nodes) : nodes[i] \in S
    BY LenProperties, ElementOfSeq
  <2> QED BY <2>1
<1> HIDE DEF lists
<1> QED BY <1>1, FlattenType DEF Nodes, lists

LEMMA LinksType ==
    ASSUME NEW psych \in Seq(PsychNode)
    PROVE  Links(psych) \in Seq([rel : Text, name : Text, href : Text])
<1>1. \A x \in PsychNode : x["resource"] \in Seq(ResourceNode)
  BY DEF PsychNode
<1>2. \A x \in ResourceNode : x["link"] \in Seq([rel : Text, name : Text, href : Text])
  BY DEF ResourceNode
<1> DEFINE L == [rel : Text, name : Text, href : Text]
<1> HIDE DEF L
<1>3. Nodes(psych, "resource") \in Seq(ResourceNode)
  BY <1>1, NodesType
<1> QED BY <1>2, <1>3, NodesType DEF Links, L

(* What any XML tree is parsed to.                                         *)
LEMMA XmlParsed ==
    ASSUME NEW d \in XmlDocuments
    PROVE  /\ XmlResult[d].status \in {"ok", "false", "thrown"} /\ IsConfig(XmlResult[d].value)
           /\ XmlResult[d].status = "ok" => TreeMeans(XmlResult[d].value, d) /\ Validate(XmlResult[d].value)
           /\ XmlResult[d].status = "thrown" => OddTree(d)
<1> DEFINE q == Tree!Loop(0, DefaultConfig, d)
           p == ParseDomElement(d)
<1>0. d \in Seq(ConfigNode)
  BY DocumentsAssumption
<1>1. p = IF q.status = "ok" THEN Accepted(q.value) ELSE q
  BY DEF ParseDomElement, Then, Each, Ok, Result, Tree!Loop, ConfigRound
<1>2. Tree!Outcome(0, DefaultConfig, d, q, Len(d))
  BY <1>0, TreeFollows
<1>3. Before(d, Len(d)) = d
  BY <1>0, SubSeqFull DEF Before
<1> HIDE DEF p, q
<1>4. XmlResult[d] = p
  BY DEF XmlResult, p
<1>5. CASE q.status = "ok"
  <2>1. IsConfig(q.value) /\ TreeMeans(q.value, d)
    BY <1>2, <1>3, <1>5 DEF Tree!Outcome, ConfigHolds
  <2>2. p.value = q.value /\ p.status = IF Validate(q.value) THEN "ok" ELSE "false"
    BY <1>1, <1>5 DEF Accepted, Result
  <2> QED BY <1>4, <2>1, <2>2
<1>6. CASE q.status # "ok"
  BY <1>1, <1>2, <1>4, <1>6 DEF Tree!Outcome, TreeFailed, Stopped, Refused
<1> QED BY <1>5, <1>6

(* The tree of a valid configuration has resources in its last <psych>     *)
(* node only.                                                              *)
LEMMA XmlMeant ==
    ASSUME document \in Seq(ConfigNode), IsConfig(config), TreeMeans(config, document), Validate(config)
    PROVE  XmlMeaning
<1> DEFINE rfa == Nodes(document, "Rfa")
           psych == Nodes(document, "psych")
           sessions == Nodes(rfa, "session")
           n == Len(Links(Front(psych)))
<1>1. rfa \in Seq(RfaNode) /\ psych \in Seq(PsychNode)
  <2>1. \A x \in ConfigNode : x["Rfa"] \in Seq(RfaNode) /\ x["psych"] \in Seq(PsychNode)
    BY DEF ConfigNode
  <2> QED BY <2>1, NodesType
<1>2. RfaMeans(config, rfa) /\ PsychMeans(config, psych)
  BY DEF TreeMeans
<1> HIDE DEF rfa, psych
<1>3. DOMAIN sessions = 1..Len(sessions)
  <2>1. \A x \in RfaNode : x["session"] \in Seq(SessionNode)
    BY DEF RfaNode
  <2>2. sessions \in Seq(SessionNode)
    BY <1>1, <2>1, NodesType
  <2> HIDE DEF sessions
  <2> QED BY <2>2, LenProperties
<1> HIDE DEF sessions
<1>4. /\ Len(config.sessions) = Len(sessions)
      /\ \A i \in DOMAIN sessions : config.sessions[i].rssl_servers = Nodes(sessions[i].connection, "server")
  BY <1>2, <1>3 DEF RfaMeans, SessionsOf, sessions
<1>5. /\ Len(config.resources) \in Nat /\ DOMAIN config.resources = 1..Len(config.resources)
      /\ Len(config.resources) = Len(Links(psych))
      /\ \A i \in DOMAIN config.resources : config.resources[i].path = Links(psych)[i].href
  <2>1. Len(config.resources) \in Nat /\ DOMAIN config.resources = 1..Len(config.resources)
    BY LenProperties DEF IsConfig
  <2> QED BY <1>2, <2>1 DEF PsychMeans, LinksOf
<1>6. ASSUME psych # <<>> PROVE Links(Front(psych)) = <<>>
  <2>1. Front(psych) \in Seq(PsychNode)
    <3>1. Len(psych) \in Nat /\ DOMAIN psych = 1..Len(psych)
      BY <1>1, LenProperties
    <3>2. \A i \in 1..Len(psych) - 1 : psych[i] \in PsychNode
      BY <1>1, <3>1, ElementOfSeq
    <3> QED BY <3>1, <3>2, SubSeqProperties DEF Front
  <2>2. Links(Front(psych)) \in Seq([rel : Text, name : Text, href : Text])
    BY <2>1, LinksType
  <2>3. n \in Nat
    BY <2>2, LenProperties
  <2>4. n <= Len(config.resources) /\ \A i \in 1..n : DOMAIN config.resources[i].fields = {}
    BY <1>2, <1>6 DEF PsychMeans, Spent
  <2>5. \A i \in 1..Len(config.resources) : DOMAIN config.resources[i].fields # {}
    BY <1>5 DEF Validate, ValidResource
  <2>6. n = 0
    <3>1. n # 0 => 1 \in 1..n /\ 1 \in 1..Len(config.resources)
      BY <1>5, <2>3, <2>4
    <3> QED BY <2>4, <2>5, <3>1
  <2> QED BY <2>2, <2>6, EmptySeq
<1> QED BY <1>2, <1>4, <1>5, <1>6 DEF XmlMeaning, RfaMeans, PsychMeans, rfa, psych, sessions

-----------------------------------------------------------------------------
(* JSON: what the entries of its lists and dictionaries become.            *)

LEMMA GetStringType ==
    ASSUME NEW K, NEW text \in [K -> Text], NEW dict, Members(dict.strings, Text)
    PROVE  GetString(text, dict) \in [K -> Text]
BY DEF GetString, Members

LEMMA EmplaceDomain ==
    ASSUME NEW map, NEW key, NEW value
    PROVE  DOMAIN Emplace(map, key, value) = DOMAIN map \cup {key}
BY DEF Emplace

LEMMA EmplaceNew ==
    ASSUME NEW map, NEW key, NEW value, key \notin DOMAIN map
    PROVE  Emplace(map, key, value)[key] = value
BY DEF Emplace

LEMMA EmplaceOld ==
    ASSUME NEW map, NEW key, NEW value, NEW k \in DOMAIN map
    PROVE  Emplace(map, key, value)[k] = map[k]
BY DEF Emplace

(* What the types of the parts must be.                                    *)
TypedItems(items) == \A j \in DOMAIN items : items[j].value[1] = "dict"
TypedSession(entry) == entry[1] = "dict" /\ entry[2].rssl_servers[1] = "list"
TypedSessions(entries) == \A i \in DOMAIN entries : TypedSession(entries[i])
TypedResource(dict) ==
    dict.fields[1] = "dict" /\ dict.items[1] = "dict" /\ TypedItems(dict.items[2])
TypedResources(entries) ==
    \A i \in DOMAIN entries : entries[i][1] = "dict" /\ TypedResource(entries[i][2])

(* The items: one for each source.                                         *)
Names(items, i) == {items[j].src : j \in 1..i}
ItemEntryHolds(ctx, start, nodes, items, i) ==
    /\ items \in Maps([RIC : Text, topic : Text])
    /\ \A j \in 1..i : nodes[j].value[1] = "dict"
    /\ DOMAIN items = Names(nodes, i)
    /\ IsFiniteSet(DOMAIN items) /\ Cardinality(DOMAIN items) = i
ItemEntryFailed(ctx, nodes, r) == r.status = "undefined" /\ ~TypedItems(nodes)
ItemEntryRound(ctx, items, item) == ParseItem(items, item)
ItemEntry == INSTANCE Loops
    WITH Round <- ItemEntryRound, Holds <- ItemEntryHolds, Failed <- ItemEntryFailed

LEMMA ItemEntriesFollow ==
    ASSUME NEW nodes, IsVector(nodes),
           \A i, j \in DOMAIN nodes : nodes[i].src = nodes[j].src => i = j,
           \A i \in DOMAIN nodes :
              /\ nodes[i].src \in Text
              /\ nodes[i].value[1] = "dict" => Members(nodes[i].value[2].strings, Text)
    PROVE  ItemEntry!Outcome(nodes, <<>>, nodes, ItemEntry!Loop(nodes, <<>>, nodes), Len(nodes))
<1>0. Len(nodes) \in Nat /\ DOMAIN nodes = 1..Len(nodes)
  BY DEF IsVector
<1>1. ItemEntryHolds(nodes, <<>>, nodes, <<>>, 0)
  <2>1. DOMAIN <<>> = {} /\ 1..0 = {} /\ Names(nodes, 0) = {}
    BY DEF Names
  <2>2. IsFiniteSet({}) /\ Cardinality({}) = 0
    BY FS_EmptySet
  <2> QED BY <2>1, <2>2, NoMap DEF ItemEntryHolds
<1>2. ASSUME NEW i \in 1..Len(nodes), NEW items, ItemEntryHolds(nodes, <<>>, nodes, items, i - 1)
      PROVE  ItemEntry!Outcome(nodes, <<>>, nodes, ItemEntryRound(nodes, items, nodes[i]), i)
  <2>0. PICK item, r : item = nodes[i] /\ r = ItemEntryRound(nodes, items, nodes[i])
    OBVIOUS
  <2> DEFINE names == GetString([RIC |-> "", topic |-> ""], item.value[2])
             more == Emplace(items, item.src, names)
  <2>1. item.src \in Text /\ (item.value[1] = "dict" => Members(item.value[2].strings, Text))
    BY <1>0, <2>0
  <2>2. /\ item.value[1] # "dict" => r = Result("undefined", items)
        /\ item.value[1] = "dict" => r = Ok(more)
    BY <2>0 DEF ItemEntryRound, ParseItem
  <2>3. CASE item.value[1] # "dict"
    <3>1. ~TypedItems(nodes)
      BY <1>0, <2>0, <2>3 DEF TypedItems
    <3>2. r.status = "undefined"
      BY <2>2, <2>3, Outcomes
    <3>3. ItemEntry!Outcome(nodes, <<>>, nodes, r, i)
      BY <3>1, <3>2 DEF ItemEntry!Outcome, ItemEntryFailed
    <3> QED BY <2>0, <3>3
  <2>4. CASE item.value[1] = "dict"
    <3>1. names \in [RIC : Text, topic : Text]
      <4>1. names = [k \in {"RIC", "topic"} |-> names[k]]
        BY DEF GetString
      <4>2. names["RIC"] \in Text /\ names["topic"] \in Text
        BY <2>1, <2>4, BlankText DEF GetString, Members
      <4> QED BY <4>1, <4>2
    <3> HIDE DEF names
    <3>2. more \in Maps([RIC : Text, topic : Text])
      BY <1>2, <2>1, <3>1, EmplaceType DEF ItemEntryHolds
    <3>4. DOMAIN items = Names(nodes, i - 1) /\ IsFiniteSet(DOMAIN items) /\ Cardinality(DOMAIN items) = i - 1
      BY <1>2 DEF ItemEntryHolds
    <3>5. item.src \notin Names(nodes, i - 1)
      <4>1. \A j \in 1..i - 1 : j \in DOMAIN nodes /\ j # i
        BY <1>0
      <4>2. i \in DOMAIN nodes
        BY <1>0
      <4> QED BY <2>0, <4>1, <4>2 DEF Names
    <3>6. Names(nodes, i) = Names(nodes, i - 1) \cup {item.src}
      <4>1. \A j : j \in 1..i <=> j \in 1..i - 1 \/ j = i
        BY <1>0
      <4> QED BY <2>0, <4>1 DEF Names
    <3>3. DOMAIN more = DOMAIN items \cup {item.src}
      <4>1. PICK key : key = item.src /\ key \notin DOMAIN items
        BY <3>4, <3>5
      <4>2. DOMAIN Emplace(items, key, names) = DOMAIN items \cup {key}
        BY EmplaceDomain
      <4> QED BY <4>1, <4>2
    <3> HIDE DEF more
    <3>7. IsFiniteSet(DOMAIN more) /\ Cardinality(DOMAIN more) = i
      <4>1. IsFiniteSet(DOMAIN items \cup {item.src}) /\ Cardinality(DOMAIN items \cup {item.src}) = Cardinality(DOMAIN items) + 1
        BY <3>4, <3>5, FS_AddElement
      <4> QED BY <1>0, <3>3, <3>4, <4>1
    <3>8. ItemEntryHolds(nodes, <<>>, nodes, more, i)
      <4>1. \A j \in 1..i : j = i \/ j \in 1..i - 1
        BY <1>0
      <4>2. \A j \in 1..i : nodes[j].value[1] = "dict"
        BY <1>2, <2>0, <2>4, <4>1 DEF ItemEntryHolds
      <4> QED BY <3>2, <3>3, <3>4, <3>6, <3>7, <4>2 DEF ItemEntryHolds
    <3>9. ItemEntry!Outcome(nodes, <<>>, nodes, r, i)
      BY <2>2, <2>4, <3>8, Outcomes DEF ItemEntry!Outcome
    <3> QED BY <2>0, <3>9
  <2> QED BY <2>3, <2>4
<1> QED BY <1>0, <1>1, <1>2, ItemEntry!LoopInvariant

(* The last integer, with one more field.                                  *)
LEMMA LastIntegerNone == \A code, fields : LastInteger(code, fields, 0) = code
<1>1. 1..0 = {}
  OBVIOUS
<1> QED BY <1>1 DEF LastInteger

LEMMA LastIntegerNext ==
    ASSUME NEW code, NEW fields, NEW i \in Nat \ {0}
    PROVE  LastInteger(code, fields, i) =
              IF fields[i].id # NotInteger THEN fields[i].id ELSE LastInteger(code, fields, i - 1)
<1> DEFINE Integers(j) == {k \in 1..j : fields[k].id # NotInteger}
<1>1. \A k : k \in 1..i <=> k \in 1..i - 1 \/ k = i
  OBVIOUS
<1>2. CASE fields[i].id # NotInteger
  <2>1. i \in Integers(i) /\ Integers(i) \in SUBSET (1..i) /\ i \in Nat
    BY <1>1, <1>2
  <2>2. Max(Integers(i)) = i
    <3> HIDE DEF Integers
    <3> QED BY <2>1, LastPosition
  <2> QED BY <1>2, <2>1, <2>2 DEF LastInteger
<1>3. CASE fields[i].id = NotInteger
  <2>1. Integers(i) = Integers(i - 1)
    BY <1>1, <1>3
  <2> QED BY <1>3, <2>1 DEF LastInteger
<1> QED BY <1>2, <1>3

(* The fields: each under the last integer.                                *)
FieldNames(fields, i) == {fields[j].name : j \in 1..i}
FieldEntryHolds(code, start, nodes, acc, i) ==
    /\ acc.integer_value \in Int /\ acc.map \in Maps(Int)
    /\ acc.integer_value = LastInteger(code, nodes, i)
    /\ DOMAIN acc.map = FieldNames(nodes, i)
    /\ \A j \in 1..i : acc.map[nodes[j].name] = LastInteger(code, nodes, j)
NeverFailed(ctx, nodes, r) == FALSE
FieldEntryRound(ctx, acc, field) == ParseField(acc, field)
FieldEntry == INSTANCE Loops
    WITH Round <- FieldEntryRound, Holds <- FieldEntryHolds, Failed <- NeverFailed

LEMMA FieldEntriesFollow ==
    ASSUME NEW code \in Int, NEW nodes \in Seq([name : Text, id : Int]),
           \A i, j \in DOMAIN nodes : nodes[i].name = nodes[j].name => i = j
    PROVE  LET start == [integer_value |-> code, map |-> <<>>]
           IN  FieldEntry!Outcome(code, start, nodes, FieldEntry!Loop(code, start, nodes), Len(nodes))
<1> DEFINE start == [integer_value |-> code, map |-> <<>>]
<1>0. Len(nodes) \in Nat /\ DOMAIN nodes = 1..Len(nodes)
  BY LenProperties
<1>1. FieldEntryHolds(code, start, nodes, start, 0)
  <2>1. DOMAIN <<>> = {} /\ FieldNames(nodes, 0) = {} /\ 1..0 = {}
    BY DEF FieldNames
  <2> QED BY <2>1, NoMap, LastIntegerNone DEF FieldEntryHolds
<1> HIDE DEF start
<1>2. ASSUME NEW i \in 1..Len(nodes), NEW acc, FieldEntryHolds(code, start, nodes, acc, i - 1)
      PROVE  FieldEntry!Outcome(code, start, nodes, FieldEntryRound(code, acc, nodes[i]), i)
  <2>0. PICK field, r : field = nodes[i] /\ r = FieldEntryRound(code, acc, nodes[i])
    OBVIOUS
  <2> DEFINE id == IF field.id = NotInteger THEN acc.integer_value ELSE field.id
             more == Emplace(acc.map, field.name, id)
             next == [integer_value |-> id, map |-> more]
  <2>1. field.name \in Text /\ field.id \in Int
    <3>1. nodes[i] \in [name : Text, id : Int]
      BY ElementOfSeq
    <3> QED BY <2>0, <3>1
  <2>2. r = Ok(next)
    BY <2>0 DEF FieldEntryRound, ParseField
  <2>3. id \in Int /\ id = LastInteger(code, nodes, i)
    <3>1. acc.integer_value \in Int /\ acc.integer_value = LastInteger(code, nodes, i - 1)
      BY <1>2 DEF FieldEntryHolds
    <3>2. i \in Nat \ {0}
      BY <1>0
    <3> QED BY <2>0, <2>1, <3>1, <3>2, LastIntegerNext
  <2> HIDE DEF id
  <2>4. more \in Maps(Int)
    BY <1>2, <2>1, <2>3, EmplaceType DEF FieldEntryHolds
  <2>5. DOMAIN acc.map = FieldNames(nodes, i - 1)
    BY <1>2 DEF FieldEntryHolds
  <2>6. field.name \notin DOMAIN acc.map
    <3>1. \A j \in 1..i - 1 : j \in DOMAIN nodes /\ j # i
      BY <1>0
    <3>2. i \in DOMAIN nodes
      BY <1>0
    <3> QED BY <2>0, <2>5, <3>1, <3>2 DEF FieldNames
  <2>7. /\ DOMAIN more = DOMAIN acc.map \cup {field.name} /\ more[field.name] = id
        /\ \A k \in DOMAIN acc.map : more[k] = acc.map[k]
    <3>1. PICK map, key : map = acc.map /\ key = field.name
      OBVIOUS
    <3>2. /\ DOMAIN Emplace(map, key, id) = DOMAIN map \cup {key}
          /\ Emplace(map, key, id)[key] = id
          /\ \A k \in DOMAIN map : Emplace(map, key, id)[k] = map[k]
      <4>1. key \notin DOMAIN map
        BY <2>6, <3>1
      <4>2. DOMAIN Emplace(map, key, id) = DOMAIN map \cup {key}
        BY EmplaceDomain
      <4>3. Emplace(map, key, id)[key] = id
        BY <4>1, EmplaceNew
      <4>4. ASSUME NEW k \in DOMAIN map PROVE Emplace(map, key, id)[k] = map[k]
        BY EmplaceOld
      <4> QED BY <4>2, <4>3, <4>4
    <3>3. more = Emplace(map, key, id)
      BY <3>1
    <3> HIDE DEF more
    <3> QED BY <2>6, <3>1, <3>2, <3>3
  <2> HIDE DEF more
  <2>8. FieldNames(nodes, i) = FieldNames(nodes, i - 1) \cup {field.name}
    <3>1. \A j : j \in 1..i <=> j \in 1..i - 1 \/ j = i
      BY <1>0
    <3> QED BY <2>0, <3>1 DEF FieldNames
  <2>9. ASSUME NEW j \in 1..i PROVE more[nodes[j].name] = LastInteger(code, nodes, j)
    <3>1. j = i \/ j \in 1..i - 1
      BY <1>0
    <3>2. CASE j = i
      BY <2>0, <2>3, <2>7, <3>2
    <3>3. CASE j \in 1..i - 1
      <4>1. acc.map[nodes[j].name] = LastInteger(code, nodes, j)
        BY <1>2, <3>3 DEF FieldEntryHolds
      <4>2. nodes[j].name \in DOMAIN acc.map
        BY <2>5, <3>3 DEF FieldNames
      <4> QED BY <2>7, <4>1, <4>2
    <3> QED BY <3>1, <3>2, <3>3
  <2>10. FieldEntryHolds(code, start, nodes, next, i)
    BY <2>3, <2>4, <2>5, <2>7, <2>8, <2>9 DEF FieldEntryHolds
  <2> HIDE DEF next
  <2>11. FieldEntry!Outcome(code, start, nodes, r, i)
    BY <2>2, <2>10, Outcomes DEF FieldEntry!Outcome
  <2> QED BY <2>0, <2>11
<1>3. FieldEntry!Outcome(code, start, nodes, FieldEntry!Loop(code, start, nodes), Len(nodes))
  BY <1>0, <1>1, <1>2, FieldEntry!LoopInvariant
<1> QED BY <1>3 DEF start

LEMMA FieldsParsed ==
    ASSUME NEW code \in Int, NEW nodes \in Seq([name : Text, id : Int]),
           \A i, j \in DOMAIN nodes : nodes[i].name = nodes[j].name => i = j
    PROVE  /\ ParseFields(nodes, code) \in Maps(Int)
           /\ \A j \in DOMAIN nodes :
                 ParseFields(nodes, code)[nodes[j].name] = LastInteger(code, nodes, j)
<1> DEFINE start == [integer_value |-> code, map |-> <<>>]
           q == FieldEntry!Loop(code, start, nodes)
<1>1. ParseFields(nodes, code) = q.value.map
  BY DEF ParseFields, Each, Ok, Result, FieldEntry!Loop, FieldEntryRound
<1>2. FieldEntry!Outcome(code, start, nodes, q, Len(nodes))
  BY FieldEntriesFollow
<1>3. DOMAIN nodes = 1..Len(nodes)
  BY LenProperties
<1> HIDE DEF q, start
<1> QED BY <1>1, <1>2, <1>3 DEF FieldEntry!Outcome, FieldEntryHolds, NeverFailed

(* The sessions: one for each entry.                                       *)
SessionEntryHolds(ctx, start, nodes, c, i) ==
    /\ IsConfig(c)
    /\ c.resources = start.resources /\ Len(c.sessions) = Len(start.sessions) + i
    /\ \A j \in 1..i : TypedSession(nodes[j])
SessionEntryFailed(ctx, nodes, r) == r.status = "undefined" /\ IsConfig(r.value) /\ ~TypedSessions(nodes)
SessionEntryRound(ctx, c, entry) ==
    IF entry[1] # "dict" THEN Result("undefined", c) ELSE ParseSession(c, entry[2])
SessionEntry == INSTANCE Loops
    WITH Round <- SessionEntryRound, Holds <- SessionEntryHolds, Failed <- SessionEntryFailed

LEMMA SessionEntriesFollow ==
    ASSUME NEW start, IsConfig(start), NEW nodes, IsVector(nodes),
           \A i \in DOMAIN nodes : nodes[i][1] = "dict" => SessionDict(nodes[i][2])
    PROVE  SessionEntry!Outcome(nodes, start, nodes, SessionEntry!Loop(nodes, start, nodes), Len(nodes))
<1>0. Len(nodes) \in Nat /\ DOMAIN nodes = 1..Len(nodes)
  BY DEF IsVector
<1>1. SessionEntryHolds(nodes, start, nodes, start, 0)
  <2>1. Len(start.sessions) \in Nat
    BY LenProperties DEF IsConfig
  <2>2. 1..0 = {}
    OBVIOUS
  <2> QED BY <2>1, <2>2 DEF SessionEntryHolds
<1>2. ASSUME NEW i \in 1..Len(nodes), NEW c, SessionEntryHolds(nodes, start, nodes, c, i - 1)
      PROVE  SessionEntry!Outcome(nodes, start, nodes, SessionEntryRound(nodes, c, nodes[i]), i)
  <2>0. PICK entry, r : entry = nodes[i] /\ r = SessionEntryRound(nodes, c, nodes[i])
    OBVIOUS
  <2> DEFINE dict == entry[2]
             session == [text |-> GetString(NewSession.text, dict), rssl_servers |-> dict.rssl_servers[2]]
             ss == Append(c.sessions, session)
             d == [c EXCEPT !.sessions = ss]
             Typed == entry[1] = "dict" /\ dict.rssl_servers[1] = "list"
  <2>1. /\ Typed => r = Ok(d)
        /\ ~Typed => r = Result("undefined", c)
    BY <2>0 DEF SessionEntryRound, ParseSession
  <2>2. IsConfig(c) /\ c.sessions \in Seq(Sessions)
    BY <1>2 DEF SessionEntryHolds, IsConfig
  <2>3. CASE ~Typed
    <3>1. ~TypedSessions(nodes)
      BY <1>0, <2>0, <2>3 DEF TypedSessions, TypedSession
    <3>2. r.status = "undefined" /\ r.value = c
      BY <2>1, <2>3, Outcomes
    <3>3. SessionEntry!Outcome(nodes, start, nodes, r, i)
      BY <2>2, <3>1, <3>2 DEF SessionEntry!Outcome, SessionEntryFailed
    <3> QED BY <2>0, <3>3
  <2>4. CASE Typed
    <3>1. SessionDict(dict)
      BY <1>0, <2>0, <2>4
    <3>2. session \in Sessions
      <4>1. NewSession.text \in [SessionKeys -> Text]
        BY BlankText DEF NewSession
      <4>2. GetString(NewSession.text, dict) \in [SessionKeys -> Text]
        BY <3>1, <4>1, GetStringType DEF SessionDict
      <4> QED BY <2>4, <3>1, <4>2 DEF SessionDict, Sessions
    <3> HIDE DEF session
    <3>3. ss \in Seq(Sessions) /\ Len(ss) = Len(c.sessions) + 1
      BY <2>2, <3>2, AppendProperties
    <3> HIDE DEF ss
    <3>4. IsConfig(d) /\ d.sessions = ss /\ d.resources = c.resources
      BY <2>2, <3>3, WithSessions
    <3> HIDE DEF d
    <3>5. SessionEntryHolds(nodes, start, nodes, d, i)
      <4>1. Len(start.sessions) \in Nat
        BY LenProperties DEF IsConfig
      <4>2. Len(c.sessions) = Len(start.sessions) + (i - 1) /\ c.resources = start.resources
        BY <1>2 DEF SessionEntryHolds
      <4>3. Len(ss) = Len(start.sessions) + i
        BY <1>0, <3>3, <4>1, <4>2
      <4>4. \A j \in 1..i : j = i \/ j \in 1..i - 1
        BY <1>0
      <4>5. \A j \in 1..i : TypedSession(nodes[j])
        BY <1>2, <2>0, <2>4, <4>4 DEF SessionEntryHolds, TypedSession
      <4> QED BY <3>4, <4>2, <4>3, <4>5 DEF SessionEntryHolds
    <3>6. SessionEntry!Outcome(nodes, start, nodes, r, i)
      BY <2>1, <2>4, <3>5, Outcomes DEF SessionEntry!Outcome
    <3> QED BY <2>0, <3>6
  <2> QED BY <2>3, <2>4
<1> QED BY <1>0, <1>1, <1>2, SessionEntry!LoopInvariant

(* The resources: one for each entry, with its items and its fields. The   *)
(* one that is made without "items" has none, nor fields.                  *)
EntryMeans(to, from) ==
    DOMAIN to.items # {} =>
        /\ TypedResource(from)
        /\ Cardinality(DOMAIN to.items) = Len(from.items[2])
        /\ \A j \in DOMAIN from.fields[2] :
              to.fields[from.fields[2][j].name] =
                  LastInteger(from.entitlement_code, from.fields[2], j)

ResourceEntryHolds(ctx, start, nodes, c, i) ==
    /\ IsConfig(c)
    /\ c.sessions = start.sessions /\ Len(c.resources) = i
    /\ \A j \in 1..i : nodes[j][1] = "dict" /\ EntryMeans(c.resources[j], nodes[j][2])
ResourceEntryFailed(ctx, nodes, r) == r.status = "undefined" /\ IsConfig(r.value) /\ ~TypedResources(nodes)
ResourceEntryRound(ctx, c, entry) ==
    IF entry[1] # "dict" THEN Result("undefined", c) ELSE ParseResource(c, entry[2])
ResourceEntry == INSTANCE Loops
    WITH Round <- ResourceEntryRound, Holds <- ResourceEntryHolds, Failed <- ResourceEntryFailed

(* One entry that is a dictionary.                                         *)
LEMMA ResourceEntryParsed ==
    ASSUME NEW c, IsConfig(c), NEW dict, ResourceDict(dict)
    PROVE  \/ ParseResource(c, dict) = Result("undefined", c) /\ ~TypedResource(dict)
           \/ \E new \in Resources : /\ EntryMeans(new, dict)
                                     /\ ParseResource(c, dict) = Ok([c EXCEPT !.resources = Append(@, new)])
<1> DEFINE text == GetString([name |-> "", source |-> "", path |-> ""], dict)
           items == ParseItems(dict)
           fields == ParseFields(dict.fields[2], dict.entitlement_code)
           new == [name |-> text.name, source |-> text.source, path |-> text.path,
                   fields |-> fields, items |-> items.value]
<1>1. ParseResource(c, dict) =
        IF dict.fields[1] # "dict" THEN Result("undefined", c)
        ELSE IF items.status # "ok" THEN Result(items.status, c)
        ELSE Ok([c EXCEPT !.resources = Append(@, new)])
  BY DEF ParseResource
<1>2. text.name \in Text /\ text.source \in Text /\ text.path \in Text
  BY BlankText DEF GetString, Members, ResourceDict
<1> HIDE DEF text
<1>3. /\ items.status = "ok" =>
            /\ items.value \in Maps([RIC : Text, topic : Text])
            /\ DOMAIN items.value # {} =>
                  /\ dict.items[1] = "dict" /\ TypedItems(dict.items[2])
                  /\ Cardinality(DOMAIN items.value) = Len(dict.items[2])
      /\ items.status # "ok" =>
            items.status = "undefined" /\ ~(dict.items[1] = "dict" /\ TypedItems(dict.items[2]))
  <2>1. CASE dict.items[1] = "dict"
    <3> DEFINE q == ItemEntry!Loop(dict.items[2], <<>>, dict.items[2])
    <3>1. items = q
      BY <2>1 DEF ParseItems, Each, Ok, Result, ItemEntry!Loop, ItemEntryRound
    <3>2. ItemEntry!Outcome(dict.items[2], <<>>, dict.items[2], q, Len(dict.items[2]))
      BY <2>1, ItemEntriesFollow DEF ResourceDict
    <3>3. DOMAIN dict.items[2] = 1..Len(dict.items[2])
      BY <2>1 DEF ResourceDict, IsVector
    <3> HIDE DEF q, items
    <3> QED BY <2>1, <3>1, <3>2, <3>3 DEF ItemEntry!Outcome, ItemEntryHolds, ItemEntryFailed, TypedItems
  <2>2. CASE dict.items[1] # "dict"
    <3>1. items = Ok(<<>>) \/ items = Result("undefined", <<>>)
      BY <2>2 DEF ParseItems
    <3>2. items.status \in {"ok", "undefined"} /\ items.value = <<>>
      BY <3>1, Outcomes
    <3>3. DOMAIN <<>> = {}
      OBVIOUS
    <3> HIDE DEF items
    <3> QED BY <2>2, <3>2, <3>3, NoMap
  <2> QED BY <2>1, <2>2
<1>4. dict.fields[1] = "dict" =>
        /\ fields \in Maps(Int)
        /\ \A j \in DOMAIN dict.fields[2] :
              fields[dict.fields[2][j].name] = LastInteger(dict.entitlement_code, dict.fields[2], j)
  BY FieldsParsed DEF ResourceDict
<1> HIDE DEF items, fields
<1>5. items.status = "ok" /\ dict.fields[1] = "dict" => new \in Resources /\ EntryMeans(new, dict)
  BY <1>2, <1>3, <1>4 DEF Resources, EntryMeans, TypedResource
<1> HIDE DEF new
<1>6. CASE items.status = "ok" /\ dict.fields[1] = "dict"
  BY <1>1, <1>5, <1>6
<1>7. CASE ~(items.status = "ok" /\ dict.fields[1] = "dict")
  BY <1>1, <1>3, <1>7 DEF TypedResource
<1> QED BY <1>6, <1>7

LEMMA ResourceEntriesFollow ==
    ASSUME NEW start, IsConfig(start), Len(start.resources) = 0, NEW nodes, IsVector(nodes),
           \A i \in DOMAIN nodes : nodes[i][1] = "dict" => ResourceDict(nodes[i][2])
    PROVE  ResourceEntry!Outcome(nodes, start, nodes, ResourceEntry!Loop(nodes, start, nodes), Len(nodes))
<1>0. Len(nodes) \in Nat /\ DOMAIN nodes = 1..Len(nodes)
  BY DEF IsVector
<1>1. ResourceEntryHolds(nodes, start, nodes, start, 0)
  <2>1. 1..0 = {}
    OBVIOUS
  <2> QED BY <2>1 DEF ResourceEntryHolds
<1>2. ASSUME NEW i \in 1..Len(nodes), NEW c, ResourceEntryHolds(nodes, start, nodes, c, i - 1)
      PROVE  ResourceEntry!Outcome(nodes, start, nodes, ResourceEntryRound(nodes, c, nodes[i]), i)
  <2>0. PICK entry, r : entry = nodes[i] /\ r = ResourceEntryRound(nodes, c, nodes[i])
    OBVIOUS
  <2> DEFINE dict == entry[2]
  <2>1. IsConfig(c) /\ c.resources \in Seq(Resources) /\ Len(c.resources) = i - 1
    BY <1>2 DEF ResourceEntryHolds, IsConfig
  <2>2. ASSUME r = Result("undefined", c), ~TypedResources(nodes)
        PROVE  ResourceEntry!Outcome(nodes, start, nodes, r, i)
    <3>1. r.status = "undefined" /\ r.value = c
      BY <2>2, Outcomes
    <3> QED BY <2>1, <2>2, <3>1 DEF ResourceEntry!Outcome, ResourceEntryFailed
  <2>3. CASE entry[1] # "dict"
    <3>1. r = Result("undefined", c)
      BY <2>0, <2>3 DEF ResourceEntryRound
    <3>2. ~TypedResources(nodes)
      BY <1>0, <2>0, <2>3 DEF TypedResources
    <3> QED BY <2>0, <2>2, <3>1, <3>2
  <2>4. CASE entry[1] = "dict"
    <3>1. ResourceDict(dict)
      BY <1>0, <2>0, <2>4
    <3>2. \/ ParseResource(c, dict) = Result("undefined", c) /\ ~TypedResource(dict)
          \/ \E new \in Resources : /\ EntryMeans(new, dict)
                                    /\ ParseResource(c, dict) = Ok([c EXCEPT !.resources = Append(@, new)])
      BY <2>1, <3>1, ResourceEntryParsed
    <3>3. r = ParseResource(c, dict)
      BY <2>0, <2>4 DEF ResourceEntryRound
    <3>4. CASE ParseResource(c, dict) = Result("undefined", c) /\ ~TypedResource(dict)
      <4>1. ~TypedResources(nodes)
        BY <1>0, <2>0, <3>4 DEF TypedResources
      <4>2. r = Result("undefined", c)
        BY <3>3, <3>4
      <4> QED BY <2>0, <2>2, <4>1, <4>2
    <3>5. ASSUME NEW new \in Resources, EntryMeans(new, dict),
                 ParseResource(c, dict) = Ok([c EXCEPT !.resources = Append(@, new)])
          PROVE  ResourceEntry!Outcome(nodes, start, nodes, ResourceEntryRound(nodes, c, nodes[i]), i)
      <4> DEFINE rs == Append(c.resources, new)
                 d == [c EXCEPT !.resources = rs]
      <4>1. r = Ok(d)
        BY <3>3, <3>5
      <4>2. /\ rs \in Seq(Resources) /\ Len(rs) = (i - 1) + 1 /\ rs[(i - 1) + 1] = new
            /\ \A j \in 1..i - 1 : rs[j] = c.resources[j]
        BY <2>1, AppendProperties
      <4>3. (i - 1) + 1 = i /\ \A j \in 1..i : j = i \/ j \in 1..i - 1
        BY <1>0
      <4> HIDE DEF rs
      <4>4. IsConfig(d) /\ d.resources = rs /\ d.sessions = c.sessions
        BY <2>1, <4>2, WithResources
      <4> HIDE DEF d
      <4>5. ASSUME NEW j \in 1..i PROVE nodes[j][1] = "dict" /\ EntryMeans(rs[j], nodes[j][2])
        <5>1. CASE j = i
          BY <2>0, <2>4, <3>5, <4>2, <4>3, <5>1
        <5>2. CASE j \in 1..i - 1
          BY <1>2, <4>2, <5>2 DEF ResourceEntryHolds
        <5> QED BY <4>3, <5>1, <5>2
      <4>6. ResourceEntryHolds(nodes, start, nodes, d, i)
        BY <1>2, <4>2, <4>3, <4>4, <4>5 DEF ResourceEntryHolds
      <4>7. ResourceEntry!Outcome(nodes, start, nodes, r, i)
        BY <4>1, <4>6, Outcomes DEF ResourceEntry!Outcome
      <4> QED BY <2>0, <4>7
    <3> QED BY <3>2, <3>4, <3>5
  <2> QED BY <2>3, <2>4
<1> QED BY <1>0, <1>1, <1>2, ResourceEntry!LoopInvariant

(* What a dictionary that is accepted means, and when its types are right. *)
DictMeans(c, d) ==
    /\ Validate(c)
    /\ d.sessions[1] = "list" /\ TypedSessions(d.sessions[2]) /\ d.resources[1] = "list"
    /\ \A i \in DOMAIN d.resources[2] : d.resources[2][i][1] = "dict"
    /\ DOMAIN c.resources = DOMAIN d.resources[2]
    /\ Len(c.sessions) = Len(d.sessions[2]) /\ Len(c.resources) = Len(d.resources[2])
    /\ \A i \in DOMAIN c.resources : EntryMeans(c.resources[i], d.resources[2][i][2])
DictTyped(d) ==
    /\ d.sessions[1] = "list" /\ TypedSessions(d.sessions[2])
    /\ d.resources[1] = "list" /\ TypedResources(d.resources[2])

LEMMA StartIs ==
    ASSUME NEW d, ConfigDict(d)
    PROVE  \E start : /\ IsConfig(start) /\ start.sessions = <<>> /\ start.resources = <<>>
                      /\ start = [DefaultConfig EXCEPT
                            !.is_snmp_enabled = GetBoolean(@, d, "is_snmp_enabled"),
                            !.is_agentx_subagent = GetBoolean(@, d, "is_agentx_subagent"),
                            !.text = [GetString(@, d) EXCEPT !.snmp_filelog = ""]]
<1> DEFINE g == GetString(DefaultConfig.text, d)
           t == [g EXCEPT !.snmp_filelog = ""]
           start == [DefaultConfig EXCEPT
                        !.is_snmp_enabled = GetBoolean(@, d, "is_snmp_enabled"),
                        !.is_agentx_subagent = GetBoolean(@, d, "is_agentx_subagent"),
                        !.text = [GetString(@, d) EXCEPT !.snmp_filelog = ""]]
<1>1. t \in [TextKeys -> Text]
  <2>1. g \in [TextKeys -> Text]
    BY DefaultIs, GetStringType DEF ConfigDict, IsConfig
  <2> HIDE DEF g
  <2> QED BY <2>1, BlankText
<1>2. start.text = t /\ start.sessions = <<>> /\ start.resources = <<>> /\ DOMAIN start = DOMAIN DefaultConfig
  BY DEF DefaultConfig
<1>3. DefaultConfig.sessions = <<>> /\ DefaultConfig.resources = <<>>
  BY DefaultIs
<1> HIDE DEF g, t, start
<1>4. IsConfig(start)
  BY <1>1, <1>2, <1>3, DefaultIs DEF IsConfig
<1> QED BY <1>2, <1>4 DEF start, t, g

LEMMA DictParsed ==
    ASSUME NEW d, ConfigDict(d)
    PROVE  \E r : /\ r = ParseConfig(d)
                  /\ r.status \in {"ok", "false", "undefined"} /\ IsConfig(r.value)
                  /\ r.status = "ok" => DictMeans(r.value, d)
                  /\ r.status = "undefined" =>
                        /\ d.sessions[1] # "absent" /\ d.resources[1] # "absent" /\ ~DictTyped(d)
<1>1. PICK start : /\ IsConfig(start) /\ start.sessions = <<>> /\ start.resources = <<>>
                   /\ start = [DefaultConfig EXCEPT
                            !.is_snmp_enabled = GetBoolean(@, d, "is_snmp_enabled"),
                            !.is_agentx_subagent = GetBoolean(@, d, "is_agentx_subagent"),
                            !.text = [GetString(@, d) EXCEPT !.snmp_filelog = ""]]
  BY StartIs
<1> DEFINE ss == d.sessions[2]
           rs == d.resources[2]
           q1 == SessionEntry!Loop(ss, start, ss)
           r1 == IF d.sessions[1] # "list" THEN Result("undefined", start) ELSE q1
           q2 == ResourceEntry!Loop(rs, r1.value, rs)
           none == Result(IF ss = <<>> THEN "ok" ELSE "undefined", r1.value)
           r2 == IF r1.status = "ok" THEN IF d.resources[1] = "list" THEN q2 ELSE none
                 ELSE r1
           r3 == IF r2.status = "ok" THEN Accepted(r2.value) ELSE r2
           r == IF d.sessions[1] = "absent" \/ d.resources[1] = "absent" THEN Result("false", DefaultConfig) ELSE r3
<1>2. ParseConfig(d) = r
  <2>1. EachEntry(ParseSession, start, d.sessions) = r1
    BY DEF EachEntry, Each, Ok, Result, SessionEntry!Loop, SessionEntryRound
  <2>2. \A c : ParseResources(c, d) =
                  IF d.resources[1] = "list" THEN ResourceEntry!Loop(rs, c, rs)
                  ELSE Result(IF ss = <<>> THEN "ok" ELSE "undefined", c)
    BY DEF ParseResources, EachEntry, Each, Ok, Result, ResourceEntry!Loop, ResourceEntryRound
  <2> HIDE DEF r1, ss, rs
  <2>3. ParseConfig(d) =
          IF d.sessions[1] = "absent" \/ d.resources[1] = "absent" THEN Result("false", DefaultConfig)
          ELSE Then(Then(EachEntry(ParseSession, start, d.sessions),
                         LAMBDA c : ParseResources(c, d)), Accepted)
    BY <1>1 DEF ParseConfig, HasKey
  <2>4. Then(r1, LAMBDA c : ParseResources(c, d)) = r2
    BY <2>2 DEF Then
  <2>5. Then(r2, Accepted) = r3
    BY DEF Then
  <2> QED BY <2>1, <2>3, <2>4, <2>5
<1>3. /\ d.sessions[1] = "list" => IsVector(ss) /\ \A i \in DOMAIN ss : ss[i][1] = "dict" => SessionDict(ss[i][2])
      /\ d.resources[1] = "list" => IsVector(rs) /\ \A i \in DOMAIN rs : rs[i][1] = "dict" => ResourceDict(rs[i][2])
  BY DEF ConfigDict, Entries
<1> HIDE DEF ss, rs
<1>4. d.sessions[1] = "list" => SessionEntry!Outcome(ss, start, ss, q1, Len(ss))
  BY <1>1, <1>3, SessionEntriesFollow
<1>5. /\ r1.status = "ok" => /\ IsConfig(r1.value) /\ r1.value.resources = <<>> /\ Len(r1.value.sessions) = Len(ss)
                             /\ d.sessions[1] = "list" /\ TypedSessions(ss)
      /\ r1.status # "ok" => /\ r1.status = "undefined" /\ IsConfig(r1.value)
                             /\ ~(d.sessions[1] = "list" /\ TypedSessions(ss))
  <2> HIDE DEF q1
  <2>1. d.sessions[1] # "list" => r1.status = "undefined" /\ r1.value = start
    BY Outcomes
  <2>2. d.sessions[1] = "list" => r1 = q1 /\ Len(ss) \in Nat /\ DOMAIN ss = 1..Len(ss)
    BY <1>3 DEF IsVector
  <2>3. Len(<<>>) = 0
    OBVIOUS
  <2> HIDE DEF r1
  <2> QED BY <1>1, <1>4, <2>1, <2>2, <2>3 DEF SessionEntry!Outcome, SessionEntryHolds, SessionEntryFailed, TypedSessions
<1> HIDE DEF r1
<1>6. r1.status = "ok" /\ d.resources[1] = "list" => ResourceEntry!Outcome(rs, r1.value, rs, q2, Len(rs))
  <2>1. Len(<<>>) = 0
    OBVIOUS
  <2> QED BY <1>3, <1>5, <2>1, ResourceEntriesFollow
<1>7. /\ r2.status = "ok" =>
            /\ IsConfig(r2.value) /\ Len(r2.value.sessions) = Len(ss)
            /\ d.sessions[1] = "list" /\ TypedSessions(ss)
            /\ \/ r2.value.sessions = <<>>
               \/ /\ d.resources[1] = "list" /\ Len(r2.value.resources) = Len(rs) /\ IsVector(rs)
                  /\ \A j \in 1..Len(rs) : rs[j][1] = "dict" /\ EntryMeans(r2.value.resources[j], rs[j][2])
      /\ r2.status # "ok" => r2.status = "undefined" /\ IsConfig(r2.value) /\ ~DictTyped(d)
  <2> HIDE DEF q2, none
  <2>1. CASE r1.status # "ok"
    BY <1>5, <2>1 DEF DictTyped, ss
  <2>2. CASE r1.status = "ok" /\ d.resources[1] # "list"
    <3>1. /\ r2.value = r1.value /\ r2.status \in {"ok", "undefined"}
          /\ r2.status = "ok" => ss = <<>>
      BY <2>2, Outcomes DEF none
    <3>2. ss = <<>> => r1.value.sessions = <<>>
      <4>1. Len(<<>>) = 0
        OBVIOUS
      <4> QED BY <1>5, <2>2, <4>1, EmptySeq DEF IsConfig
    <3> HIDE DEF r2
    <3> QED BY <1>5, <2>2, <3>1, <3>2 DEF DictTyped
  <2>3. CASE r1.status = "ok" /\ d.resources[1] = "list"
    <3>1. r2 = q2
      BY <2>3
    <3> HIDE DEF r2
    <3> QED BY <1>3, <1>5, <1>6, <2>3, <3>1
            DEF ResourceEntry!Outcome, ResourceEntryHolds, ResourceEntryFailed, DictTyped, rs
  <2> QED BY <2>1, <2>2, <2>3
<1> HIDE DEF r2
<1>8. CASE d.sessions[1] = "absent" \/ d.resources[1] = "absent"
  <2>1. r.status = "false" /\ r.value = DefaultConfig
    BY <1>8, Outcomes
  <2> HIDE DEF r
  <2> QED BY <1>2, <2>1, DefaultIs
<1>9. CASE ~(d.sessions[1] = "absent" \/ d.resources[1] = "absent") /\ r2.status # "ok"
  <2>1. r = r2
    BY <1>9
  <2> HIDE DEF r
  <2> QED BY <1>2, <1>7, <1>9, <2>1
<1>10. CASE ~(d.sessions[1] = "absent" \/ d.resources[1] = "absent") /\ r2.status = "ok"
  <2>1. r.value = r2.value /\ r.status = IF Validate(r2.value) THEN "ok" ELSE "false"
    BY <1>10 DEF Accepted, Result
  <2> HIDE DEF r
  <2>2. ASSUME Validate(r2.value) PROVE DictMeans(r2.value, d)
    <3>1. r2.value.sessions # <<>>
      BY <2>2 DEF Validate
    <3>2. DOMAIN r2.value.resources = 1..Len(rs)
      BY <1>7, <1>10, <3>1, LenProperties DEF IsConfig
    <3>3. DOMAIN rs = 1..Len(rs)
      BY <1>7, <1>10, <3>1 DEF IsVector
    <3> QED BY <1>7, <1>10, <2>2, <3>1, <3>2, <3>3 DEF DictMeans, ss, rs
  <2> QED BY <1>2, <1>7, <1>10, <2>1, <2>2
<1> QED BY <1>8, <1>9, <1>10

(* What any JSON document is parsed to.                                    *)
LEMMA JsonParsed ==
    ASSUME document \in JsonDocuments
    PROVE  \E r : /\ r = JsonResult[document]
                  /\ IsConfig(r.value) /\ r.status \in {"ok", "false", "thrown", "undefined"}
                  /\ r.status = "thrown" => document.read = "thrown"
                  /\ r.status = "undefined" => ~WellTyped
                  /\ r.status = "ok" => document.read = "dict" /\ DictMeans(r.value, document.dict)
<1> DEFINE d == document
           r == CASE d.read = "missing" -> Result("false", DefaultConfig)
                  [] d.read = "thrown" -> Result("thrown", DefaultConfig)
                  [] d.read \in {"rejected", "list"} -> Result("undefined", DefaultConfig)
                  [] OTHER -> ParseConfig(d.dict)
<1>1. JsonResult[document] = r
  BY DEF JsonResult
<1>2. d.read \in {"missing", "thrown", "rejected", "list"} \/ (d.read = "dict" /\ ConfigDict(d.dict))
  BY DocumentsAssumption
<1>3. CASE d.read \in {"missing", "thrown", "rejected", "list"}
  <2>1. /\ r.value = DefaultConfig
        /\ r.status = CASE d.read = "missing" -> "false" [] d.read = "thrown" -> "thrown" [] OTHER -> "undefined"
    BY <1>3 DEF Result
  <2> HIDE DEF r
  <2> QED BY <1>1, <1>3, <2>1, DefaultIs DEF WellTyped
<1>4. CASE d.read = "dict" /\ ConfigDict(d.dict)
  <2>1. r = ParseConfig(d.dict)
    BY <1>4
  <2>2. PICK q : /\ q = ParseConfig(d.dict)
                 /\ q.status \in {"ok", "false", "undefined"} /\ IsConfig(q.value)
                 /\ q.status = "ok" => DictMeans(q.value, d.dict)
                 /\ q.status = "undefined" =>
                       /\ d.dict.sessions[1] # "absent" /\ d.dict.resources[1] # "absent" /\ ~DictTyped(d.dict)
    BY <1>4, DictParsed
  <2>3. q.status = "undefined" => ~WellTyped
    <3>1. ~DictTyped(d.dict) /\ d.dict.sessions[1] # "absent" /\ d.dict.resources[1] # "absent" => ~WellTyped
      BY DEF DictTyped, TypedSessions, TypedSession, TypedResources, TypedResource, TypedItems,
             WellTyped, ListOfDicts
    <3> QED BY <2>2, <3>1
  <2> HIDE DEF r
  <2> QED BY <1>1, <1>4, <2>1, <2>2, <2>3
<1> QED BY <1>2, <1>3, <1>4

LEMMA JsonMeant ==
    ASSUME document.read = "dict", IsConfig(config), DictMeans(config, document.dict)
    PROVE  WellTyped /\ JsonMeaning
<1> DEFINE d == document.dict
<1>1. \A i \in DOMAIN config.resources : DOMAIN config.resources[i].items # {}
  BY DEF DictMeans, Validate, ValidResource
<1>2. \A i \in DOMAIN d.resources[2] : TypedResource(d.resources[2][i][2])
  BY <1>1 DEF DictMeans, EntryMeans
<1>3. WellTyped
  BY <1>2 DEF DictMeans, TypedResource, TypedItems, TypedSessions, TypedSession, WellTyped, ListOfDicts
<1>4. JsonMeaning
  BY <1>1 DEF DictMeans, EntryMeans, JsonMeaning
<1> QED BY <1>3, <1>4

LEMMA OddIs ==
    ASSUME OddTree(document)
    PROVE  OddFieldId
<1> USE DEF Range
<1>1. PICK c \in Range(document) : OddPsychs(c.psych)
  BY DEF OddTree
<1>2. PICK p \in Range(c.psych) : OddResources(p.resource)
  BY <1>1 DEF OddPsychs
<1>3. PICK r \in Range(p.resource) : OddFields(r.field)
  BY <1>2 DEF OddResources
<1>4. PICK f \in Range(r.field) : Odd(f.id)
  BY <1>3 DEF OddFields
<1> QED BY ONLY <1>4, c \in Range(document), p \in Range(c.psych), r \in Range(p.resource) DEF OddFieldId, Odd

(* What the outcome of parsing says of the document.                       *)
Given == (source = "xml" => document \in XmlDocuments) /\ (source = "json" => document \in JsonDocuments)

OutcomeMeans(r) ==
    /\ IsConfig(r.value) /\ r.status \in {"ok", "false", "thrown", "undefined"}
    /\ source = "xml" =>
          /\ r.status # "undefined"
          /\ r.status = "thrown" => OddFieldId
          /\ r.status = "ok" => TreeMeans(r.value, document) /\ Validate(r.value)
    /\ source = "json" =>
          /\ r.status = "thrown" => document.read = "thrown"
          /\ r.status = "undefined" => ~WellTyped
          /\ r.status = "ok" => document.read = "dict" /\ DictMeans(r.value, document.dict)

LEMMA ParsedIs ==
    ASSUME Given, PluginInit \/ Run
    PROVE  \E r : /\ OutcomeMeans(r) /\ IsConfig(r.value)
                  /\ config' = r.value /\ pc' = After(r.status) /\ pc = "parse"
                  /\ UNCHANGED <<source, document, index, connections, stream_vector, query_vector>>
<1>1. CASE PluginInit
  <2>1. PICK r : r = XmlResult[document]
    OBVIOUS
  <2>2. source = "xml" /\ document \in XmlDocuments
    BY <1>1 DEF PluginInit, Given
  <2>3. /\ r.status \in {"ok", "false", "thrown"} /\ IsConfig(r.value)
        /\ r.status = "ok" => TreeMeans(r.value, document) /\ Validate(r.value)
        /\ r.status = "thrown" => OddTree(document)
    BY <2>1, <2>2, XmlParsed
  <2>5. OddTree(document) => OddFieldId
    BY OddIs
  <2>4. OutcomeMeans(r)
    BY <2>2, <2>3, <2>5 DEF OutcomeMeans
  <2> QED BY <1>1, <2>1, <2>3, <2>4 DEF PluginInit, Parsed
<1>2. CASE Run
  <2>1. source = "json" /\ document \in JsonDocuments
    BY <1>2 DEF Run, Given
  <2>2. PICK r : /\ r = JsonResult[document]
                 /\ IsConfig(r.value) /\ r.status \in {"ok", "false", "thrown", "undefined"}
                 /\ r.status = "thrown" => document.read = "thrown"
                 /\ r.status = "undefined" => ~WellTyped
                 /\ r.status = "ok" => document.read = "dict" /\ DictMeans(r.value, document.dict)
    BY <2>1, JsonParsed
  <2>3. OutcomeMeans(r)
    BY <2>1, <2>2 DEF OutcomeMeans
  <2> QED BY <1>2, <2>2, <2>3 DEF Run, Parsed
<1> QED BY <1>1, <1>2

-----------------------------------------------------------------------------
(* Connections, streams and name maps.                                     *)

(* What the loop in Init makes of the first n resources: each path and     *)
(* each RIC belongs to the first of them that has it.                      *)
Assigned(rs, n, conns, queries, streams) ==
    /\ DOMAIN queries = DOMAIN conns
    /\ \A i \in 1..n : rs[i].path \in DOMAIN conns /\ conns[rs[i].path] <= i
    /\ \A p \in DOMAIN conns :
          conns[p] \in 1..n /\ rs[conns[p]].path = p /\ queries[p] = NameMap(rs[conns[p]])
    /\ \A i \in 1..n : \A ric \in Rics(rs[i]) : ric \in DOMAIN streams /\ streams[ric] <= i
    /\ \A ric \in DOMAIN streams : streams[ric] \in 1..n /\ ric \in Rics(rs[streams[ric]])

LEMMA AssignNext ==
    ASSUME NEW rs, NEW n \in Nat, NEW conns, NEW queries, NEW streams,
           Assigned(rs, n, conns, queries, streams)
    PROVE  Assigned(rs, n + 1,
                    Emplace(conns, rs[n + 1].path, n + 1),
                    Emplace(queries, rs[n + 1].path, NameMap(rs[n + 1])),
                    [ric \in DOMAIN streams \cup Rics(rs[n + 1]) |->
                        IF ric \in DOMAIN streams THEN streams[ric] ELSE n + 1])
<1> DEFINE m == n + 1
           path == rs[m].path
           names == NameMap(rs[m])
           made == Rics(rs[m])
           conns2 == Emplace(conns, path, m)
           queries2 == Emplace(queries, path, names)
           streams2 == [ric \in DOMAIN streams \cup made |->
                          IF ric \in DOMAIN streams THEN streams[ric] ELSE m]
<1>1. /\ DOMAIN streams2 = DOMAIN streams \cup made
      /\ \A ric \in DOMAIN streams : streams2[ric] = streams[ric]
      /\ \A ric \in made : ric \notin DOMAIN streams => streams2[ric] = m
  OBVIOUS
<1>2. /\ m \in 1..m /\ 1..n \subseteq 1..m
      /\ \A i \in 1..m : i \in 1..n \/ i = m
      /\ \A i \in 1..n : i <= m
      /\ m <= m
  OBVIOUS
<1>3. path = rs[m].path /\ names = NameMap(rs[m]) /\ made = Rics(rs[m])
  OBVIOUS
<1> HIDE DEF m, path, names, made
<1>4. /\ DOMAIN conns2 = DOMAIN conns \cup {path}
      /\ \A p \in DOMAIN conns : conns2[p] = conns[p]
      /\ path \notin DOMAIN conns => conns2[path] = m
  BY EmplaceDomain, EmplaceNew, EmplaceOld
<1>5. /\ DOMAIN queries2 = DOMAIN queries \cup {path}
      /\ \A p \in DOMAIN queries : queries2[p] = queries[p]
      /\ path \notin DOMAIN queries => queries2[path] = names
  BY EmplaceDomain, EmplaceNew, EmplaceOld
<1> HIDE DEF conns2, queries2, streams2
<1> USE DEF Assigned
<1>6. DOMAIN queries2 = DOMAIN conns2
  BY <1>4, <1>5
<1>7. ASSUME NEW i \in 1..m PROVE rs[i].path \in DOMAIN conns2 /\ conns2[rs[i].path] <= i
  <2>1. CASE i \in 1..n
    BY <1>4, <2>1
  <2>2. CASE i = m /\ path \in DOMAIN conns
    BY <1>2, <1>3, <1>4, <2>2
  <2>3. CASE i = m /\ path \notin DOMAIN conns
    BY <1>2, <1>3, <1>4, <2>3
  <2> QED BY <1>2, <2>1, <2>2, <2>3
<1>8. ASSUME NEW p \in DOMAIN conns2
      PROVE  conns2[p] \in 1..m /\ rs[conns2[p]].path = p /\ queries2[p] = NameMap(rs[conns2[p]])
  <2>1. CASE p \in DOMAIN conns
    BY <1>2, <1>4, <1>5, <2>1
  <2>2. CASE p \notin DOMAIN conns
    BY <1>2, <1>3, <1>4, <1>5, <2>2
  <2> QED BY <2>1, <2>2
<1>9. ASSUME NEW i \in 1..m, NEW ric \in Rics(rs[i]) PROVE ric \in DOMAIN streams2 /\ streams2[ric] <= i
  <2>1. CASE i \in 1..n
    BY <1>1, <2>1
  <2>2. CASE i = m /\ ric \in DOMAIN streams
    BY <1>1, <1>2, <2>2
  <2>3. CASE i = m /\ ric \notin DOMAIN streams
    BY <1>1, <1>2, <1>3, <2>3
  <2> QED BY <1>2, <2>1, <2>2, <2>3
<1>10. ASSUME NEW ric \in DOMAIN streams2 PROVE streams2[ric] \in 1..m /\ ric \in Rics(rs[streams2[ric]])
  <2>1. CASE ric \in DOMAIN streams
    BY <1>1, <1>2, <2>1
  <2>2. CASE ric \notin DOMAIN streams
    BY <1>1, <1>2, <1>3, <2>2
  <2> QED BY <2>1, <2>2
<1>11. Assigned(rs, m, conns2, queries2, streams2)
  BY <1>6, <1>7, <1>8, <1>9, <1>10
<1> QED BY <1>11 DEF m, path, names, made, conns2, queries2, streams2
(* Every resource has been assigned when the loop is over.                 *)
VectorsInv ==
    /\ IsVector(config.resources)
    /\ index \in 1..Len(config.resources) + 1
    /\ pc = "parse" => index = 1 /\ connections = <<>> /\ stream_vector = <<>> /\ query_vector = <<>>
    /\ pc \in {"streams", "interval", "yesterday", "running"} =>
          Assigned(config.resources, index - 1, connections, query_vector, stream_vector)
    /\ pc \in {"interval", "yesterday", "running"} => index = Len(config.resources) + 1

LEMMA VectorsInit == Init => VectorsInv
<1>1. DefaultConfig.resources = <<>> /\ IsVector(<<>>) /\ Len(<<>>) = 0
  BY DEF DefaultConfig, IsVector
<1> QED BY <1>1 DEF Init, VectorsInv

LEMMA VectorsStep ==
    ASSUME Given, VectorsInv, [Next]_vars
    PROVE  VectorsInv'
<1> USE DEF VectorsInv
<1>0. Len(config.resources) \in Nat /\ index \in 1..Len(config.resources) + 1
  BY DEF IsVector
<1>1. CASE PluginInit \/ Run
  <2>1. PICK r : /\ IsConfig(r.value) /\ config' = r.value /\ pc' = After(r.status)
                 /\ pc = "parse" /\ UNCHANGED <<index, connections, stream_vector, query_vector>>
    BY <1>1, ParsedIs
  <2>2. pc' \in {"streams", "failed", "thrown", "crashed"}
    BY <2>1 DEF After
  <2>3. Assigned(r.value.resources, 0, <<>>, <<>>, <<>>)
    BY DEF Assigned
  <2>4. IsVector(config'.resources) /\ Len(config'.resources) \in Nat
    BY <2>1, LenProperties DEF IsConfig, IsVector
  <2>5. /\ index' = 1 /\ index' - 1 = 0
        /\ connections' = <<>> /\ query_vector' = <<>> /\ stream_vector' = <<>>
    BY <2>1
  <2> QED BY <2>1, <2>2, <2>3, <2>4, <2>5
<1>2. CASE AddResource
  <2>1. /\ pc = "streams" /\ index <= Len(config.resources) /\ pc' = pc /\ config' = config
        /\ connections' = Emplace(connections, config.resources[index].path, index)
        /\ stream_vector' = [ric \in DOMAIN stream_vector \cup Rics(config.resources[index]) |->
                               IF ric \in DOMAIN stream_vector THEN stream_vector[ric] ELSE index]
        /\ query_vector' = Emplace(query_vector, config.resources[index].path,
                                   NameMap(config.resources[index]))
        /\ index' = index + 1
    BY <1>2 DEF AddResource
  <2> DEFINE n == index - 1
  <2>2. n \in Nat /\ n + 1 = index /\ index' - 1 = n + 1 /\ index' \in 1..Len(config.resources) + 1
    BY <1>0, <2>1
  <2>3. Assigned(config.resources, n, connections, query_vector, stream_vector)
    BY <2>1
  <2>4. /\ connections' = Emplace(connections, config.resources[n + 1].path, n + 1)
        /\ stream_vector' = [ric \in DOMAIN stream_vector \cup Rics(config.resources[n + 1]) |->
                               IF ric \in DOMAIN stream_vector THEN stream_vector[ric] ELSE n + 1]
        /\ query_vector' = Emplace(query_vector, config.resources[n + 1].path,
                                   NameMap(config.resources[n + 1]))
    <3> HIDE DEF n
    <3> QED BY <2>1, <2>2
  <2> HIDE DEF n
  <2>5. Assigned(config.resources, n + 1, connections', query_vector', stream_vector')
    <3>1. Assigned(config.resources, n + 1,
                   Emplace(connections, config.resources[n + 1].path, n + 1),
                   Emplace(query_vector, config.resources[n + 1].path, NameMap(config.resources[n + 1])),
                   [ric \in DOMAIN stream_vector \cup Rics(config.resources[n + 1]) |->
                       IF ric \in DOMAIN stream_vector THEN stream_vector[ric] ELSE n + 1])
      BY ONLY <2>2, <2>3, AssignNext
    <3> QED BY ONLY <2>4, <3>1
  <2> QED BY <2>1, <2>2, <2>5
<1>3. CASE CreateItemStreamFails
  <2>1. pc' = "failed" /\ UNCHANGED <<config, index>>
    BY <1>3 DEF CreateItemStreamFails
  <2> QED BY <2>1
<1>4. CASE StreamsDone
  <2>1. /\ pc = "streams" /\ pc' = "interval" /\ index > Len(config.resources)
        /\ UNCHANGED <<config, index, connections, stream_vector, query_vector>>
    BY <1>4 DEF StreamsDone, Goto
  <2>2. index = Len(config.resources) + 1
    BY <1>0, <2>1
  <2> QED BY <2>1, <2>2
<1>5. CASE TimerThrows \/ ReadClock \/ Yesterday \/ CreateTimer \/ DivideByZero
  <2>1. /\ pc \in {"interval", "yesterday"} /\ pc' \in {"failed", "yesterday", "running", "crashed"}
        /\ UNCHANGED <<config, index, connections, stream_vector, query_vector>>
    BY <1>5 DEF TimerThrows, ReadClock, Yesterday, CreateTimer, DivideByZero, Goto, startVars
  <2> QED BY <2>1
<1>6. CASE Wake \/ OnTimerReturns \/ Tick \/ UNCHANGED vars
  <2>1. UNCHANGED <<config, index, connections, stream_vector, query_vector, pc>>
    BY <1>6 DEF Wake, OnTimerReturns, Tick, vars, startVars
  <2> QED BY <2>1
<1> QED BY <1>1, <1>2, <1>3, <1>4, <1>5, <1>6 DEF Next, MainThread, TimerThread

(* The first of a set of indices.                                          *)
LEMMA LeastIs ==
    ASSUME NEW T \in SUBSET Int, NEW k \in T, \A i \in T : k <= i
    PROVE  Min(T) = k
<1>1. Min(T) \in T /\ \A i \in T : Min(T) <= i
  <2>1. \E i \in T : \A j \in T : i <= j
    OBVIOUS
  <2> QED BY <2>1 DEF Min
<1>2. Min(T) <= k /\ k <= Min(T) /\ Min(T) \in Int /\ k \in Int
  BY <1>1
<1> QED BY ONLY <1>2

LEMMA AssignedAll ==
    ASSUME VectorsInv
    PROVE  StreamsConfigured
<1> SUFFICES ASSUME pc \in {"interval", "yesterday", "running"} PROVE StreamsConfigured
  BY DEF StreamsConfigured
<1> DEFINE rs == config.resources
           n == Len(rs)
           Paths == {rs[i].path : i \in DOMAIN rs}
           Having(p) == {i \in DOMAIN rs : rs[i].path = p}
           Naming(ric) == {i \in DOMAIN rs : ric \in Rics(rs[i])}
           Served(ric) == \E p \in Paths : \E s \in DOMAIN query_vector[p] :
                             query_vector[p][s].stream = ric
<1>1. /\ n \in Nat /\ DOMAIN rs = 1..n /\ index - 1 = n
      /\ Assigned(rs, index - 1, connections, query_vector, stream_vector)
  BY DEF VectorsInv, IsVector
<1> HIDE DEF rs, n
<1>2. /\ DOMAIN query_vector = DOMAIN connections
      /\ \A i \in DOMAIN rs : rs[i].path \in DOMAIN connections /\ connections[rs[i].path] <= i
      /\ \A p \in DOMAIN connections :
            /\ connections[p] \in DOMAIN rs /\ rs[connections[p]].path = p
            /\ query_vector[p] = NameMap(rs[connections[p]])
      /\ \A i \in DOMAIN rs : \A ric \in Rics(rs[i]) : ric \in DOMAIN stream_vector /\ stream_vector[ric] <= i
      /\ \A ric \in DOMAIN stream_vector :
            stream_vector[ric] \in DOMAIN rs /\ ric \in Rics(rs[stream_vector[ric]])
  BY <1>1 DEF Assigned
<1>3. DOMAIN rs \subseteq Int
  BY <1>1
<1>4. DOMAIN connections = Paths /\ DOMAIN query_vector = Paths
  BY <1>2
<1>5. ASSUME NEW p \in Paths
      PROVE  connections[p] = Min(Having(p)) /\ query_vector[p] = NameMap(rs[connections[p]])
  <2>1. connections[p] \in Having(p) /\ \A i \in Having(p) : connections[p] <= i
    BY <1>2, <1>4
  <2>2. Having(p) \in SUBSET Int
    BY <1>3
  <2> HIDE DEF Having
  <2>3. Min(Having(p)) = connections[p]
    BY <2>1, <2>2, LeastIs
  <2> QED BY <1>2, <1>4, <2>3
<1>6. DOMAIN stream_vector = UNION {Rics(rs[i]) : i \in DOMAIN rs}
  <2>1. \A ric : ric \in DOMAIN stream_vector <=> \E i \in DOMAIN rs : ric \in Rics(rs[i])
    BY <1>2
  <2> QED BY <2>1
<1>7. ASSUME NEW ric \in DOMAIN stream_vector
      PROVE  /\ stream_vector[ric] = Min(Naming(ric))
             /\ ~Served(ric) => \A i \in Naming(ric) : i # Min(Having(rs[i].path))
  <2>1. stream_vector[ric] \in Naming(ric) /\ \A i \in Naming(ric) : stream_vector[ric] <= i
    BY <1>2
  <2>2. Naming(ric) \in SUBSET Int
    BY <1>3
  <2>3. stream_vector[ric] = Min(Naming(ric))
    <3> HIDE DEF Naming
    <3> QED BY <2>1, <2>2, LeastIs
  <2>4. ASSUME NEW i \in Naming(ric), i = Min(Having(rs[i].path)) PROVE Served(ric)
    <3>1. i \in DOMAIN rs /\ ric \in Rics(rs[i]) /\ rs[i].path \in Paths
      OBVIOUS
    <3>2. query_vector[rs[i].path] = NameMap(rs[i])
      BY <1>5, <2>4, <3>1
    <3>3. PICK s \in DOMAIN rs[i].items : rs[i].items[s].RIC = ric
      BY <3>1 DEF Rics
    <3>4. s \in DOMAIN NameMap(rs[i]) /\ NameMap(rs[i])[s].stream = ric
      BY <3>3 DEF NameMap
    <3> QED BY <3>1, <3>2, <3>4
  <2> QED BY <2>3, <2>4
<1>8. /\ DOMAIN connections = Paths /\ DOMAIN query_vector = Paths
      /\ \A p \in Paths :
            /\ connections[p] = Min(Having(p))
            /\ query_vector[p] = NameMap(rs[connections[p]])
      /\ DOMAIN stream_vector = UNION {Rics(rs[i]) : i \in DOMAIN rs}
      /\ \A ric \in DOMAIN stream_vector :
            /\ stream_vector[ric] = Min(Naming(ric))
            /\ ~Served(ric) => \A i \in Naming(ric) : i # Min(Having(rs[i].path))
  BY <1>4, <1>5, <1>6, <1>7
<1> QED BY <1>8 DEF StreamsConfigured, rs

(* For any number of resources, whatever paths and RICs they share: one    *)
(* connection and one name map for each path, one stream for each RIC,     *)
(* all of the first resource that has it (psych.cc:395-433).               *)
THEOREM StreamsSafe == Spec => []StreamsConfigured
<1>1. Init => Given
  BY DEF Init, Given
<1>2. Given /\ [Next]_vars => Given'
  <2>1. [Next]_vars => UNCHANGED <<source, document>>
    BY DEF Next, MainThread, TimerThread, PluginInit, Run, Parsed, AddResource, CreateItemStreamFails,
           StreamsDone, TimerThrows, ReadClock, Yesterday, CreateTimer, DivideByZero, Wake, OnTimerReturns,
           Tick, Goto, vars, startVars
  <2> QED BY <2>1 DEF Given
<1>3. Given /\ VectorsInv /\ [Next]_vars => VectorsInv'
  BY VectorsStep
<1>4. Spec => []VectorsInv
  BY <1>1, <1>2, <1>3, VectorsInit, PTL DEF Spec
<1> QED BY <1>4, AssignedAll, PTL
-----------------------------------------------------------------------------
(* The document decides.                                                   *)

LEMMA ZeroText == \A t \in DOMAIN Number : Number[t] = 0 => t = "0"
BY DEF Number

(* What DocumentDecides says of the configuration, in terms of the loops   *)
(* that made it.                                                           *)
DocumentInv ==
    /\ Given /\ source \in {"xml", "json"}
    /\ pc # "parse" => IsConfig(config)
    /\ pc = "crashed" => (source = "json" /\ ~WellTyped) \/ config.text.interval = "0"
    /\ pc = "thrown" => IF source = "xml" THEN OddFieldId ELSE document.read = "thrown"
    /\ pc \in InUse /\ source = "xml" => TreeMeans(config, document) /\ Validate(config)
    /\ pc \in InUse /\ source = "json" => document.read = "dict" /\ DictMeans(config, document.dict)

LEMMA DocumentStep ==
    ASSUME DocumentInv, ClockInv, [Next]_vars
    PROVE  DocumentInv'
<1> USE DEF DocumentInv
<1>0. ASSUME UNCHANGED <<source, document>> PROVE Given' /\ WellTyped' = WellTyped /\ OddFieldId' = OddFieldId
  <2>1. document' = document /\ source' = source
    BY <1>0
  <2>2. Given'
    BY <2>1 DEF Given
  <2> QED BY ONLY <2>1, <2>2 DEF WellTyped, ListOfDicts, OddFieldId
<1>1. CASE PluginInit \/ Run
  <2>1. PICK r : /\ OutcomeMeans(r) /\ IsConfig(r.value)
                 /\ config' = r.value /\ pc' = After(r.status) /\ pc = "parse"
                 /\ UNCHANGED <<source, document, index, connections, stream_vector, query_vector>>
    BY <1>1, ParsedIs
  <2>2. IsConfig(config')
    BY <2>1
  <2>3. CASE r.status = "ok"
    <3>1. pc' = "streams"
      BY <2>1, <2>3 DEF After
    <3>2. /\ source = "xml" => TreeMeans(config', document') /\ Validate(config')
          /\ source = "json" => document'.read = "dict" /\ DictMeans(config', document'.dict)
      BY <2>1, <2>3 DEF OutcomeMeans
    <3> QED BY <1>0, <2>1, <2>2, <3>1, <3>2 DEF InUse
  <2>4. CASE r.status = "false"
    <3>1. pc' = "failed"
      BY <2>1, <2>4 DEF After
    <3> QED BY <1>0, <2>1, <2>2, <3>1 DEF InUse
  <2>5. CASE r.status = "thrown"
    <3>1. pc' = "thrown" /\ IF source = "xml" THEN OddFieldId ELSE document.read = "thrown"
      BY <2>1, <2>5 DEF After, OutcomeMeans
    <3> QED BY <1>0, <2>1, <2>2, <3>1 DEF InUse
  <2>6. CASE r.status = "undefined"
    <3>1. pc' = "crashed" /\ source = "json" /\ ~WellTyped
      BY <2>1, <2>6 DEF After, OutcomeMeans
    <3> QED BY <1>0, <2>1, <2>2, <3>1 DEF InUse
  <2> QED BY <2>1, <2>3, <2>4, <2>5, <2>6 DEF OutcomeMeans
<1>2. CASE DivideByZero
  <2>1. /\ pc = "yesterday" /\ Interval = 0 /\ pc' = "crashed"
        /\ UNCHANGED <<source, document, config>>
    BY <1>2 DEF DivideByZero, Goto
  <2>2. config.text.interval = "0"
    BY <2>1, ZeroText DEF ClockInv, Interval, IntervalText
  <2> QED BY <1>0, <2>1, <2>2 DEF InUse
<1>3. CASE AddResource \/ CreateItemStreamFails \/ StreamsDone \/ TimerThrows \/ ReadClock \/ Yesterday \/ CreateTimer
  <2>1. /\ pc \in {"streams", "interval", "yesterday"}
        /\ pc' \in {"streams", "interval", "yesterday", "running", "failed"}
        /\ UNCHANGED <<source, document, config>>
    BY <1>3 DEF AddResource, CreateItemStreamFails, StreamsDone, TimerThrows, ReadClock, Yesterday,
                CreateTimer, Goto, startVars
  <2> QED BY <1>0, <2>1 DEF InUse
<1>4. CASE Wake \/ OnTimerReturns \/ Tick \/ UNCHANGED vars
  <2>1. UNCHANGED <<source, document, config, pc>>
    BY <1>4 DEF Wake, OnTimerReturns, Tick, vars, startVars
  <2> QED BY <1>0, <2>1
<1> QED BY <1>1, <1>2, <1>3, <1>4 DEF Next, MainThread, TimerThread

(* For any trees and any dictionaries, however many nodes or entries they  *)
(* have and in whatever order: undefined behaviour comes of a type that is *)
(* wrong or of a zero interval only, an exception of a field id that is no *)
(* number or of the JSON reader; what is put to use has the right types    *)
(* and means what the document says, and a tree that is has resources in   *)
(* its last <psych> node only (config.cc:84-1027).                         *)
THEOREM DocumentObeyed == Spec => []DocumentDecides
<1>1. Init => ClockInv /\ DocumentInv
  <2> SUFFICES ASSUME Init PROVE ClockInv /\ DocumentInv
    OBVIOUS
  <2>1. now \in 0..Day - 1 /\ Day \in Nat
    BY ClockAssumption DEF Init
  <2>2. ClockInv
    BY <2>1 DEF Init, ClockInv
  <2>3. DocumentInv
    BY DEF Init, DocumentInv, Given, InUse
  <2> QED BY <2>2, <2>3
<1>2. ClockInv /\ DocumentInv /\ [Next]_vars => (ClockInv /\ DocumentInv)'
  BY ClockStep, DocumentStep
<1>3. DocumentInv => DocumentDecides
  <2> SUFFICES ASSUME DocumentInv PROVE DocumentDecides
    OBVIOUS
  <2>1. ASSUME pc \in InUse, source = "xml" PROVE XmlMeaning
    <3>1. document \in Seq(ConfigNode)
      BY <2>1, DocumentsAssumption DEF DocumentInv, Given
    <3>2. IsConfig(config) /\ TreeMeans(config, document) /\ Validate(config)
      BY <2>1 DEF DocumentInv, InUse
    <3> QED BY <3>1, <3>2, XmlMeant
  <2>2. ASSUME pc \in InUse, source = "json" PROVE WellTyped /\ JsonMeaning
    <3>1. pc # "parse"
      BY <2>2 DEF InUse
    <3> QED BY <2>2, <3>1, JsonMeant DEF DocumentInv
  <2> QED BY <2>1, <2>2 DEF DocumentInv, DocumentDecides
<1> QED BY <1>1, <1>2, <1>3, PTL DEF Spec
=============================================================================
