-------------------------- MODULE LifecycleProofs ---------------------------
(***************************************************************************)
(* For any number of instances, sessions and console events, in both       *)
(* builds: the timer thread never outlives what OnTimer uses, the list,    *)
(* the references to the SNMP thread and its walks keep to the instances   *)
(* there are, the multi handle goes before libcurl does, a single instance *)
(* is never read where it is gone, and a walk over the tables of the MIB   *)
(* returns what is there to be returned.                                   *)
(***************************************************************************)
EXTENDS Lifecycle, SequenceTheorems, FiniteSetTheorems, Induction

(* The part of TypeOK the argument needs.                                  *)
Shape ==
    /\ build \in {"application", "plugin"}
    /\ life \in [Instances -> {"absent", "new", "up", "failed", "closed", "deleting", "deleted"}]
    /\ held \in [Instances -> SUBSET Things]
    /\ pc \in {"idle", "init", "loop", "clear"}
    /\ cur \in Instances
    /\ step \in 1..11
    /\ pc = "init" => step <= Len(InitOrder)
    /\ pc = "clear" => step <= Len(ClearOrder)

(* Init builds in order: what precedes the current stage is there, except  *)
(* the SNMP agent that may be disabled, and the timer is not.              *)
Built ==
    /\ \A i \in Instances :
          life[i] \in {"absent", "new"} => held[i] = {} \/ (pc = "init" /\ i = cur)
    /\ pc = "init" =>
          /\ life[cur] = "new"
          /\ "timer" \notin held[cur]
          /\ step > 2 => "multi" \in held[cur]
          /\ step > 4 => "queue" \in held[cur]
          /\ step > 6 => "provider" \in held[cur]
          /\ step > 7 => {"streams", "connections"} \subseteq held[cur]

(* Clear starts with the timer.                                            *)
Joined == (pc = "clear" /\ step > 1) => "timer" \notin held[cur]

IInv == Shape /\ Built /\ Joined /\ TimerAlive

-----------------------------------------------------------------------------
(* The stages of Init by number.                                           *)
LEMMA Stages ==
    ASSUME build \in {"application", "plugin"}
    PROVE  /\ Len(InitOrder) \in {9, 11}
           /\ InitOrder[1] = "curl" /\ InitOrder[2] = "multi"
           /\ InitOrder[3] = "rfa" /\ InitOrder[4] = "queue"
           /\ InitOrder[5] = "log" /\ InitOrder[6] = "provider"
           /\ InitOrder[7] = "streams"
           /\ \A k \in 1..Len(InitOrder) :
                 InitOrder[k] \in Things /\ (InitOrder[k] = "timer" <=> k = Len(InitOrder))
<1>1. CASE build = "application"
  <2>1. InitOrder = <<"curl", "multi", "rfa", "queue", "log", "provider", "streams",
                      "snmp", "timer">>
    BY <1>1 DEF InitOrder
  <2>2. \A k \in 1..9 : k = 1 \/ k = 2 \/ k = 3 \/ k = 4 \/ k = 5 \/ k = 6 \/ k = 7
                         \/ k = 8 \/ k = 9
    OBVIOUS
  <2> QED BY <2>1, <2>2 DEF Things
<1>2. CASE build = "plugin"
  <2>1. InitOrder = <<"curl", "multi", "rfa", "queue", "log", "provider", "streams",
                      "pump", "snmp", "tcl", "timer">>
    BY <1>2 DEF InitOrder
  <2>2. \A k \in 1..11 : k = 1 \/ k = 2 \/ k = 3 \/ k = 4 \/ k = 5 \/ k = 6 \/ k = 7
                         \/ k = 8 \/ k = 9 \/ k = 10 \/ k = 11
    OBVIOUS
  <2> QED BY <2>1, <2>2 DEF Things
<1> QED BY <1>1, <1>2

(* Clear begins with the timer.                                            *)
LEMMA ClearStages == Len(ClearOrder) = 10 /\ ClearOrder[1] = "timer"
BY DEF ClearOrder

(* What the threads other than the owner's do leaves all of this alone.    *)
LEMMA Bystanders ==
    ASSUME IInv, UNCHANGED <<build, life, held, pc, cur, step>>
    PROVE  IInv'
BY DEF IInv, Shape, Built, Joined, TimerAlive, InitOrder, ClearOrder

LEMMA IInit == Init => IInv
<1> SUFFICES ASSUME Init PROVE IInv
  OBVIOUS
<1> QED BY DEF Init, IInv, Shape, Built, Joined, TimerAlive

(* Calls from outside: held stays, or loses the Tcl commands.              *)
LEMMA CallsKeep ==
    ASSUME IInv, Calls
    PROVE  IInv'
<1> USE DEF ownVars, instVars, curlVars, snmpVars
<1> USE Stages, ClearStages
<1>1. PICK i \in Instances :
        Construct(i) \/ Start(i) \/ ConfigRejected(i) \/ Destroy(i) \/ Delete(i)
  BY DEF Calls
<1>2. CASE Construct(i)
  BY <1>2 DEF Construct, IInv, Shape, Built, Joined, TimerAlive
<1>3. CASE Start(i)
  <2>1. build' = build /\ held' = held /\ life' = life /\ pc' = "init" /\ cur' = i
        /\ step' = 1 /\ life[i] = "new" /\ pc = "idle"
    BY <1>3 DEF Start
  <2>2. held[i] = {}
    BY <2>1 DEF IInv, Built
  <2>3. InitOrder' = InitOrder
    BY <2>1 DEF InitOrder
  <2>4. Shape'
    BY <2>1, <2>3 DEF IInv, Shape
  <2> QED BY <2>1, <2>2, <2>4 DEF IInv, Built, Joined, TimerAlive
<1>4. CASE ConfigRejected(i)
  BY <1>4 DEF ConfigRejected, IInv, Shape, Built, Joined, TimerAlive
<1>5. CASE Destroy(i)
  <2>1. /\ build' = build /\ pc' = "clear" /\ cur' = i /\ step' = 1 /\ pc # "init"
        /\ life' = [life EXCEPT ![i] = "closed"]
        /\ held' = [held EXCEPT ![i] = @ \ {"tcl"}]
    BY <1>5 DEF Destroy
  <2>2. Shape'
    BY <2>1 DEF IInv, Shape
  <2>3. TimerAlive'
    BY <2>1 DEF IInv, Shape, TimerAlive
  <2> QED BY <2>1, <2>2, <2>3 DEF IInv, Shape, Built, Joined
<1>6. CASE Delete(i)
  BY <1>6 DEF Delete, IInv, Shape, Built, Joined, TimerAlive
<1> QED BY <1>1, <1>2, <1>3, <1>4, <1>5, <1>6

(* Init fails: nothing but members of Things is left, and no timer thread. *)
LEMMA FailKeeps ==
    ASSUME IInv, pc = "init", UNCHANGED build,
           NEW things \in SUBSET Things, "timer" \notin things, InitFails(things)
    PROVE  IInv'
<1> USE Stages, ClearStages
<1>1. /\ cur' = cur /\ step' = 1 /\ pc' \in {"idle", "clear"}
      /\ held' = [held EXCEPT ![cur] = things]
      /\ life' = [life EXCEPT ![cur] = "failed"]
  BY DEF InitFails
<1>2. Shape'
  BY <1>1 DEF IInv, Shape
<1>3. TimerAlive'
  BY <1>1 DEF IInv, Shape, TimerAlive
<1> QED BY <1>1, <1>2, <1>3 DEF IInv, Shape, Built, Joined

(* A stage of Init succeeds: it adds what it made to what was there.       *)
LEMMA AdvanceKeeps ==
    ASSUME IInv, pc = "init", UNCHANGED build, Advance,
           NEW made \in SUBSET Things,
           held' = [held EXCEPT ![cur] = @ \cup made],
           InitOrder[step] # "snmp" => InitOrder[step] \in made,
           "timer" \in made => InitOrder[step] = "timer",
           InitOrder[step] = "streams" => "connections" \in made
    PROVE  IInv'
<1> USE Stages
<1> USE DEF IInv
<1>1. InitOrder' = InitOrder
  BY DEF InitOrder
<1>2. held'[cur] = held[cur] \cup made /\ \A i \in Instances \ {cur} : held'[i] = held[i]
  BY DEF Shape
<1>3. CASE step < Len(InitOrder)
  <2>1. step' = step + 1 /\ pc' = pc /\ life' = life /\ cur' = cur
    BY <1>3 DEF Advance
  <2>2. "timer" \notin made
    BY <1>3 DEF Shape
  <2>3. Shape'
    BY <1>1, <1>3, <2>1, <1>2 DEF Shape
  <2>4. step \in 1..11
    BY DEF Shape
  <2>5. step = 2 => "multi" \in made
    BY DEF Shape
  <2>6. step = 4 => "queue" \in made
    BY DEF Shape
  <2>7. step = 6 => "provider" \in made
    BY DEF Shape
  <2>8. step = 7 => {"streams", "connections"} \subseteq made
    BY DEF Shape
  <2>9. Built'
    <3>1. \A i \in Instances :
            life'[i] \in {"absent", "new"} => held'[i] = {} \/ (pc' = "init" /\ i = cur')
      BY <1>2, <2>1 DEF Built
    <3>2. life'[cur'] = "new" /\ "timer" \notin held'[cur']
      BY <1>2, <2>1, <2>2 DEF Built
    <3>3. step' > 2 => "multi" \in held'[cur']
      BY <1>2, <2>1, <2>4, <2>5 DEF Built
    <3>4. step' > 4 => "queue" \in held'[cur']
      BY <1>2, <2>1, <2>4, <2>6 DEF Built
    <3>5. step' > 6 => "provider" \in held'[cur']
      BY <1>2, <2>1, <2>4, <2>7 DEF Built
    <3>6. step' > 7 => {"streams", "connections"} \subseteq held'[cur']
      BY <1>2, <2>1, <2>4, <2>8 DEF Built
    <3> QED BY <3>1, <3>2, <3>3, <3>4, <3>5, <3>6 DEF Built
  <2>10. TimerAlive'
    BY <1>2, <2>2 DEF TimerAlive, Built
  <2> QED BY <2>1, <2>3, <2>9, <2>10 DEF Joined
<1>4. CASE step = Len(InitOrder)
  <2>1. /\ step' = 1 /\ pc' \in {"loop", "idle"} /\ cur' = cur
        /\ life' = [life EXCEPT ![cur] = "up"]
    BY <1>4 DEF Advance
  <2>2. Shape'
    BY <1>1, <2>1, <1>2 DEF Shape
  <2>3. step > 7
    BY <1>4 DEF Shape
  <2>4. {"multi", "provider", "queue", "streams", "connections"} \subseteq held[cur]
    BY <2>3 DEF Built, Shape
  <2>5. TimerAlive'
    BY <1>2, <2>4 DEF TimerAlive
  <2>6. Built'
    BY <1>2, <2>1 DEF Built, Shape
  <2> QED BY <2>1, <2>2, <2>5, <2>6 DEF Joined
<1> QED BY <1>3, <1>4 DEF Shape

(* A stage of Clear takes one thing away, in the first place the timer.    *)
LEMMA ClearKeeps ==
    ASSUME IInv, pc = "clear", UNCHANGED build, ClearNext(AfterClear),
           held' = [held EXCEPT ![cur] = @ \ {ClearOrder[step]}]
    PROVE  IInv'
<1> USE ClearStages
<1> USE DEF IInv
<1>1. held'[cur] = held[cur] \ {ClearOrder[step]}
      /\ \A i \in Instances \ {cur} : held'[i] = held[i]
  BY DEF Shape
<1>2. "timer" \notin held'[cur]
  BY <1>1 DEF Joined, Shape
<1>3. cur' = cur /\ pc' \in {"clear", "idle"} /\ (pc' = "clear" => step < 10)
      /\ step' \in {1, step + 1} /\ (pc' = "idle" => step' = 1)
  BY DEF ClearNext, Shape
<1>4. AfterClear \in {"absent", "new", "up", "failed", "closed", "deleting", "deleted"}
      /\ (AfterClear \in {"absent", "new"} => AfterClear = life[cur])
  BY DEF AfterClear, Shape
<1>5. life' = life \/ life' = [life EXCEPT ![cur] = AfterClear]
  BY DEF ClearNext
<1>6. Shape'
  <2>1. life' \in [Instances -> {"absent", "new", "up", "failed", "closed", "deleting", "deleted"}]
    BY <1>4, <1>5 DEF Shape
  <2>2. held' \in [Instances -> SUBSET Things]
    BY DEF Shape
  <2>3. step' \in 1..11 /\ (pc' = "clear" => step' <= 10)
    BY <1>3 DEF Shape
  <2> QED BY <1>3, <2>1, <2>2, <2>3 DEF Shape, ClearOrder
<1>7. TimerAlive'
  BY <1>1, <1>2 DEF TimerAlive
<1>8. Built'
  <2> SUFFICES ASSUME NEW i \in Instances, life'[i] \in {"absent", "new"}
               PROVE  held'[i] = {}
    BY <1>3 DEF Built
  <2>1. life[i] \in {"absent", "new"}
    BY <1>4, <1>5 DEF Shape
  <2>2. held[i] = {}
    BY <2>1 DEF Built
  <2> QED BY <1>1, <2>2
<1> QED BY <1>2, <1>3, <1>6, <1>7, <1>8 DEF Joined

LEMMA InCallKeeps ==
    ASSUME IInv, InCall
    PROVE  IInv'
<1> USE DEF ownVars, instVars, curlVars, snmpVars
<1> USE Stages
<1>1. held[cur] \in SUBSET Things /\ (pc = "init" => "timer" \notin held[cur])
  BY DEF IInv, Shape, Built
<1>2. pc = "init" => InitOrder[step] \in Things
  BY DEF IInv, Shape
<1>3. CASE InitCurl
  <2>1. pc = "init" /\ InitOrder[step] = "curl" /\ UNCHANGED build
    BY <1>3 DEF InitCurl, At
  <2>2. CASE InitFails(held[cur])
    BY <1>1, <2>1, <2>2, FailKeeps
  <2>3. CASE held' = [held EXCEPT ![cur] = @ \cup {"curl"}] /\ Advance
    <3>1. {"curl"} \in SUBSET Things
      BY DEF Things
    <3> QED BY <2>1, <2>3, <3>1, AdvanceKeeps
  <2> QED BY <1>3, <2>2, <2>3 DEF InitCurl
<1>4. CASE InitStage
  <2> DEFINE stage == InitOrder[step]
             made == IF stage = "streams" THEN {stage, "connections"} ELSE {stage}
  <2>1. pc = "init" /\ stage \notin {"curl", "snmp"} /\ UNCHANGED build
    BY <1>4 DEF InitStage
  <2>2. made \subseteq Things
    BY <1>2, <2>1 DEF Things
  <2>3. CASE held' = [held EXCEPT ![cur] = @ \cup made] /\ Advance
    BY <2>1, <2>2, <2>3, AdvanceKeeps
  <2>4. ASSUME NEW some \in SUBSET (made \cap StoredFirst), InitFails(held[cur] \cup some)
        PROVE  IInv'
    <3>1. held[cur] \cup some \in SUBSET Things
      BY <1>1, <2>2
    <3>2. "timer" \notin held[cur] \cup some
      BY <1>1, <2>1 DEF StoredFirst
    <3> HIDE DEF made, stage
    <3> QED BY <2>1, <2>4, <3>1, <3>2, FailKeeps
  <2> QED BY <1>4, <2>3, <2>4 DEF InitStage
<1>5. CASE InitSnmp
  <2>1. pc = "init" /\ InitOrder[step] = "snmp" /\ UNCHANGED build
    BY <1>5 DEF InitSnmp, At
  <2>2. CASE InitFails(held[cur])
    BY <1>1, <2>1, <2>2, FailKeeps
  <2>3. CASE held' = [held EXCEPT ![cur] = @ \cup {"snmp"}] /\ Advance
    <3>1. {"snmp"} \in SUBSET Things
      BY DEF Things
    <3> QED BY <2>1, <2>3, <3>1, AdvanceKeeps
  <2>4. CASE held' = held /\ Advance
    <3> DEFINE none == {}
    <3>1. held' = [held EXCEPT ![cur] = @ \cup none] /\ none \in SUBSET Things
      BY <2>4 DEF IInv, Shape
    <3>2. "timer" \notin none
      OBVIOUS
    <3> HIDE DEF none
    <3> QED BY <2>1, <2>4, <3>1, <3>2, AdvanceKeeps
  <2> QED BY <1>5, <2>2, <2>3, <2>4 DEF InitSnmp
<1>6. CASE ClearStep
  BY <1>6, ClearKeeps DEF ClearStep
<1>7. CASE SnmpSignal
  BY <1>7, Bystanders DEF SnmpSignal
<1>8. CASE SnmpClear
  BY <1>8, ClearKeeps DEF SnmpClear, Clearing
<1>9. CASE ClearCurl
  BY <1>9, ClearKeeps DEF ClearCurl, Clearing
<1> QED BY <1>3, <1>4, <1>5, <1>6, <1>7, <1>8, <1>9 DEF InCall

LEMMA IStep == IInv /\ [Next]_vars => IInv'
<1> SUFFICES ASSUME IInv, [Next]_vars PROVE IInv'
  OBVIOUS
<1> USE DEF ownVars, instVars, curlVars, snmpVars
<1>1. CASE Calls
  BY <1>1, CallsKeep
<1>2. CASE InCall
  BY <1>2, InCallKeeps
<1>3. ASSUME NEW table \in {"plugin", "session"}, WalkFirst(table) PROVE IInv'
  BY <1>3, Bystanders DEF WalkFirst, Row, Crash
<1>4. CASE SnmpThread
  BY <1>4, Bystanders DEF SnmpThread, WalkNext, Row, WalkHandler, SnmpExit, PumpFreed, Crash
<1>5. ASSUME NEW h \in 1..MaxCtrl, CtrlCheck(h) \/ CtrlThread(h) PROVE IInv'
  BY <1>5, Bystanders DEF CtrlCheck, CtrlThread, CtrlLock, CtrlDeactivate, CtrlRelease, CtrlOnly
<1>6. CASE Stopped \/ UNCHANGED vars
  BY <1>6, Bystanders DEF Stopped, vars
<1> QED BY <1>1, <1>2, <1>3, <1>4, <1>5, <1>6 DEF Next

(* On whatever path Init fails or Clear is reached, in either build and    *)
(* with any number of instances, the timer thread has been joined before   *)
(* anything OnTimer uses is gone (psych.cc:634-639).                       *)
THEOREM TimerSafe == Spec => []TimerAlive
<1>1. IInv => TimerAlive
  BY DEF IInv
<1> QED BY <1>1, IInit, IStep, PTL DEF Spec
-----------------------------------------------------------------------------
(* How the owner's thread moves the instances.                             *)

(* A stage of Init succeeds, a stage of Init fails, a stage of Clear is    *)
(* done.                                                                   *)
Adding ==
    /\ pc = "init" /\ Advance
    /\ \E made \in SUBSET (Things \cap {InitOrder[step], "connections"}) :
          held' = [held EXCEPT ![cur] = @ \cup made]
Failing ==
    /\ pc = "init"
    /\ \E some \in SUBSET StoredFirst : InitFails(held[cur] \cup some)
Removing ==
    /\ pc = "clear" /\ ClearNext(AfterClear)
    /\ held' = [held EXCEPT ![cur] = @ \ {ClearOrder[step]}]
Elsewhere == UNCHANGED <<life, held, pc, cur, step, global_list>>

LEMMA InCallMoves ==
    ASSUME IInv, InCall
    PROVE  /\ Adding \/ Failing \/ Removing \/ Elsewhere
           /\ UNCHANGED <<build, global_list>>
<1> USE DEF ownVars, instVars, curlVars, snmpVars
<1>1. held[cur] \in SUBSET Things /\ (pc = "init" => InitOrder[step] \in Things)
  BY Stages DEF IInv, Shape
<1>2. held \in [Instances -> SUBSET Things] /\ cur \in Instances
  BY DEF IInv, Shape
<1>3. CASE InitCurl
  <2>1. pc = "init" /\ InitOrder[step] = "curl" /\ UNCHANGED <<build, global_list>>
    BY <1>3 DEF InitCurl, At
  <2>2. CASE InitFails(held[cur])
    <3> DEFINE some == {}
    <3>1. some \in SUBSET StoredFirst /\ held[cur] \cup some = held[cur]
      OBVIOUS
    <3> QED BY <2>1, <2>2, <3>1 DEF Failing
  <2>3. CASE held' = [held EXCEPT ![cur] = @ \cup {"curl"}] /\ Advance
    <3>1. {"curl"} \in SUBSET (Things \cap {InitOrder[step], "connections"})
      BY <2>1 DEF Things
    <3> QED BY <2>1, <2>3, <3>1 DEF Adding
  <2> QED BY <1>3, <2>1, <2>2, <2>3 DEF InitCurl
<1>4. CASE InitStage
  <2> DEFINE stage == InitOrder[step]
             made == IF stage = "streams" THEN {stage, "connections"} ELSE {stage}
  <2>1. pc = "init" /\ UNCHANGED <<build, global_list>>
    BY <1>4 DEF InitStage
  <2>2. CASE held' = [held EXCEPT ![cur] = @ \cup made] /\ Advance
    <3>1. made \in SUBSET (Things \cap {InitOrder[step], "connections"})
      BY <1>1, <2>1 DEF Things
    <3> QED BY <2>1, <2>2, <3>1 DEF Adding
  <2>3. ASSUME NEW some \in SUBSET (made \cap StoredFirst), InitFails(held[cur] \cup some)
        PROVE  Failing
    <3>1. some \in SUBSET StoredFirst
      OBVIOUS
    <3> QED BY <2>1, <2>3, <3>1 DEF Failing
  <2> QED BY <1>4, <2>1, <2>2, <2>3 DEF InitStage
<1>5. CASE InitSnmp
  <2>1. pc = "init" /\ InitOrder[step] = "snmp" /\ UNCHANGED <<build, global_list>>
    BY <1>5 DEF InitSnmp, At
  <2>2. CASE InitFails(held[cur])
    <3> DEFINE some == {}
    <3>1. some \in SUBSET StoredFirst /\ held[cur] \cup some = held[cur]
      OBVIOUS
    <3> QED BY <2>1, <2>2, <3>1 DEF Failing
  <2>3. CASE held' = [held EXCEPT ![cur] = @ \cup {"snmp"}] /\ Advance
    <3>1. {"snmp"} \in SUBSET (Things \cap {InitOrder[step], "connections"})
      BY <2>1 DEF Things
    <3> QED BY <2>1, <2>3, <3>1 DEF Adding
  <2>4. CASE held' = held /\ Advance
    <3>1. held' = [held EXCEPT ![cur] = @ \cup {}]
      BY <1>2, <2>4
    <3> QED BY <2>1, <2>4, <3>1 DEF Adding
  <2> QED BY <1>5, <2>1, <2>2, <2>3, <2>4 DEF InitSnmp
<1>6. CASE ClearStep
  BY <1>6 DEF ClearStep, Removing
<1>7. CASE SnmpSignal
  BY <1>7 DEF SnmpSignal, Elsewhere
<1>8. CASE SnmpClear
  BY <1>8 DEF SnmpClear, Clearing, Removing
<1>9. CASE ClearCurl
  BY <1>9 DEF ClearCurl, Clearing, Removing
<1> QED BY <1>3, <1>4, <1>5, <1>6, <1>7, <1>8, <1>9 DEF InCall

LEMMA Moves ==
    ASSUME IInv, [Next]_vars
    PROVE  \/ Calls
           \/ InCall /\ (Adding \/ Failing \/ Removing) /\ UNCHANGED <<build, global_list>>
           \/ Elsewhere /\ UNCHANGED build
<1> USE DEF ownVars, instVars, curlVars, snmpVars, Elsewhere
<1>1. CASE InCall
  BY <1>1, InCallMoves
<1>2. ASSUME NEW table \in {"plugin", "session"}, WalkFirst(table)
      PROVE  Elsewhere /\ UNCHANGED build
  BY <1>2 DEF WalkFirst, Row, Crash
<1>3. CASE SnmpThread
  BY <1>3 DEF SnmpThread, WalkNext, Row, WalkHandler, SnmpExit, PumpFreed, Crash
<1>4. ASSUME NEW h \in 1..MaxCtrl, CtrlCheck(h) \/ CtrlThread(h)
      PROVE  Elsewhere /\ UNCHANGED build
  BY <1>4 DEF CtrlCheck, CtrlThread, CtrlLock, CtrlDeactivate, CtrlRelease, CtrlOnly
<1>5. CASE Stopped \/ UNCHANGED vars
  BY <1>5 DEF Stopped, vars
<1> QED BY <1>1, <1>2, <1>3, <1>4, <1>5 DEF Next
-----------------------------------------------------------------------------
(* The list of instances.                                                  *)

(* A sequence without its p-th element.                                    *)
LEMMA RemoveAtProperties ==
    ASSUME NEW S, NEW s \in Seq(S), NEW p \in 1..Len(s)
    PROVE  /\ RemoveAt(s, p) \in Seq(S)
           /\ Len(RemoveAt(s, p)) = Len(s) - 1
           /\ \A m \in 1..(Len(s) - 1) : RemoveAt(s, p)[m] = IF m < p THEN s[m] ELSE s[m + 1]
<1> DEFINE u == SubSeq(s, 1, p - 1)
           v == SubSeq(s, p + 1, Len(s))
<1>0. Len(s) \in Nat /\ p \in Int /\ 1 <= p /\ p <= Len(s)
  BY LenProperties
<1>1. \A k \in 1..Len(s) : s[k] \in S
  BY ElementOfSeq
<1>2. /\ u \in Seq(S) /\ Len(u) = p - 1
      /\ \A m \in 1..(p - 1) : u[m] = s[m]
  <2>1. \A k \in 1..(p - 1) : s[k] \in S
    BY <1>0, <1>1
  <2>2. /\ u \in Seq(S)
        /\ Len(u) = IF 1 <= p - 1 THEN (p - 1) - 1 + 1 ELSE 0
        /\ \A m \in 1..((p - 1) - 1 + 1) : u[m] = s[1 + m - 1]
    BY <1>0, <2>1, SubSeqProperties
  <2> HIDE DEF u
  <2> QED BY <1>0, <2>2
<1>3. /\ v \in Seq(S) /\ Len(v) = Len(s) - p
      /\ \A m \in 1..(Len(s) - p) : v[m] = s[p + m]
  <2>1. \A k \in (p + 1)..Len(s) : s[k] \in S
    BY <1>0, <1>1
  <2>2. /\ v \in Seq(S)
        /\ Len(v) = IF p + 1 <= Len(s) THEN Len(s) - (p + 1) + 1 ELSE 0
        /\ \A m \in 1..(Len(s) - (p + 1) + 1) : v[m] = s[(p + 1) + m - 1]
    BY <1>0, <2>1, SubSeqProperties
  <2> HIDE DEF v
  <2> QED BY <1>0, <2>2
<1>4. RemoveAt(s, p) = u \o v
  BY DEF RemoveAt
<1> HIDE DEF u, v
<1>5. /\ u \o v \in Seq(S) /\ Len(u \o v) = Len(u) + Len(v)
      /\ \A m \in 1..(Len(u) + Len(v)) : (u \o v)[m] = IF m <= Len(u) THEN u[m] ELSE v[m - Len(u)]
  BY <1>2, <1>3, ConcatProperties
<1>6. ASSUME NEW m \in 1..(Len(s) - 1)
      PROVE  (u \o v)[m] = IF m < p THEN s[m] ELSE s[m + 1]
  <2>1. CASE m < p
    BY <1>0, <1>2, <1>3, <1>5, <2>1
  <2>2. CASE ~(m < p)
    <3>1. (u \o v)[m] = v[m - (p - 1)] /\ m - (p - 1) \in 1..(Len(s) - p)
      BY <1>0, <1>2, <1>3, <1>5, <2>2
    <3> QED BY <1>0, <1>3, <2>2, <3>1
  <2> QED BY <2>1, <2>2
<1> QED BY <1>0, <1>2, <1>3, <1>4, <1>5, <1>6

Listable == {"new", "up", "failed", "closed"}

(* Every living instance that is not being deleted is listed, once.        *)
ListInv ==
    /\ global_list \in Seq(Instances)
    /\ \A m, n \in 1..Len(global_list) : global_list[m] = global_list[n] => m = n
    /\ \A i \in Instances : Listed(i) <=> life[i] \in Listable

(* Clear runs for an instance that Init or MainLoop has left, or that is   *)
(* being deleted.                                                          *)
CallInv ==
    /\ pc = "clear" => life[cur] \in {"failed", "closed", "deleting"}
    /\ \A i \in Instances : life[i] = "deleting" => pc = "clear" /\ cur = i

LEMMA CallStep ==
    ASSUME IInv, CallInv, [Next]_vars
    PROVE  CallInv'
<1> USE DEF IInv, Shape, CallInv, ownVars, instVars
<1>1. CASE Calls
  BY <1>1 DEF Calls, Construct, Start, ConfigRejected, Destroy, Delete, Built
<1>2. CASE Adding
  BY <1>2 DEF Adding, Advance, Built
<1>3. CASE Failing
  BY <1>3 DEF Failing, InitFails, Built
<1>4. CASE Removing
  BY <1>4 DEF Removing, ClearNext, AfterClear
<1>5. CASE Elsewhere
  BY <1>5 DEF Elsewhere
<1> QED BY <1>1, <1>2, <1>3, <1>4, <1>5, Moves

(* The position of an instance is where it is listed.                      *)
LEMMA PositionIs ==
    ASSUME ListInv, NEW n \in 1..Len(global_list)
    PROVE  Position(global_list[n]) = n
<1>1. DOMAIN global_list = 1..Len(global_list)
  BY LenProperties DEF ListInv
<1> QED BY <1>1 DEF Position, ListInv

LEMMA ListStep ==
    ASSUME IInv, CallInv, ListInv, [Next]_vars
    PROVE  ListInv'
<1> USE DEF IInv, Shape, Listable
<1>0. /\ DOMAIN global_list = 1..Len(global_list) /\ Len(global_list) \in Nat
      /\ \A n \in 1..Len(global_list) : global_list[n] \in Instances
  BY LenProperties, ElementOfSeq DEF ListInv
<1>1. ASSUME UNCHANGED global_list,
             \A i \in Instances : life'[i] \in Listable <=> life[i] \in Listable
      PROVE  ListInv'
  BY <1>1 DEF ListInv, Listed
<1>2. ASSUME NEW i \in Instances, Construct(i) PROVE ListInv'
  <2> DEFINE new == Append(global_list, i)
  <2>1. /\ global_list' = new /\ life[i] = "absent"
        /\ life' = [life EXCEPT ![i] = "new"]
    BY <1>2 DEF Construct
  <2>2. /\ new \in Seq(Instances) /\ Len(new) = Len(global_list) + 1
        /\ \A n \in 1..Len(global_list) : new[n] = global_list[n]
        /\ new[Len(global_list) + 1] = i
    BY AppendProperties DEF ListInv
  <2>3. DOMAIN new = 1..(Len(global_list) + 1)
    BY <2>2, LenProperties
  <2>4. \A n \in 1..Len(global_list) : global_list[n] # i
    BY <1>0, <2>1 DEF ListInv, Listed
  <2> HIDE DEF new
  <2>5. \A m, n \in 1..Len(new) : new[m] = new[n] => m = n
    BY <1>0, <2>2, <2>4 DEF ListInv
  <2>6. ASSUME NEW j \in Instances PROVE (\E n \in DOMAIN new : new[n] = j) <=> life'[j] \in Listable
    <3>1. CASE j = i
      BY <1>0, <2>1, <2>2, <2>3, <3>1
    <3>2. CASE j # i
      <4>1. (\E n \in DOMAIN new : new[n] = j) <=> Listed(j)
        BY <1>0, <2>2, <2>3, <3>2 DEF Listed
      <4> QED BY <2>1, <3>2, <4>1 DEF ListInv
    <3> QED BY <3>1, <3>2
  <2> QED BY <2>1, <2>2, <2>5, <2>6 DEF ListInv, Listed
<1>3. ASSUME NEW i \in Instances, Delete(i) PROVE ListInv'
  <2> DEFINE p == Position(i)
             new == RemoveAt(global_list, p)
  <2>1. /\ global_list' = new /\ life[i] \in Listable
        /\ life' = [life EXCEPT ![i] = "deleting"]
    BY <1>3 DEF Delete
  <2>2. p \in 1..Len(global_list) /\ global_list[p] = i
    BY <1>0, <2>1 DEF ListInv, Listed, Position
  <2>3. /\ new \in Seq(Instances) /\ Len(new) = Len(global_list) - 1
        /\ \A m \in 1..(Len(global_list) - 1) :
              new[m] = IF m < p THEN global_list[m] ELSE global_list[m + 1]
    BY <2>2, RemoveAtProperties DEF ListInv
  <2>4. DOMAIN new = 1..(Len(global_list) - 1)
    BY <2>3, LenProperties
  <2> HIDE DEF new, p
  <2>5. \A m, n \in 1..Len(new) : new[m] = new[n] => m = n
    <3> SUFFICES ASSUME NEW m \in 1..Len(new), NEW n \in 1..Len(new), new[m] = new[n] PROVE m = n
      OBVIOUS
    <3> DEFINE k(x) == IF x < p THEN x ELSE x + 1
    <3>1. /\ k(m) \in 1..Len(global_list) /\ new[m] = global_list[k(m)]
          /\ k(n) \in 1..Len(global_list) /\ new[n] = global_list[k(n)]
      BY <1>0, <2>2, <2>3
    <3>2. k(m) = k(n)
      BY <3>1 DEF ListInv
    <3> QED BY <2>2, <2>3, <3>2
  <2>6. ASSUME NEW j \in Instances PROVE (\E n \in DOMAIN new : new[n] = j) <=> life'[j] \in Listable
    <3>1. CASE j = i
      <4>1. ASSUME NEW n \in DOMAIN new PROVE new[n] # i
        <5>1. (IF n < p THEN n ELSE n + 1) \in 1..Len(global_list) \ {p}
          BY <1>0, <2>2, <2>4
        <5> QED BY <2>2, <2>3, <2>4, <5>1 DEF ListInv
      <4> QED BY <2>1, <3>1, <4>1
    <3>2. CASE j # i
      <4>1. ASSUME NEW n \in 1..Len(global_list), global_list[n] = j PROVE \E m \in DOMAIN new : new[m] = j
        <5>1. CASE n < p
          BY <1>0, <2>2, <2>3, <2>4, <4>1, <5>1
        <5>2. CASE n > p
          <6>1. n - 1 \in DOMAIN new /\ ~(n - 1 < p) /\ n - 1 + 1 = n
            BY <1>0, <2>2, <2>4, <5>2
          <6> QED BY <2>3, <2>4, <4>1, <6>1
        <5> QED BY <2>2, <3>2, <4>1, <5>1, <5>2
      <4>2. ASSUME NEW m \in DOMAIN new, new[m] = j PROVE Listed(j)
        <5>1. (IF m < p THEN m ELSE m + 1) \in 1..Len(global_list)
          BY <1>0, <2>2, <2>4
        <5> QED BY <1>0, <2>3, <2>4, <4>2, <5>1 DEF Listed
      <4>3. (\E n \in DOMAIN new : new[n] = j) <=> Listed(j)
        BY <1>0, <4>1, <4>2 DEF Listed
      <4> QED BY <2>1, <3>2, <4>3 DEF ListInv
    <3> QED BY <3>1, <3>2
  <2> QED BY <2>1, <2>3, <2>5, <2>6 DEF ListInv, Listed
<1>4. CASE \E i \in Instances : Start(i) \/ ConfigRejected(i) \/ Destroy(i)
  BY <1>1, <1>4 DEF Start, ConfigRejected, Destroy, instVars
<1>5. CASE Adding /\ UNCHANGED global_list
  BY <1>1, <1>5 DEF Adding, Advance, Built
<1>6. CASE Failing /\ UNCHANGED global_list
  BY <1>1, <1>6 DEF Failing, InitFails, Built
<1>7. CASE Removing /\ UNCHANGED global_list
  BY <1>1, <1>7 DEF Removing, ClearNext, AfterClear
<1>8. CASE Elsewhere
  BY <1>1, <1>8 DEF Elsewhere
<1> QED BY <1>2, <1>3, <1>4, <1>5, <1>6, <1>7, <1>8, Moves DEF Calls
-----------------------------------------------------------------------------
(* The SNMP agents.                                                        *)

(* What Clear has dealt with is gone for good, and an agent is never there *)
(* without the provider its tables read.                                   *)
AgentInv ==
    /\ pc = "clear" => \A k \in 1..(step - 1) : ClearOrder[k] \notin held[cur]
    /\ \A i \in Instances : life[i] = "deleted" => "snmp" \notin held[i]
    /\ \A i \in Instances : "snmp" \in held[i] => "provider" \in held[i]

(* Clear closes the agent second and resets the provider fifth.            *)
LEMMA ClearNumbers ==
    \A k \in 1..10 : /\ ClearOrder[k] = "snmp" <=> k = 2
                     /\ ClearOrder[k] = "provider" <=> k = 5
                     /\ ClearOrder[k] = "multi" <=> k = 9
                     /\ ClearOrder[k] = "curl" <=> k = 10
                     /\ ClearOrder[k] = "pump" <=> k = 3
<1>1. \A k \in 1..10 : k = 1 \/ k = 2 \/ k = 3 \/ k = 4 \/ k = 5 \/ k = 6 \/ k = 7 \/ k = 8
                        \/ k = 9 \/ k = 10
  OBVIOUS
<1> QED BY <1>1 DEF ClearOrder

LEMMA AgentStep ==
    ASSUME IInv, CallInv, AgentInv, [Next]_vars
    PROVE  AgentInv'
<1> USE DEF IInv, AgentInv, ownVars, instVars
<1>0. /\ ClearOrder' = ClearOrder /\ Len(ClearOrder) = 10 /\ step \in 1..11 /\ cur \in Instances
      /\ held \in [Instances -> SUBSET Things]
      /\ life \in [Instances -> {"absent", "new", "up", "failed", "closed", "deleting", "deleted"}]
      /\ pc = "clear" => step \in 1..10
  BY ClearStages DEF ClearOrder, Shape
<1>1. CASE Calls
  <2>1. ASSUME NEW i \in Instances, Destroy(i) PROVE AgentInv'
    BY <1>0, <2>1 DEF Destroy
  <2>2. ASSUME NEW i \in Instances, Construct(i) \/ Start(i) \/ ConfigRejected(i) \/ Delete(i)
        PROVE  AgentInv'
    BY <1>0, <2>2 DEF Construct, Start, ConfigRejected, Delete
  <2> QED BY <1>1, <2>1, <2>2 DEF Calls
<1>2. CASE Adding
  <2>1. PICK made \in SUBSET (Things \cap {InitOrder[step], "connections"}) :
          held' = [held EXCEPT ![cur] = @ \cup made]
    BY <1>2 DEF Adding
  <2>2. "snmp" \in made => "provider" \in held[cur]
    <3> SUFFICES ASSUME "snmp" \in made PROVE step > 6
      BY <1>0, <1>2 DEF Adding, Built
    <3>1. InitOrder[step] = "snmp"
      OBVIOUS
    <3> QED BY <1>0, <3>1, Stages DEF Shape
  <2>3. life[cur] = "new" /\ pc' # "clear" /\ cur' = cur
        /\ (life' = life \/ life' = [life EXCEPT ![cur] = "up"])
    BY <1>2 DEF Adding, Advance, Built
  <2> QED BY <1>0, <2>1, <2>2, <2>3
<1>3. CASE Failing
  <2>1. PICK some \in SUBSET StoredFirst : InitFails(held[cur] \cup some)
    BY <1>3 DEF Failing
  <2>2. "snmp" \notin some
    BY DEF StoredFirst
  <2>3. life' = [life EXCEPT ![cur] = "failed"] /\ step' = 1 /\ cur' = cur
        /\ held' = [held EXCEPT ![cur] = held[cur] \cup some]
    BY <2>1 DEF InitFails
  <2> QED BY <1>0, <2>2, <2>3
<1>4. CASE Removing
  <2>1. /\ held' = [held EXCEPT ![cur] = @ \ {ClearOrder[step]}]
        /\ pc = "clear" /\ cur' = cur
        /\ \/ step < 10 /\ step' = step + 1 /\ life' = life
           \/ step = 10 /\ step' = 1 /\ pc' = "idle" /\ life' = [life EXCEPT ![cur] = AfterClear]
    BY <1>0, <1>4 DEF Removing, ClearNext
  <2>2. pc' = "clear" => \A k \in 1..(step' - 1) : ClearOrder[k] \notin held'[cur]
    BY <1>0, <2>1
  <2>3. \A i \in Instances : life'[i] = "deleted" => "snmp" \notin held'[i]
    <3>1. CASE step < 10
      BY <1>0, <2>1, <3>1
    <3>2. CASE step = 10
      <4>1. "snmp" \notin held[cur]
        BY <1>0, <2>1, <3>2, ClearNumbers
      <4> QED BY <1>0, <2>1, <3>2, <4>1
    <3> QED BY <1>0, <2>1, <3>1, <3>2
  <2>4. \A i \in Instances : "snmp" \in held'[i] => "provider" \in held'[i]
    <3>1. CASE ClearOrder[step] = "provider"
      <4>1. step = 5
        BY <1>0, <2>1, <3>1, ClearNumbers
      <4>2. "snmp" \notin held[cur]
        BY <2>1, <4>1, ClearNumbers
      <4> QED BY <1>0, <2>1, <4>2
    <3>2. CASE ClearOrder[step] # "provider"
      BY <1>0, <2>1, <3>2
    <3> QED BY <3>1, <3>2
  <2> QED BY <1>0, <2>1, <2>2, <2>3, <2>4
<1>5. CASE Elsewhere
  BY <1>0, <1>5 DEF Elsewhere
<1> QED BY <1>1, <1>2, <1>3, <1>4, <1>5, Moves

(* No agent goes without the reference it took: an exception of Init may   *)
(* leave one too many, never one too few.                                  *)
RefInv == IsFiniteSet(Holders) /\ Cardinality(Holders) <= snmp_ref /\ snmp_ref \in Nat

LEMMA RefStep ==
    ASSUME IInv, RefInv, [Next]_vars
    PROVE  RefInv'
<1>0. cur \in Instances /\ held \in [Instances -> SUBSET Things] /\ Cardinality(Holders) \in Nat
  BY FS_CardinalityType DEF IInv, Shape, RefInv
<1>1. ASSUME Holders' = Holders, snmp_ref' \in Nat, snmp_ref' >= snmp_ref PROVE RefInv'
  BY <1>0, <1>1 DEF RefInv
<1>2. ASSUME Holders' = Holders \cup {cur}, snmp_ref' = snmp_ref + 1 PROVE RefInv'
  <2>1. IsFiniteSet(Holders \cup {cur}) /\ Cardinality(Holders \cup {cur}) <= Cardinality(Holders) + 1
    <3>1. IsFiniteSet(Holders)
      BY DEF RefInv
    <3>2. /\ IsFiniteSet(Holders \cup {cur})
          /\ Cardinality(Holders \cup {cur}) =
                IF cur \in Holders THEN Cardinality(Holders) ELSE Cardinality(Holders) + 1
      BY <3>1, FS_AddElement
    <3> QED BY <1>0, <3>2
  <2>2. Cardinality(Holders \cup {cur}) \in Nat
    BY <2>1, FS_CardinalityType
  <2>3. Cardinality(Holders') <= snmp_ref + 1
    BY <1>0, <1>2, <2>1, <2>2 DEF RefInv
  <2> QED BY <1>2, <2>1, <2>3 DEF RefInv
<1>3. ASSUME cur \in Holders, Holders' = Holders \ {cur}, snmp_ref' = snmp_ref - 1 PROVE RefInv'
  <2>1. IsFiniteSet(Holders \ {cur}) /\ Cardinality(Holders \ {cur}) = Cardinality(Holders) - 1
    BY <1>3, FS_RemoveElement DEF RefInv
  <2>2. Cardinality(Holders \ {cur}) \in Nat
    BY <2>1, FS_CardinalityType
  <2> QED BY <1>0, <1>3, <2>1, <2>2 DEF RefInv
<1>4. CASE InitSnmp
  <2>1. CASE snmp_ref' = snmp_ref + 1 /\ held' = [held EXCEPT ![cur] = @ \cup {"snmp"}]
    <3>1. Holders' = Holders \cup {cur}
      BY <1>0, <2>1 DEF Holders
    <3> QED BY <1>2, <2>1, <3>1
  <2>2. CASE held' = held /\ snmp_ref' = snmp_ref
    BY <1>1, <2>2 DEF Holders, RefInv
  <2>3. CASE snmp_ref' \in {snmp_ref} \cup (IF snmp_ref = 0 THEN {1} ELSE {}) /\ InitFails(held[cur])
    <3>1. Holders' = Holders
      BY <1>0, <2>3 DEF Holders, InitFails
    <3>2. snmp_ref' \in Nat /\ snmp_ref' >= snmp_ref
      BY <2>3 DEF RefInv
    <3> QED BY <1>1, <3>1, <3>2
  <2> QED BY <1>4, <2>1, <2>2, <2>3 DEF InitSnmp, snmpVars
<1>5. CASE SnmpClear
  <2>1. held' = [held EXCEPT ![cur] = @ \ {"snmp"}]
    BY <1>5 DEF SnmpClear
  <2>2. Holders' = Holders \ {cur}
    BY <1>0, <2>1 DEF Holders
  <2>3. CASE "snmp" \in held[cur]
    BY <1>0, <1>3, <1>5, <2>2, <2>3 DEF SnmpClear, Holders
  <2>4. CASE "snmp" \notin held[cur]
    BY <1>0, <1>1, <1>5, <2>2, <2>4 DEF SnmpClear, Holders, RefInv, snmpVars
  <2> QED BY <2>3, <2>4
<1>6. CASE Calls
  <2>1. snmp_ref' = snmp_ref /\ Holders' = Holders
    BY <1>0, <1>6 DEF Calls, Construct, Start, ConfigRejected, Destroy, Delete, snmpVars, instVars, Holders
  <2> QED BY <1>1, <2>1 DEF RefInv
<1>7. CASE InitCurl \/ InitStage \/ ClearStep \/ SnmpSignal \/ ClearCurl
  <2>1. snmp_ref' = snmp_ref
    BY <1>7 DEF InitCurl, InitStage, ClearStep, SnmpSignal, ClearCurl, snmpVars
  <2>2. Holders' = Holders
    <3>1. CASE InitCurl
      BY <1>0, <3>1 DEF InitCurl, InitFails, Holders
    <3>2. CASE InitStage
      BY <1>0, <3>2 DEF InitStage, InitFails, Holders, StoredFirst
    <3>3. CASE ClearStep
      BY <1>0, <3>3 DEF ClearStep, Holders
    <3>4. CASE SnmpSignal
      BY <3>4 DEF SnmpSignal, instVars, Holders
    <3>5. CASE ClearCurl
      BY <1>0, <3>5 DEF ClearCurl, Holders
    <3> QED BY <1>7, <3>1, <3>2, <3>3, <3>4, <3>5
  <2> QED BY <1>1, <2>1, <2>2 DEF RefInv
<1>8. CASE \E table \in {"plugin", "session"} : WalkFirst(table)
  BY <1>1, <1>8 DEF WalkFirst, Row, Crash, RefInv, snmpVars, instVars, Holders
<1>9. CASE SnmpThread
  BY <1>1, <1>9 DEF SnmpThread, WalkNext, Row, WalkHandler, SnmpExit, PumpFreed, Crash, RefInv, snmpVars,
                    instVars, Holders
<1>10. CASE \E h \in 1..MaxCtrl : CtrlCheck(h) \/ CtrlThread(h)
  BY <1>1, <1>10 DEF CtrlCheck, CtrlThread, CtrlLock, CtrlDeactivate, CtrlRelease, CtrlOnly, RefInv, snmpVars,
                     Holders
<1>11. CASE Stopped \/ UNCHANGED vars
  BY <1>1, <1>11 DEF Stopped, vars, RefInv, snmpVars, instVars, Holders
<1> QED BY <1>4, <1>5, <1>6, <1>7, <1>8, <1>9, <1>10, <1>11 DEF Next, InCall
-----------------------------------------------------------------------------
(* Walks.                                                                  *)

(* What a walk of either table goes on to, and what it looks at, is listed.*)
NextRow(table, i, s) == IF table = "session" THEN Hunt(i, s) ELSE NextInstance(i)

LEMMA NextRowListed ==
    ASSUME ListInv, NEW i \in Instances, Listed(i), NEW s \in Nat, NEW table
    PROVE  LET next == NextRow(table, i, s)
           IN  /\ next.psych_it \in Instances \cup {NoInstance}
               /\ next.psych_it # NoInstance => Listed(next.psych_it)
               /\ next.session_it \in Nat
               /\ \A j \in next.seen : j \in Instances /\ Listed(j)
<1>0. /\ DOMAIN global_list = 1..Len(global_list) /\ Len(global_list) \in Nat
      /\ \A n \in 1..Len(global_list) : global_list[n] \in Instances /\ Listed(global_list[n])
  BY LenProperties, ElementOfSeq DEF ListInv, Listed
<1>1. NoInstance \notin Instances
  BY InstancesAssumption
<1>2. CASE table # "session"
  <2>1. Position(i) \in 1..Len(global_list)
    BY <1>0 DEF Listed, Position
  <2>2. Position(i) < Len(global_list) => Position(i) + 1 \in 1..Len(global_list)
    BY <1>0, <2>1
  <2> QED BY <1>0, <1>1, <1>2, <2>2 DEF NextRow, NextInstance
<1>3. CASE table = "session"
  <2> DEFINE later == {n \in DOMAIN global_list : n > Position(i)}
             fit == {n \in later : NumSessions[global_list[n]] >= 2}
             next == CHOOSE n \in fit : \A m \in fit : n <= m
  <2>1. Hunt(i, s) =
          IF s < NumSessions[i]
          THEN [psych_it |-> i, session_it |-> s + 1, seen |-> {i}]
          ELSE IF fit = {}
          THEN [psych_it |-> NoInstance, session_it |-> 0,
                seen |-> {i} \cup {global_list[n] : n \in later}]
          ELSE [psych_it |-> global_list[next], session_it |-> 2,
                seen |-> {i} \cup {global_list[n] : n \in {m \in later : m <= next}}]
    BY DEF Hunt
  <2>2. later \subseteq 1..Len(global_list) /\ fit \subseteq later
    BY <1>0
  <2>3. ASSUME fit # {} PROVE next \in 1..Len(global_list)
    <3>1. fit \in SUBSET Nat
      BY <1>0
    <3>2. \E n \in fit : \A m \in fit : n <= m
      BY <2>3, <3>1, LeastNumber
    <3>3. next \in fit
      BY <3>2
    <3> QED BY <2>2, <3>3
  <2> HIDE DEF later, fit, next
  <2>4. CASE s < NumSessions[i]
    BY <1>1, <1>3, <2>1, <2>4 DEF NextRow
  <2>5. CASE ~(s < NumSessions[i]) /\ fit = {}
    BY <1>0, <1>1, <1>3, <2>1, <2>2, <2>5 DEF NextRow
  <2>6. CASE ~(s < NumSessions[i]) /\ fit # {}
    BY <1>0, <1>1, <1>3, <2>1, <2>2, <2>3, <2>6 DEF NextRow
  <2> QED BY <2>4, <2>5, <2>6
<1> QED BY <1>2, <1>3

(* A walk stands at an instance that exists or existed, and so do its rows.*)
WalkType ==
    /\ walk.table \in {"none", "plugin", "session"}
    /\ walk.psych_it \in Instances \cup {NoInstance}
    /\ walk.psych_it # NoInstance => walk.psych_it \in Constructed
    /\ walk.session_it \in Nat
    /\ walk.rows \in Seq(Instances \X Nat)
    /\ \A n \in 1..Len(walk.rows) : walk.rows[n][1] \in Constructed

(* Nobody who existed goes back to not having been constructed.            *)
LEMMA Grows ==
    ASSUME IInv, CallInv, [Next]_vars, NEW i \in Constructed
    PROVE  i \in Constructed'
<1> USE DEF IInv, Shape, CallInv, Constructed, ownVars, instVars
<1>1. CASE Calls
  BY <1>1 DEF Calls, Construct, Start, ConfigRejected, Destroy, Delete
<1>2. CASE Adding
  BY <1>2 DEF Adding, Advance
<1>3. CASE Failing
  BY <1>3 DEF Failing, InitFails
<1>4. CASE Removing
  BY <1>4 DEF Removing, ClearNext, AfterClear
<1>5. CASE Elsewhere
  BY <1>5 DEF Elsewhere
<1> QED BY <1>1, <1>2, <1>3, <1>4, <1>5, Moves

(* One row more, or a provider that is not there.                          *)
LEMMA RowSteps ==
    ASSUME ListInv, IInv, NEW i \in Instances, Listed(i), NEW s \in Nat, NEW table \in {"plugin", "session"},
           NEW rows \in Seq(Instances \X Nat), \A n \in 1..Len(rows) : rows[n][1] \in Constructed,
           NEW of, Row(table, i, s, rows, of)
    PROVE  /\ UNCHANGED <<life, held, global_list>>
           /\ \/ UNCHANGED walk /\ crash' = "provider"
                 /\ \E j \in Instances : Listed(j) /\ "provider" \notin held[j]
              \/ WalkType' /\ UNCHANGED crash
<1> DEFINE hunt == NextRow(table, i, s)
<1>1. /\ hunt.psych_it \in Instances \cup {NoInstance}
      /\ hunt.psych_it # NoInstance => Listed(hunt.psych_it)
      /\ hunt.session_it \in Nat
      /\ \A j \in hunt.seen : j \in Instances /\ Listed(j)
  BY NextRowListed
<1>2. Row(table, i, s, rows, of) =
        IF \E j \in hunt.seen : "provider" \notin held[j]
        THEN Crash("provider")
        ELSE /\ walk' = [table |-> table, psych_it |-> hunt.psych_it,
                         session_it |-> hunt.session_it,
                         rows |-> Append(rows, <<i, s>>), of |-> of]
             /\ UNCHANGED <<build, instVars, ownVars, curlVars, snmpVars, ctrl, crash>>
  BY DEF Row, NextRow
<1> HIDE DEF hunt
<1>3. CASE \E j \in hunt.seen : "provider" \notin held[j]
  BY <1>1, <1>2, <1>3 DEF Crash, instVars
<1>4. CASE ~\E j \in hunt.seen : "provider" \notin held[j]
  <2>1. /\ walk' = [table |-> table, psych_it |-> hunt.psych_it,
                    session_it |-> hunt.session_it,
                    rows |-> Append(rows, <<i, s>>), of |-> of]
        /\ UNCHANGED <<life, held, global_list, crash>>
    BY <1>2, <1>4 DEF instVars
  <2>2. \A j \in Instances : Listed(j) => j \in Constructed
    BY DEF ListInv, Listable, Constructed
  <2>3. Constructed' = Constructed
    BY <2>1 DEF Constructed
  <2>4. /\ Append(rows, <<i, s>>) \in Seq(Instances \X Nat)
        /\ Len(Append(rows, <<i, s>>)) = Len(rows) + 1
        /\ \A n \in 1..Len(rows) : Append(rows, <<i, s>>)[n] = rows[n]
        /\ Append(rows, <<i, s>>)[Len(rows) + 1] = <<i, s>>
    BY AppendProperties
  <2>5. \A n \in 1..(Len(rows) + 1) : Append(rows, <<i, s>>)[n][1] \in Constructed
    <3> SUFFICES ASSUME NEW n \in 1..(Len(rows) + 1) PROVE Append(rows, <<i, s>>)[n][1] \in Constructed
      OBVIOUS
    <3>0. Len(rows) \in Nat
      BY LenProperties
    <3>1. CASE n = Len(rows) + 1
      BY <2>2, <2>4, <3>1
    <3>2. CASE n # Len(rows) + 1
      <4>1. n \in 1..Len(rows)
        BY <3>0, <3>2
      <4> QED BY <2>4, <4>1
    <3> QED BY <3>1, <3>2
  <2> DEFINE new == Append(rows, <<i, s>>)
  <2> HIDE DEF new
  <2>6. new \in Seq(Instances \X Nat) /\ \A n \in 1..Len(new) : new[n][1] \in Constructed
    BY <2>4, <2>5 DEF new
  <2>7. /\ walk'.table = table /\ walk'.psych_it = hunt.psych_it
        /\ walk'.session_it = hunt.session_it /\ walk'.rows = new
    BY <2>1 DEF new
  <2>8. WalkType'
    BY <1>1, <2>2, <2>3, <2>6, <2>7 DEF WalkType
  <2> QED BY <2>1, <2>8
<1> QED BY <1>3, <1>4

LEMMA WalkTypeStep ==
    ASSUME IInv, CallInv, ListInv, WalkType, [Next]_vars
    PROVE  WalkType'
<1>1. \A i \in Constructed : i \in Constructed'
  BY Grows
<1>2. CASE UNCHANGED walk
  BY <1>1, <1>2 DEF WalkType
<1>3. ASSUME NEW table \in {"plugin", "session"}, WalkFirst(table) PROVE WalkType'
  <2> DEFINE s == IF table = "session" THEN 1 ELSE 0
             rows == <<>>
  <2>1. Row(table, global_list[1], s, rows, global_list) /\ global_list # <<>>
    BY <1>3 DEF WalkFirst
  <2>2. 1 \in 1..Len(global_list) /\ DOMAIN global_list = 1..Len(global_list)
    BY <2>1, EmptySeq, LenProperties DEF ListInv
  <2>3. global_list[1] \in Instances /\ Listed(global_list[1])
    BY <2>2, ElementOfSeq DEF ListInv, Listed
  <2>4. rows \in Seq(Instances \X Nat) /\ Len(rows) = 0
    BY EmptySeq
  <2>5. s \in Nat /\ \A n \in 1..Len(rows) : rows[n][1] \in Constructed
    BY <2>4
  <2> HIDE DEF s, rows
  <2> QED BY <1>2, <2>1, <2>3, <2>4, <2>5, RowSteps
<1>4. CASE WalkNext
  <2>1. CASE Listed(walk.psych_it)
    <3>1. /\ walk.psych_it \in Instances /\ walk.table \in {"plugin", "session"}
          /\ Row(walk.table, walk.psych_it, walk.session_it, walk.rows, walk.of)
      BY <1>4, <2>1 DEF WalkNext, WalkType
    <3> QED BY <1>2, <2>1, <3>1, RowSteps DEF WalkType
  <2>2. CASE ~Listed(walk.psych_it)
    BY <1>2, <1>4, <2>2 DEF WalkNext, Crash
  <2> QED BY <2>1, <2>2
<1>5. CASE WalkHandler
  <2>1. UNCHANGED walk \/ walk' = NoWalk
    BY <1>5 DEF WalkHandler, Crash
  <2>3. CASE walk' = NoWalk
    <3>1. /\ walk'.table = "none" /\ walk'.psych_it = NoInstance /\ walk'.session_it = 0
          /\ walk'.rows = <<>>
      BY <2>3 DEF NoWalk
    <3> DEFINE none == <<>>
    <3>2. none \in Seq(Instances \X Nat) /\ Len(none) = 0
      BY EmptySeq
    <3>3. walk'.rows = none
      BY <3>1
    <3> HIDE DEF none
    <3> QED BY <3>1, <3>2, <3>3 DEF WalkType
  <2> QED BY <1>2, <2>1, <2>3
<1>6. \/ \E table \in {"plugin", "session"} : WalkFirst(table)
      \/ WalkNext \/ WalkHandler
      \/ UNCHANGED walk
  BY DEF Next, Calls, Construct, Start, ConfigRejected, Destroy, Delete, InCall, InitCurl, InitStage, InitSnmp,
         ClearStep, SnmpSignal, SnmpClear, ClearCurl, SnmpThread, SnmpExit, PumpFreed, Crash,
         CtrlCheck, CtrlThread, CtrlLock, CtrlDeactivate, CtrlRelease, CtrlOnly, Stopped, vars
<1> QED BY <1>2, <1>3, <1>4, <1>5, <1>6
-----------------------------------------------------------------------------
(* Type correctness.                                                       *)

RestType ==
    /\ active \in [Instances -> BOOLEAN]
    /\ curl_ref \in Int /\ curl_global \in BOOLEAN
    /\ snmp \in [state : {"off", "on", "orphan"}, owner : Instances \cup {NoInstance},
                 stop : BOOLEAN]
    /\ ctrl \in [1..MaxCtrl -> {"none", "checked", "holds", "deactivated", "done"}]
    /\ crash \in {"no", "provider", "iterator", "context", "pump", "ctrl"}

LEMMA RestStep ==
    ASSUME IInv, RestType, [Next]_vars
    PROVE  RestType'
<1> USE DEF RestType, curlVars, snmpVars, instVars, ownVars
<1>0. cur \in Instances
  BY DEF IInv, Shape
<1>1. CASE Calls
  BY <1>1 DEF Calls, Construct, Start, ConfigRejected, Destroy, Delete
<1>2. CASE InitCurl
  <2>1. curl_ref' \in Int /\ UNCHANGED <<active, snmp, ctrl, crash>>
    BY <1>2 DEF InitCurl
  <2>2. curl_global' \in {TRUE, FALSE, curl_global}
    <3>1. curl_global' = (curl_global \/ curl_ref = 0) \/ curl_global' = curl_global
      BY <1>2 DEF InitCurl
    <3> QED BY <3>1
  <2> QED BY <2>1, <2>2
<1>3. CASE InitStage
  <2>1. active' \in [Instances -> BOOLEAN]
    BY <1>0, <1>3 DEF InitStage
  <2> QED BY <1>3, <2>1 DEF InitStage
<1>4. CASE InitSnmp
  <2>1. snmp' \in {snmp, [state |-> "on", owner |-> cur, stop |-> FALSE]}
    BY <1>4 DEF InitSnmp
  <2>2. [state |-> "on", owner |-> cur, stop |-> FALSE]
           \in [state : {"off", "on", "orphan"}, owner : Instances \cup {NoInstance}, stop : BOOLEAN]
    BY <1>0
  <2>3. snmp' \in [state : {"off", "on", "orphan"}, owner : Instances \cup {NoInstance}, stop : BOOLEAN]
    BY <2>1, <2>2
  <2> QED BY <1>4, <2>3 DEF InitSnmp
<1>5. CASE ClearStep
  BY <1>0, <1>5 DEF ClearStep
<1>6. CASE SnmpSignal \/ SnmpClear
  <2>1. snmp' \in {snmp, [snmp EXCEPT !.stop = TRUE], [snmp EXCEPT !.state = "orphan"]}
    BY <1>6 DEF SnmpSignal, SnmpClear
  <2>2. snmp' \in [state : {"off", "on", "orphan"}, owner : Instances \cup {NoInstance}, stop : BOOLEAN]
    BY <2>1
  <2> QED BY <1>6, <2>2 DEF SnmpSignal, SnmpClear
<1>7. CASE ClearCurl
  BY <1>7 DEF ClearCurl
<1>8. CASE \E table \in {"plugin", "session"} : WalkFirst(table)
  BY <1>8 DEF WalkFirst, Row, Crash
<1>9. CASE SnmpThread
  BY <1>9 DEF SnmpThread, WalkNext, Row, WalkHandler, SnmpExit, PumpFreed, Crash
<1>10. CASE \E h \in 1..MaxCtrl : CtrlCheck(h) \/ CtrlThread(h)
  BY <1>0, <1>10 DEF CtrlCheck, CtrlThread, CtrlLock, CtrlDeactivate, CtrlRelease, CtrlOnly
<1>11. CASE Stopped \/ UNCHANGED vars
  BY <1>11 DEF Stopped, vars
<1> QED BY <1>1, <1>2, <1>3, <1>4, <1>5, <1>6, <1>7, <1>8, <1>9, <1>10, <1>11 DEF Next, InCall

(* What holds however many instances there are.                            *)
Base == IInv /\ CallInv /\ ListInv /\ AgentInv /\ RefInv /\ WalkType /\ RestType

LEMMA BaseInit == Init => Base
<1> SUFFICES ASSUME Init PROVE Base
  OBVIOUS
<1>1. CallInv /\ AgentInv
  BY DEF Init, CallInv, AgentInv
<1>2. ListInv
  <2>1. global_list = <<>> /\ \A i \in Instances : life[i] = "absent"
    BY DEF Init
  <2>2. global_list \in Seq(Instances) /\ Len(global_list) = 0
    BY <2>1, EmptySeq
  <2>3. DOMAIN global_list = {}
    BY <2>2, LenProperties
  <2> QED BY <2>1, <2>2, <2>3 DEF ListInv, Listable, Listed
<1>3. RefInv
  <2>1. Holders = {} /\ snmp_ref = 0
    BY DEF Init, Holders
  <2> QED BY <2>1, FS_EmptySet DEF RefInv
<1>4. WalkType
  <2>1. walk.table = "none" /\ walk.psych_it = NoInstance /\ walk.session_it = 0 /\ walk.rows = <<>>
    BY DEF Init, NoWalk
  <2>2. walk.rows \in Seq(Instances \X Nat) /\ Len(walk.rows) = 0
    BY <2>1, EmptySeq
  <2> QED BY <2>1, <2>2 DEF WalkType
<1>5. RestType
  <2>1. /\ active = [i \in Instances |-> FALSE] /\ curl_ref = 0 /\ curl_global = FALSE
        /\ snmp = [state |-> "off", owner |-> NoInstance, stop |-> FALSE]
        /\ ctrl = [h \in 1..MaxCtrl |-> "none"] /\ crash = "no"
    BY DEF Init
  <2>2. snmp \in [state : {"off", "on", "orphan"}, owner : Instances \cup {NoInstance}, stop : BOOLEAN]
    BY <2>1
  <2>3. active \in [Instances -> BOOLEAN]
    BY <2>1
  <2>4. ctrl \in [1..MaxCtrl -> {"none", "checked", "holds", "deactivated", "done"}]
    BY <2>1
  <2>5. curl_global \in BOOLEAN
    <3>1. curl_global = FALSE
      BY DEF Init
    <3> QED BY ONLY <3>1
  <2>6. curl_ref \in Int /\ crash \in {"no", "provider", "iterator", "context", "pump", "ctrl"}
    BY <2>1
  <2> QED BY <2>2, <2>3, <2>4, <2>5, <2>6 DEF RestType
<1> QED BY <1>1, <1>2, <1>3, <1>4, <1>5, IInit DEF Base

LEMMA BaseStep == Base /\ [Next]_vars => Base'
<1> SUFFICES ASSUME Base, [Next]_vars PROVE Base'
  OBVIOUS
<1> QED BY IStep, CallStep, ListStep, AgentStep, RefStep, WalkTypeStep, RestStep DEF Base

LEMMA BaseHolds == Spec => []Base
BY BaseInit, BaseStep, PTL DEF Spec

(* What hangs together stays together, for any number of instances in both *)
(* builds: Listed exactly between constructor and destructor, and once; a  *)
(* reference to the SNMP thread for every agent that has run, so that no   *)
(* agent gives back one that is not there; and walks that know nobody who  *)
(* was not constructed.                                                    *)
THEOREM TypeCorrect == Spec => []TypeOK
<1>1. ASSUME Base PROVE TypeOK
  <2>1. DOMAIN global_list = 1..Len(global_list) /\ DOMAIN walk.rows = 1..Len(walk.rows)
    BY <1>1, LenProperties DEF Base, ListInv, WalkType
  <2>2. /\ global_list \in Seq(Instances)
        /\ \A m, n \in DOMAIN global_list : global_list[m] = global_list[n] => m = n
        /\ \A i \in Instances : Listed(i) <=> life[i] \in {"new", "up", "failed", "closed"}
    BY <1>1, <2>1 DEF Base, ListInv, Listable
  <2>3. /\ walk.table \in {"none", "plugin", "session"}
        /\ walk.psych_it \in Constructed \cup {NoInstance}
        /\ walk.session_it \in Nat
        /\ walk.rows \in Seq(Instances \X Nat)
        /\ \A n \in DOMAIN walk.rows : walk.rows[n][1] \in Constructed
    BY <1>1, <2>1 DEF Base, WalkType
  <2>4. snmp_ref \in Nat /\ Cardinality(Holders) <= snmp_ref
    BY <1>1 DEF Base, RefInv
  <2> QED BY <1>1, <2>2, <2>3, <2>4 DEF Base, IInv, Shape, RestType, TypeOK
<1> QED BY <1>1, BaseHolds, PTL
-----------------------------------------------------------------------------
(* libcurl, with one instance.                                             *)

(* Stages of Init that come once, by what they make.                       *)
LEMMA StagesOnce ==
    ASSUME build \in {"application", "plugin"}
    PROVE  /\ \A k \in 1..Len(InitOrder) :
                 /\ InitOrder[k] = "curl" <=> k = 1
                 /\ InitOrder[k] = "multi" <=> k = 2
                 /\ InitOrder[k] = "queue" <=> k = 4
           /\ \A j, k \in 1..Len(InitOrder) :
                 InitOrder[j] = "snmp" /\ InitOrder[k] = "snmp" => j = k
<1>1. CASE build = "application"
  <2>1. InitOrder = <<"curl", "multi", "rfa", "queue", "log", "provider", "streams",
                      "snmp", "timer">>
    BY <1>1 DEF InitOrder
  <2>2. \A k \in 1..9 : k = 1 \/ k = 2 \/ k = 3 \/ k = 4 \/ k = 5 \/ k = 6 \/ k = 7
                         \/ k = 8 \/ k = 9
    OBVIOUS
  <2> QED BY <2>1, <2>2
<1>2. CASE build = "plugin"
  <2>1. InitOrder = <<"curl", "multi", "rfa", "queue", "log", "provider", "streams",
                      "pump", "snmp", "tcl", "timer">>
    BY <1>2 DEF InitOrder
  <2>2. \A k \in 1..11 : k = 1 \/ k = 2 \/ k = 3 \/ k = 4 \/ k = 5 \/ k = 6 \/ k = 7
                         \/ k = 8 \/ k = 9 \/ k = 10 \/ k = 11
    OBVIOUS
  <2> QED BY <2>1, <2>2
<1> QED BY <1>1, <1>2

(* What an instance holds, it has been constructed for.                    *)
LEMMA HeldConstructed ==
    ASSUME Base, NEW i \in Instances, held[i] # {}
    PROVE  i \in Constructed
BY DEF Base, IInv, Shape, Built, Constructed

(* There is nobody but the instance a call is about.                       *)
LEMMA OnlyCur ==
    ASSUME Base, Alone, pc \in {"init", "clear"}
    PROVE  cur \in Constructed /\ \A i \in Constructed : i = cur
BY DEF Base, IInv, Shape, Built, CallInv, Alone, Constructed

LEMMA AloneStep ==
    ASSUME Base, [Next]_vars, Alone'
    PROVE  Alone
BY Grows DEF Alone, Base

(* With one instance the first reference is the one that initialises       *)
(* libcurl, and the one that cleans it up is given back after multi.       *)
CurlInv ==
    Alone =>
        /\ \A i \in Instances : "multi" \in held[i] => curl_global
        /\ pc = "init" /\ step > 1 => curl_global
        /\ (\A i \in Constructed : life[i] = "new") /\ (pc = "init" => step = 1) => curl_ref = 0

LEMMA CurlStep ==
    ASSUME Base, CurlInv, [Next]_vars
    PROVE  CurlInv'
<1> SUFFICES ASSUME Alone' PROVE CurlInv'
  BY DEF CurlInv
<1> USE DEF ownVars, instVars
<1>0. Alone
  BY AloneStep
<1>a. /\ held \in [Instances -> SUBSET Things] /\ cur \in Instances /\ step \in 1..11
      /\ life \in [Instances -> {"absent", "new", "up", "failed", "closed", "deleting", "deleted"}]
      /\ pc = "init" => life[cur] = "new" /\ step \in 1..Len(InitOrder)
      /\ pc = "clear" => life[cur] \in {"failed", "closed", "deleting"} /\ step \in 1..10
      /\ build \in {"application", "plugin"}
  BY ClearStages DEF Base, IInv, Shape, Built, CallInv
<1>b. /\ \A i \in Instances : "multi" \in held[i] => curl_global
      /\ pc = "init" /\ step > 1 => curl_global
      /\ (\A i \in Constructed : life[i] = "new") /\ (pc = "init" => step = 1) => curl_ref = 0
  BY <1>0 DEF CurlInv
<1>1. CASE Calls
  <2>1. UNCHANGED <<curl_ref, curl_global>> /\ \A i \in Instances : held'[i] \subseteq held[i]
    BY <1>1, <1>a DEF Calls, Construct, Start, ConfigRejected, Destroy, Delete, curlVars
  <2>2. ASSUME NEW i \in Instances, Construct(i)
        PROVE  pc = "idle" /\ pc' = "idle" /\ \A j \in Instances : life[j] = "absent"
    <3>1. pc = "idle" /\ pc' = "idle" /\ life[i] = "absent" /\ life' = [life EXCEPT ![i] = "new"]
      BY <2>2 DEF Construct
    <3>2. i \in Constructed' /\ \A j \in Constructed : j \in Constructed' /\ j # i
      BY <1>a, <3>1 DEF Constructed
    <3> QED BY <3>1, <3>2 DEF Alone, Constructed
  <2>3. ASSUME NEW i \in Instances, Construct(i) PROVE CurlInv'
    BY <1>b, <2>1, <2>2, <2>3 DEF CurlInv, Constructed
  <2>4. ASSUME NEW i \in Instances, Start(i) PROVE CurlInv'
    BY <1>b, <2>1, <2>4 DEF Start, CurlInv, Constructed
  <2>5. ASSUME NEW i \in Instances, ConfigRejected(i) \/ Destroy(i) \/ Delete(i) PROVE CurlInv'
    <3>1. i \in Constructed' /\ life'[i] # "new" /\ pc' # "init"
      BY <1>a, <2>5 DEF ConfigRejected, Destroy, Delete, Constructed
    <3> QED BY <1>b, <2>1, <3>1 DEF CurlInv
  <2> QED BY <1>1, <2>3, <2>4, <2>5 DEF Calls
<1>2. CASE InitCurl
  <2>1. /\ pc = "init" /\ InitOrder[step] = "curl"
        /\ \/ curl_global' = (curl_global \/ curl_ref = 0) /\ Advance
           \/ UNCHANGED curl_global /\ InitFails(held[cur])
    BY <1>2 DEF InitCurl, At
  <2>2. step = 1 /\ Len(InitOrder) \in {9, 11}
    BY <1>a, <2>1, StagesOnce, Stages
  <2>3. CASE curl_global' = (curl_global \/ curl_ref = 0) /\ Advance
    <3>1. \A i \in Constructed : life[i] = "new"
      BY <1>0, <1>a, <2>1, OnlyCur
    <3>2. curl_ref = 0
      BY <1>b, <2>2, <3>1
    <3>3. curl_global'
      BY <2>3, <3>2
    <3>4. step < Len(InitOrder)
      <4>1. step = 1 /\ (Len(InitOrder) = 9 \/ Len(InitOrder) = 11)
        BY <2>2
      <4>2. \A n : n = 9 \/ n = 11 => 1 < n
        OBVIOUS
      <4> QED BY <4>1, <4>2
    <3>5. step' = step + 1 /\ pc' = pc
      BY <2>3, <3>4 DEF Advance
    <3>6. step' > 1 /\ pc' = "init"
      BY <2>1, <2>2, <3>5
    <3> QED BY <3>3, <3>6 DEF CurlInv
  <2>4. CASE UNCHANGED curl_global /\ InitFails(held[cur])
    <3>1. /\ held' = [held EXCEPT ![cur] = held[cur]] /\ life' = [life EXCEPT ![cur] = "failed"]
          /\ pc' # "init"
      BY <2>4 DEF InitFails
    <3>2. held' = held /\ cur \in Constructed' /\ life'[cur] # "new"
      BY <1>a, <3>1 DEF Constructed
    <3> QED BY <1>b, <2>4, <3>1, <3>2 DEF CurlInv
  <2> QED BY <2>1, <2>3, <2>4
<1>3. CASE Adding /\ UNCHANGED curlVars /\ InitOrder[step] # "curl"
  <2>1. pc = "init" /\ Advance /\ UNCHANGED <<curl_ref, curl_global>>
    BY <1>3 DEF Adding, curlVars
  <2>2. curl_global
    BY <1>3, <1>a, <1>b, <2>1, StagesOnce
  <2>3. \/ pc' = "init" /\ step' > 1
        \/ life' = [life EXCEPT ![cur] = "up"] /\ pc' # "init"
    <3>1. CASE step < Len(InitOrder)
      <4>1. step' = step + 1 /\ pc' = pc
        BY <2>1, <3>1 DEF Advance
      <4> QED BY <1>a, <2>1, <4>1
    <3>2. CASE ~(step < Len(InitOrder))
      BY <2>1, <3>2 DEF Advance
    <3> QED BY <3>1, <3>2
  <2>4. cur \in Constructed
    BY <1>a, <2>1 DEF Constructed
  <2>5. ~((\A i \in Constructed' : life'[i] = "new") /\ (pc' = "init" => step' = 1))
    BY <1>a, <2>3, <2>4 DEF Constructed
  <2> QED BY <2>1, <2>2, <2>5 DEF CurlInv
<1>4. CASE Failing /\ UNCHANGED curlVars
  <2>1. PICK some \in SUBSET StoredFirst : InitFails(held[cur] \cup some)
    BY <1>4 DEF Failing
  <2>2. /\ held' = [held EXCEPT ![cur] = held[cur] \cup some]
        /\ life' = [life EXCEPT ![cur] = "failed"] /\ pc' # "init"
    BY <2>1 DEF InitFails
  <2>3. "multi" \notin some
    BY DEF StoredFirst
  <2>4. cur \in Constructed' /\ life'[cur] # "new"
    BY <1>a, <2>2 DEF Constructed
  <2>5. \A i \in Instances : "multi" \in held'[i] => "multi" \in held[i]
    BY <1>a, <2>2, <2>3
  <2> QED BY <1>4, <1>b, <2>2, <2>4, <2>5 DEF CurlInv, curlVars
<1>5. CASE Removing /\ UNCHANGED curlVars
  <2>1. /\ \A i \in Instances : held'[i] \subseteq held[i]
        /\ pc' # "init" /\ life'[cur] \notin {"absent", "new"}
    BY <1>5, <1>a DEF Removing, ClearNext, AfterClear
  <2> QED BY <1>5, <1>a, <1>b, <2>1 DEF CurlInv, curlVars, Constructed
<1>6. CASE ClearCurl
  <2>1. /\ pc = "clear" /\ ClearOrder[step] = "curl" /\ ClearNext(AfterClear)
        /\ held' = [held EXCEPT ![cur] = @ \ {"curl"}]
    BY <1>6 DEF ClearCurl, Clearing
  <2>2. step = 10
    BY <1>a, <2>1, ClearNumbers
  <2>3. "multi" \notin held[cur]
    BY <2>1, <2>2, ClearNumbers DEF Base, AgentInv
  <2>4. \A i \in Instances : "multi" \notin held'[i]
    <3> SUFFICES ASSUME NEW i \in Instances, "multi" \in held'[i] PROVE FALSE
      OBVIOUS
    <3>1. "multi" \in held[i]
      BY <1>a, <2>1
    <3> QED BY <1>0, <2>1, <2>3, <3>1, HeldConstructed, OnlyCur
  <2>5. pc' # "init" /\ life'[cur] \notin {"absent", "new"}
    BY <1>a, <2>1 DEF ClearNext, AfterClear
  <2> QED BY <1>a, <2>4, <2>5 DEF CurlInv, Constructed
<1>7. CASE Elsewhere /\ UNCHANGED curlVars
  BY <1>7, <1>b DEF CurlInv, Elsewhere, curlVars, Constructed
<1>8. UNCHANGED curlVars \/ InitCurl \/ ClearCurl
  BY DEF Next, Calls, Construct, Start, ConfigRejected, Destroy, Delete, InCall, InitStage, InitSnmp,
         ClearStep, SnmpSignal, SnmpClear, WalkFirst, Row, SnmpThread, WalkNext, WalkHandler, SnmpExit,
         PumpFreed, Crash, CtrlCheck, CtrlThread, CtrlLock, CtrlDeactivate, CtrlRelease, CtrlOnly, Stopped, vars
<1>9. CASE UNCHANGED curlVars
  <2>1. ASSUME Adding, InitOrder[step] = "curl" PROVE InitCurl \/ Elsewhere
    <3>2. CASE InCall
      BY <2>1, <3>2 DEF InCall, InitStage, InitSnmp, At, ClearStep, SnmpSignal, SnmpClear, ClearCurl,
                        Clearing, Adding
    <3>3. CASE ~InCall
      <4>1. Calls \/ Elsewhere
        BY <3>3, Moves DEF Base
      <4>2. ~Calls
        BY <2>1, <1>a DEF Adding, Calls, Construct, Start, ConfigRejected, Destroy, Delete
      <4> QED BY <4>1, <4>2
    <3> QED BY <3>2, <3>3
  <2> QED BY <1>1, <1>2, <1>3, <1>4, <1>5, <1>7, <1>9, <2>1, Moves DEF Base
<1> QED BY <1>2, <1>6, <1>8, <1>9

(* With one instance the multi handle exists only while libcurl is         *)
(* initialised, on every path through Init and through both calls of       *)
(* Clear. Nothing is said of the easy handles in connections_.             *)
THEOREM CurlSafe == Spec => []CurlReady
<1>1. Init => CurlInv
  BY DEF Init, CurlInv
<1>2. Spec => []CurlInv
  BY <1>1, CurlStep, BaseHolds, PTL DEF Spec
<1>3. CurlInv => CurlReady
  BY DEF CurlInv, CurlReady
<1> QED BY <1>2, <1>3, PTL
-----------------------------------------------------------------------------
(* The SNMP thread, with one instance.                                     *)

Passed(stage) == pc = "init" /\ \E k \in 1..(step - 1) : InitOrder[k] = stage

(* The thread only runs while the one agent that started it is held: Clear *)
(* joins it before the agent lets go.                                      *)
SnmpInv ==
    Alone =>
        /\ snmp.state # "orphan"
        /\ snmp.state = "on" =>
              snmp.owner \in Instances /\ "snmp" \in held[snmp.owner] /\ snmp_ref = 1
        /\ walk # NoWalk => snmp.state = "on"
        /\ (\A i \in Constructed : life[i] = "new") /\ ~Passed("snmp") =>
              snmp_ref = 0 /\ snmp.state = "off"

LEMMA SnmpStep ==
    ASSUME Base, SnmpInv, [Next]_vars
    PROVE  SnmpInv'
<1> SUFFICES ASSUME Alone' PROVE SnmpInv'
  BY DEF SnmpInv
<1> USE DEF ownVars, instVars
<1>0. Alone
  BY AloneStep
<1>a. /\ held \in [Instances -> SUBSET Things] /\ cur \in Instances /\ step \in 1..11
      /\ life \in [Instances -> {"absent", "new", "up", "failed", "closed", "deleting", "deleted"}]
      /\ pc = "init" => life[cur] = "new" /\ step \in 1..Len(InitOrder)
      /\ pc = "clear" => life[cur] \in {"failed", "closed", "deleting"} /\ step \in 1..10
      /\ build \in {"application", "plugin"}
  BY ClearStages DEF Base, IInv, Shape, Built, CallInv
<1>b. /\ snmp.state # "orphan"
      /\ snmp.state = "on" =>
            snmp.owner \in Instances /\ "snmp" \in held[snmp.owner] /\ snmp_ref = 1
      /\ walk # NoWalk => snmp.state = "on"
      /\ (\A i \in Constructed : life[i] = "new") /\ ~Passed("snmp") =>
            snmp_ref = 0 /\ snmp.state = "off"
  BY <1>0 DEF SnmpInv
<1>c. snmp \in [state : {"off", "on", "orphan"}, owner : Instances \cup {NoInstance}, stop : BOOLEAN]
  BY DEF Base, RestType
<1>1. CASE Calls
  <2>1. /\ UNCHANGED <<snmp, snmp_ref, walk>>
        /\ \A i \in Instances : "snmp" \in held[i] => "snmp" \in held'[i]
    BY <1>1, <1>a DEF Calls, Construct, Start, ConfigRejected, Destroy, Delete, snmpVars
  <2>2. ASSUME NEW i \in Instances, Construct(i) PROVE SnmpInv'
    <3>1. pc = "idle" /\ pc' = "idle" /\ life[i] = "absent" /\ life' = [life EXCEPT ![i] = "new"]
      BY <2>2 DEF Construct
    <3>2. i \in Constructed' /\ \A j \in Constructed : j \in Constructed' /\ j # i
      BY <1>a, <3>1 DEF Constructed
    <3>3. Constructed = {}
      BY <3>2 DEF Alone, Constructed
    <3> QED BY <1>b, <2>1, <3>1, <3>3 DEF SnmpInv, Passed
  <2>3. ASSUME NEW i \in Instances, Start(i) PROVE SnmpInv'
    <3>1. pc = "idle" /\ life' = life
      BY <2>3 DEF Start
    <3> QED BY <1>b, <2>1, <3>1 DEF SnmpInv, Passed, Constructed
  <2>4. ASSUME NEW i \in Instances, ConfigRejected(i) \/ Destroy(i) \/ Delete(i) PROVE SnmpInv'
    <3>1. i \in Constructed' /\ life'[i] # "new"
      BY <1>a, <2>4 DEF ConfigRejected, Destroy, Delete, Constructed
    <3> QED BY <1>b, <2>1, <3>1 DEF SnmpInv
  <2> QED BY <1>1, <2>2, <2>3, <2>4 DEF Calls
<1>2. CASE InitSnmp
  <2>1. pc = "init" /\ InitOrder[step] = "snmp" /\ UNCHANGED <<build, walk>>
    BY <1>2 DEF InitSnmp, At
  <2>2. cur \in Constructed /\ life[cur] = "new" /\ \A i \in Constructed : life[i] = "new"
    BY <1>0, <1>a, <2>1, OnlyCur
  <2>3. ~Passed("snmp")
    <3> SUFFICES ASSUME NEW k \in 1..(step - 1), InitOrder[k] = "snmp" PROVE FALSE
      BY DEF Passed
    <3>1. k \in 1..Len(InitOrder) /\ k # step
      BY <1>a, <2>1, Stages
    <3> QED BY <1>a, <2>1, <3>1, StagesOnce
  <2>4. snmp_ref = 0 /\ snmp.state = "off" /\ walk = NoWalk
    BY <1>b, <2>2, <2>3
  <2>5. ~((\A i \in Constructed' : life'[i] = "new") /\ ~Passed("snmp")')
    <3>1. CASE InitFails(held[cur])
      <4>1. life'[cur] = "failed"
        BY <1>a, <3>1 DEF InitFails
      <4> QED BY <1>a, <4>1 DEF Constructed
    <3>2. CASE Advance /\ step < Len(InitOrder)
      <4>1. step' = step + 1 /\ pc' = "init" /\ InitOrder' = InitOrder
        BY <2>1, <3>2 DEF Advance, InitOrder
      <4>2. step \in 1..(step' - 1)
        BY <1>a, <4>1
      <4> QED BY <2>1, <4>1, <4>2 DEF Passed
    <3>3. CASE Advance /\ ~(step < Len(InitOrder))
      <4>1. life'[cur] = "up"
        BY <1>a, <3>3 DEF Advance
      <4> QED BY <1>a, <4>1 DEF Constructed
    <3> QED BY <1>2, <3>1, <3>2, <3>3 DEF InitSnmp
  <2>6. CASE /\ snmp_ref' = 1 /\ held' = [held EXCEPT ![cur] = @ \cup {"snmp"}]
             /\ snmp' \in {snmp, [state |-> "on", owner |-> cur, stop |-> FALSE]}
    <3>1. "snmp" \in held'[cur]
      BY <1>a, <2>6
    <3>2. CASE snmp' = snmp
      BY <2>1, <2>4, <2>5, <3>2 DEF SnmpInv
    <3>3. CASE snmp' = [state |-> "on", owner |-> cur, stop |-> FALSE]
      <4>1. snmp'.state = "on" /\ snmp'.owner = cur
        BY <3>3
      <4> QED BY <1>a, <2>4, <2>5, <2>6, <3>1, <4>1 DEF SnmpInv
    <3> QED BY <2>6, <3>2, <3>3
  <2>7. CASE snmp' = snmp
    BY <2>1, <2>4, <2>5, <2>7 DEF SnmpInv
  <2>8. \/ /\ snmp_ref' = snmp_ref + 1 /\ held' = [held EXCEPT ![cur] = @ \cup {"snmp"}]
           /\ snmp' \in IF snmp_ref > 0 THEN {snmp}
                        ELSE {snmp, [state |-> "on", owner |-> cur, stop |-> FALSE]}
        \/ snmp' = snmp
    BY <1>2 DEF InitSnmp, snmpVars
  <2> QED BY <2>4, <2>6, <2>7, <2>8
<1>3. CASE Adding /\ UNCHANGED <<snmpVars, walk, build>>
  <2>1. PICK made \in SUBSET (Things \cap {InitOrder[step], "connections"}) :
          held' = [held EXCEPT ![cur] = @ \cup made]
    BY <1>3 DEF Adding
  <2>2. \A i \in Instances : "snmp" \in held[i] => "snmp" \in held'[i]
    BY <1>a, <2>1
  <2>3. pc = "init" /\ Advance /\ cur \in Constructed
    BY <1>3, <1>a DEF Adding, Constructed
  <2>4. CASE step < Len(InitOrder)
    <3>1. step' = step + 1 /\ pc' = pc /\ life' = life /\ InitOrder' = InitOrder
      BY <1>3, <2>3, <2>4 DEF Advance, InitOrder
    <3>2. Passed("snmp") => Passed("snmp")'
      BY <1>a, <3>1 DEF Passed
    <3> QED BY <1>3, <1>b, <2>2, <3>1, <3>2 DEF SnmpInv, snmpVars, Constructed
  <2>5. CASE ~(step < Len(InitOrder))
    <3>1. life'[cur] = "up"
      BY <1>a, <2>3, <2>5 DEF Advance
    <3> QED BY <1>3, <1>a, <1>b, <2>2, <3>1 DEF SnmpInv, snmpVars, Constructed
  <2> QED BY <2>4, <2>5
<1>4. CASE Failing /\ UNCHANGED <<snmpVars, walk>>
  <2>1. PICK some \in SUBSET StoredFirst : InitFails(held[cur] \cup some)
    BY <1>4 DEF Failing
  <2>2. /\ held' = [held EXCEPT ![cur] = held[cur] \cup some] /\ life' = [life EXCEPT ![cur] = "failed"]
    BY <2>1 DEF InitFails
  <2>3. cur \in Constructed' /\ life'[cur] # "new"
    BY <1>a, <2>2 DEF Constructed
  <2>4. \A i \in Instances : "snmp" \in held[i] => "snmp" \in held'[i]
    BY <1>a, <2>2
  <2> QED BY <1>4, <1>b, <2>3, <2>4 DEF SnmpInv, snmpVars
<1>5. ASSUME Removing PROVE cur \in Constructed' /\ life'[cur] # "new"
  BY <1>5, <1>a DEF Removing, ClearNext, AfterClear, Constructed
<1>6. CASE Removing /\ UNCHANGED <<snmpVars, walk>> /\ ClearOrder[step] # "snmp"
  <2>1. \A i \in Instances : "snmp" \in held[i] => "snmp" \in held'[i]
    BY <1>6, <1>a DEF Removing
  <2> QED BY <1>5, <1>6, <1>b, <2>1 DEF SnmpInv, snmpVars
<1>7. CASE SnmpClear
  <2>1. /\ Clearing("snmp") /\ held' = [held EXCEPT ![cur] = @ \ {"snmp"}] /\ UNCHANGED walk
        /\ ClearNext(AfterClear)
    BY <1>7 DEF SnmpClear
  <2>2. pc = "clear" /\ Removing
    BY <2>1 DEF Clearing, Removing
  <2>3. snmp.state = "on" => snmp.owner = cur
    BY <1>0, <1>b, <2>2, HeldConstructed, OnlyCur
  <2>4. snmp.state # "on"
    <3> SUFFICES ASSUME snmp.state = "on" PROVE FALSE
      OBVIOUS
    <3>1. "snmp" \in held[cur] /\ snmp_ref = 1 /\ snmp.owner = cur
      BY <1>b, <2>3
    <3> QED BY <1>7, <3>1 DEF SnmpClear
  <2>5. snmp' = snmp
    BY <1>7, <2>4 DEF SnmpClear, snmpVars
  <2> QED BY <1>5, <1>b, <2>1, <2>2, <2>4, <2>5 DEF SnmpInv
<1>8. CASE SnmpSignal
  <2>1. snmp' = [snmp EXCEPT !.stop = TRUE] /\ UNCHANGED <<snmp_ref, held, life, pc, step, build, walk>>
    BY <1>8 DEF SnmpSignal
  <2>2. snmp'.state = snmp.state /\ snmp'.owner = snmp.owner
    BY <1>c, <2>1
  <2> QED BY <1>b, <2>1, <2>2 DEF SnmpInv, Passed, Constructed, InitOrder
<1>9. CASE UNCHANGED <<snmp_ref, held, life, pc, step, build>> /\ (WalkHandler \/ SnmpExit)
  <2>1. CASE WalkHandler
    <3>1. snmp' = snmp /\ walk' \in {walk, NoWalk}
      BY <2>1 DEF WalkHandler, Crash, snmpVars
    <3> QED BY <1>9, <1>b, <3>1 DEF SnmpInv, Passed, Constructed, InitOrder
  <2>2. CASE SnmpExit
    <3>1. snmp' = [snmp EXCEPT !.state = "off"] /\ walk = NoWalk /\ walk' = walk
      BY <2>2 DEF SnmpExit
    <3>2. snmp'.state = "off"
      BY <1>c, <3>1
    <3> QED BY <1>9, <1>b, <3>1, <3>2 DEF SnmpInv, Passed, Constructed, InitOrder
  <2> QED BY <1>9, <2>1, <2>2
<1>10. CASE UNCHANGED <<snmp_ref, snmp, held, life, pc, step, build>>
            /\ (UNCHANGED walk \/ snmp.state = "on")
  BY <1>10, <1>b DEF SnmpInv, Passed, Constructed, InitOrder
<1>11. CASE InCall
  <2>1. ASSUME ~InitSnmp, ~SnmpClear, ~SnmpSignal PROVE UNCHANGED <<snmpVars, walk>>
    BY <1>11, <2>1 DEF InCall, InitCurl, InitStage, ClearStep, ClearCurl
  <2>2. ASSUME ~InitSnmp, ~SnmpClear, ~SnmpSignal, Removing PROVE ClearOrder[step] # "snmp"
    BY <1>11, <2>2 DEF InCall, InitCurl, InitStage, At, ClearStep, ClearCurl, Clearing, Removing
  <2>3. (Adding \/ Failing \/ Removing \/ Elsewhere) /\ UNCHANGED build
    BY <1>11, InCallMoves DEF Base
  <2> QED BY <1>2, <1>3, <1>4, <1>6, <1>7, <1>8, <1>10, <2>1, <2>2, <2>3 DEF Elsewhere, snmpVars
<1>12. ASSUME NEW table \in {"plugin", "session"}, WalkFirst(table)
       PROVE  SnmpInv'
  BY <1>10, <1>12 DEF WalkFirst, Row, Crash, snmpVars
<1>13. CASE WalkNext
  <2>1. walk # NoWalk
    BY <1>13 DEF WalkNext, NoWalk
  <2> QED BY <1>10, <1>13, <1>b, <2>1 DEF WalkNext, Row, Crash, snmpVars
<1>14. CASE WalkHandler \/ SnmpExit \/ PumpFreed
  BY <1>9, <1>10, <1>14 DEF WalkHandler, SnmpExit, PumpFreed, Crash, snmpVars
<1>15. ASSUME NEW h \in 1..MaxCtrl, CtrlCheck(h) \/ CtrlThread(h) PROVE SnmpInv'
  BY <1>10, <1>15 DEF CtrlCheck, CtrlThread, CtrlLock, CtrlDeactivate, CtrlRelease, CtrlOnly, snmpVars
<1>16. CASE Stopped \/ UNCHANGED vars
  BY <1>10, <1>16 DEF Stopped, vars, snmpVars
<1> QED BY <1>1, <1>11, <1>12, <1>13, <1>14, <1>15, <1>16 DEF Next, SnmpThread
-----------------------------------------------------------------------------
(* Console events.                                                         *)

Deactivated == \E h \in 1..MaxCtrl : ctrl[h] = "deactivated" \/ ctrl[h] = "done"
Called == \E h \in 1..MaxCtrl : ctrl[h] # "none"

(* MainLoop is only left once a call of CtrlHandler has deactivated the    *)
(* queue: until then it is there for every other call to lock.             *)
CtrlInv ==
    /\ build = "application" => Alone
    /\ Called => build = "application" /\ life[cur] \notin {"absent", "new"}
    /\ pc = "init" /\ step > 4 => active[cur]
    /\ pc = "loop" => /\ build = "application" /\ "queue" \in held[cur] /\ life[cur] = "up"
                      /\ active[cur] \/ Deactivated
    /\ Called /\ ~Deactivated => pc = "loop"

LEMMA CtrlCalls ==
    ASSUME Base, CtrlInv, Calls
    PROVE  CtrlInv'
<1> USE DEF ownVars, instVars
<1>a. /\ held \in [Instances -> SUBSET Things] /\ cur \in Instances
      /\ life \in [Instances -> {"absent", "new", "up", "failed", "closed", "deleting", "deleted"}]
      /\ build \in {"application", "plugin"}
  BY DEF Base, IInv, Shape
<1>b. /\ build = "application" => Alone
      /\ Called => build = "application" /\ life[cur] \notin {"absent", "new"}
      /\ pc = "loop" => /\ build = "application" /\ "queue" \in held[cur] /\ life[cur] = "up"
                        /\ active[cur] \/ Deactivated
      /\ Called /\ ~Deactivated => pc = "loop"
  BY DEF CtrlInv
<1>c. UNCHANGED <<build, active, ctrl>>
  BY DEF Calls, Construct, Start, ConfigRejected, Destroy, Delete
<1>d. /\ Deactivated' <=> Deactivated
      /\ Called' <=> Called
  BY <1>c DEF Deactivated, Called
<1>e. ASSUME NEW i \in Constructed, Alone, life[cur] # "absent" PROVE i = cur
  BY <1>a, <1>e DEF Alone, Constructed
<1>f. ASSUME NEW i \in Instances, ConfigRejected(i) \/ Start(i) \/ Destroy(i) \/ Delete(i)
      PROVE  Constructed' = Constructed
  BY <1>a, <1>f DEF Constructed, ConfigRejected, Start, Destroy, Delete
<1>1. ASSUME NEW i \in Instances, Construct(i) PROVE CtrlInv'
  <2>1. /\ pc = "idle" /\ pc' = "idle" /\ cur' = cur /\ life' = [life EXCEPT ![i] = "new"]
        /\ build = "application" => Constructed = {}
    BY <1>1 DEF Construct
  <2>2. ~Called
    BY <1>a, <1>b, <2>1 DEF Constructed
  <2>3. build = "application" => Alone'
    BY <1>a, <2>1 DEF Alone, Constructed
  <2> QED BY <1>c, <1>d, <2>1, <2>2, <2>3 DEF CtrlInv
<1>2. ASSUME NEW i \in Instances, Start(i) PROVE CtrlInv'
  <2>1. /\ pc = "idle" /\ pc' = "init" /\ step' = 1 /\ life[i] = "new" /\ life' = life
    BY <1>2 DEF Start
  <2>2. ~Called
    BY <1>b, <1>e, <2>1 DEF Constructed
  <2>3. Alone => Alone'
    BY <1>2, <1>f DEF Alone
  <2> QED BY <1>b, <1>c, <1>d, <2>1, <2>2, <2>3 DEF CtrlInv
<1>3. ASSUME NEW i \in Instances, ConfigRejected(i) PROVE CtrlInv'
  <2>1. pc = "idle" /\ pc' = "idle" /\ cur' = cur /\ life' = [life EXCEPT ![i] = "failed"]
    BY <1>3 DEF ConfigRejected
  <2>2. Alone => Alone'
    BY <1>3, <1>f DEF Alone
  <2> QED BY <1>a, <1>b, <1>c, <1>d, <2>1, <2>2 DEF CtrlInv
<1>4. ASSUME NEW i \in Instances, Destroy(i) PROVE CtrlInv'
  <2>1. /\ life[i] = "up" /\ pc' = "clear" /\ cur' = i /\ life' = [life EXCEPT ![i] = "closed"]
        /\ build = "application" => pc = "loop" /\ ~active[i]
    BY <1>4 DEF Destroy
  <2>2. Alone => Alone'
    BY <1>4, <1>f DEF Alone
  <2>3. Called => Deactivated
    BY <1>b, <1>e, <2>1 DEF Constructed
  <2> QED BY <1>a, <1>b, <1>c, <1>d, <2>1, <2>2, <2>3 DEF CtrlInv
<1>5. ASSUME NEW i \in Instances, Delete(i) PROVE CtrlInv'
  <2>1. /\ pc = "idle" /\ pc' = "clear" /\ cur' = i /\ life' = [life EXCEPT ![i] = "deleting"]
    BY <1>5 DEF Delete
  <2>2. Alone => Alone'
    BY <1>5, <1>f DEF Alone
  <2> QED BY <1>a, <1>b, <1>c, <1>d, <2>1, <2>2 DEF CtrlInv
<1> QED BY <1>1, <1>2, <1>3, <1>4, <1>5 DEF Calls

LEMMA CtrlInCall ==
    ASSUME Base, CtrlInv, InCall
    PROVE  CtrlInv'
<1> USE DEF ownVars, instVars
<1>a. /\ held \in [Instances -> SUBSET Things] /\ cur \in Instances /\ step \in 1..11
      /\ life \in [Instances -> {"absent", "new", "up", "failed", "closed", "deleting", "deleted"}]
      /\ pc = "init" => life[cur] = "new" /\ step \in 1..Len(InitOrder)
      /\ pc = "init" /\ step > 4 => "queue" \in held[cur]
      /\ pc = "clear" => life[cur] \in {"failed", "closed", "deleting"}
      /\ build \in {"application", "plugin"}
      /\ active \in [Instances -> BOOLEAN]
  BY DEF Base, IInv, Shape, Built, CallInv, RestType
<1>b. /\ build = "application" => Alone
      /\ Called => build = "application" /\ life[cur] \notin {"absent", "new"}
      /\ pc = "init" /\ step > 4 => active[cur]
      /\ Called /\ ~Deactivated => pc = "loop"
  BY DEF CtrlInv
<1>c. UNCHANGED <<build, ctrl>> /\ pc \in {"init", "clear"}
  BY DEF InCall, InitCurl, InitStage, InitSnmp, At, ClearStep, SnmpSignal, SnmpClear, ClearCurl, Clearing
<1>d. /\ Deactivated' <=> Deactivated
      /\ Called' <=> Called
      /\ Called => Deactivated /\ pc = "clear"
  BY <1>a, <1>b, <1>c DEF Deactivated, Called
<1>1. CASE Adding
  <2>1. /\ pc = "init" /\ Advance /\ ~Called
        /\ \E made \in SUBSET (Things \cap {InitOrder[step], "connections"}) :
              held' = [held EXCEPT ![cur] = @ \cup made]
    BY <1>1, <1>d DEF Adding
  <2>2. held[cur] \subseteq held'[cur]
    BY <1>a, <2>1
  <2>3. ASSUME active[cur] PROVE active'[cur]
    <3>1. CASE InitStage
      <4>1. active' = active \/ active' = [active EXCEPT ![cur] = @ \/ InitOrder[step] = "queue"]
        BY <3>1 DEF InitStage
      <4> QED BY <1>a, <2>3, <4>1
    <3>2. CASE ~InitStage
      <4>1. active' = active
        BY <2>1, <3>2 DEF InCall, InitCurl, InitSnmp, At, ClearStep, SnmpSignal, SnmpClear, ClearCurl, Clearing
      <4> QED BY <2>3, <4>1
    <3> QED BY <3>1, <3>2
  <2>4. step = 4 => active'[cur]
    <3> SUFFICES ASSUME step = 4 PROVE active'[cur]
      OBVIOUS
    <3>1. InitOrder[step] = "queue"
      BY <1>a, Stages
    <3>2. InitStage
      BY <2>1, <3>1 DEF InCall, InitCurl, InitSnmp, At, ClearStep, SnmpSignal, SnmpClear, ClearCurl, Clearing
    <3>3. active' = [active EXCEPT ![cur] = @ \/ InitOrder[step] = "queue"] \/ InitFails(held[cur])
          \/ \E some \in SUBSET StoredFirst : InitFails(held[cur] \cup some)
      BY <3>2 DEF InitStage
    <3>4. ~InitFails(held[cur]) /\ ~\E some \in SUBSET StoredFirst : InitFails(held[cur] \cup some)
      <4>1. life'[cur] # "failed"
        BY <1>a, <2>1 DEF Advance
      <4> QED BY <1>a, <4>1 DEF InitFails
    <3> QED BY <1>a, <3>1, <3>3, <3>4
  <2>5. step >= 4 => active'[cur]
    BY <1>a, <1>b, <2>1, <2>3, <2>4
  <2>6. CASE step < Len(InitOrder)
    <3>1. step' = step + 1 /\ pc' = "init" /\ life' = life /\ cur' = cur
      BY <2>1, <2>6 DEF Advance
    <3>2. step' > 4 => active'[cur]
      BY <1>a, <2>5, <3>1
    <3> QED BY <1>b, <1>c, <1>d, <2>1, <3>1, <3>2 DEF CtrlInv, Alone, Constructed
  <2>7. CASE ~(step < Len(InitOrder))
    <3>1. /\ life' = [life EXCEPT ![cur] = "up"] /\ cur' = cur
          /\ pc' = IF build = "application" THEN "loop" ELSE "idle"
      BY <2>1, <2>7 DEF Advance
    <3>2. step > 4
      <4>1. Len(InitOrder) = 9 \/ Len(InitOrder) = 11
        BY <1>a, Stages
      <4>2. ~(step < 9) \/ ~(step < 11)
        BY ONLY <2>7, <4>1
      <4>3. step \in Int
        BY <1>a
      <4> QED BY ONLY <4>2, <4>3
    <3>3. "queue" \in held'[cur] /\ active'[cur]
      BY <1>a, <2>1, <2>2, <2>5, <3>2
    <3>4. Alone => Alone'
      BY <1>a, <2>1, <3>1 DEF Alone, Constructed
    <3> QED BY <1>a, <1>b, <1>c, <1>d, <2>1, <3>1, <3>3, <3>4 DEF CtrlInv
  <2> QED BY <2>6, <2>7
<1>2. CASE Failing
  <2>1. pc = "init" /\ life' = [life EXCEPT ![cur] = "failed"] /\ pc' \in {"idle", "clear"} /\ cur' = cur
    BY <1>2 DEF Failing, InitFails
  <2>2. Alone => Alone'
    BY <1>a, <2>1 DEF Alone, Constructed
  <2> QED BY <1>b, <1>c, <1>d, <2>1, <2>2 DEF CtrlInv
<1>3. CASE Removing
  <2>1. /\ pc = "clear" /\ pc' \in {"idle", "clear"} /\ cur' = cur
        /\ life' = life \/ life' = [life EXCEPT ![cur] = AfterClear]
    BY <1>3 DEF Removing, ClearNext
  <2>2. AfterClear \notin {"absent", "new"}
    BY <1>a, <2>1 DEF AfterClear
  <2>3. Alone => Alone'
    BY <1>a, <2>1, <2>2 DEF Alone, Constructed
  <2> QED BY <1>a, <1>b, <1>c, <1>d, <2>1, <2>2, <2>3 DEF CtrlInv
<1>4. CASE Elsewhere
  <2>1. ASSUME ~SnmpSignal PROVE FALSE
    <3>1. Elsewhere => UNCHANGED <<pc, step, life>>
      BY DEF Elsewhere
    <3>2. ASSUME pc = "init", Advance PROVE FALSE
      <4>1. step + 1 # step
        BY <1>a
      <4>2. life[cur] = "new" /\ pc' = pc
        BY <1>4, <1>a, <3>1, <3>2
      <4> QED BY <1>4, <1>a, <3>1, <3>2, <4>1, <4>2 DEF Advance
    <3>3. ASSUME pc = "init", NEW things, InitFails(things) PROVE FALSE
      BY <1>4, <1>a, <3>1, <3>3 DEF InitFails
    <3>4. ASSUME pc = "clear", ClearNext(AfterClear) PROVE FALSE
      <4>1. step + 1 # step
        BY <1>a
      <4> QED BY <1>4, <3>1, <3>4, <4>1 DEF ClearNext
    <3> QED BY <2>1, <3>2, <3>3, <3>4
            DEF InCall, InitCurl, InitStage, InitSnmp, At, ClearStep, SnmpClear, ClearCurl, Clearing
  <2>2. UNCHANGED <<active, life, held, pc, cur, step>>
    BY <2>1 DEF SnmpSignal
  <2> QED BY <1>b, <1>c, <1>d, <2>2 DEF CtrlInv, Alone, Constructed
<1> QED BY <1>1, <1>2, <1>3, <1>4, InCallMoves DEF Base

LEMMA CtrlStep ==
    ASSUME Base, CtrlInv, [Next]_vars
    PROVE  CtrlInv'
<1> USE DEF ownVars, instVars
<1>1. CASE UNCHANGED <<build, life, held, active, pc, cur, step, ctrl>>
  BY <1>1 DEF CtrlInv, Called, Deactivated, Alone, Constructed
<1>2. ASSUME NEW h \in 1..MaxCtrl, CtrlCheck(h) \/ CtrlThread(h) PROVE CtrlInv'
  <2>1. UNCHANGED <<build, life, held, pc, cur, step>>
    BY <1>2 DEF CtrlCheck, CtrlThread, CtrlLock, CtrlDeactivate, CtrlRelease, CtrlOnly
  <2>2. Alone => Alone'
    BY <2>1 DEF Alone, Constructed
  <2>3. ctrl \in [1..MaxCtrl -> {"none", "checked", "holds", "deactivated", "done"}]
        /\ active \in [Instances -> BOOLEAN] /\ cur \in Instances
    BY DEF Base, RestType, IInv, Shape
  <2>4. CASE CtrlCheck(h)
    <3>1. /\ build = "application" /\ pc = "loop" /\ active' = active /\ ctrl[h] = "none"
          /\ ctrl' = [ctrl EXCEPT ![h] = IF QueueAlive(cur) THEN "checked" ELSE "done"]
      BY <2>4 DEF CtrlCheck
    <3>2. Deactivated => Deactivated'
      BY <2>3, <3>1 DEF Deactivated
    <3> QED BY <2>1, <2>2, <3>1, <3>2 DEF CtrlInv
  <2>5. CASE CtrlLock(h)
    <3>1. /\ active' = active /\ ctrl[h] = "checked"
          /\ ctrl' = [ctrl EXCEPT ![h] = "holds"] \/ ctrl' = ctrl
      BY <2>5 DEF CtrlLock
    <3>2. Deactivated <=> Deactivated'
      BY <2>3, <3>1 DEF Deactivated
    <3>3. Called /\ Called'
      BY <2>3, <3>1 DEF Called
    <3> QED BY <2>1, <2>2, <3>1, <3>2, <3>3 DEF CtrlInv
  <2>6. CASE CtrlDeactivate(h) \/ CtrlRelease(h)
    <3>1. /\ ctrl[h] # "none"
          /\ ctrl' = [ctrl EXCEPT ![h] = "deactivated"] \/ ctrl' = [ctrl EXCEPT ![h] = "done"]
      BY <2>6 DEF CtrlDeactivate, CtrlRelease
    <3>2. Called /\ Deactivated'
      BY <2>3, <3>1 DEF Called, Deactivated
    <3>3. pc # "init"
      BY <3>2 DEF CtrlInv, Base, IInv, Built
    <3> QED BY <2>1, <2>2, <3>2, <3>3 DEF CtrlInv
  <2> QED BY <1>2, <2>4, <2>5, <2>6 DEF CtrlThread
<1>3. CASE \E table \in {"plugin", "session"} : WalkFirst(table)
  BY <1>1, <1>3 DEF WalkFirst, Row, Crash
<1>4. CASE SnmpThread
  BY <1>1, <1>4 DEF SnmpThread, WalkNext, Row, WalkHandler, SnmpExit, PumpFreed, Crash
<1>5. CASE Stopped \/ UNCHANGED vars
  BY <1>1, <1>5 DEF Stopped, vars
<1> QED BY <1>2, <1>3, <1>4, <1>5, CtrlCalls, CtrlInCall DEF Next
-----------------------------------------------------------------------------
(* With one instance, the owner of the SNMP thread is the one it looks at. *)

(* After a crash nothing happens any more.                                 *)
LEMMA Frozen ==
    ASSUME crash # "no", [Next]_vars
    PROVE  UNCHANGED vars
BY DEF Next, Calls, Construct, Start, ConfigRejected, Destroy, Delete, InCall, InitCurl, InitStage,
       InitSnmp, At, ClearStep, SnmpSignal, SnmpClear, ClearCurl, Clearing, SnmpThread, WalkFirst, WalkNext,
       WalkHandler, SnmpExit, PumpFreed, CtrlCheck, CtrlThread, CtrlLock, CtrlDeactivate, CtrlRelease,
       Stopped

(* The steps that may crash.                                               *)
LEMMA CrashSteps ==
    ASSUME crash = "no", [Next]_vars, crash' # "no"
    PROVE  \/ \E table \in {"plugin", "session"} : WalkFirst(table)
           \/ WalkNext \/ WalkHandler \/ PumpFreed
           \/ \E h \in 1..MaxCtrl : CtrlLock(h)
BY DEF Next, Calls, Construct, Start, ConfigRejected, Destroy, Delete, InCall, InitCurl, InitStage,
       InitSnmp, At, ClearStep, SnmpSignal, SnmpClear, ClearCurl, Clearing, SnmpThread,
       SnmpExit, CtrlCheck, CtrlThread, CtrlDeactivate, CtrlRelease, Stopped, vars

(* The instance with the agent is the only one, has a provider and has not *)
(* been deleted.                                                           *)
LEMMA OwnerOnly ==
    ASSUME Base, SnmpInv, Alone, snmp.state = "on"
    PROVE  /\ snmp.owner \in Constructed /\ "provider" \in held[snmp.owner]
           /\ life[snmp.owner] # "deleted"
           /\ \A i \in Constructed : i = snmp.owner
<1>1. snmp.owner \in Instances /\ "snmp" \in held[snmp.owner]
  BY DEF SnmpInv
<1>2. "provider" \in held[snmp.owner] /\ life[snmp.owner] # "deleted"
  BY <1>1 DEF Base, AgentInv
<1>3. snmp.owner \in Constructed
  BY <1>1, HeldConstructed
<1> QED BY <1>2, <1>3 DEF Alone

LEMMA SoloStep ==
    ASSUME Base, SnmpInv, CtrlInv, SoloSafe, [Next]_vars
    PROVE  SoloSafe'
<1>1. CASE crash # "no"
  <2>1. UNCHANGED vars
    BY <1>1, Frozen
  <2> QED BY <2>1 DEF SoloSafe, Alone, Constructed, vars, ownVars, instVars
<1>2. CASE crash' = "no"
  BY <1>2 DEF SoloSafe
<1>3. CASE crash = "no" /\ crash' # "no"
  <2>a. Alone /\ snmp.state = "on" =>
           /\ snmp.owner \in Constructed /\ "provider" \in held[snmp.owner] /\ life[snmp.owner] # "deleted"
           /\ \A i \in Constructed : i = snmp.owner
    BY OwnerOnly
  <2>b. Alone /\ walk # NoWalk => snmp.state = "on"
    BY DEF SnmpInv
  <2>1. ASSUME NEW i \in Instances, Listed(i), NEW s \in Nat, NEW table \in {"plugin", "session"},
               NEW rows \in Seq(Instances \X Nat), \A n \in 1..Len(rows) : rows[n][1] \in Constructed,
               NEW of, Row(table, i, s, rows, of), snmp.state = "on"
        PROVE  SoloSafe'
    <3>1. /\ UNCHANGED life /\ crash' = "provider"
          /\ \E j \in Instances : Listed(j) /\ "provider" \notin held[j]
      BY <1>3, <2>1, RowSteps DEF Base
    <3>2. \A j \in Instances : Listed(j) => j \in Constructed
      BY DEF Base, ListInv, Listable, Constructed
    <3>3. ~Alone
      BY <2>1, <2>a, <3>1, <3>2
    <3>4. ~Alone'
      BY <3>1, <3>3 DEF Alone, Constructed
    <3> QED BY <3>1, <3>4 DEF SoloSafe
  <2>2. ASSUME NEW table \in {"plugin", "session"}, WalkFirst(table) PROVE SoloSafe'
    <3> DEFINE s == IF table = "session" THEN 1 ELSE 0
    <3> DEFINE none == <<>>
    <3>1. snmp.state = "on" /\ global_list # <<>> /\ Row(table, global_list[1], s, none, global_list)
      BY <2>2 DEF WalkFirst
    <3>2. global_list[1] \in Instances /\ Listed(global_list[1])
      BY <3>1 DEF Base, ListInv, Listed
    <3>3. s \in Nat
      OBVIOUS
    <3>4. none \in Seq(Instances \X Nat) /\ \A n \in 1..Len(none) : none[n][1] \in Constructed
      OBVIOUS
    <3> HIDE DEF s, none
    <3> QED BY <2>1, <3>1, <3>2, <3>3, <3>4
  <2>3. CASE WalkNext
    <3>1. walk # NoWalk /\ walk.table \in {"plugin", "session"} /\ walk.psych_it # NoInstance
      BY <2>3 DEF WalkNext, NoWalk
    <3>2. /\ walk.psych_it \in Constructed /\ walk.psych_it \in Instances /\ walk.session_it \in Nat
          /\ walk.rows \in Seq(Instances \X Nat)
          /\ \A n \in 1..Len(walk.rows) : walk.rows[n][1] \in Constructed
      BY <3>1 DEF Base, WalkType
    <3>3. CASE Listed(walk.psych_it)
      <4>1. Row(walk.table, walk.psych_it, walk.session_it, walk.rows, walk.of)
        BY <2>3, <3>3 DEF WalkNext
      <4>2. CASE Alone
        BY <2>1, <2>b, <3>1, <3>2, <3>3, <4>1, <4>2
      <4>3. CASE ~Alone
        <5>1. UNCHANGED life /\ crash' = "provider"
          BY <1>3, <3>1, <3>2, <3>3, <4>1, RowSteps DEF Base
        <5> QED BY <4>3, <5>1 DEF SoloSafe, Alone, Constructed
      <4> QED BY <4>2, <4>3
    <3>4. CASE ~Listed(walk.psych_it)
      <4>1. crash' = "iterator" /\ UNCHANGED <<life, cur>>
        BY <2>3, <3>4 DEF WalkNext, Crash, ownVars, instVars
      <4>2. life[walk.psych_it] \in {"deleting", "deleted"}
        BY <3>2, <3>4 DEF Base, IInv, Shape, ListInv, Listable, Constructed
      <4>3. Alone => life[walk.psych_it] # "deleted"
        BY <2>a, <2>b, <3>1, <3>2
      <4>4. Alone => life[cur] = "deleting"
        BY <3>2, <4>2, <4>3 DEF Base, CallInv
      <4> QED BY <4>1, <4>4 DEF SoloSafe, Alone, Constructed
    <3> QED BY <3>3, <3>4
  <2>4. CASE WalkHandler
    <3>1. walk # NoWalk /\ walk.table # "none"
      BY <2>4 DEF WalkHandler, NoWalk
    <3>2. crash' = "context" /\ UNCHANGED life
      BY <1>3, <2>4 DEF WalkHandler, Crash, instVars
    <3>3. \E n \in 1..Len(walk.rows) :
             life[walk.rows[n][1]] = "deleted" \/ "provider" \notin held[walk.rows[n][1]]
      <4>1. DOMAIN walk.rows = 1..Len(walk.rows)
        BY DEF Base, WalkType
      <4> QED BY <1>3, <2>4, <4>1 DEF WalkHandler, PluginRowGone, SessionRowGone
    <3>4. \A n \in 1..Len(walk.rows) : walk.rows[n][1] \in Constructed
      BY DEF Base, WalkType
    <3>5. ~Alone
      BY <2>a, <2>b, <3>1, <3>3, <3>4
    <3> QED BY <3>2, <3>5 DEF SoloSafe, Alone, Constructed
  <2>5. CASE PumpFreed
    <3>1. ~Alone /\ crash' = "pump" /\ UNCHANGED life
      BY <2>5 DEF PumpFreed, Crash, instVars, SnmpInv
    <3> QED BY <3>1 DEF SoloSafe, Alone, Constructed
  <2>6. ASSUME NEW h \in 1..MaxCtrl, CtrlLock(h) PROVE SoloSafe'
    <3>1. ctrl[h] = "checked" /\ ~QueueAlive(cur) /\ crash' = "ctrl" /\ ctrl' = ctrl
      BY <1>3, <2>6 DEF CtrlLock
    <3>2. "queue" \notin held[cur]
      BY <3>1 DEF QueueAlive
    <3>3. Deactivated
      BY <3>1, <3>2 DEF CtrlInv, Called
    <3> QED BY <3>1, <3>3 DEF SoloSafe, Deactivated
  <2> QED BY <1>3, <2>2, <2>3, <2>4, <2>5, <2>6, CrashSteps
<1> QED BY <1>1, <1>2, <1>3

(* With one instance neither the SNMP thread nor a console event reads     *)
(* what Clear has reset: provider, pump and list outlast every walk, and   *)
(* the event queue every call that has seen it, but for the exceptions     *)
(* SoloSafe names (psych.cc:278-281, 610-612, 642-657).                    *)
THEOREM AloneSafe == Spec => []SoloSafe
<1>1. Init => SnmpInv
  BY DEF Init, SnmpInv
<1>2. Spec => []SnmpInv
  BY <1>1, SnmpStep, BaseHolds, PTL DEF Spec
<1>3. Init => CtrlInv
  BY DEF Init, CtrlInv, Alone, Constructed, Called
<1>4. Spec => []CtrlInv
  BY <1>3, CtrlStep, BaseHolds, PTL DEF Spec
<1>5. Init => SoloSafe
  BY DEF Init, SoloSafe
<1> QED BY <1>2, <1>4, <1>5, SoloStep, BaseHolds, PTL DEF Spec
-----------------------------------------------------------------------------
(* The order of the list.                                                  *)

LEMMA PositionOf ==
    ASSUME ListInv, NEW i \in Instances, Listed(i)
    PROVE  Position(i) \in 1..Len(global_list) /\ global_list[Position(i)] = i
<1>1. DOMAIN global_list = 1..Len(global_list)
  BY LenProperties DEF ListInv
<1> QED BY <1>1 DEF Listed, Position

(* A step may append an instance that was not there, or take one away:     *)
(* those that stay keep their order.                                       *)
LEMMA OrderStep ==
    ASSUME IInv, CallInv, ListInv, [Next]_vars,
           NEW i \in Constructed, Listed(i)', NEW j \in Constructed, Listed(j)'
    PROVE  /\ Listed(i) /\ Listed(j)
           /\ (Position(i) < Position(j))' <=> Position(i) < Position(j)
<1>0. /\ ListInv' /\ i \in Instances /\ j \in Instances
      /\ DOMAIN global_list = 1..Len(global_list) /\ Len(global_list) \in Nat
      /\ \A n \in 1..Len(global_list) : global_list[n] \in Instances
  BY ListStep, LenProperties, ElementOfSeq DEF ListInv, Constructed
<1>1. ASSUME UNCHANGED global_list
      PROVE  /\ Listed(i) /\ Listed(j)
             /\ (Position(i) < Position(j))' <=> Position(i) < Position(j)
  BY <1>1 DEF Listed, Position
<1>2. ASSUME NEW x \in Instances, Construct(x)
      PROVE  /\ Listed(i) /\ Listed(j)
             /\ (Position(i) < Position(j))' <=> Position(i) < Position(j)
  <2> DEFINE new == Append(global_list, x)
  <2>1. global_list' = new /\ life[x] = "absent"
    BY <1>2 DEF Construct
  <2>2. /\ new \in Seq(Instances) /\ Len(new) = Len(global_list) + 1
        /\ \A n \in 1..Len(global_list) : new[n] = global_list[n]
        /\ new[Len(global_list) + 1] = x
    BY AppendProperties DEF ListInv
  <2>3. DOMAIN new = 1..(Len(global_list) + 1)
    BY <2>2, LenProperties
  <2> HIDE DEF new
  <2>4. ASSUME NEW k \in Constructed, Listed(k)' PROVE Listed(k) /\ Position(k)' = Position(k)
    <3>1. k # x /\ k \in Instances
      BY <2>1 DEF Constructed
    <3>2. PICK n \in 1..(Len(global_list) + 1) : new[n] = k
      BY <2>1, <2>3, <2>4 DEF Listed
    <3>3. n \in 1..Len(global_list)
      BY <1>0, <2>2, <3>1, <3>2
    <3>4. global_list[n] = k /\ Listed(k)
      BY <1>0, <2>2, <3>2, <3>3 DEF Listed
    <3>5. Position(k) = n
      BY <3>3, <3>4, PositionIs
    <3>6. Position(k)' = n
      <4>1. \A m \in 1..Len(new) : new[m] = k => m = n
        BY <1>0, <2>1, <2>2, <3>2 DEF ListInv
      <4> QED BY <2>1, <2>2, <2>3, <3>2, <4>1 DEF Position
    <3> QED BY <3>4, <3>5, <3>6
  <2>5. /\ Listed(i) /\ Position(i)' = Position(i)
        /\ Listed(j) /\ Position(j)' = Position(j)
    BY <2>4
  <2> QED BY <2>5
<1>3. ASSUME NEW x \in Instances, Delete(x)
      PROVE  /\ Listed(i) /\ Listed(j)
             /\ (Position(i) < Position(j))' <=> Position(i) < Position(j)
  <2> DEFINE p == Position(x)
             new == RemoveAt(global_list, p)
  <2>1. global_list' = new /\ life[x] \in Listable
    BY <1>3 DEF Delete, Listable
  <2>2. p \in 1..Len(global_list)
    BY <2>1, PositionOf DEF ListInv
  <2>3. /\ new \in Seq(Instances) /\ Len(new) = Len(global_list) - 1
        /\ \A m \in 1..(Len(global_list) - 1) :
              new[m] = IF m < p THEN global_list[m] ELSE global_list[m + 1]
    BY <2>2, RemoveAtProperties DEF ListInv
  <2>4. DOMAIN new = 1..(Len(global_list) - 1)
    BY <2>3, LenProperties
  <2> HIDE DEF new, p
  <2>5. ASSUME NEW k \in Constructed, Listed(k)'
        PROVE  /\ Listed(k) /\ Position(k)' \in Nat
               /\ Position(k) = IF Position(k)' < p THEN Position(k)' ELSE Position(k)' + 1
    <3>1. k \in Instances
      BY DEF Constructed
    <3>2. PICK n \in 1..(Len(global_list) - 1) : new[n] = k
      BY <2>1, <2>4, <2>5 DEF Listed
    <3> DEFINE m == IF n < p THEN n ELSE n + 1
    <3>3. m \in 1..Len(global_list) /\ global_list[m] = k
      BY <1>0, <2>2, <2>3, <3>2
    <3> HIDE DEF m
    <3>4. Position(k) = m /\ Listed(k)
      BY <1>0, <3>3, PositionIs DEF Listed
    <3>5. Position(k)' = n
      <4>1. \A q \in 1..Len(new) : new[q] = k => q = n
        BY <1>0, <2>1, <2>3, <3>2 DEF ListInv
      <4> QED BY <2>1, <2>3, <2>4, <3>2, <4>1 DEF Position
    <3> QED BY <3>2, <3>4, <3>5 DEF m
  <2>6. /\ Listed(i) /\ Position(i)' \in Nat
        /\ Position(i) = IF Position(i)' < p THEN Position(i)' ELSE Position(i)' + 1
    BY <2>5
  <2>7. /\ Listed(j) /\ Position(j)' \in Nat
        /\ Position(j) = IF Position(j)' < p THEN Position(j)' ELSE Position(j)' + 1
    BY <2>5
  <2>8. p \in Int
    BY <2>2
  <2> QED BY <2>6, <2>7, <2>8
<1>4. CASE \E x \in Instances : Start(x) \/ ConfigRejected(x) \/ Destroy(x)
  BY <1>1, <1>4 DEF Start, ConfigRejected, Destroy, instVars
<1> QED BY <1>1, <1>2, <1>3, <1>4, Moves DEF Calls, Elsewhere
-----------------------------------------------------------------------------
(* One row.                                                                *)

(* The rows of an instance in a table, and those that a walk which does    *)
(* not begin with the instance must return.                                *)
RowsOf(table, i) == IF table = "session" THEN 1..NumSessions[i] ELSE {0}
MustReturn(table, i) == IF table = "session" THEN 2..NumSessions[i] ELSE {0}

(* Row s of instance i comes before row t of instance j.                   *)
Precedes(i, s, j, t) == Position(i) < Position(j) \/ (i = j /\ s < t)

(* get_next_data_point goes forward, and over nothing that must be         *)
(* returned.                                                               *)
LEMMA NextRowOrder ==
    ASSUME ListInv, NEW table \in {"plugin", "session"},
           NEW i \in Instances, Listed(i), NEW s \in RowsOf(table, i)
    PROVE  LET next == NextRow(table, i, s)
           IN  /\ next.psych_it # NoInstance =>
                    /\ next.psych_it \in Instances /\ Listed(next.psych_it)
                    /\ next.session_it \in RowsOf(table, next.psych_it)
                    /\ Precedes(i, s, next.psych_it, next.session_it)
               /\ \A j \in Instances : Listed(j) => \A u \in MustReturn(table, j) :
                    Precedes(i, s, j, u) =>
                        /\ next.psych_it # NoInstance
                        /\ ~Precedes(j, u, next.psych_it, next.session_it)
<1>0. /\ DOMAIN global_list = 1..Len(global_list) /\ Len(global_list) \in Nat
      /\ \A n \in 1..Len(global_list) :
            /\ global_list[n] \in Instances /\ Listed(global_list[n])
            /\ Position(global_list[n]) = n
  BY LenProperties, ElementOfSeq, PositionIs DEF ListInv, Listed
<1>1. \A j \in Instances : NumSessions[j] \in Nat \ {0} /\ j # NoInstance
  BY SessionsAssumption, InstancesAssumption
<1>2. \A j \in Instances : Listed(j) =>
         Position(j) \in 1..Len(global_list) /\ global_list[Position(j)] = j
  BY PositionOf
<1>3. CASE table = "plugin"
  <2>1. s = 0 /\ \A j \in Instances : RowsOf(table, j) = {0} /\ MustReturn(table, j) = {0}
    BY <1>3 DEF RowsOf, MustReturn
  <2> DEFINE n == Position(i)
             next == NextRow(table, i, s)
  <2>2. n \in 1..Len(global_list)
    BY <1>2
  <2>3. next.psych_it = IF n < Len(global_list) THEN global_list[n + 1] ELSE NoInstance
    BY <1>3 DEF NextRow, NextInstance
  <2>4. next.session_it = 0
    BY <1>3 DEF NextRow, NextInstance
  <2> HIDE DEF next, n
  <2>5. CASE n < Len(global_list)
    <3>1. n + 1 \in 1..Len(global_list)
      BY <1>0, <2>2, <2>5
    <3>2. /\ next.psych_it \in Instances /\ Listed(next.psych_it) /\ Position(next.psych_it) = n + 1
          /\ next.psych_it # NoInstance
      BY <1>0, <1>1, <2>3, <2>5, <3>1
    <3>3. Position(i) < Position(next.psych_it)
      BY <2>2, <3>2 DEF n
    <3>4. ASSUME NEW j \in Instances, Listed(j), NEW u \in MustReturn(table, j), Precedes(i, s, j, u)
          PROVE  ~Precedes(j, u, next.psych_it, next.session_it)
      <4>1. u = 0 /\ Position(i) < Position(j) /\ Position(j) \in Int
        BY <1>2, <2>1, <3>4 DEF Precedes
      <4> QED BY <2>2, <2>4, <3>2, <4>1 DEF Precedes, n
    <3> QED BY <2>1, <2>4, <3>2, <3>3, <3>4 DEF Precedes, next
  <2>6. CASE ~(n < Len(global_list))
    <3>1. next.psych_it = NoInstance
      BY <2>3, <2>6
    <3>2. ASSUME NEW j \in Instances, Listed(j), NEW u \in MustReturn(table, j) PROVE ~Precedes(i, s, j, u)
      <4>1. u = 0 /\ Position(j) \in 1..Len(global_list)
        BY <1>2, <2>1, <3>2
      <4> QED BY <1>0, <2>1, <2>2, <2>6, <4>1 DEF Precedes, n
    <3> QED BY <3>1, <3>2 DEF next
  <2> QED BY <2>5, <2>6
<1>4. CASE table = "session"
  <2> DEFINE later == {n \in DOMAIN global_list : n > Position(i)}
             fit == {n \in later : NumSessions[global_list[n]] >= 2}
             least == CHOOSE n \in fit : \A m \in fit : n <= m
             next == NextRow(table, i, s)
  <2>1. /\ s < NumSessions[i] => next.psych_it = i /\ next.session_it = s + 1
        /\ ~(s < NumSessions[i]) /\ fit = {} => next.psych_it = NoInstance
        /\ ~(s < NumSessions[i]) /\ fit # {} =>
              next.psych_it = global_list[least] /\ next.session_it = 2
    BY <1>4 DEF NextRow, Hunt
  <2>2. s \in 1..NumSessions[i]
    BY <1>4 DEF RowsOf
  <2>3. \A j \in Instances : RowsOf(table, j) = 1..NumSessions[j] /\ MustReturn(table, j) = 2..NumSessions[j]
    BY <1>4 DEF RowsOf, MustReturn
  <2>4. fit \in SUBSET Nat
    BY <1>0
  <2>5. ASSUME fit # {} PROVE least \in fit /\ \A m \in fit : least <= m
    <3>1. \E n \in fit : \A m \in fit : n <= m
      BY <2>4, <2>5, LeastNumber
    <3> QED BY <3>1
  <2>6. ASSUME NEW n \in fit
        PROVE  n \in 1..Len(global_list) /\ n > Position(i) /\ NumSessions[global_list[n]] >= 2
    BY <1>0, <2>6
  <2>7. ASSUME NEW j \in Instances, Listed(j), NEW u \in 2..NumSessions[j], Position(i) < Position(j)
        PROVE  Position(j) \in fit
    <3>1. Position(j) \in DOMAIN global_list /\ global_list[Position(j)] = j
      BY <1>0, <1>2, <2>7
    <3>2. NumSessions[j] >= 2
      BY <1>1, <2>7
    <3>3. Position(j) > Position(i)
      BY <1>2, <2>7
    <3> QED BY <3>1, <3>2, <3>3
  <2> HIDE DEF fit, later, least, next
  <2>8. CASE s < NumSessions[i]
    <3>1. next.psych_it = i /\ next.session_it = s + 1 /\ s + 1 \in 1..NumSessions[i] /\ s < s + 1
      BY <1>1, <2>1, <2>2, <2>8
    <3>2. ASSUME NEW j \in Instances, Listed(j), NEW u \in MustReturn(table, j), Precedes(i, s, j, u)
          PROVE  ~Precedes(j, u, i, s + 1)
      <4>1. Position(i) \in Int /\ Position(j) \in Int /\ u \in Int /\ s \in Int
        BY <1>1, <1>2, <2>2, <2>3, <3>2
      <4> QED BY <3>2, <4>1 DEF Precedes
    <3> QED BY <1>1, <2>3, <3>1, <3>2 DEF Precedes, next
  <2>9. CASE ~(s < NumSessions[i])
    <3>0. s = NumSessions[i]
      BY <1>1, <2>2, <2>9
    <3>1. ASSUME NEW j \in Instances, Listed(j), NEW u \in MustReturn(table, j), Precedes(i, s, j, u)
          PROVE  Position(i) < Position(j) /\ Position(j) \in fit
      <4>1. u \in 2..NumSessions[j]
        BY <2>3, <3>1
      <4>2. Position(i) < Position(j)
        BY <1>1, <3>0, <3>1, <4>1 DEF Precedes
      <4> QED BY <2>7, <3>1, <4>1, <4>2
    <3>2. CASE fit = {}
      BY <2>1, <2>9, <3>1, <3>2 DEF next
    <3>3. CASE fit # {}
      <4>1. next.psych_it = global_list[least] /\ next.session_it = 2
        BY <2>1, <2>9, <3>3
      <4>2. least \in 1..Len(global_list) /\ least > Position(i) /\ NumSessions[global_list[least]] >= 2
        BY <2>5, <2>6, <3>3
      <4>3. /\ next.psych_it \in Instances /\ Listed(next.psych_it) /\ Position(next.psych_it) = least
            /\ next.psych_it # NoInstance
        BY <1>0, <1>1, <4>1, <4>2
      <4>4. 2 \in 1..NumSessions[next.psych_it]
        BY <1>1, <4>1, <4>2, <4>3
      <4>5. Position(i) < Position(next.psych_it)
        BY <1>2, <4>2, <4>3
      <4>6. ASSUME NEW j \in Instances, Listed(j), NEW u \in MustReturn(table, j), Precedes(i, s, j, u)
            PROVE  ~Precedes(j, u, next.psych_it, 2)
        <5>1. least <= Position(j) /\ Position(j) \in Int /\ least \in Int
          BY <1>2, <2>5, <3>1, <3>3, <4>2, <4>6
        <5>2. u \in 2..NumSessions[j]
          BY <2>3, <4>6
        <5> QED BY <1>1, <4>3, <5>1, <5>2 DEF Precedes
      <4> QED BY <2>3, <4>1, <4>3, <4>4, <4>5, <4>6 DEF Precedes, next
    <3> QED BY <3>2, <3>3
  <2> QED BY <2>8, <2>9
<1> QED BY <1>3, <1>4
-----------------------------------------------------------------------------
(* What a walk w has returned, and what it has yet to return.              *)

FirstRow(table) == IF table = "session" THEN 1 ELSE 0
Returned(w, row) == \E m \in 1..Len(w.rows) : w.rows[m] = row

(* Every row that must be returned is behind the walk or ahead of it, the  *)
(* rows are behind it and differ, and the first is that of the instance    *)
(* the list began with.                                                    *)
WalkGood(w) ==
    /\ w.of \in Seq(Instances)
    /\ \A n \in 1..Len(w.of) : w.of[n] \in Constructed
    /\ w.of # <<>> /\ Returned(w, <<w.of[1], FirstRow(w.table)>>)
    /\ \A m, n \in 1..Len(w.rows) : w.rows[m] = w.rows[n] => m = n
    /\ w.psych_it # NoInstance =>
          /\ w.session_it \in RowsOf(w.table, w.psych_it)
          /\ \A n \in 1..Len(w.rows) : Listed(w.rows[n][1]) =>
                Precedes(w.rows[n][1], w.rows[n][2], w.psych_it, w.session_it)
    /\ \A n \in 1..Len(w.of) : Listed(w.of[n]) => \A u \in MustReturn(w.table, w.of[n]) :
          \/ Returned(w, <<w.of[n], u>>)
          \/ w.psych_it # NoInstance /\ ~Precedes(w.of[n], u, w.psych_it, w.session_it)

(* As long as the node the walk is to go on with is listed.                *)
WalkOpen ==
    /\ walk.table # "none"
    /\ crash = "no"
    /\ walk.psych_it = NoInstance \/ Listed(walk.psych_it)

WalkInv == WalkOpen => WalkGood(walk)

LEMMA RowGood ==
    ASSUME ListInv, NEW table \in {"plugin", "session"},
           NEW i \in Instances, Listed(i), NEW s \in RowsOf(table, i),
           NEW rows \in Seq(Instances \X Nat),
           \A m, n \in 1..Len(rows) : rows[m] = rows[n] => m = n,
           \A n \in 1..Len(rows) : Listed(rows[n][1]) => Precedes(rows[n][1], rows[n][2], i, s),
           NEW of \in Seq(Instances), of # <<>>,
           \A n \in 1..Len(of) : of[n] \in Constructed,
           \/ \E m \in 1..Len(rows) : rows[m] = <<of[1], FirstRow(table)>>
           \/ <<i, s>> = <<of[1], FirstRow(table)>>,
           \A n \in 1..Len(of) : Listed(of[n]) => \A u \in MustReturn(table, of[n]) :
              \/ \E m \in 1..Len(rows) : rows[m] = <<of[n], u>>
              \/ ~Precedes(of[n], u, i, s)
    PROVE  WalkGood([table |-> table, psych_it |-> NextRow(table, i, s).psych_it,
                     session_it |-> NextRow(table, i, s).session_it,
                     rows |-> Append(rows, <<i, s>>), of |-> of])
<1> DEFINE p == NextRow(table, i, s).psych_it
           t == NextRow(table, i, s).session_it
           new == Append(rows, <<i, s>>)
           w == [table |-> table, psych_it |-> p, session_it |-> t, rows |-> new, of |-> of]
<1>1. /\ p # NoInstance => /\ p \in Instances /\ Listed(p)
                           /\ t \in RowsOf(table, p)
                           /\ Precedes(i, s, p, t)
      /\ \A j \in Instances : Listed(j) => \A u \in MustReturn(table, j) :
            Precedes(i, s, j, u) => p # NoInstance /\ ~Precedes(j, u, p, t)
  BY NextRowOrder
<1>2. /\ s \in Nat /\ Len(rows) \in Nat
      /\ \A j \in Instances : RowsOf(table, j) \subseteq Nat /\ MustReturn(table, j) \subseteq Nat
  <2>1. \A j \in Instances : NumSessions[j] \in Nat
    BY SessionsAssumption
  <2>2. Len(rows) \in Nat
    BY LenProperties
  <2> QED BY <2>1, <2>2 DEF RowsOf, MustReturn
<1>3. /\ Len(new) = Len(rows) + 1
      /\ \A n \in 1..Len(rows) : new[n] = rows[n]
      /\ new[Len(rows) + 1] = <<i, s>>
  <2>1. <<i, s>> \in Instances \X Nat
    BY <1>2
  <2> QED BY <2>1, AppendProperties
<1>4. \A n \in 1..Len(rows) : rows[n] \in Instances \X Nat
  BY ElementOfSeq
<1>5. \A j \in Instances : Listed(j) => Position(j) \in Nat /\ \A k \in Instances :
         Listed(k) /\ Position(j) = Position(k) => j = k
  <2>1. \A j \in Instances : Listed(j) =>
           Position(j) \in 1..Len(global_list) /\ global_list[Position(j)] = j
    BY PositionOf
  <2> QED BY <2>1
<1> HIDE DEF p, t, new
<1>6. /\ w.table = table /\ w.psych_it = p /\ w.session_it = t /\ w.rows = new /\ w.of = of
  OBVIOUS
<1> HIDE DEF w
<1>7. ASSUME NEW row, \/ \E m \in 1..Len(rows) : rows[m] = row
                      \/ row = <<i, s>>
      PROVE  Returned(w, row)
  <2>1. CASE row = <<i, s>>
    <3>1. Len(rows) + 1 \in 1..Len(new)
      BY <1>2, <1>3
    <3> QED BY <1>3, <1>6, <2>1, <3>1 DEF Returned
  <2>2. CASE \E m \in 1..Len(rows) : rows[m] = row
    <3>1. 1..Len(rows) \subseteq 1..Len(new)
      BY <1>2, <1>3
    <3> QED BY <1>3, <1>6, <2>2, <3>1 DEF Returned
  <2> QED BY <1>7, <2>1, <2>2
<1>8. \A m, n \in 1..Len(new) : new[m] = new[n] => m = n
  <2>1. \A n \in 1..Len(rows) : rows[n] # <<i, s>>
    <3> SUFFICES ASSUME NEW n \in 1..Len(rows), rows[n] = <<i, s>> PROVE FALSE
      OBVIOUS
    <3>1. rows[n][1] = i /\ rows[n][2] = s
      OBVIOUS
    <3>2. Precedes(i, s, i, s)
      BY <3>1
    <3> QED BY <1>2, <1>5, <3>2 DEF Precedes
  <2>2. \A n \in 1..Len(new) : n \in 1..Len(rows) \/ n = Len(rows) + 1
    BY <1>2, <1>3
  <2> SUFFICES ASSUME NEW m \in 1..Len(new), NEW n \in 1..Len(new), new[m] = new[n] PROVE m = n
    OBVIOUS
  <2>3. CASE m \in 1..Len(rows) /\ n \in 1..Len(rows)
    <3>1. rows[m] = rows[n]
      BY <1>3, <2>3
    <3> QED BY <2>3, <3>1
  <2>4. CASE m = Len(rows) + 1 \/ n = Len(rows) + 1
    BY <1>3, <2>1, <2>2, <2>4
  <2> QED BY <2>2, <2>3, <2>4
<1>9. ASSUME p # NoInstance, NEW n \in 1..Len(new), Listed(new[n][1])
      PROVE  Precedes(new[n][1], new[n][2], p, t)
  <2>1. CASE n = Len(rows) + 1
    BY <1>1, <1>3, <1>9, <2>1
  <2>2. CASE n # Len(rows) + 1
    <3>1. n \in 1..Len(rows)
      BY <1>2, <1>3, <1>9, <2>2
    <3>2. PICK j \in Instances, u \in Nat : rows[n] = <<j, u>>
      BY <1>4, <3>1
    <3>3. new[n][1] = j /\ new[n][2] = u /\ Listed(j) /\ Precedes(j, u, i, s)
      BY <1>3, <1>9, <3>1, <3>2
    <3>4. /\ Position(j) \in Nat /\ Position(i) \in Nat /\ Position(p) \in Nat
          /\ t \in Nat /\ Precedes(i, s, p, t)
      BY <1>1, <1>2, <1>5, <1>9, <3>3
    <3> QED BY <1>2, <3>3, <3>4 DEF Precedes
  <2> QED BY <2>1, <2>2
<1>10. ASSUME NEW n \in 1..Len(of), Listed(of[n]), NEW u \in MustReturn(table, of[n])
       PROVE  \/ Returned(w, <<of[n], u>>)
              \/ p # NoInstance /\ ~Precedes(of[n], u, p, t)
  <2>1. CASE \E m \in 1..Len(rows) : rows[m] = <<of[n], u>>
    BY <1>7, <2>1
  <2>2. CASE ~Precedes(of[n], u, i, s)
    <3>1. of[n] \in Instances /\ u \in Nat
      BY <1>2, <1>10, ElementOfSeq
    <3>2. CASE of[n] = i /\ u = s
      BY <1>7, <3>2
    <3>3. CASE ~(of[n] = i /\ u = s)
      <4>1. Precedes(i, s, of[n], u)
        BY <1>2, <1>5, <1>10, <2>2, <3>1, <3>3 DEF Precedes
      <4> QED BY <1>1, <1>10, <3>1, <4>1
    <3> QED BY <3>2, <3>3
  <2> QED BY <1>10, <2>1, <2>2
<1>11. Returned(w, <<of[1], FirstRow(table)>>)
  BY <1>7
<1>12. WalkGood(w)
  BY <1>1, <1>6, <1>8, <1>9, <1>10, <1>11 DEF WalkGood
<1> QED BY <1>12 DEF w, p, t, new
-----------------------------------------------------------------------------
(* Steps.                                                                  *)

(* A walk that does not move is none the worse for instances that come and *)
(* go.                                                                     *)
LEMMA WalkRests ==
    ASSUME Base, WalkInv, [Next]_vars, UNCHANGED walk, crash = "no"
    PROVE  WalkInv'
<1> SUFFICES ASSUME WalkOpen' PROVE WalkGood(walk)'
  BY DEF WalkInv
<1>1. \A i \in Constructed : i \in Constructed'
  BY Grows DEF Base
<1>2. ASSUME NEW i \in Constructed, Listed(i)', NEW j \in Constructed, Listed(j)'
      PROVE  /\ Listed(i) /\ Listed(j)
             /\ (Position(i) < Position(j))' <=> Position(i) < Position(j)
  BY <1>2, OrderStep DEF Base
<1>3. \A i, j \in Constructed : Listed(i)' /\ Listed(j)' =>
         /\ Listed(i)
         /\ \A s, t \in Nat : Precedes(i, s, j, t)' <=> Precedes(i, s, j, t)
  BY <1>2 DEF Precedes
<1>4. /\ walk.psych_it # NoInstance => walk.psych_it \in Constructed
      /\ walk.session_it \in Nat
      /\ \A n \in 1..Len(walk.rows) : walk.rows[n][1] \in Constructed /\ walk.rows[n][2] \in Nat
  <2>1. \A n \in 1..Len(walk.rows) : walk.rows[n] \in Instances \X Nat
    BY ElementOfSeq DEF Base, WalkType
  <2> QED BY <2>1 DEF Base, WalkType
<1>5. walk.psych_it # NoInstance => Listed(walk.psych_it)' /\ Listed(walk.psych_it)
  BY <1>3, <1>4 DEF WalkOpen
<1>6. WalkGood(walk)
  BY <1>5 DEF WalkInv, WalkOpen
<1>7. ASSUME walk.psych_it # NoInstance, NEW n \in 1..Len(walk.rows), Listed(walk.rows[n][1])'
      PROVE  Precedes(walk.rows[n][1], walk.rows[n][2], walk.psych_it, walk.session_it)'
  <2> DEFINE i == walk.rows[n][1]
             s == walk.rows[n][2]
             j == walk.psych_it
             t == walk.session_it
  <2>1. i \in Constructed /\ s \in Nat /\ j \in Constructed /\ t \in Nat /\ Listed(i)' /\ Listed(j)'
    BY <1>4, <1>5, <1>7
  <2>2. Listed(i) /\ (Precedes(i, s, j, t)' <=> Precedes(i, s, j, t))
    BY <1>3, <2>1
  <2>3. Precedes(i, s, j, t)
    BY <1>6, <1>7, <2>2 DEF WalkGood
  <2> QED BY <2>2, <2>3
<1>8. ASSUME NEW n \in 1..Len(walk.of), Listed(walk.of[n])', NEW u \in MustReturn(walk.table, walk.of[n])
      PROVE  \/ Returned(walk, <<walk.of[n], u>>)
             \/ walk.psych_it # NoInstance /\ ~Precedes(walk.of[n], u, walk.psych_it, walk.session_it)'
  <2>1. walk.of[n] \in Constructed
    BY <1>6 DEF WalkGood
  <2>2. Listed(walk.of[n])
    BY <1>3, <1>8, <2>1
  <2>3. u \in Nat
    <3>1. walk.of[n] \in Instances
      BY <2>1 DEF Constructed
    <3>2. NumSessions[walk.of[n]] \in Nat
      BY <3>1, SessionsAssumption
    <3> QED BY <1>8, <3>2 DEF MustReturn
  <2>4. \/ Returned(walk, <<walk.of[n], u>>)
        \/ walk.psych_it # NoInstance /\ ~Precedes(walk.of[n], u, walk.psych_it, walk.session_it)
    BY <1>6, <1>8, <2>2 DEF WalkGood
  <2>5. CASE /\ walk.psych_it # NoInstance
             /\ ~Precedes(walk.of[n], u, walk.psych_it, walk.session_it)
    BY <1>3, <1>4, <1>5, <1>8, <2>1, <2>3, <2>5
  <2> QED BY <2>4, <2>5
<1> QED BY <1>1, <1>6, <1>7, <1>8 DEF WalkGood, Returned
(* What a walk has returned does not depend on who steps.                  *)
LEMMA GoodTaken ==
    ASSUME NEW w, WalkGood(w), walk' = w, UNCHANGED <<global_list, life>>
    PROVE  WalkGood(walk)'
<1>1. /\ Constructed' = Constructed
      /\ \A j : Listed(j)' <=> Listed(j)
      /\ \A j, t, k, u : Precedes(j, t, k, u)' <=> Precedes(j, t, k, u)
  BY DEF Constructed, Listed, Precedes, Position
<1>2. /\ walk'.of \in Seq(Instances)
      /\ \A n \in 1..Len(walk'.of) : walk'.of[n] \in Constructed'
      /\ walk'.of # <<>> /\ Returned(walk, <<walk.of[1], FirstRow(walk.table)>>)'
      /\ \A m, n \in 1..Len(walk'.rows) : walk'.rows[m] = walk'.rows[n] => m = n
  BY <1>1 DEF WalkGood, Returned, FirstRow
<1>3. ASSUME walk'.psych_it # NoInstance
      PROVE  /\ walk'.session_it \in RowsOf(walk.table, walk.psych_it)'
             /\ \A n \in 1..Len(walk'.rows) : Listed(walk.rows[n][1])' =>
                   Precedes(walk.rows[n][1], walk.rows[n][2], walk.psych_it, walk.session_it)'
  BY <1>1, <1>3 DEF WalkGood, RowsOf, Listed, Precedes, Position
<1>4. \A n \in 1..Len(walk'.of) : Listed(walk.of[n])' => \A u \in MustReturn(walk.table, walk.of[n])' :
         \/ Returned(walk, <<walk.of[n], u>>)'
         \/ walk'.psych_it # NoInstance /\ ~Precedes(walk.of[n], u, walk.psych_it, walk.session_it)'
  <2> SUFFICES ASSUME NEW n \in 1..Len(walk'.of), Listed(walk.of[n])',
                      NEW u \in MustReturn(walk.table, walk.of[n])',
                      ~Returned(walk, <<walk.of[n], u>>)'
               PROVE  walk'.psych_it # NoInstance /\
                      ~Precedes(walk.of[n], u, walk.psych_it, walk.session_it)'
    OBVIOUS
  <2>1. Listed(w.of[n]) /\ n \in 1..Len(w.of)
    BY DEF Listed
  <2>2. u \in MustReturn(w.table, w.of[n])
    BY DEF MustReturn
  <2>3. ~Returned(w, <<w.of[n], u>>)
    BY DEF Returned
  <2>4. w.psych_it # NoInstance /\ ~Precedes(w.of[n], u, w.psych_it, w.session_it)
    BY <2>1, <2>2, <2>3 DEF WalkGood
  <2> QED BY <2>4 DEF Precedes, Position
<1> QED BY <1>2, <1>3, <1>4 DEF WalkGood

(* A row that is taken, if no provider is missing.                         *)
LEMMA RowTaken ==
    ASSUME NEW table, NEW i, NEW s, NEW rows, NEW of, Row(table, i, s, rows, of), crash' = "no",
           WalkGood([table |-> table, psych_it |-> NextRow(table, i, s).psych_it,
                     session_it |-> NextRow(table, i, s).session_it,
                     rows |-> Append(rows, <<i, s>>), of |-> of])
    PROVE  WalkGood(walk)'
<1> DEFINE w == [table |-> table, psych_it |-> NextRow(table, i, s).psych_it,
                 session_it |-> NextRow(table, i, s).session_it,
                 rows |-> Append(rows, <<i, s>>), of |-> of]
<1>1. walk' = w /\ UNCHANGED <<global_list, life>>
  BY DEF Row, NextRow, Crash, instVars
<1>2. WalkGood(w)
  OBVIOUS
<1> HIDE DEF w
<1> QED BY <1>1, <1>2, GoodTaken

LEMMA WalkStep ==
    ASSUME Base, WalkInv, [Next]_vars
    PROVE  WalkInv'
<1>0. ListInv /\ WalkType
  BY DEF Base
<1>1. CASE crash # "no"
  BY <1>1, Frozen DEF WalkInv, WalkOpen, vars
<1>2. CASE crash' # "no"
  BY <1>2 DEF WalkInv, WalkOpen
<1>3. CASE crash = "no" /\ UNCHANGED walk
  BY <1>3, WalkRests
<1>4. ASSUME NEW table \in {"plugin", "session"}, WalkFirst(table), crash' = "no"
      PROVE  WalkInv'
  <2> DEFINE i == global_list[1]
             s == FirstRow(table)
             none == <<>>
  <2>1. global_list # <<>> /\ Row(table, i, s, none, global_list)
    BY <1>4 DEF WalkFirst, FirstRow
  <2>2. /\ DOMAIN global_list = 1..Len(global_list)
        /\ \A n \in 1..Len(global_list) :
              /\ global_list[n] \in Instances /\ Listed(global_list[n])
              /\ Position(global_list[n]) = n /\ global_list[n] \in Constructed
    <3>1. DOMAIN global_list = 1..Len(global_list)
      BY <1>0, LenProperties DEF ListInv
    <3>2. \A n \in 1..Len(global_list) : global_list[n] \in Instances /\ Listed(global_list[n])
      BY <1>0, <3>1, ElementOfSeq DEF ListInv, Listed
    <3>3. \A n \in 1..Len(global_list) : Position(global_list[n]) = n
      BY <1>0, PositionIs
    <3> QED BY <1>0, <3>1, <3>2, <3>3 DEF ListInv, Listable, Constructed
  <2>3. 1 \in 1..Len(global_list) /\ global_list \in Seq(Instances)
    BY <1>0, <2>1, EmptySeq, LenProperties DEF ListInv
  <2>4. i \in Instances /\ Listed(i) /\ Position(i) = 1
    BY <2>2, <2>3
  <2>5. s \in RowsOf(table, i) /\ s \in {0, 1}
    <3>1. NumSessions[i] \in Nat \ {0}
      BY <2>4, SessionsAssumption
    <3> QED BY <3>1 DEF FirstRow, RowsOf
  <2>6. none \in Seq(Instances \X Nat) /\ Len(none) = 0
    BY EmptySeq
  <2>7. ASSUME NEW n \in 1..Len(global_list), NEW u \in MustReturn(table, global_list[n])
        PROVE  ~Precedes(global_list[n], u, i, s)
    <3>1. Position(global_list[n]) = n /\ n \in Int /\ n >= 1
      BY <2>2
    <3>2. u \in Int /\ ~(u < s)
      <4>1. NumSessions[global_list[n]] \in Nat
        BY <2>2, SessionsAssumption
      <4> QED BY <2>7, <4>1 DEF MustReturn, FirstRow
    <3> QED BY <2>4, <3>1, <3>2 DEF Precedes
  <2> HIDE DEF i, s, none
  <2>8. <<i, s>> = <<global_list[1], FirstRow(table)>>
    BY DEF i, s
  <2>9. \A m, n \in 1..Len(none) : none[m] = none[n] => m = n
    BY <2>6
  <2>10. \A n \in 1..Len(none) : Listed(none[n][1]) => Precedes(none[n][1], none[n][2], i, s)
    BY <2>6
  <2>11. WalkGood([table |-> table, psych_it |-> NextRow(table, i, s).psych_it,
                   session_it |-> NextRow(table, i, s).session_it,
                   rows |-> Append(none, <<i, s>>), of |-> global_list])
    BY <1>0, <2>1, <2>2, <2>3, <2>4, <2>5, <2>6, <2>7, <2>8, <2>9, <2>10, RowGood
  <2> QED BY <1>4, <2>1, <2>11, RowTaken DEF WalkInv
<1>5. CASE WalkNext /\ crash' = "no"
  <2> DEFINE i == walk.psych_it
             s == walk.session_it
  <2>1. crash = "no" /\ walk.table \in {"plugin", "session"} /\ i # NoInstance /\ Listed(i)
    BY <1>5 DEF WalkNext, Crash
  <2>2. Row(walk.table, i, s, walk.rows, walk.of)
    BY <1>5, <2>1 DEF WalkNext
  <2>3. WalkGood(walk)
    BY <2>1 DEF WalkInv, WalkOpen
  <2>4. i \in Instances /\ walk.rows \in Seq(Instances \X Nat)
    BY <1>0, <2>1 DEF WalkType
  <2>5. /\ s \in RowsOf(walk.table, i)
        /\ \A m, n \in 1..Len(walk.rows) : walk.rows[m] = walk.rows[n] => m = n
        /\ \A n \in 1..Len(walk.rows) : Listed(walk.rows[n][1]) =>
              Precedes(walk.rows[n][1], walk.rows[n][2], i, s)
        /\ walk.of \in Seq(Instances) /\ walk.of # <<>>
        /\ \A n \in 1..Len(walk.of) : walk.of[n] \in Constructed
        /\ \E m \in 1..Len(walk.rows) : walk.rows[m] = <<walk.of[1], FirstRow(walk.table)>>
        /\ \A n \in 1..Len(walk.of) : Listed(walk.of[n]) => \A u \in MustReturn(walk.table, walk.of[n]) :
              \/ \E m \in 1..Len(walk.rows) : walk.rows[m] = <<walk.of[n], u>>
              \/ ~Precedes(walk.of[n], u, i, s)
    BY <2>1, <2>3 DEF WalkGood, Returned
  <2> HIDE DEF i, s
  <2>6. WalkGood([table |-> walk.table, psych_it |-> NextRow(walk.table, i, s).psych_it,
                  session_it |-> NextRow(walk.table, i, s).session_it,
                  rows |-> Append(walk.rows, <<i, s>>), of |-> walk.of])
    BY <1>0, <2>1, <2>4, <2>5, RowGood
  <2> QED BY <1>5, <2>2, <2>6, RowTaken DEF WalkInv
<1>6. CASE WalkHandler
  <2>1. UNCHANGED walk \/ walk'.table = "none"
    BY <1>6 DEF WalkHandler, Crash, NoWalk
  <2>2. crash = "no"
    BY <1>6 DEF WalkHandler
  <2> QED BY <1>3, <2>1, <2>2 DEF WalkInv, WalkOpen
<1>7. \/ \E table \in {"plugin", "session"} : WalkFirst(table)
      \/ WalkNext \/ WalkHandler
      \/ UNCHANGED walk
  BY DEF Next, Calls, Construct, Start, ConfigRejected, Destroy, Delete, InCall, InitCurl, InitStage, InitSnmp,
         ClearStep, SnmpSignal, SnmpClear, ClearCurl, SnmpThread, SnmpExit, PumpFreed, Crash,
         CtrlCheck, CtrlThread, CtrlLock, CtrlDeactivate, CtrlRelease, CtrlOnly, Stopped, vars
<1> QED BY <1>1, <1>2, <1>3, <1>4, <1>5, <1>6, <1>7

-----------------------------------------------------------------------------
(* However many instances there are, and however they are constructed and  *)
(* deleted while an SNMP query is answered: no row is returned twice, and  *)
(* if the list is at the end what it was at the beginning, no instance is  *)
(* missed, nor any session but the first of a later instance               *)
(* (psychMIB.cc:926-931).                                                  *)
THEOREM WalksReturnAll == Spec => []WalkMisses
<1>1. Init => WalkInv
  BY DEF Init, WalkInv, WalkOpen, NoWalk
<1>2. Spec => []WalkInv
  BY <1>1, WalkStep, BaseHolds, PTL DEF Spec
<1>3. Base /\ WalkInv => WalkMisses
  <2> SUFFICES ASSUME Base, WalkInv, crash = "no", walk.table # "none", walk.psych_it = NoInstance,
                      global_list = walk.of
               PROVE  /\ \A m, n \in DOMAIN walk.rows : walk.rows[m] = walk.rows[n] => m = n
                      /\ \A n \in DOMAIN walk.of :
                            \A s \in IF walk.table = "session" THEN 1..NumSessions[walk.of[n]] ELSE {0} :
                               \/ \E m \in DOMAIN walk.rows : walk.rows[m] = <<walk.of[n], s>>
                               \/ walk.table = "session" /\ n > 1 /\ s = 1
    BY DEF WalkMisses
  <2>1. WalkGood(walk)
    BY DEF WalkInv, WalkOpen
  <2>2. DOMAIN walk.rows = 1..Len(walk.rows) /\ DOMAIN walk.of = 1..Len(walk.of)
    BY <2>1, LenProperties DEF WalkGood, Base, WalkType
  <2>3. ASSUME NEW n \in 1..Len(walk.of),
               NEW s \in IF walk.table = "session" THEN 1..NumSessions[walk.of[n]] ELSE {0}
        PROVE  Returned(walk, <<walk.of[n], s>>) \/ (walk.table = "session" /\ n > 1 /\ s = 1)
    <3>1. walk.of[n] \in Instances /\ Listed(walk.of[n]) /\ NumSessions[walk.of[n]] \in Nat
      <4>1. walk.of[n] \in Instances
        BY <2>1, ElementOfSeq DEF WalkGood
      <4>2. Listed(walk.of[n])
        BY <2>2 DEF Listed
      <4> QED BY <4>1, <4>2, SessionsAssumption
    <3>2. CASE s \in MustReturn(walk.table, walk.of[n])
      BY <2>1, <3>1, <3>2 DEF WalkGood
    <3>3. CASE s \notin MustReturn(walk.table, walk.of[n])
      <4>1. walk.table = "session" /\ s = 1
        BY <2>3, <3>1, <3>3 DEF MustReturn
      <4>2. n = 1 => Returned(walk, <<walk.of[n], s>>)
        BY <2>1, <4>1 DEF WalkGood, FirstRow
      <4> QED BY <4>1, <4>2
    <3> QED BY <3>2, <3>3
  <2>4. \A m, n \in 1..Len(walk.rows) : walk.rows[m] = walk.rows[n] => m = n
    BY <2>1 DEF WalkGood
  <2> QED BY <2>2, <2>3, <2>4 DEF Returned
<1> QED BY <1>2, <1>3, BaseHolds, PTL
=============================================================================
