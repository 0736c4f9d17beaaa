--------------------------- MODULE HttpQueryProofs --------------------------
(* Theorems about HttpQuery, for any set of resources and Tcl threads, any *)
(* retry configuration and any responses.                                  *)
EXTENDS HttpQuery, TLAPS

-----------------------------------------------------------------------------
(* Type correctness.                                                       *)

LEMMA TypeInit == Init => TypeOK
BY BoundsAssumption DEF Init, TypeOK, Handles, Maps

LEMMA LeaveTypes ==
    ASSUME TypeOK, LeaveQuery, multi' \subseteq Handles, running' \subseteq Handles,
           timer' \in {"waiting", "running", "ended"}
    PROVE  TypeOK'
BY DEF TypeOK, LeaveQuery

LEMMA MyMapType == MyMap \in Maps
BY DEF MyMap, Maps

LEMMA TypeStep == TypeOK /\ [Next]_vars => TypeOK'
<1> SUFFICES ASSUME TypeOK, [Next]_vars PROVE TypeOK'
  OBVIOUS
<1> USE DEF lockVars, loopVars, curlVars, obsVars
<1>1. ASSUME NEW c \in Connections, NewFile(c) PROVE TypeOK'
  BY <1>1, BoundsAssumption DEF TypeOK, NewFile
<1>2. ASSUME StartQuery, query_mutex' \in TclThreads \cup {"none", "timer"},
             timer' \in {"waiting", "running", "ended"}, tcl_left' \in 0..MaxTcl,
             filetime' \in [Maps -> [Connections -> 0..MaxVersion]]
      PROVE  TypeOK'
  BY <1>2, RetryAssumption DEF TypeOK, StartQuery
<1>3. CASE OnTimer
  <2>1. UNCHANGED <<tcl_left, filetime>>
    BY <1>3 DEF OnTimer
  <2>2. StartQuery /\ query_mutex' = "timer" /\ timer' = "running"
    BY <1>3 DEF OnTimer
  <2>3. tcl_left' \in 0..MaxTcl /\ filetime' \in [Maps -> [Connections -> 0..MaxVersion]]
    BY <2>1 DEF TypeOK
  <2> QED BY <1>2, <2>2, <2>3
<1>4. ASSUME NEW t \in TclThreads, TclRepublish(t) PROVE TypeOK'
  <2>1. filetime' \in [Maps -> [Connections -> 0..MaxVersion]]
    <3>1. [c \in Connections |-> 0] \in [Connections -> 0..MaxVersion]
      BY BoundsAssumption
    <3>2. "dup" \in Maps
      BY DEF Maps
    <3> QED BY <1>4, <3>1, <3>2 DEF TclRepublish, TypeOK
  <2>2. tcl_left' \in 0..MaxTcl
    BY <1>4, BoundsAssumption DEF TclRepublish, TypeOK
  <2> QED BY <1>2, <1>4, <2>1, <2>2 DEF TclRepublish, TypeOK
<1>5. ASSUME NEW t \in TclThreads, TclRefused(t) PROVE TypeOK'
  BY <1>5, BoundsAssumption DEF TclRefused, TypeOK
<1>6. CASE Prepare
  BY <1>6, MyMapType DEF Prepare, Rehandle, TypeOK, Handles
<1>7. CASE PrepareThrows
  BY <1>7, MyMapType, LeaveTypes DEF PrepareThrows, Rehandle, TypeOK, Handles
<1>8. ASSUME NEW h \in Handles, NEW r \in Responses, Complete(h, r) PROVE TypeOK'
  <2>1. [map |-> h[1], conn |-> h[2], resp |-> r, version |-> server[h[2]]] \in Done
    BY DEF Handles, Done, TypeOK
  <2> QED BY <1>8, <2>1 DEF Complete, TypeOK
<1>9. CASE Performed
  BY <1>9 DEF Performed, TypeOK
<1>10. ASSUME NEW d \in done PROVE RecordFiletime(d) => filetime' \in [Maps -> [Connections -> 0..MaxVersion]]
  <2>1. d.map \in Maps /\ d.conn \in Connections /\ d.version \in 0..MaxVersion
    BY <1>10, BoundsAssumption DEF TypeOK, Done
  <2> QED BY <2>1 DEF RecordFiletime, TypeOK
<1>11. ASSUME NEW d \in done, Rejected(d) PROVE TypeOK'
  BY <1>10, <1>11 DEF Rejected, TypeOK, Done
<1>12. ASSUME NEW d \in done, NoContentType(d) \/ DanglingResource(d) PROVE TypeOK'
  BY <1>12 DEF NoContentType, DanglingResource, TypeOK
<1>13. ASSUME NEW d \in done, Refresh(d) PROVE TypeOK'
  <2>1. d.conn \in Connections /\ d.version \in 0..MaxVersion
    BY <1>13, BoundsAssumption DEF TypeOK, Done
  <2>2. PICK sent \in BOOLEAN :
          /\ refreshed' = IF sent
                          THEN [refreshed EXCEPT ![d.conn] =
                                  [version |-> d.version, whole |-> d.resp.body = "good"]]
                          ELSE refreshed
          /\ spoiled' = [spoiled EXCEPT ![d.conn] =
                @ \/ (d.map = "own" /\ Records(d.resp) /\ ~(sent /\ d.resp.body = "good"))]
    BY <1>13 DEF Refresh, SendRefresh
  <2>3. refreshed' \in [Connections -> [version : 0..MaxVersion, whole : BOOLEAN]]
    BY <2>1, <2>2 DEF TypeOK
  <2>4. spoiled' \in [Connections -> BOOLEAN]
    BY <2>1, <2>2 DEF TypeOK
  <2>5. pending' \subseteq Connections /\ crash' \in {"no", "erase"}
    BY <1>13 DEF Refresh, ErasePending, TypeOK
  <2>6. sent_now' \in [Connections -> Nat]
    BY <1>13, <2>1 DEF Refresh, TypeOK
  <2>7. filetime' \in [Maps -> [Connections -> 0..MaxVersion]]
    BY <1>10, <1>13 DEF Refresh
  <2>8. /\ multi' \subseteq Handles /\ done' \subseteq Done
        /\ UNCHANGED <<lockVars, pc, retries, retry_sleep, running, server>>
    BY <1>13 DEF Refresh, TypeOK
  <2> QED BY <2>3, <2>4, <2>5, <2>6, <2>7, <2>8 DEF TypeOK
<1>14. CASE Retry
  BY <1>14, RetryAssumption DEF Retry, TypeOK
<1>15. CASE EndQuery
  BY <1>15, LeaveTypes DEF EndQuery, TypeOK
<1>16. CASE OnTimerAborted \/ Stopped \/ UNCHANGED vars
  BY <1>16 DEF OnTimerAborted, Stopped, vars, TypeOK
<1> QED BY <1>1, <1>3, <1>4, <1>5, <1>6, <1>7, <1>8, <1>9, <1>11, <1>12, <1>13, <1>14, <1>15, <1>16
        DEF Next, QueryStep, Transfer, Drain

(* The state of the query loop is always well typed.                       *)
THEOREM TypeCorrect == Spec => []TypeOK
BY TypeInit, TypeStep, PTL DEF Spec

-----------------------------------------------------------------------------
(* The query loop. While the timer thread lives, every handle and every    *)
(* message belongs to a connection that is still pending; so a drained     *)
(* connection is always found in the queue, and found once.                *)

LEMMA InductiveInit == Init => Inductive
BY RetryAssumption DEF Init, Inductive, Carousel, EraseDefined, BackoffBounded

(* The parts of the invariant other than Carousel.                         *)
Frame ==
    /\ pc = "idle" <=> query_mutex = "none"
    /\ timer = "running" <=> query_mutex = "timer"
    /\ EraseDefined
    /\ BackoffBounded

LEMMA FrameStep == TypeOK /\ Inductive /\ [Next]_vars => Frame'
<1> SUFFICES ASSUME TypeOK, Inductive, [Next]_vars PROVE Frame'
  OBVIOUS
<1> USE DEF lockVars, loopVars, curlVars, obsVars
<1>1. CASE UNCHANGED <<query_mutex, timer, pc, crash, retry_sleep>>
  BY <1>1 DEF Frame, Inductive, EraseDefined, BackoffBounded
<1>2. ASSUME StartQuery, query_mutex = "none", crash = "no",
             \/ query_mutex' = "timer" /\ timer' = "running"
             \/ query_mutex' \in TclThreads /\ UNCHANGED timer
      PROVE  Frame'
  BY <1>2, RetryAssumption, TimerAssumption
     DEF Frame, Inductive, EraseDefined, BackoffBounded, StartQuery
<1>3. CASE OnTimer
  BY <1>2, <1>3 DEF OnTimer
<1>4. ASSUME NEW t \in TclThreads, TclRepublish(t) PROVE Frame'
  BY <1>2, <1>4 DEF TclRepublish
<1>5. ASSUME LeaveQuery, crash = "no", timer' # "running" PROVE Frame'
  BY <1>5, RetryAssumption
     DEF Frame, Inductive, EraseDefined, BackoffBounded, LeaveQuery
<1>6. CASE PrepareThrows
  BY <1>5, <1>6 DEF PrepareThrows, MyMap, Inductive, TypeOK
<1>7. CASE EndQuery
  BY <1>5, <1>7 DEF EndQuery, Inductive
<1>8. ASSUME UNCHANGED <<query_mutex, timer, retry_sleep, crash>>,
             pc # "idle", pc' # "idle"
      PROVE  Frame'
  BY <1>8 DEF Frame, Inductive, EraseDefined, BackoffBounded
<1>9. CASE Prepare \/ Performed
  BY <1>8, <1>9 DEF Prepare, Performed
<1>10. CASE Retry
  <2>1. RetryDelay = 0 => retry_sleep' <= RetrySleepMax
    BY <1>10, RetryAssumption DEF Retry, TypeOK
  <2> QED BY <1>10, <2>1 DEF Retry, Frame, Inductive, EraseDefined, BackoffBounded
<1>11. ASSUME NEW d \in done, NoContentType(d) \/ DanglingResource(d) PROVE Frame'
  BY <1>11 DEF NoContentType, DanglingResource, Frame, Inductive, EraseDefined, BackoffBounded
<1>12. ASSUME NEW d \in done, Refresh(d) PROVE Frame'
  <2>1. crash' = "erase" => timer = "ended"
    BY <1>12 DEF Refresh, ErasePending, Inductive, Carousel, Own
  <2> QED BY <1>12, <2>1 DEF Refresh, Frame, Inductive, EraseDefined, BackoffBounded
<1>13. ASSUME NEW h \in Handles, NEW r \in Responses, Complete(h, r) PROVE Frame'
  BY <1>1, <1>13 DEF Complete
<1>14. ASSUME NEW d \in done, Rejected(d) PROVE Frame'
  BY <1>1, <1>14 DEF Rejected
<1>15. ASSUME NEW c \in Connections, NewFile(c) PROVE Frame'
  BY <1>1, <1>15 DEF NewFile
<1>16. ASSUME NEW t \in TclThreads, TclRefused(t) PROVE Frame'
  BY <1>1, <1>16 DEF TclRefused
<1>17. CASE OnTimerAborted \/ Stopped \/ UNCHANGED vars
  BY <1>1, <1>17 DEF OnTimerAborted, Stopped, vars
<1> QED BY <1>3, <1>4, <1>6, <1>7, <1>9, <1>10, <1>11, <1>12, <1>13, <1>14, <1>15, <1>16, <1>17
        DEF Next, QueryStep, Transfer, Drain

LEMMA CarouselStep ==
    ASSUME TypeOK, Inductive, [Next]_vars, crash' = "no", timer' # "ended"
    PROVE  Carousel'
<1> USE DEF lockVars, loopVars, curlVars, obsVars
<1>1. crash = "no" /\ timer # "ended"
  <2>1. timer = "ended" => timer' = "ended"
    <3>1. timer = "ended" => query_mutex # "timer"
      BY DEF Inductive
    <3> QED BY <3>1 DEF Next, NewFile, OnTimer, OnTimerAborted, TclRepublish, TclRefused,
           QueryStep, Transfer, Prepare, PrepareThrows, Complete, Performed, Drain, Rejected,
           NoContentType, Refresh, DanglingResource, Retry, EndQuery, Stopped, vars
  <2>2. crash # "no" => crash' # "no"
    BY DEF Next, NewFile, OnTimer, OnTimerAborted, TclRepublish, TclRefused,
           QueryStep, Transfer, Prepare, PrepareThrows, Complete, Performed, Drain, Rejected,
           NoContentType, Refresh, DanglingResource, Retry, EndQuery, Stopped, vars
  <2> QED BY <2>1, <2>2
<1>2. Carousel
  BY <1>1 DEF Inductive
<1>3. CASE UNCHANGED <<query_mutex, pc, pending, multi, running, done, sent_now>>
  BY <1>2, <1>3 DEF Carousel, Own, MyMap
<1>4. ASSUME StartQuery, pc = "idle" PROVE Carousel'
  <2>1. pending = {} /\ done = {} /\ multi = {} /\ running = {}
    BY <1>2, <1>4 DEF Carousel
  <2>2. done' = {} /\ multi' = {} /\ running' = {} /\ UNCHANGED sent_now /\ pc' = "prepare"
    BY <1>4, <2>1 DEF StartQuery
  <2>3. \A c \in Connections : sent_now'[c] = 0
    BY <1>2, <1>4, <2>2 DEF Carousel
  <2> QED BY <2>2, <2>3 DEF Carousel
<1>5. CASE OnTimer
  BY <1>4, <1>5 DEF OnTimer, Inductive
<1>6. ASSUME NEW t \in TclThreads, TclRepublish(t) PROVE Carousel'
  BY <1>4, <1>6 DEF TclRepublish, Inductive
<1>7. ASSUME LeaveQuery, multi' = {}, running' = {}, done = {} PROVE Carousel'
  BY <1>7 DEF LeaveQuery, Carousel
<1>9. CASE PrepareThrows
  <2>1. MyMap = "dup"
    BY <1>9, MyMapType DEF PrepareThrows, Maps
  <2>2. \A h \in multi \cup running : h \in {"dup"} \X Connections
    BY <1>2, <2>1 DEF Carousel, Own, TypeOK, Handles
  <2>3. multi' = {} /\ running' = {}
    BY <1>9, <2>1, <2>2 DEF PrepareThrows
  <2>4. done = {}
    BY <1>2, <1>9 DEF PrepareThrows, Carousel
  <2> QED BY <1>7, <1>9, <2>3, <2>4 DEF PrepareThrows
<1>10. CASE EndQuery
  <2>1. \A h \in multi \cup running : h \in {MyMap} \X Connections
    BY <1>2 DEF Carousel, Own, TypeOK, Handles
  <2> QED BY <1>7, <1>10, <2>1 DEF EndQuery
<1>11. CASE Prepare
  <2>1. PICK ok \in SUBSET pending : Rehandle(pending, ok)
    BY <1>11 DEF Prepare
  <2>2. \A h \in multi' \cup running' : h[1] = MyMap /\ h[2] \in pending
    BY <1>2, <2>1 DEF Rehandle, Carousel, Own
  <2>3. UNCHANGED <<query_mutex, pending, done, sent_now>> /\ pc = "prepare" /\ pc' = "perform"
    BY <1>11 DEF Prepare
  <2>4. done' = {}
    BY <1>2, <2>3 DEF Carousel
  <2> QED BY <1>2, <2>2, <2>3, <2>4 DEF Carousel, Own, MyMap
<1>12. ASSUME NEW h \in Handles, NEW r \in Responses, Complete(h, r) PROVE Carousel'
  <2> DEFINE new == [map |-> h[1], conn |-> h[2], resp |-> r, version |-> server[h[2]]]
  <2>1. /\ h \in running /\ running' = running \ {h} /\ done' = done \cup {new}
        /\ UNCHANGED <<query_mutex, pc, pending, multi, sent_now>> /\ pc = "perform"
    BY <1>12 DEF Complete
  <2>2. new.map = h[1] /\ new.conn = h[2] /\ <<new.map, new.conn>> = h
    BY DEF Handles
  <2>3. \A d \in done : <<d.map, d.conn>> # h
    BY <1>2, <2>1 DEF Carousel
  <2> HIDE DEF new
  <2>4. \A g \in multi' \cup running' : Own(g)'
    BY <1>2, <2>1 DEF Carousel, Own, MyMap
  <2>5. \A d \in done' : Own(<<d.map, d.conn>>)' /\ <<d.map, d.conn>> \notin running'
    BY <1>2, <2>1, <2>2 DEF Carousel, Own, MyMap
  <2>6. \A d, e \in done' : d.map = e.map /\ d.conn = e.conn => d = e
    BY <1>2, <2>1, <2>2, <2>3 DEF Carousel
  <2> QED BY <1>2, <2>1, <2>4, <2>5, <2>6 DEF Carousel
<1>13. CASE Performed
  BY <1>2, <1>13 DEF Performed, Carousel, Own, MyMap
<1>14. ASSUME NEW d \in done, Rejected(d) PROVE Carousel'
  BY <1>2, <1>14 DEF Rejected, Carousel, Own, MyMap
<1>15. ASSUME NEW d \in done, Refresh(d) PROVE Carousel'
  <2>1. /\ d.map = MyMap /\ d.conn \in pending /\ d.conn \in Connections
        /\ <<d.map, d.conn>> \notin running
    BY <1>2 DEF Carousel, Own, TypeOK
  <2>2. /\ pending' = pending \ {d.conn} /\ done' = done \ {d}
        /\ multi' = multi \ {<<d.map, d.conn>>}
        /\ sent_now' = [sent_now EXCEPT ![d.conn] = @ + 1]
        /\ UNCHANGED <<query_mutex, pc, running>> /\ pc = "drain"
    BY <1>15, <2>1 DEF Refresh, ErasePending
  <2>3. \A c \in Connections : sent_now'[c] <= 1 /\ (sent_now'[c] = 1 => c \notin pending')
    <3>1. sent_now[d.conn] \in Nat /\ sent_now[d.conn] <= 1 /\ sent_now[d.conn] # 1
      BY <1>2, <2>1 DEF Carousel, TypeOK
    <3>2. sent_now[d.conn] = 0
      BY <3>1
    <3> QED BY <1>2, <2>1, <2>2, <3>2 DEF Carousel, TypeOK
  <2>4. \A g \in multi' \cup running' : Own(g)'
    <3>1. ASSUME NEW g \in multi' \cup running' PROVE Own(g)'
      <4>1. g \in Handles /\ g # <<d.map, d.conn>> /\ Own(g)
        BY <1>2, <2>1, <2>2 DEF Carousel, TypeOK
      <4>2. g[2] # d.conn
        BY <2>1, <4>1 DEF Own, Handles
      <4> QED BY <2>2, <4>1, <4>2 DEF Own, MyMap
    <3> QED BY <3>1
  <2>5. \A e \in done' : Own(<<e.map, e.conn>>)' /\ <<e.map, e.conn>> \notin running'
    <3>1. ASSUME NEW e \in done' PROVE Own(<<e.map, e.conn>>)' /\ <<e.map, e.conn>> \notin running'
      <4>1. e \in done /\ e # d
        BY <2>2
      <4>2. Own(<<e.map, e.conn>>) /\ <<e.map, e.conn>> \notin running
        BY <1>2, <4>1 DEF Carousel
      <4>3. e.conn # d.conn
        BY <1>2, <2>1, <4>1, <4>2 DEF Carousel, Own
      <4> QED BY <2>2, <4>2, <4>3 DEF Own, MyMap
    <3> QED BY <3>1
  <2> QED BY <1>2, <2>2, <2>3, <2>4, <2>5 DEF Carousel
<1>16. CASE Retry
  BY <1>2, <1>16 DEF Retry, Carousel, Own, MyMap
<1>17. ASSUME NEW d \in done, NoContentType(d) \/ DanglingResource(d) PROVE FALSE
  BY <1>17 DEF NoContentType, DanglingResource
<1>18. ASSUME NEW c \in Connections, NewFile(c) PROVE Carousel'
  BY <1>3, <1>18 DEF NewFile
<1>19. ASSUME NEW t \in TclThreads, TclRefused(t) PROVE Carousel'
  BY <1>3, <1>19 DEF TclRefused
<1>20. CASE OnTimerAborted \/ Stopped \/ UNCHANGED vars
  BY <1>3, <1>20 DEF OnTimerAborted, Stopped, vars
<1> QED BY <1>5, <1>6, <1>9, <1>10, <1>11, <1>12, <1>13, <1>14, <1>15, <1>16, <1>17, <1>18,
           <1>19, <1>20 DEF Next, QueryStep, Transfer, Drain

LEMMA InductiveStep == TypeOK /\ Inductive /\ [Next]_vars => Inductive'
BY FrameStep, CarouselStep DEF Frame, Inductive

(* The invariant the rest follows from holds in every reachable state.     *)
THEOREM InductiveHolds == Spec => []Inductive
BY TypeInit, TypeStep, InductiveInit, InductiveStep, PTL DEF Spec

(* While the timer thread lives, the connection a good response belongs to *)
(* is always found in the queue: the erase is never that of an end()       *)
(* iterator, however the transfers and the retries interleave.             *)
THEOREM EraseSafe == Spec => []EraseDefined
<1>1. Inductive => EraseDefined
  BY DEF Inductive
<1> QED BY <1>1, InductiveHolds, PTL

(* No query publishes a resource twice, for any number of resources,       *)
(* retries and rounds.                                                     *)
THEOREM PublishedOnce == Spec => []RefreshedOnce
<1>1. Inductive => RefreshedOnce
  BY DEF Inductive, Carousel, RefreshedOnce
<1> QED BY <1>1, InductiveHolds, PTL

(* The backoff is bounded, for any delays and any number of retries.       *)
THEOREM BackoffSafe == Spec => []BackoffBounded
<1>1. Inductive => BackoffBounded
  BY DEF Inductive
<1> QED BY <1>1, InductiveHolds, PTL

(* Between two queries multipass_ is empty.                                *)
THEOREM HandlesSafe == Spec => []NoHandleLeaks
<1>1. Inductive => NoHandleLeaks
  BY DEF Inductive, Carousel, NoHandleLeaks
<1> QED BY <1>1, InductiveHolds, PTL

-----------------------------------------------------------------------------
(* Versions: what is published and what is recorded only moves forward.    *)

LEMMA VersionsInit == Init => Versions
BY BoundsAssumption DEF Init, Versions, Maps

(* What a message changes: the time recorded, if it is the timer's.        *)
LEMMA RecordedOwn ==
    ASSUME TypeOK, NEW d \in done, RecordFiletime(d)
    PROVE  /\ filetime'["own"][d.conn] \in {filetime["own"][d.conn], d.version}
           /\ \A c \in Connections \ {d.conn} : filetime'["own"][c] = filetime["own"][c]
           /\ ~(d.map = "own" /\ Records(d.resp)) => filetime'["own"][d.conn] = filetime["own"][d.conn]
<1>1. d.map \in Maps /\ d.conn \in Connections
  BY DEF TypeOK, Done
<1>2. "own" \in Maps
  BY DEF Maps
<1> QED BY <1>1, <1>2 DEF RecordFiletime, TypeOK

LEMMA VersionsStep == TypeOK /\ Inductive /\ Versions /\ [Next]_vars => Versions'
<1> SUFFICES ASSUME TypeOK, Inductive, Versions, [Next]_vars PROVE Versions'
  OBVIOUS
<1> USE DEF lockVars, loopVars, curlVars, obsVars
<1>1. CASE UNCHANGED <<pc, done, filetime, server, refreshed, spoiled, crash, timer>>
  BY <1>1 DEF Versions
<1>2. ASSUME NEW c \in Connections, NewFile(c) PROVE Versions'
  <2>1. /\ \A b \in Connections : server[b] <= server'[b] /\ server[b] \in Nat /\ server'[b] \in Nat
        /\ UNCHANGED <<pc, done, filetime, refreshed, spoiled, crash, timer>>
    BY <1>2, BoundsAssumption DEF NewFile, TypeOK
  <2>2. "own" \in Maps
    BY DEF Maps
  <2>3. \A b \in Connections : refreshed[b].version \in Nat /\ filetime["own"][b] \in Nat
    BY <2>2, BoundsAssumption DEF TypeOK
  <2>4. \A d \in done : d.conn \in Connections /\ d.version \in Nat
    BY BoundsAssumption DEF TypeOK, Done
  <2> QED BY <2>1, <2>3, <2>4 DEF Versions
<1>3. ASSUME done = {}, done' = {}, UNCHANGED <<server, refreshed, spoiled>>,
             filetime'["own"] = filetime["own"]
      PROVE  Versions'
  BY <1>3 DEF Versions
<1>4. CASE OnTimer
  BY <1>3, <1>4 DEF OnTimer, StartQuery, Versions, Inductive
<1>5. ASSUME NEW t \in TclThreads, TclRepublish(t) PROVE Versions'
  <2>1. pc = "idle" /\ filetime'["own"] = filetime["own"]
    BY <1>5 DEF TclRepublish, Inductive, TypeOK, Maps
  <2> QED BY <1>3, <1>5, <2>1 DEF TclRepublish, StartQuery, Versions
<1>6. CASE Prepare \/ PrepareThrows
  BY <1>3, <1>6 DEF Prepare, PrepareThrows, LeaveQuery, Versions
<1>7. CASE Retry \/ EndQuery
  BY <1>3, <1>7 DEF Retry, EndQuery, LeaveQuery
<1>8. ASSUME NEW h \in Handles, NEW r \in Responses, Complete(h, r) PROVE Versions'
  <2> DEFINE new == [map |-> h[1], conn |-> h[2], resp |-> r, version |-> server[h[2]]]
  <2>1. /\ done' = done \cup {new} /\ pc = "perform"
        /\ UNCHANGED <<pc, filetime, server, refreshed, spoiled, crash, timer>>
    BY <1>8 DEF Complete
  <2>2. new.conn = h[2] /\ h[2] \in Connections /\ new.version = server[new.conn]
    BY DEF Handles
  <2>3. server[h[2]] \in Nat
    BY <2>2, BoundsAssumption DEF TypeOK
  <2> HIDE DEF new
  <2> QED BY <2>1, <2>2, <2>3 DEF Versions
<1>9. CASE Performed
  BY <1>9 DEF Performed, Versions
<1>10. ASSUME NEW d \in done, NoContentType(d) \/ DanglingResource(d) PROVE Versions'
  BY <1>10 DEF NoContentType, DanglingResource, Versions
<1>11. ASSUME NEW d \in done
       PROVE  /\ d.conn \in Connections /\ d.version \in Nat /\ d.version <= server[d.conn]
              /\ \A e \in done : e.conn \in Connections /\ e.version \in Nat
              /\ \A c \in Connections : /\ refreshed[c].version \in Nat /\ server[c] \in Nat
                                        /\ filetime["own"][c] \in Nat
  BY BoundsAssumption DEF Versions, TypeOK, Done, Maps
<1>12. ASSUME NEW d \in done, Rejected(d) PROVE Versions'
  <2>1. /\ done' = done \ {d} /\ pc = "drain" /\ RecordFiletime(d)
        /\ spoiled' = [spoiled EXCEPT ![d.conn] = @ \/ (d.map = "own" /\ Records(d.resp))]
        /\ UNCHANGED <<pc, server, refreshed, crash, timer>>
    BY <1>12 DEF Rejected
  <2>2. \A c \in Connections : filetime'["own"][c] <= server[c]
    BY <1>11, <2>1, RecordedOwn DEF Versions
  <2>3. \A c \in Connections : ~spoiled'[c] => ~spoiled[c] /\ filetime'["own"][c] = filetime["own"][c]
    BY <1>11, <2>1, RecordedOwn DEF TypeOK
  <2> QED BY <1>11, <2>1, <2>2, <2>3 DEF Versions
<1>13. ASSUME NEW d \in done, Refresh(d) PROVE Versions'
  <2>1. /\ done' = done \ {d} /\ pc = "drain" /\ RecordFiletime(d) /\ crash = "no"
        /\ UNCHANGED <<pc, server, timer>> /\ ErasePending(d)
    BY <1>13 DEF Refresh
  <2>2. PICK sent \in BOOLEAN :
          /\ refreshed' = IF sent
                          THEN [refreshed EXCEPT ![d.conn] =
                                  [version |-> d.version, whole |-> d.resp.body = "good"]]
                          ELSE refreshed
          /\ spoiled' = [spoiled EXCEPT ![d.conn] =
                @ \/ (d.map = "own" /\ Records(d.resp) /\ ~(sent /\ d.resp.body = "good"))]
    BY <1>13 DEF Refresh, SendRefresh
  <2>3. /\ \A c \in Connections \ {d.conn} : refreshed'[c] = refreshed[c] /\ spoiled'[c] = spoiled[c]
        /\ refreshed'[d.conn].version = IF sent THEN d.version ELSE refreshed[d.conn].version
        /\ ~spoiled'[d.conn] => ~spoiled[d.conn] /\ (d.map = "own" /\ Records(d.resp) => sent)
    BY <1>11, <2>2 DEF TypeOK
  <2>4. \A c \in Connections : refreshed'[c].version <= server[c] /\ filetime'["own"][c] <= server[c]
    BY <1>11, <2>1, <2>3, RecordedOwn DEF Versions
  <2>5. \A c \in Connections : ~spoiled'[c] => filetime'["own"][c] <= refreshed'[c].version
    <3>1. ASSUME ~spoiled'[d.conn] PROVE filetime'["own"][d.conn] <= refreshed'[d.conn].version
      <4>1. filetime["own"][d.conn] <= d.version /\ filetime["own"][d.conn] <= refreshed[d.conn].version
        BY <1>11, <2>1, <2>3, <3>1 DEF Versions
      <4>2. CASE d.map = "own" /\ Records(d.resp)
        BY <1>11, <2>1, <2>3, <3>1, <4>1, <4>2, RecordedOwn
      <4>3. CASE ~(d.map = "own" /\ Records(d.resp))
        BY <1>11, <2>1, <2>3, <4>1, <4>3, RecordedOwn
      <4> QED BY <4>2, <4>3
    <3> QED BY <2>1, <2>3, <3>1, RecordedOwn DEF Versions
  <2>6. ASSUME NEW e \in done', crash' = "no" PROVE e.conn # d.conn \/ d.map = "dup"
    <3>1. d.map = MyMap /\ e \in done /\ e # d
      BY <2>1, <2>6 DEF ErasePending
    <3>2. CASE timer = "ended"
      BY <3>1, <3>2 DEF Inductive, MyMap
    <3>3. CASE timer # "ended"
      BY <2>1, <3>1, <3>3 DEF Inductive, Carousel, Own
    <3> QED BY <3>2, <3>3
  <2>7. ASSUME NEW e \in done', crash' = "no", timer' # "ended"
        PROVE  refreshed'[e.conn].version <= e.version
    <3>1. e \in done /\ e # d /\ timer # "ended"
      BY <2>1, <2>7
    <3>2. e.conn # d.conn
      BY <2>1, <3>1 DEF Inductive, Carousel, Own
    <3> QED BY <1>11, <2>1, <2>3, <3>1, <3>2 DEF Versions
  <2>8. ASSUME NEW e \in done', crash' = "no", ~spoiled'[e.conn]
        PROVE  filetime'["own"][e.conn] <= e.version
    <3>1. e \in done /\ ~spoiled[e.conn] /\ e.conn \in Connections
      BY <1>11, <2>1, <2>3, <2>8
    <3>2. filetime'["own"][e.conn] = filetime["own"][e.conn]
      BY <2>1, <2>6, <2>8, <3>1, RecordedOwn
    <3> QED BY <2>1, <3>1, <3>2 DEF Versions
  <2>9. \A e \in done' : e.version <= server'[e.conn]
    BY <1>11, <2>1 DEF Versions
  <2> QED BY <2>1, <2>4, <2>5, <2>7, <2>8, <2>9 DEF Versions
<1>14. CASE OnTimerAborted \/ Stopped \/ UNCHANGED vars
  BY <1>1, <1>14 DEF OnTimerAborted, Stopped, vars
<1>15. ASSUME NEW t \in TclThreads, TclRefused(t) PROVE Versions'
  BY <1>1, <1>15 DEF TclRefused
<1> QED BY <1>2, <1>4, <1>5, <1>6, <1>7, <1>8, <1>9, <1>10, <1>12, <1>13, <1>14, <1>15
        DEF Next, QueryStep, Transfer, Drain

LEMMA VersionsHold == Spec => []Versions
BY TypeInit, TypeStep, InductiveInit, InductiveStep, VersionsInit, VersionsStep, PTL DEF Spec

(* If-Modified-Since hides no file, however many versions the server goes  *)
(* through while the timer and Tcl commands publish in turn.               *)
THEOREM RecordedSafe == Spec => []RecordedIsPublished
<1>1. Versions => RecordedIsPublished
  BY DEF Versions, RecordedIsPublished
<1> QED BY <1>1, VersionsHold, PTL

-----------------------------------------------------------------------------
(* The retry loop implements Polling.                                      *)

LEMMA PromiseInit == Init => Promise!Init
<1> SUFFICES ASSUME Init PROVE Promise!Init
  OBVIOUS
<1>1. [c \in Connections |-> refreshed[c].version] = [c \in Connections |-> 0]
  BY DEF Init
<1> QED BY <1>1 DEF Init, Promise!Init

LEMMA PromiseStep ==
    TypeOK /\ Inductive /\ Versions /\ [Next]_vars => [Promise!Next]_(Promise!vars)
<1> SUFFICES ASSUME TypeOK, Inductive, Versions, [Next]_vars
             PROVE  [Promise!Next]_(Promise!vars)
  OBVIOUS
<1> USE DEF lockVars, loopVars, curlVars, obsVars
<1>1. CASE crash' # "no" \/ timer' = "ended"
  BY <1>1 DEF Promise!Next, Promise!Break
<1>2. CASE UNCHANGED <<query_mutex, pending, sent_now, refreshed, crash, timer>>
  BY <1>2 DEF Promise!vars
<1>3. CASE OnTimer
  <2>1. /\ query_mutex = "none" /\ query_mutex' = "timer" /\ pending' = Connections
        /\ UNCHANGED <<sent_now, refreshed, crash>>
        /\ timer # "ended" /\ timer' # "ended"
    BY <1>3 DEF OnTimer, StartQuery
  <2> QED BY <2>1 DEF Promise!Next, Promise!Begin
<1>4. ASSUME NEW t \in TclThreads, TclRepublish(t) PROVE Promise!Next
  <2>1. /\ query_mutex = "none" /\ query_mutex' = t /\ pending' = Connections
        /\ UNCHANGED <<sent_now, refreshed, crash, timer>>
    BY <1>4 DEF TclRepublish, StartQuery
  <2> QED BY <2>1 DEF Promise!Next, Promise!Begin
<1>5. ASSUME LeaveQuery, pc # "idle", crash = "no", timer # "ended", timer' # "ended"
      PROVE  Promise!Next
  <2>1. query_mutex # "none" /\ query_mutex' = "none" /\ pending' = {}
    BY <1>5 DEF LeaveQuery, Inductive
  <2>2. /\ sent_now' = [c \in Connections |-> 0]
        /\ UNCHANGED <<refreshed, crash>>
    BY <1>5 DEF LeaveQuery
  <2> QED BY <1>5, <2>1, <2>2 DEF Promise!Next, Promise!Finish
<1>6. CASE crash' = "no" /\ timer' # "ended" /\ (PrepareThrows \/ EndQuery)
  <2>1. timer # "ended"
    <3>1. timer = "ended" => query_mutex # "timer"
      BY DEF Inductive
    <3> QED BY <1>6, <3>1 DEF PrepareThrows, EndQuery, MyMap
  <2> QED BY <1>5, <1>6, <2>1 DEF PrepareThrows, EndQuery
<1>7. ASSUME NEW d \in done, Refresh(d), crash' = "no", timer' # "ended"
      PROVE  Promise!Next
  <2>1. /\ crash = "no" /\ timer # "ended" /\ pc = "drain"
        /\ sent_now' = [sent_now EXCEPT ![d.conn] = @ + 1]
        /\ UNCHANGED <<query_mutex, crash, timer>>
    BY <1>7 DEF Refresh
  <2>2. d.conn \in Connections /\ d.conn \in pending /\ pending' = pending \ {d.conn}
    BY <1>7 DEF Refresh, ErasePending, TypeOK
  <2>3. sent_now[d.conn] = 0 /\ sent_now' = [sent_now EXCEPT ![d.conn] = 1]
    <3>1. sent_now[d.conn] \in Nat /\ sent_now[d.conn] <= 1 /\ sent_now[d.conn] # 1
      BY <2>1, <2>2 DEF Inductive, Carousel, TypeOK
    <3>2. sent_now[d.conn] = 0
      BY <3>1
    <3> QED BY <2>1, <3>2
  <2>4. query_mutex # "none"
    BY <2>1 DEF Inductive
  <2> DEFINE show(r) == [c \in Connections |-> r[c].version]
  <2>5. refreshed[d.conn].version <= d.version /\ d.version \in Nat
    BY <2>1, BoundsAssumption DEF Versions, TypeOK, Done
  <2>6. \/ refreshed' = refreshed
        \/ refreshed' = [refreshed EXCEPT ![d.conn] =
              [version |-> d.version, whole |-> d.resp.body = "good"]]
    BY <1>7 DEF Refresh, SendRefresh
  <2>7. refreshed[d.conn].version \in Nat
    BY <2>2, BoundsAssumption DEF TypeOK
  <2>8. show(refreshed')[d.conn] >= show(refreshed)[d.conn]
    BY <2>2, <2>5, <2>6, <2>7 DEF TypeOK
  <2>9. show(refreshed') = [show(refreshed) EXCEPT ![d.conn] = show(refreshed')[d.conn]]
    BY <2>2, <2>6 DEF TypeOK
  <2>10. Promise!Serve(d.conn)
    BY <2>1, <2>2, <2>3, <2>4, <2>8, <2>9 DEF Promise!Serve
  <2> QED BY <2>2, <2>10 DEF Promise!Next
<1>8. CASE Prepare \/ Performed \/ Retry \/ OnTimerAborted \/ Stopped \/ UNCHANGED vars
  BY <1>2, <1>8 DEF Prepare, Performed, Retry, OnTimerAborted, Stopped, vars
<1>9. ASSUME NEW h \in Handles, NEW r \in Responses, Complete(h, r) PROVE [Promise!Next]_(Promise!vars)
  BY <1>2, <1>9 DEF Complete
<1>10. ASSUME NEW d \in done, Rejected(d) PROVE [Promise!Next]_(Promise!vars)
  BY <1>2, <1>10 DEF Rejected
<1>11. ASSUME NEW d \in done, NoContentType(d) \/ DanglingResource(d) PROVE crash' # "no"
  BY <1>11 DEF NoContentType, DanglingResource
<1>12. ASSUME NEW c \in Connections, NewFile(c) PROVE [Promise!Next]_(Promise!vars)
  BY <1>2, <1>12 DEF NewFile
<1>13. ASSUME NEW t \in TclThreads, TclRefused(t) PROVE [Promise!Next]_(Promise!vars)
  BY <1>2, <1>13 DEF TclRefused
<1> QED BY <1>1, <1>3, <1>4, <1>6, <1>7, <1>8, <1>9, <1>10, <1>11, <1>12, <1>13
        DEF Next, QueryStep, Transfer, Drain

(* Every query of the detailed loop, with its rounds, handles, rejected    *)
(* responses and retries, is a query of Polling: each resource served at   *)
(* most once, by one thread at a time, and never with an older version.    *)
THEOREM PollingImplemented == Spec => RefinesPolling
<1> USE DEF RefinesPolling, Promise!Spec
<1> QED BY TypeInit, TypeStep, InductiveInit, InductiveStep, VersionsInit, VersionsStep,
           PromiseInit, PromiseStep, PTL DEF Spec
=============================================================================
