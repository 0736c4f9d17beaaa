--------------------------- MODULE RefreshProofs ----------------------------
(* Theorems about Refresh: the publisher it adds keeps Provider's promises,*)
(* and what a refresh delivers, for any tables, resources and sessions.    *)
EXTENDS Refresh, ProviderProofs, SequenceTheorems, Induction

-----------------------------------------------------------------------------
(* The resource of a refresh is configured.                                *)
ResourceInv == row_pc # "idle" => resource \in Resources

LEMMA ResourceStep == ResourceInv /\ [RefreshNext]_allVars => ResourceInv'
<1> SUFFICES ASSUME ResourceInv, [RefreshNext]_allVars PROVE ResourceInv'
  OBVIOUS
<1> USE DEF ResourceInv
<1>1. CASE Respond
  BY <1>1 DEF Respond
<1>2. CASE UNCHANGED resource /\ row_pc # "idle"
  BY <1>2
<1>3. CASE UNCHANGED <<resource, row_pc>>
  BY <1>3
<1>4. CASE RefreshThrows \/ NextResponse
  BY <1>4 DEF RefreshThrows, NextResponse, Over
<1>5. CASE Others \/ Crashed \/ (Stopped /\ UNCHANGED refreshVars) \/ UNCHANGED allVars
  BY <1>3, <1>5 DEF Others, Crashed, allVars, refreshVars, rowVars
<1>6. CASE SendRow
  BY <1>3, <1>6 DEF SendRow, refreshVars, rowVars
<1>7. CASE UnmappedRow \/ PublishRow \/ FirstColumnMapped \/ SubmitRow \/ RowSent \/ TableSent
  BY <1>2, <1>7 DEF UnmappedRow, PublishRow, FirstColumnMapped, SubmitRow, RowSent, TableSent, Rows
<1> QED BY <1>1, <1>4, <1>5, <1>6, <1>7 DEF RefreshNext, RefreshStep

LEMMA ResourceHolds == RefreshSpec => []ResourceInv
<1>1. RefreshInit => ResourceInv
  BY DEF RefreshInit, ResourceInv
<1> QED BY <1>1, ResourceStep, PTL DEF RefreshSpec

(* Every step of the composition is a step of Provider, or none.           *)
LEMMA StepOfProvider == ResourceInv /\ [RefreshNext]_allVars => [Next]_vars
<1> SUFFICES ASSUME ResourceInv, [RefreshNext]_allVars PROVE [Next]_vars
  OBVIOUS
<1>1. CASE Others
  BY <1>1 DEF Others, Next
<1>2. CASE PublishRow
  <2>1. /\ row_pc = "rows" /\ table.rows[row_i].sector \in DOMAIN NameMap[resource]
        /\ Send(message'.stream)
        /\ message'.stream = NameMap[resource][table.rows[row_i].sector]
    BY <1>2 DEF PublishRow, Rows, Row, MappedRow
  <2>2. message'.stream \in Streams
    BY <2>1, NameMapAssumption DEF ResourceInv
  <2> QED BY <2>1, <2>2 DEF Next
<1>3. CASE SendRow \/ SubmitRow \/ RowSent \/ RefreshThrows
  BY <1>3 DEF SendRow, SubmitRow, RowSent, RefreshThrows, Next, SendStep
<1>4. CASE UnmappedRow \/ FirstColumnMapped \/ TableSent \/ NextResponse \/ Respond \/ Crashed
  BY <1>4 DEF UnmappedRow, FirstColumnMapped, TableSent, NextResponse, Respond, Crashed, allVars
<1>5. CASE (Stopped /\ UNCHANGED refreshVars) \/ UNCHANGED allVars
  BY <1>5 DEF Next, allVars
<1> QED BY <1>1, <1>2, <1>3, <1>4, <1>5 DEF RefreshNext, RefreshStep

(* The thread that publishes tables is a publisher of Provider: whatever   *)
(* the drain loop does, sessions and logins see the calls of Send.         *)
THEOREM RefreshImplementsProvider == RefreshSpec => Init /\ [][Next]_vars
BY ResourceHolds, StepOfProvider, PTL DEF RefreshSpec, RefreshInit

(* So the gate, the tokens and the fan-out are safe with it.               *)
LEMMA ProviderHolds ==
    RefreshSpec => [](TypeOK /\ GateInv /\ TokensDistinct /\ FreshInv /\ PublisherInv /\ RwfInv)
<1>1. GateInv => UnmutedHasTokens
  BY DEF GateInv
<1>2. Init => TokensDistinct /\ FreshInv /\ RwfInv
  BY DEF Init, TokensDistinct, NullToken, FreshInv, RwfInv, MinRwf
<1> DEFINE All == TypeOK /\ GateInv /\ TokensDistinct /\ FreshInv /\ PublisherInv /\ RwfInv
<1>3. Init => All
  BY <1>2, TypeInit, GateInit, PublisherInit
<1>4. All /\ [Next]_vars => All'
  BY <1>1, TypeStep, GateStep, TokensStep, FreshStep, PublisherStep, RwfStep
<1> HIDE DEF All
<1>5. RefreshSpec => []All
  BY <1>3, <1>4, RefreshImplementsProvider, PTL
<1> QED BY <1>5 DEF All

(* While tables are published, every invariant of the gate holds.          *)
THEOREM RefreshGateSafe == RefreshSpec => []Inductive
<1>1. GateInv /\ TokensDistinct /\ FreshInv /\ PublisherInv => Inductive
  BY DEF GateInv, PublisherInv, Inductive
<1> QED BY <1>1, ProviderHolds, PTL

(* No row is published to a session before its service directory, as long  *)
(* as validateMsg() accepts the directory.                                 *)
THEOREM RefreshDirectoryFirst ==
    ASSUME ~ValidationMayFail PROVE RefreshSpec => []DirectoryBeforeData
<1>1. Init => DirectoryInv
  BY DEF Init, DirectoryInv, DirectoryBeforeData
<1>2. TypeOK /\ GateInv /\ RwfInv /\ DirectoryInv /\ [Next]_vars => DirectoryInv'
  BY DirectoryStep
<1>3. DirectoryInv => DirectoryBeforeData
  BY DEF DirectoryInv
<1> QED BY <1>1, <1>2, <1>3, RefreshImplementsProvider, ProviderHolds, PTL

-----------------------------------------------------------------------------
(* What a refresh delivers.                                                *)

(* What each session has got is a sequence, whatever its elements are.     *)
Submitted == \E S : received \in [Sessions -> Seq(S)]

CursorType ==
    /\ row_pc \in {"idle", "rows", "send", "done", "crashed"}
    /\ row_i \in Nat \ {0}
    /\ since \in [Sessions -> Nat]
    /\ Submitted

(* A Send is under way exactly while a row is being sent, and the sessions *)
(* it has submitted to are ones its loop has passed.                       *)
SendPhase ==
    /\ row_pc = "send" <=> pub_pc # "idle"
    /\ \A t \in pub_sent : Passed(t)
    /\ pub_pc = "idle" => pub_sent = {}

(* The rows a session has are behind the loop, but for the current one,    *)
(* which it has if this Send has submitted to it.                          *)
RowsBehind ==
    /\ row_pc = "idle" => row_i = 1
    /\ \A s \in Sessions : \A k \in DOMAIN received[s] :
          \/ received[s][k].row \in 1..row_i - 1
          \/ received[s][k].row = row_i /\ row_pc = "send" /\ s \in pub_sent
    /\ RowsInOrder

SentGot == \A s \in pub_sent : Got(s, row_i)

(* An open session has every mapped row that was begun after it was        *)
(* unmuted, and has been open throughout the Send of the current one.      *)
OpenGetsAll ==
    \A s \in Sessions : ~is_muted[s] =>
        /\ \A row \in since[s] + 1..row_i - 1 : MappedRow(row) => Got(s, row)
        /\ row_pc = "send" /\ since[s] < row_i => s \in pub_open

DeliveryInv == CursorType /\ SendPhase /\ RowsBehind /\ SentGot /\ OpenGetsAll

LEMMA DeliveryInit == RefreshInit => DeliveryInv
<1> SUFFICES ASSUME RefreshInit PROVE DeliveryInv
  OBVIOUS
<1> USE DEF RefreshInit, Init
<1>1. CursorType
  <2>1. received \in [Sessions -> Seq({})]
    OBVIOUS
  <2> QED BY <2>1 DEF CursorType, Submitted
<1>2. SendPhase
  BY DEF SendPhase
<1>3. RowsBehind
  BY DEF RowsBehind, RowsInOrder
<1>4. SentGot /\ OpenGetsAll
  BY DEF SentGot, OpenGetsAll
<1> QED BY <1>1, <1>2, <1>3, <1>4 DEF DeliveryInv

(* A message appended is the last one, and the others stay.                *)
LEMMA Submission ==
    ASSUME TypeOK, CursorType, SubmitRow
    PROVE  /\ Submitted'
           /\ \A t \in Sessions \ {pub_s} : received'[t] = received[t]
           /\ Len(received[pub_s]) \in Nat
           /\ DOMAIN received[pub_s] = 1..Len(received[pub_s])
           /\ DOMAIN received'[pub_s] = 1..Len(received[pub_s]) + 1
           /\ \A k \in DOMAIN received[pub_s] : received'[pub_s][k] = received[pub_s][k]
           /\ received'[pub_s][Len(received[pub_s]) + 1] = [row |-> row_i, message |-> message]
<1>1. pub_s \in Sessions
  BY DEF TypeOK
<1>2. PICK S : received \in [Sessions -> Seq(S)]
  BY DEF CursorType, Submitted
<1> DEFINE new == [row |-> row_i, message |-> message]
           T == S \cup {new}
           old == received[pub_s]
<1>3. \A t \in Sessions : received[t] \in Seq(T)
  <2> SUFFICES ASSUME NEW t \in Sessions PROVE received[t] \in Seq(T)
    OBVIOUS
  <2>1. received[t] \in Seq(S)
    BY <1>2
  <2>2. S \subseteq T
    OBVIOUS
  <2> HIDE DEF T
  <2> QED BY <2>1, <2>2, SeqMonotonic
<1>4. new \in T /\ new.row = row_i
  OBVIOUS
<1>5. received' = [received EXCEPT ![pub_s] = Append(@, new)]
  BY DEF SubmitRow
<1> HIDE DEF T, new
<1>6. /\ received'[pub_s] = Append(old, new)
      /\ \A t \in Sessions \ {pub_s} : received'[t] = received[t]
      /\ received' = [t \in Sessions |-> received'[t]]
  BY <1>1, <1>2, <1>5
<1>7. old \in Seq(T)
  BY <1>1, <1>3
<1> HIDE DEF old
<1>8. /\ Append(old, new) \in Seq(T)
      /\ Len(Append(old, new)) = Len(old) + 1
      /\ \A k \in 1..Len(old) : Append(old, new)[k] = old[k]
      /\ Append(old, new)[Len(old) + 1] = new
  BY <1>4, <1>7, AppendProperties
<1>9. /\ Len(old) \in Nat /\ DOMAIN old = 1..Len(old)
      /\ DOMAIN Append(old, new) = 1..Len(old) + 1
  BY <1>7, <1>8, LenProperties
<1>10. Submitted'
  <2>1. \A t \in Sessions : received'[t] \in Seq(T)
    BY <1>3, <1>6, <1>8
  <2>2. received' \in [Sessions -> Seq(T)]
    BY <1>6, <2>1
  <2> QED BY <2>2 DEF Submitted
<1> QED BY <1>4, <1>6, <1>8, <1>9, <1>10 DEF old, new

(* The loop leaves a table, by its end or by an exception.                 *)
LEMMA DeliveryOver ==
    ASSUME Over, pub_pc' = "idle", pub_sent' = {}
    PROVE  DeliveryInv'
<1> USE DEF Over
<1>1. CursorType'
  <2>1. received' \in [Sessions -> Seq({})]
    OBVIOUS
  <2> QED BY <2>1 DEF CursorType, Submitted
<1>2. SendPhase' /\ RowsBehind' /\ SentGot'
  BY DEF SendPhase, RowsBehind, RowsInOrder, SentGot
<1>3. OpenGetsAll'
  BY DEF OpenGetsAll
<1> QED BY <1>1, <1>2, <1>3 DEF DeliveryInv

(* What the other threads do to a Send under way is to take the sessions   *)
(* they mute off those that were open throughout.                          *)
LEMMA OthersFrame ==
    ASSUME TypeOK, Others
    PROVE  /\ UNCHANGED sendVars
           /\ \A s \in pub_open : ~is_muted'[s] => s \in pub_open'
           /\ UNCHANGED <<row_pc, resource, table, row_i, received>>
<1> USE DEF sendVars, watchVars, pubVars
<1>1. UNCHANGED <<row_pc, resource, table, row_i, received>>
  BY DEF Others, rowVars
<1>2. CASE MainNext
  BY <1>1, <1>2 DEF MainNext, MainOnly, SessionInit, VerifyVersion, CreateOMMProvider,
     CreateOMMProviderThrows, NullSessionDereferenced, CreateItemStream, StartThreads
<1>3. CASE Deliver
  BY <1>1, <1>3 DEF Deliver, IgnoredEvent, OnOMMCmdErrorEvent, LoginResponseDiscarded,
     OnLoginSuspect, OnLoginClosed, OnLoginSuccess, Mute, Watch
<1>4. CASE Handle
  BY <1>1, <1>4 DEF Handle, SendDirectoryResponse, DirectoryMalformed, ResetToken, Unmute,
     LoginSuccessThrows, Watch
<1> QED BY <1>2, <1>3, <1>4 DEF Others

LEMMA DeliveryOthers == TypeOK /\ DeliveryInv /\ Others => DeliveryInv'
<1> SUFFICES ASSUME TypeOK, DeliveryInv, Others PROVE DeliveryInv'
  OBVIOUS
<1> USE OthersFrame DEF DeliveryInv, sendVars
<1>1. CursorType'
  <2>1. Begun \in Nat
    BY DEF Begun, CursorType
  <2>2. since' \in [Sessions -> Nat]
    BY <2>1 DEF Others, CursorType
  <2> QED BY <2>2 DEF CursorType, Submitted
<1>2. SendPhase' /\ RowsBehind' /\ SentGot'
  BY DEF SendPhase, Passed, RowsBehind, RowsInOrder, SentGot, Got
<1>3. OpenGetsAll'
  <2> SUFFICES ASSUME NEW s \in Sessions, ~is_muted'[s]
               PROVE  /\ \A row \in since'[s] + 1..row_i' - 1 : MappedRow(row)' => Got(s, row)'
                      /\ row_pc' = "send" /\ since'[s] < row_i' => s \in pub_open'
    BY DEF OpenGetsAll
  <2>1. CASE is_muted[s]
    <3>1. since'[s] = Begun
      BY <2>1 DEF Others
    <3> QED BY <3>1 DEF Begun, CursorType
  <2>2. CASE ~is_muted[s]
    <3>1. since'[s] = since[s]
      BY <2>2 DEF Others
    <3> QED BY <2>2, <3>1 DEF OpenGetsAll, MappedRow, Got
  <2> QED BY <2>1, <2>2
<1> QED BY <1>1, <1>2, <1>3

(* Steps in which the Send under way, if any, stays with its row.          *)
LEMMA DeliveryFrame ==
    ASSUME DeliveryInv, UNCHANGED <<row_i, received, since, is_muted, pub_open, pub_sent>>,
           row_pc' \in {"idle", "rows", "send", "done", "crashed"},
           SendPhase', row_pc = "send" <=> row_pc' = "send",
           row_pc' = "idle" => row_pc = "idle",
           row_i = 1 \/ UNCHANGED <<resource, table>>
    PROVE  DeliveryInv'
<1> USE DEF DeliveryInv
<1>1. CursorType'
  BY DEF CursorType, Submitted
<1>2. RowsBehind' /\ SentGot'
  BY DEF RowsBehind, RowsInOrder, SentGot, Got
<1>3. OpenGetsAll'
  BY DEF OpenGetsAll, CursorType, MappedRow, Got
<1> QED BY <1>1, <1>2, <1>3

LEMMA DeliverySendRow == TypeOK /\ DeliveryInv /\ SendRow => DeliveryInv'
<1> SUFFICES ASSUME TypeOK, DeliveryInv, SendRow PROVE DeliveryInv'
  OBVIOUS
<1>1. SendPhase'
  <2>1. /\ row_pc = "send" /\ row_pc' = "send" /\ pub_pc # "return" /\ pub_pc' # "idle"
        /\ pub_sent' = pub_sent /\ (pub_s' = pub_s \/ pub_s' = pub_s + 1)
    BY DEF SendRow, refreshVars, rowVars, ReadToken, CheckMuted, NextSend
  <2>2. pub_s \in Nat /\ pub_sent \subseteq Nat
    BY DEF TypeOK, Sessions
  <2> QED BY <2>1, <2>2 DEF DeliveryInv, SendPhase, Passed
<1>2. UNCHANGED <<row_pc, resource, table, row_i, received, since, is_muted, pub_open, pub_sent>>
  BY DEF SendRow, ReadToken, CheckMuted, refreshVars, rowVars, gateVars, watchVars
<1>3. row_pc' \in {"idle", "rows", "send", "done", "crashed"}
  BY <1>2 DEF DeliveryInv, CursorType
<1> QED BY <1>1, <1>2, <1>3, DeliveryFrame

(* The loop passes a row.                                                  *)
LEMMA DeliveryNextRow ==
    ASSUME TypeOK, DeliveryInv, row_i' = row_i + 1,
           UNCHANGED <<resource, table, received, since, is_muted>>,
           row_pc' = "rows", pub_pc' = "idle", pub_sent' = {},
           row_pc \in {"rows", "send"},
           \A s \in Sessions : ~is_muted[s] /\ since[s] < row_i /\ MappedRow(row_i) => Got(s, row_i)
    PROVE  DeliveryInv'
<1> USE DEF DeliveryInv
<1>1. CursorType'
  BY DEF CursorType, Submitted
<1>2. SendPhase' /\ SentGot'
  BY DEF SendPhase, SentGot
<1>3. RowsBehind'
  BY DEF RowsBehind, RowsInOrder, CursorType
<1>4. OpenGetsAll'
  <2> SUFFICES ASSUME NEW s \in Sessions, ~is_muted[s],
                      NEW row \in since[s] + 1..row_i, MappedRow(row)
               PROVE  Got(s, row)
    BY DEF OpenGetsAll, MappedRow, Got, CursorType
  <2>1. since[s] \in Nat /\ row_i \in Nat
    BY DEF CursorType
  <2>2. CASE row = row_i
    BY <2>1, <2>2
  <2>3. CASE row \in since[s] + 1..row_i - 1
    BY <2>3 DEF OpenGetsAll
  <2> QED BY <2>1, <2>2, <2>3
<1> QED BY <1>1, <1>2, <1>3, <1>4

LEMMA DeliveryUnmapped == TypeOK /\ DeliveryInv /\ UnmappedRow => DeliveryInv'
<1> SUFFICES ASSUME TypeOK, DeliveryInv, UnmappedRow PROVE DeliveryInv'
  OBVIOUS
<1>1. /\ row_i' = row_i + 1 /\ row_pc = "rows" /\ ~MappedRow(row_i)
      /\ UNCHANGED <<row_pc, resource, table, received, since, is_muted, pub_pc, pub_sent>>
  BY DEF UnmappedRow, Rows, vars, gateVars, pubVars, sendVars
<1>2. pub_pc = "idle" /\ pub_sent = {}
  BY <1>1 DEF DeliveryInv, SendPhase
<1> QED BY <1>1, <1>2, DeliveryNextRow

(* When Send returns, the sessions that were open throughout have the row. *)
LEMMA DeliveryRowSent == TypeOK /\ SendInv /\ DeliveryInv /\ RowSent => DeliveryInv'
<1> SUFFICES ASSUME TypeOK, SendInv, DeliveryInv, RowSent PROVE DeliveryInv'
  OBVIOUS
<1>1. /\ row_i' = row_i + 1 /\ row_pc = "send" /\ pub_pc = "return"
      /\ row_pc' = "rows" /\ pub_pc' = "idle" /\ pub_sent' = {}
      /\ UNCHANGED <<resource, table, received, since, is_muted>>
  BY DEF RowSent, SendReturns, gateVars
<1>2. ASSUME NEW s \in Sessions, ~is_muted[s], since[s] < row_i
      PROVE  Got(s, row_i)
  <2>1. s \in pub_open
    BY <1>1, <1>2 DEF DeliveryInv, OpenGetsAll
  <2>2. Passed(s)
    BY <1>1 DEF SendInv, Passed, TypeOK, Sessions
  <2>3. s \in pub_sent
    BY <2>1, <2>2 DEF SendInv
  <2> QED BY <2>3 DEF DeliveryInv, SentGot
<1> QED BY <1>1, <1>2, DeliveryNextRow

LEMMA DeliveryPublishRow == TypeOK /\ DeliveryInv /\ PublishRow => DeliveryInv'
<1> SUFFICES ASSUME TypeOK, DeliveryInv, PublishRow PROVE DeliveryInv'
  OBVIOUS
<1>1. /\ row_pc = "rows" /\ row_pc' = "send" /\ pub_pc' = "read" /\ pub_sent' = {}
      /\ pub_open' = {s \in Sessions : ~is_muted[s]}
      /\ UNCHANGED <<resource, table, row_i, received, since, is_muted>>
  BY DEF PublishRow, Rows, Send, gateVars
<1> USE <1>1 DEF DeliveryInv
<1>2. CursorType'
  BY DEF CursorType, Submitted
<1>3. SendPhase' /\ RowsBehind' /\ SentGot'
  BY DEF SendPhase, RowsBehind, RowsInOrder, SentGot
<1>4. OpenGetsAll'
  BY DEF OpenGetsAll, MappedRow, Got
<1> QED BY <1>2, <1>3, <1>4

(* A session is given the row its loop is at once, as the last one.        *)
LEMMA DeliverySubmit == TypeOK /\ DeliveryInv /\ SubmitRow => DeliveryInv'
<1> SUFFICES ASSUME TypeOK, DeliveryInv, SubmitRow PROVE DeliveryInv'
  OBVIOUS
<1>1. /\ row_pc = "send" /\ pub_pc = "submit" /\ pub_sent' = pub_sent \cup {pub_s}
      /\ UNCHANGED <<row_pc, resource, table, row_i, since, is_muted, pub_open>>
  BY DEF SubmitRow, Submit, gateVars, watchVars
<1>2. SendPhase'
  BY <1>1 DEF SubmitRow, Submit, NextSend, DeliveryInv, SendPhase, Passed, TypeOK, Sessions
<1>3. pub_s \in Sessions /\ pub_s \notin pub_sent /\ pub_sent \in SUBSET Sessions
  BY <1>1 DEF DeliveryInv, SendPhase, Passed, TypeOK, Sessions
<1> DEFINE last == Len(received[pub_s]) + 1
<1>4. /\ \A t \in Sessions \ {pub_s} : received'[t] = received[t]
      /\ last \in Nat /\ last \notin DOMAIN received[pub_s]
      /\ DOMAIN received[pub_s] = 1..last - 1
      /\ DOMAIN received'[pub_s] = DOMAIN received[pub_s] \cup {last}
      /\ \A k \in DOMAIN received[pub_s] : received'[pub_s][k] = received[pub_s][k]
      /\ received'[pub_s][last].row = row_i
      /\ Submitted'
  BY Submission DEF DeliveryInv
<1> HIDE DEF last
<1>5. CursorType'
  BY <1>1, <1>4 DEF DeliveryInv, CursorType
<1>6. \A k \in DOMAIN received[pub_s] : received[pub_s][k].row \in 1..row_i - 1
  BY <1>3 DEF DeliveryInv, RowsBehind
<1>7. RowsInOrder'
  <2> SUFFICES ASSUME NEW s \in Sessions, NEW j \in DOMAIN received'[s], NEW k \in DOMAIN received'[s],
                      j < k
               PROVE  received'[s][j].row < received'[s][k].row
    BY DEF RowsInOrder
  <2>1. CASE s # pub_s
    BY <1>4, <2>1 DEF DeliveryInv, RowsBehind, RowsInOrder
  <2>2. CASE s = pub_s /\ k # last
    <3>1. j # last
      BY <1>4, <2>2
    <3> QED BY <1>3, <1>4, <2>2, <3>1 DEF DeliveryInv, RowsBehind, RowsInOrder
  <2>3. CASE s = pub_s /\ k = last
    <3>1. j \in DOMAIN received[pub_s]
      BY <1>4, <2>3
    <3> QED BY <1>4, <1>6, <2>3, <3>1 DEF DeliveryInv, CursorType
  <2> QED BY <2>1, <2>2, <2>3
<1>8. RowsBehind'
  <2>1. \A s \in Sessions \ {pub_s} : \A k \in DOMAIN received'[s] :
           \/ received'[s][k].row \in 1..row_i - 1
           \/ received'[s][k].row = row_i /\ s \in pub_sent'
    BY <1>1, <1>4 DEF DeliveryInv, RowsBehind
  <2>2. \A k \in DOMAIN received'[pub_s] :
           \/ received'[pub_s][k].row \in 1..row_i - 1
           \/ received'[pub_s][k].row = row_i /\ pub_s \in pub_sent'
    BY <1>1, <1>4, <1>6
  <2> QED BY <1>1, <1>7, <2>1, <2>2 DEF RowsBehind
<1>9. \A s \in Sessions, row \in Nat : Got(s, row) => Got(s, row)'
  BY <1>4 DEF Got
<1>10. SentGot'
  <2> SUFFICES ASSUME NEW s \in pub_sent' PROVE Got(s, row_i)'
    BY DEF SentGot
  <2>1. CASE s = pub_s
    BY <1>1, <1>4, <2>1 DEF Got
  <2>2. CASE s \in pub_sent
    <3>1. Got(s, row_i) /\ s \in Sessions /\ row_i \in Nat
      BY <1>3, <2>2 DEF DeliveryInv, SentGot, CursorType
    <3> QED BY <1>1, <1>9, <3>1 DEF Got
  <2> QED BY <1>1, <2>1, <2>2
<1>11. OpenGetsAll'
  BY <1>1, <1>9 DEF DeliveryInv, OpenGetsAll, MappedRow, CursorType
<1> QED BY <1>2, <1>5, <1>8, <1>10, <1>11 DEF DeliveryInv

LEMMA DeliveryStep == TypeOK /\ SendInv /\ DeliveryInv /\ [RefreshNext]_allVars => DeliveryInv'
<1> SUFFICES ASSUME TypeOK, SendInv, DeliveryInv, [RefreshNext]_allVars PROVE DeliveryInv'
  OBVIOUS
<1> USE DEF vars, gateVars, pubVars, sendVars, watchVars
<1>1. CASE Others
  BY <1>1, DeliveryOthers
<1>2. CASE UnmappedRow
  BY <1>2, DeliveryUnmapped
<1>3. CASE PublishRow
  BY <1>3, DeliveryPublishRow
<1>4. CASE SendRow
  BY <1>4, DeliverySendRow
<1>5. CASE SubmitRow
  BY <1>5, DeliverySubmit
<1>6. CASE RowSent
  BY <1>6, DeliveryRowSent
<1>7. CASE RefreshThrows
  BY <1>7, DeliveryOver DEF RefreshThrows, SubmitThrows
<1>8. CASE NextResponse
  <2>1. Over /\ pub_pc' = "idle" /\ pub_sent' = {}
    BY <1>8 DEF NextResponse, DeliveryInv, SendPhase
  <2> QED BY <2>1, DeliveryOver
<1>9. CASE Respond \/ FirstColumnMapped \/ TableSent
  <2>1. /\ UNCHANGED <<row_i, received, since, is_muted, pub_open, pub_sent, pub_pc, pub_s>>
        /\ row_pc' \in {"idle", "rows", "send", "done", "crashed"}
        /\ row_pc # "send" /\ row_pc' # "send" /\ row_pc' # "idle"
        /\ row_i = 1 \/ UNCHANGED <<resource, table>>
    BY <1>9 DEF Respond, FirstColumnMapped, TableSent, Rows, DeliveryInv, RowsBehind
  <2>2. SendPhase'
    BY <2>1 DEF DeliveryInv, SendPhase, Passed
  <2> QED BY <2>1, <2>2, DeliveryFrame
<1>10. CASE Crashed \/ (Stopped /\ UNCHANGED refreshVars) \/ UNCHANGED allVars
  <2>1. UNCHANGED <<row_pc, resource, table, row_i, received, since, is_muted, pub_open, pub_sent, pub_pc, pub_s>>
    BY <1>10 DEF Crashed, Stopped, allVars, refreshVars, rowVars
  <2>2. SendPhase' /\ row_pc' \in {"idle", "rows", "send", "done", "crashed"}
    BY <2>1 DEF DeliveryInv, SendPhase, Passed, CursorType
  <2> QED BY <2>1, <2>2, DeliveryFrame
<1> QED BY <1>1, <1>2, <1>3, <1>4, <1>5, <1>6, <1>7, <1>8, <1>9, <1>10 DEF RefreshNext, RefreshStep

(* The rows of a refresh reach a session in their order and none twice,    *)
(* and a refresh that is not cut off by an exception has sent an open      *)
(* session every mapped row that was begun after it was unmuted            *)
(* (provider.cc:113-129, psych.cc:1468-1576): logins that come and go      *)
(* while it publishes lose a session no row it should have had.            *)
THEOREM RefreshDelivers == RefreshSpec => [](RowsInOrder /\ NothingMissed)
<1>1. PublisherInv => SendInv
  BY DEF PublisherInv
<1>2. RefreshSpec => []DeliveryInv
  BY <1>1, DeliveryInit, DeliveryStep, ProviderHolds, PTL DEF RefreshSpec
<1>3. DeliveryInv => RowsInOrder /\ NothingMissed
  BY DEF DeliveryInv, RowsBehind, OpenGetsAll, NothingMissed
<1> QED BY <1>2, <1>3, PTL

-----------------------------------------------------------------------------
(* What OnHttpResponse makes of a text, line by line.                      *)
RowOf(cells) ==
    [sector |-> cells[1], values |-> [j \in 1..Len(cells) - 1 |-> Read(cells[j + 1])]]

Start(r) == [state |-> IF r.stamp THEN "header" ELSE "malformed", columns |-> <<>>, rows |-> <<>>]

Tables(r) ==
    [state : {"header", "row", "fin", "malformed"},
     columns : {<<>>} \cup {r.lines[i] : i \in DOMAIN r.lines},
     rows : Seq({RowOf(r.lines[i]) : i \in DOMAIN r.lines})]

LEMMA LineTyped ==
    ASSUME NEW r \in Responses, NEW i \in DOMAIN r.lines, NEW acc \in Tables(r)
    PROVE  Line(acc, r.lines[i]) \in Tables(r)
<1> DEFINE cells == r.lines[i]
           Made == {RowOf(r.lines[j]) : j \in DOMAIN r.lines}
           Columns == {<<>>} \cup {r.lines[j] : j \in DOMAIN r.lines}
           States == {"header", "row", "fin", "malformed"}
<1>1. cells \in Columns /\ RowOf(cells) \in Made
  OBVIOUS
<1>2. acc \in [state : States, columns : Columns, rows : Seq(Made)]
  BY DEF Tables
<1> HIDE DEF cells, Made, Columns
<1>3. Append(acc.rows, RowOf(cells)) \in Seq(Made)
  BY <1>1, <1>2
<1>4. \/ Line(acc, cells) = acc
      \/ \E state \in States : Line(acc, cells) = [acc EXCEPT !.state = state]
      \/ Line(acc, cells) = [acc EXCEPT !.state = "row", !.columns = cells]
      \/ Line(acc, cells) = [acc EXCEPT !.rows = Append(@, RowOf(cells))]
  BY DEF Line, RowOf
<1>5. Line(acc, cells) \in [state : States, columns : Columns, rows : Seq(Made)]
  BY <1>1, <1>2, <1>3, <1>4
<1> QED BY <1>5 DEF Tables, cells, Made, Columns

(* The fold by which OnHttpResponse is defined, and the table after the    *)
(* first k lines.                                                          *)
Reading(r) ==
    CHOOSE iter : iter = [s \in SUBSET DOMAIN r.lines |->
                            IF s = {} THEN Start(r)
                            ELSE Line(iter[s \ {Max(s)}], r.lines[Max(s)])]
After(r, k) == Reading(r)[1..k]

LEMMA LineByLine ==
    ASSUME NEW r \in Responses
    PROVE  /\ Len(r.lines) \in Nat /\ DOMAIN r.lines = 1..Len(r.lines)
           /\ OnHttpResponse(r) = After(r, Len(r.lines))
           /\ After(r, 0) = Start(r)
           /\ \A k \in 0..Len(r.lines) :
                 /\ After(r, k) \in Tables(r)
                 /\ k < Len(r.lines) => After(r, k + 1) = Line(After(r, k), r.lines[k + 1])
<1> DEFINE n == Len(r.lines)
           G == [i \in 1..n |-> [acc \in Tables(r) |-> Line(acc, r.lines[i])]]
           Body(f) == [s \in SUBSET (1..n) |->
                         IF s = {} THEN Start(r) ELSE Line(f[s \ {Max(s)}], r.lines[Max(s)])]
<1>1. n \in Nat /\ DOMAIN r.lines = 1..n
  BY ResponsesAssumption DEF IsList
<1>2. G \in [1..n -> [Tables(r) -> Tables(r)]]
  BY <1>1, LineTyped
<1>3. Start(r) \in Tables(r)
  BY DEF Start, Tables
<1>4. Reading(r) = CHOOSE f : f = Body(f)
  BY <1>1 DEF Reading
<1> HIDE DEF n
<1>5. ASSUME NEW f \in [SUBSET (1..n) -> Tables(r)], Iterates(f, n, Start(r), G)
      PROVE  f = Body(f)
  <2>1. ASSUME NEW s \in SUBSET (1..n), s # {}
        PROVE  G[Max(s)][f[s \ {Max(s)}]] = Line(f[s \ {Max(s)}], r.lines[Max(s)])
    <3>1. Max(s) \in 1..n
      BY <1>1, <2>1, LastExists
    <3>2. s \ {Max(s)} \in SUBSET (1..n)
      OBVIOUS
    <3> QED BY <3>1, <3>2
  <2>2. f = [s \in SUBSET (1..n) |-> IF s = {} THEN Start(r) ELSE G[Max(s)][f[s \ {Max(s)}]]]
    BY <1>5 DEF Iterates
  <2> HIDE DEF G
  <2> QED BY <2>1, <2>2
<1>6. \E f \in [SUBSET (1..n) -> Tables(r)] : Iterates(f, n, Start(r), G)
  <2> HIDE DEF G
  <2> QED BY <1>1, <1>2, <1>3, IterationExists
<1>7. Reading(r) = Body(Reading(r))
  <2> HIDE DEF Body
  <2> QED BY <1>4, <1>5, <1>6
<1>8. After(r, 0) = Start(r)
  <2>1. 1..0 = {} /\ {} \in SUBSET (1..n)
    OBVIOUS
  <2> QED BY <1>7, <2>1 DEF After
<1>9. ASSUME NEW k \in 0..n, k < n
      PROVE  After(r, k + 1) = Line(After(r, k), r.lines[k + 1])
  <2>1. /\ 1..k + 1 \in SUBSET (1..n) /\ 1..k + 1 # {}
        /\ Max(1..k + 1) = k + 1 /\ (1..k + 1) \ {k + 1} = 1..k
    BY <1>1, <1>9, FirstPositions
  <2> QED BY <1>7, <2>1 DEF After
<1>10. \A k \in 0..n : After(r, k) \in Tables(r)
  <2> DEFINE T == {k \in 0..n : After(r, k) \in Tables(r)}
  <2>1. 0 \in T
    BY <1>1, <1>3, <1>8
  <2>2. ASSUME NEW k \in 0..n, k \in T, k < n
        PROVE  k + 1 \in T
    <3>1. k + 1 \in DOMAIN r.lines /\ k + 1 \in 0..n
      BY <1>1, <2>2
    <3> QED BY <1>9, <2>2, <3>1, LineTyped
  <2> HIDE DEF T
  <2>3. 0..n \subseteq T
    BY <1>1, <2>1, <2>2, UpTo
  <2> QED BY <2>3 DEF T
<1>11. OnHttpResponse(r) = After(r, n)
  BY <1>1 DEF OnHttpResponse, FoldLeft, MapThenFoldSet, Reading, After, Start
<1> QED BY <1>1, <1>8, <1>9, <1>10, <1>11 DEF n
-----------------------------------------------------------------------------
(* The lines that have rows, and how many of them there are up to line i.  *)
RowLines(r) == {i \in 2..Len(r.lines) :
                  /\ \A j \in 2..i : r.lines[j][1] # "#"
                  /\ Len(r.lines[i]) = Len(r.lines[1])}
Count(r, i) == Cardinality({j \in RowLines(r) : j <= i})

LEMMA CountStep ==
    ASSUME NEW r \in Responses, NEW k \in Nat
    PROVE  /\ Count(r, k) \in Nat
           /\ Count(r, k + 1) = IF k + 1 \in RowLines(r) THEN Count(r, k) + 1 ELSE Count(r, k)
           /\ Count(r, 1) = 0 /\ Count(r, 0) = 0
<1> DEFINE S(i) == {j \in RowLines(r) : j <= i}
<1>1. RowLines(r) \subseteq 2..Len(r.lines) /\ Len(r.lines) \in Nat
  BY LineByLine DEF RowLines
<1>2. S(1) = {} /\ S(0) = {}
  BY <1>1
<1>3. IsFiniteSet(S(k))
  <2>1. IsFiniteSet(1..k)
    BY FS_Interval
  <2>2. S(k) \subseteq 1..k
    BY <1>1
  <2> QED BY <2>1, <2>2, FS_Subset
<1>4. Cardinality(S(k)) \in Nat
  BY <1>3, FS_CardinalityType
<1>5. CASE k + 1 \in RowLines(r)
  <2>1. S(k + 1) = S(k) \cup {k + 1} /\ k + 1 \notin S(k)
    BY <1>1, <1>5
  <2> HIDE DEF S
  <2>2. Cardinality(S(k + 1)) = Cardinality(S(k)) + 1
    BY <1>3, <2>1, FS_AddElement
  <2> QED BY <1>2, <1>4, <1>5, <2>2, FS_EmptySet DEF Count, S
<1>6. CASE k + 1 \notin RowLines(r)
  <2>1. S(k + 1) = S(k)
    BY <1>1, <1>6
  <2> QED BY <1>2, <1>4, <1>6, <2>1, FS_EmptySet DEF Count
<1> QED BY <1>5, <1>6

(* What the table is after line k, unless the response is malformed.       *)
HoldsRows(r, rows, k) ==
    /\ Len(rows) = Count(r, k)
    /\ \A i \in RowLines(r) : i <= k => Count(r, i) \in 1..Len(rows)
                                        /\ rows[Count(r, i)] = RowOf(r.lines[i])
    /\ \A row \in 1..Len(rows) : \E i \in RowLines(r) : i <= k /\ Count(r, i) = row

ReadSoFar(r, k) ==
    LET t == After(r, k)
    IN  t.state # "malformed" =>
          IF k = 0 THEN t.state = "header" /\ t.columns = <<>> /\ t.rows = <<>>
          ELSE /\ t.state \in {"row", "fin"}
               /\ t.state = "row" <=> \A j \in 2..k : r.lines[j][1] # "#"
               /\ t.columns = r.lines[1] /\ Len(t.columns) >= 2
               /\ HoldsRows(r, t.rows, k)

LEMMA RowTakenUp ==
    ASSUME NEW r \in Responses, NEW k \in Nat, NEW S, NEW rows \in Seq(S), HoldsRows(r, rows, k)
    PROVE  /\ k + 1 \notin RowLines(r) => HoldsRows(r, rows, k + 1)
           /\ k + 1 \in RowLines(r) =>
                 HoldsRows(r, Append(rows, RowOf(r.lines[k + 1])), k + 1)
<1>1. RowLines(r) \subseteq Nat
  BY LineByLine DEF RowLines
<1>2. Count(r, k) = Len(rows) /\ Len(rows) \in Nat
  BY DEF HoldsRows
<1>3. CASE k + 1 \notin RowLines(r)
  <2>1. Count(r, k + 1) = Count(r, k)
    BY <1>3, CountStep
  <2>2. \A i \in RowLines(r) : i <= k + 1 <=> i <= k
    BY <1>1, <1>3
  <2> QED BY <1>3, <2>1, <2>2 DEF HoldsRows
<1>4. CASE k + 1 \in RowLines(r)
  <2> DEFINE new == RowOf(r.lines[k + 1])
             more == Append(rows, new)
  <2>1. Count(r, k + 1) = Len(rows) + 1
    BY <1>2, <1>4, CountStep
  <2>2. \A i \in RowLines(r) : i <= k + 1 => i <= k \/ i = k + 1
    BY <1>1
  <2>3. /\ Len(more) = Len(rows) + 1 /\ more[Len(rows) + 1] = new
        /\ \A n \in 1..Len(rows) : more[n] = rows[n]
    <3> HIDE DEF new
    <3>1. rows \in Seq(S \cup {new}) /\ new \in S \cup {new}
      OBVIOUS
    <3> QED BY <3>1, AppendProperties
  <2> HIDE DEF new, more
  <2>4. ASSUME NEW i \in RowLines(r), i <= k + 1
        PROVE  Count(r, i) \in 1..Len(more) /\ more[Count(r, i)] = RowOf(r.lines[i])
    <3>1. CASE i <= k
      BY <1>2, <2>3, <3>1 DEF HoldsRows
    <3>2. CASE i = k + 1
      BY <1>2, <2>1, <2>3, <3>2 DEF new
    <3> QED BY <2>2, <2>4, <3>1, <3>2
  <2>5. ASSUME NEW row \in 1..Len(more)
        PROVE  \E i \in RowLines(r) : i <= k + 1 /\ Count(r, i) = row
    <3>1. CASE row \in 1..Len(rows)
      <4>1. PICK i \in RowLines(r) : i <= k /\ Count(r, i) = row
        BY <3>1 DEF HoldsRows
      <4> QED BY <1>1, <4>1
    <3>2. CASE row = Len(rows) + 1
      BY <1>4, <2>1, <3>2
    <3> QED BY <1>2, <2>3, <3>1, <3>2
  <2>6. HoldsRows(r, more, k + 1)
    BY <2>1, <2>3, <2>4, <2>5 DEF HoldsRows
  <2> QED BY <1>4, <2>6 DEF new, more
<1> QED BY <1>3, <1>4
LEMMA ReadStep ==
    ASSUME NEW r \in Responses, NEW k \in 0..Len(r.lines), k < Len(r.lines), ReadSoFar(r, k)
    PROVE  ReadSoFar(r, k + 1)
<1> DEFINE t == After(r, k)
           u == After(r, k + 1)
           cells == r.lines[k + 1]
<1>0. Len(r.lines) \in Nat /\ k \in Nat /\ k + 1 \in 1..Len(r.lines) /\ k + 1 # 0
  BY LineByLine
<1>1. /\ t \in Tables(r) /\ u = Line(t, cells)
      /\ k = 0 => t = Start(r)
  BY LineByLine
<1>2. t.state \in {"header", "row", "fin", "malformed"}
      /\ t.rows \in Seq({RowOf(r.lines[i]) : i \in DOMAIN r.lines})
  BY <1>1 DEF Tables
<1> HIDE DEF t, u
<1> DEFINE Rows1 == {RowOf(r.lines[i]) : i \in DOMAIN r.lines}
<1>3. ReadSoFar(r, k) <=>
         (t.state # "malformed" =>
            IF k = 0 THEN t.state = "header" /\ t.columns = <<>> /\ t.rows = <<>>
            ELSE /\ t.state \in {"row", "fin"}
                 /\ t.state = "row" <=> \A j \in 2..k : r.lines[j][1] # "#"
                 /\ t.columns = r.lines[1] /\ Len(t.columns) >= 2
                 /\ HoldsRows(r, t.rows, k))
  BY DEF ReadSoFar, t
<1>4. ASSUME u.state # "malformed" =>
               /\ u.state \in {"row", "fin"}
               /\ u.state = "row" <=> \A j \in 2..k + 1 : r.lines[j][1] # "#"
               /\ u.columns = r.lines[1] /\ Len(u.columns) >= 2
               /\ HoldsRows(r, u.rows, k + 1)
      PROVE  ReadSoFar(r, k + 1)
  BY <1>0, <1>4 DEF ReadSoFar, u
<1>5. CASE t.state = "malformed"
  BY <1>1, <1>4, <1>5 DEF Line
<1>6. CASE t.state # "malformed" /\ k = 0
  <2>1. t.state = "header" /\ t = [state |-> "header", columns |-> <<>>, rows |-> <<>>]
    BY <1>1, <1>3, <1>6 DEF Start
  <2>2. CASE Len(cells) < 2
    BY <1>1, <1>4, <2>1, <2>2 DEF Line
  <2>3. CASE ~(Len(cells) < 2)
    <3>1. u = [state |-> "row", columns |-> cells, rows |-> <<>>]
      BY <1>1, <2>1, <2>3 DEF Line
    <3>2. Len(cells) \in Nat
      BY <1>0, ResponsesAssumption, LineByLine DEF IsList
    <3>3. HoldsRows(r, <<>>, 1)
      <4>1. Len(<<>>) = 0 /\ Count(r, 1) = 0 /\ 1..0 = {}
        BY CountStep
      <4>2. \A i \in RowLines(r) : ~(i <= 1)
        BY <1>0 DEF RowLines
      <4> QED BY <4>1, <4>2 DEF HoldsRows
    <3>4. 2..1 = {} /\ 0 + 1 = 1
      OBVIOUS
    <3> QED BY <1>4, <1>6, <2>3, <3>1, <3>2, <3>3, <3>4
  <2> QED BY <2>2, <2>3
<1>7. CASE t.state # "malformed" /\ k # 0
  <2>1. /\ t.state \in {"row", "fin"}
        /\ t.state = "row" <=> \A j \in 2..k : r.lines[j][1] # "#"
        /\ t.columns = r.lines[1] /\ Len(t.columns) >= 2
        /\ HoldsRows(r, t.rows, k)
    BY <1>3, <1>7
  <2>2. \A j \in 2..k + 1 : j \in 2..k \/ j = k + 1
    BY <1>0
  <2>3. k + 1 \in 2..k + 1 /\ 2..k \subseteq 2..k + 1 /\ k + 1 \in 2..Len(r.lines)
    BY <1>0, <1>7
  <2>4. k + 1 \in RowLines(r) <=> t.state = "row" /\ cells[1] # "#" /\ Len(cells) = Len(t.columns)
    BY <2>1, <2>2, <2>3 DEF RowLines
  <2>5. (\A j \in 2..k + 1 : r.lines[j][1] # "#") <=> t.state = "row" /\ cells[1] # "#"
    BY <2>1, <2>2, <2>3
  <2>6. /\ k + 1 \notin RowLines(r) => HoldsRows(r, t.rows, k + 1)
        /\ k + 1 \in RowLines(r) => HoldsRows(r, Append(t.rows, RowOf(cells)), k + 1)
    BY <1>0, <1>2, <2>1, RowTakenUp
  <2>7. t = [state |-> t.state, columns |-> t.columns, rows |-> t.rows]
    BY <1>1 DEF Tables
  <2> HIDE DEF cells
  <2>8. CASE t.state = "row" /\ cells[1] # "#" /\ Len(cells) = Len(t.columns)
    <3>1. u = [state |-> "row", columns |-> t.columns, rows |-> Append(t.rows, RowOf(cells))]
      BY <1>1, <2>7, <2>8 DEF Line, RowOf
    <3> QED BY <1>4, <2>1, <2>4, <2>5, <2>6, <2>8, <3>1
  <2>9. CASE t.state = "row" /\ cells[1] = "#"
    <3>1. u = [state |-> "fin", columns |-> t.columns, rows |-> t.rows]
      BY <1>1, <2>7, <2>9 DEF Line
    <3> QED BY <1>4, <2>1, <2>4, <2>5, <2>6, <2>9, <3>1
  <2>10. CASE t.state = "fin" \/ (cells[1] # "#" /\ Len(cells) # Len(t.columns))
    <3>1. u = t
      BY <1>1, <2>1, <2>10 DEF Line
    <3> QED BY <1>4, <2>1, <2>4, <2>5, <2>6, <2>10, <3>1
  <2> QED BY <2>1, <2>8, <2>9, <2>10
<1> QED BY <1>5, <1>6, <1>7

(* A text that is not malformed is read off its lines.                     *)
LEMMA TableHoldsRows ==
    ASSUME NEW r \in Responses, OnHttpResponse(r).state # "malformed"
    PROVE  LET t == OnHttpResponse(r)
               n == Len(r.lines)
           IN  /\ n \in Nat
               /\ n = 0 => t.columns = <<>> /\ t.rows = <<>>
               /\ n # 0 => t.columns = r.lines[1] /\ HoldsRows(r, t.rows, n)
<1> DEFINE n == Len(r.lines)
           T == {k \in 0..n : ReadSoFar(r, k)}
<1>1. n \in Nat /\ OnHttpResponse(r) = After(r, n)
  BY LineByLine
<1>2. 0 \in T
  BY <1>1, LineByLine DEF ReadSoFar, Start
<1>3. ASSUME NEW k \in 0..n, k \in T, k < n
      PROVE  k + 1 \in T
  <2>1. k + 1 \in 0..n
    BY <1>1, <1>3
  <2> QED BY <1>3, <2>1, ReadStep
<1>4. n \in T
  <2> HIDE DEF T
  <2>1. 0..n \subseteq T
    BY <1>1, <1>2, <1>3, UpTo
  <2> QED BY <1>1, <2>1
<1>5. ReadSoFar(r, n)
  BY <1>4
<1> HIDE DEF n
<1> QED BY <1>1, <1>5 DEF ReadSoFar, n
-----------------------------------------------------------------------------
(* The field list of a row: what FieldList makes of its columns, one after *)
(* the other.                                                              *)
Cells(values) == {values[n] : n \in Nat} \cup {"garbage"}
Entry(fields, column, value) == <<fields[column], value>>
Lists(fields, values) ==
    [idx : Nat, entries : Seq({Entry(fields, column, value) :
                                 column \in DOMAIN fields, value \in Cells(values)})]
NoFields == [idx |-> 0, entries |-> <<>>]

LEMMA ColumnTyped ==
    ASSUME NEW fields, NEW values, NEW column, NEW acc \in Lists(fields, values)
    PROVE  Column(acc, column, fields, values) \in Lists(fields, values)
<1> DEFINE Entries == {Entry(fields, c, value) : c \in DOMAIN fields, value \in Cells(values)}
           value == IF acc.idx = 0 THEN "garbage" ELSE values[acc.idx]
<1>1. acc \in [idx : Nat, entries : Seq(Entries)]
  BY DEF Lists
<1>2. acc.idx \in Nat /\ acc.entries \in Seq(Entries)
  BY <1>1
<1>3. CASE column \notin DOMAIN fields
  BY <1>1, <1>3 DEF Column, Lists
<1>4. CASE column \in DOMAIN fields
  <2>1. value \in Cells(values)
    BY <1>2 DEF Cells
  <2>2. Column(acc, column, fields, values) =
          [idx |-> acc.idx + 1, entries |-> Append(acc.entries, Entry(fields, column, value))]
    BY <1>4 DEF Column, Entry
  <2> HIDE DEF value
  <2>3. Entry(fields, column, value) \in Entries
    BY <1>4, <2>1
  <2> HIDE DEF Entries
  <2>4. Append(acc.entries, Entry(fields, column, value)) \in Seq(Entries)
    BY <1>2, <2>3
  <2>5. Column(acc, column, fields, values) \in [idx : Nat, entries : Seq(Entries)]
    BY <1>2, <2>2, <2>4
  <2> QED BY <2>5 DEF Lists, Entries
<1> QED BY <1>3, <1>4

Mapping(x, columns, values) ==
    CHOOSE iter : iter = [s \in SUBSET DOMAIN columns |->
                            IF s = {} THEN NoFields
                            ELSE Column(iter[s \ {Max(s)}], columns[Max(s)], Fields[x], values)]
Mapped(x, columns, values, k) == Mapping(x, columns, values)[1..k]

LEMMA ColumnByColumn ==
    ASSUME NEW x, NEW S, NEW columns \in Seq(S), NEW values
    PROVE  /\ FieldList(x, columns, values) = Mapped(x, columns, values, Len(columns)).entries
           /\ Mapped(x, columns, values, 0) = NoFields
           /\ \A k \in 0..Len(columns) :
                 /\ Mapped(x, columns, values, k) \in Lists(Fields[x], values)
                 /\ k < Len(columns) =>
                       Mapped(x, columns, values, k + 1) =
                           Column(Mapped(x, columns, values, k), columns[k + 1], Fields[x], values)
<1> DEFINE n == Len(columns)
           V == Lists(Fields[x], values)
           G == [i \in 1..n |-> [acc \in V |-> Column(acc, columns[i], Fields[x], values)]]
           Body(f) == [s \in SUBSET (1..n) |->
                         IF s = {} THEN NoFields
                         ELSE Column(f[s \ {Max(s)}], columns[Max(s)], Fields[x], values)]
           After1(k) == Mapped(x, columns, values, k)
<1>1. n \in Nat /\ DOMAIN columns = 1..n
  OBVIOUS
<1>2. G \in [1..n -> [V -> V]]
  BY ColumnTyped
<1>3. NoFields \in V
  BY DEF NoFields, Lists
<1>4. Mapping(x, columns, values) = CHOOSE f : f = Body(f)
  BY <1>1 DEF Mapping
<1>11. FieldList(x, columns, values) = After1(n).entries
  BY <1>1 DEF FieldList, FoldLeft, MapThenFoldSet, Mapping, Mapped, NoFields
<1> HIDE DEF n, V
<1>5. ASSUME NEW f \in [SUBSET (1..n) -> V], Iterates(f, n, NoFields, G)
      PROVE  f = Body(f)
  <2>1. ASSUME NEW s \in SUBSET (1..n), s # {}
        PROVE  G[Max(s)][f[s \ {Max(s)}]] = Column(f[s \ {Max(s)}], columns[Max(s)], Fields[x], values)
    <3>1. Max(s) \in 1..n
      BY <1>1, <2>1, LastExists
    <3>2. s \ {Max(s)} \in SUBSET (1..n)
      OBVIOUS
    <3> QED BY <3>1, <3>2
  <2>2. f = [s \in SUBSET (1..n) |-> IF s = {} THEN NoFields ELSE G[Max(s)][f[s \ {Max(s)}]]]
    BY <1>5 DEF Iterates
  <2> HIDE DEF G
  <2> QED BY <2>1, <2>2
<1>6. \E f \in [SUBSET (1..n) -> V] : Iterates(f, n, NoFields, G)
  <2> HIDE DEF G
  <2> QED BY <1>1, <1>2, <1>3, IterationExists
<1>7. Mapping(x, columns, values) = Body(Mapping(x, columns, values))
  <2> HIDE DEF Body
  <2> QED BY <1>4, <1>5, <1>6
<1>8. After1(0) = NoFields
  <2>1. 1..0 = {} /\ {} \in SUBSET (1..n)
    OBVIOUS
  <2> QED BY <1>7, <2>1 DEF Mapped
<1>9. ASSUME NEW k \in 0..n, k < n
      PROVE  After1(k + 1) = Column(After1(k), columns[k + 1], Fields[x], values)
  <2>1. /\ 1..k + 1 \in SUBSET (1..n) /\ 1..k + 1 # {}
        /\ Max(1..k + 1) = k + 1 /\ (1..k + 1) \ {k + 1} = 1..k
    BY <1>1, <1>9, FirstPositions
  <2> QED BY <1>7, <2>1 DEF Mapped
<1>10. \A k \in 0..n : After1(k) \in V
  <2> DEFINE T == {k \in 0..n : After1(k) \in V}
  <2>1. 0 \in T
    BY <1>1, <1>3, <1>8
  <2>2. ASSUME NEW k \in 0..n, k \in T, k < n
        PROVE  k + 1 \in T
    <3>1. k + 1 \in 0..n
      BY <1>1, <2>2
    <3> QED BY <1>9, <2>2, <3>1, ColumnTyped DEF V
  <2> HIDE DEF T
  <2>3. 0..n \subseteq T
    BY <1>1, <2>1, <2>2, UpTo
  <2> QED BY <2>3 DEF T
<1> QED BY <1>1, <1>8, <1>9, <1>10, <1>11 DEF n, V
LEMMA RangeAppend ==
    ASSUME NEW S, NEW s \in Seq(S), NEW e \in S
    PROVE  Range(Append(s, e)) = Range(s) \cup {e}
<1>1. /\ Len(Append(s, e)) = Len(s) + 1 /\ Append(s, e)[Len(s) + 1] = e
      /\ \A i \in 1..Len(s) : Append(s, e)[i] = s[i]
      /\ Len(s) \in Nat /\ DOMAIN s = 1..Len(s)
      /\ DOMAIN Append(s, e) = 1..Len(s) + 1
  BY AppendProperties, LenProperties
<1>2. 1..Len(s) + 1 = 1..Len(s) \cup {Len(s) + 1}
  BY <1>1
<1> QED BY <1>1, <1>2 DEF Range

(* Unless the first column is a field, every value is in its own column's. *)
FieldsUpTo(x, columns, values, k) ==
    {<<Fields[x][columns[j]], values[j - 1]>> : j \in {j \in 2..k : columns[j] \in DOMAIN Fields[x]}}

LEMMA FieldListMeans ==
    ASSUME NEW x, NEW S, NEW columns \in Seq(S), NEW values,
           columns # <<>> => columns[1] \notin DOMAIN Fields[x]
    PROVE  Range(FieldList(x, columns, values)) = FieldsUpTo(x, columns, values, Len(columns))
<1> DEFINE n == Len(columns)
           acc(k) == Mapped(x, columns, values, k)
           fields == Fields[x]
           Good(k) == acc(k).idx = k /\ Range(acc(k).entries) = FieldsUpTo(x, columns, values, k)
           T == {k \in 0..n : Good(k)}
<1>1. n \in Nat
  OBVIOUS
<1>2. 0 \in T
  <2>1. acc(0) = NoFields
    BY ColumnByColumn
  <2>2. Range(<<>>) = {} /\ FieldsUpTo(x, columns, values, 0) = {}
    BY DEF Range, FieldsUpTo
  <2>3. acc(0).idx = 0 /\ acc(0).entries = <<>>
    BY <2>1 DEF NoFields
  <2> HIDE DEF acc
  <2>4. Range(acc(0).entries) = Range(<<>>)
    BY <2>3
  <2>5. Good(0)
    BY <2>2, <2>3, <2>4
  <2> QED BY <1>1, <2>5
<1>3. ASSUME NEW k \in 0..n, k \in T, k < n
      PROVE  k + 1 \in T
  <2> DEFINE column == columns[k + 1]
  <2>0. k \in Nat /\ k + 1 \in 0..n /\ k + 1 \in 1..n
    BY <1>1, <1>3
  <2>1. acc(k) \in Lists(fields, values) /\ acc(k + 1) = Column(acc(k), column, fields, values)
    BY <1>3, ColumnByColumn
  <2>2. acc(k).idx = k /\ Range(acc(k).entries) = FieldsUpTo(x, columns, values, k)
    BY <1>3
  <2> HIDE DEF acc, fields
  <2>3. CASE column \notin DOMAIN fields
    <3>1. acc(k + 1).idx = k + 1 /\ acc(k + 1).entries = acc(k).entries
      BY <2>1, <2>2, <2>3 DEF Column, Lists
    <3>2. {j \in 2..k + 1 : columns[j] \in DOMAIN fields} = {j \in 2..k : columns[j] \in DOMAIN fields}
      BY <2>0, <2>3
    <3>3. FieldsUpTo(x, columns, values, k + 1) = FieldsUpTo(x, columns, values, k)
      BY <3>2 DEF FieldsUpTo, fields
    <3> QED BY <2>0, <2>2, <3>1, <3>3
  <2>4. CASE column \in DOMAIN fields
    <3>1. k # 0
      <4>1. columns # <<>>
        BY <1>1, <2>0
      <4> QED BY <2>4, <4>1 DEF fields
    <3> DEFINE new == <<fields[column], values[k]>>
               E == {Entry(fields, c, value) : c \in DOMAIN fields, value \in Cells(values)}
    <3>2. acc(k + 1) = [idx |-> k + 1, entries |-> Append(acc(k).entries, new)]
      BY <2>1, <2>2, <2>4, <3>1 DEF Column
    <3>3. acc(k).entries \in Seq(E)
      BY <2>1 DEF Lists
    <3>4. new \in E
      <4>1. values[k] \in Cells(values)
        BY <2>0 DEF Cells
      <4> QED BY <2>4, <4>1 DEF Entry
    <3>5. Range(acc(k + 1).entries) = Range(acc(k).entries) \cup {new}
      <4> HIDE DEF new, E
      <4>1. acc(k + 1).entries = Append(acc(k).entries, new)
        BY <3>2
      <4>2. Range(Append(acc(k).entries, new)) = Range(acc(k).entries) \cup {new}
        BY <3>3, <3>4, RangeAppend
      <4> QED BY <4>1, <4>2
    <3>6. {j \in 2..k + 1 : columns[j] \in DOMAIN fields}
            = {j \in 2..k : columns[j] \in DOMAIN fields} \cup {k + 1}
      BY <2>0, <2>4, <3>1
    <3>7. (k + 1) - 1 = k
      BY <2>0
    <3>8. FieldsUpTo(x, columns, values, k + 1) = FieldsUpTo(x, columns, values, k) \cup {new}
      BY <3>6, <3>7 DEF FieldsUpTo, fields
    <3>9. acc(k + 1).idx = k + 1
      BY <3>2
    <3> QED BY <2>0, <2>2, <3>5, <3>8, <3>9
  <2> QED BY <2>3, <2>4
<1>4. n \in T
  <2> HIDE DEF T
  <2>1. 0..n \subseteq T
    BY <1>1, <1>2, <1>3, UpTo
  <2> QED BY <1>1, <2>1
<1>5. FieldList(x, columns, values) = acc(n).entries
  BY ColumnByColumn
<1> QED BY <1>4, <1>5

-----------------------------------------------------------------------------
(* The state of a refresh: its table is what the response says, the loop   *)
(* is inside it, and every message is the field list of its row.           *)
Carries(x, t, m, row) ==
    m = [stream |-> NameMap[x][t.rows[row].sector],
         entries |-> FieldList(x, t.columns, t.rows[row].values)]

TableInv ==
    row_pc # "idle" =>
        /\ resource \in Resources /\ response \in Responses
        /\ table = OnHttpResponse(response) /\ table.state # "malformed"
        /\ row_i <= Len(table.rows) + 1
        /\ row_pc = "send" => /\ row_i <= Len(table.rows) /\ MappedRow(row_i)
                              /\ Carries(resource, table, message, row_i)
        /\ row_pc = "done" => row_i = Len(table.rows) + 1
        /\ row_pc = "crashed" => /\ table.columns # <<>>
                                 /\ table.columns[1] \in DOMAIN Fields[resource]
        /\ \A s \in Sessions : \A k \in DOMAIN received[s] :
              Carries(resource, table, received[s][k].message, received[s][k].row)

LEMMA RowsCounted ==
    ASSUME TableInv, row_pc # "idle"
    PROVE  Len(table.rows) \in Nat /\ DOMAIN table.rows = 1..Len(table.rows)
<1>1. OnHttpResponse(response) \in Tables(response)
  BY LineByLine DEF TableInv
<1> QED BY <1>1 DEF TableInv, Tables

LEMMA TableFrame ==
    ASSUME TableInv, UNCHANGED rowVars
    PROVE  TableInv'
BY DEF TableInv, rowVars, MappedRow

LEMMA TableSubmit ==
    ASSUME TypeOK, CursorType, TableInv, SubmitRow
    PROVE  TableInv'
<1> DEFINE last == Len(received[pub_s]) + 1
<1>1. /\ \A t \in Sessions \ {pub_s} : received'[t] = received[t]
      /\ DOMAIN received[pub_s] = 1..last - 1 /\ last \in Nat
      /\ DOMAIN received'[pub_s] = DOMAIN received[pub_s] \cup {last}
      /\ \A k \in DOMAIN received[pub_s] : received'[pub_s][k] = received[pub_s][k]
      /\ received'[pub_s][last] = [row |-> row_i, message |-> message]
  BY Submission
<1>2. /\ row_pc = "send" /\ UNCHANGED <<row_pc, resource, table, row_i, message, response>>
  BY DEF SubmitRow
<1> HIDE DEF last
<1>3. ASSUME NEW s \in Sessions, NEW k \in DOMAIN received'[s]
      PROVE  Carries(resource, table, received'[s][k].message, received'[s][k].row)
  <2>1. CASE s = pub_s /\ k = last
    BY <1>1, <1>2, <2>1 DEF TableInv
  <2>2. CASE s # pub_s \/ k # last
    <3>1. k \in DOMAIN received[s] /\ received'[s][k] = received[s][k]
      BY <1>1, <1>3, <2>2
    <3> QED BY <1>2, <3>1 DEF TableInv
  <2> QED BY <2>1, <2>2
<1> QED BY <1>2, <1>3 DEF TableInv, MappedRow

LEMMA TableStep == TypeOK /\ DeliveryInv /\ TableInv /\ [RefreshNext]_allVars => TableInv'
<1> SUFFICES ASSUME TypeOK, DeliveryInv, TableInv, [RefreshNext]_allVars PROVE TableInv'
  OBVIOUS
<1>0. CursorType
  BY DEF DeliveryInv
<1>1. CASE Others
  BY <1>1, TableFrame DEF Others
<1>2. CASE Respond
  <2>1. row_pc = "idle" /\ row_pc' = "rows" /\ UNCHANGED <<row_i, received>>
    BY <1>2 DEF Respond
  <2>2. row_i = 1 /\ \A s \in Sessions : DOMAIN received[s] = {}
    BY <2>1 DEF DeliveryInv, RowsBehind
  <2>3. /\ resource' \in Resources /\ response' \in Responses
        /\ table' = OnHttpResponse(response') /\ table'.state # "malformed"
    BY <1>2 DEF Respond
  <2>4. Len(table'.rows) \in Nat
    <3>1. OnHttpResponse(response') \in Tables(response')
      BY <2>3, LineByLine
    <3> QED BY <2>3, <3>1 DEF Tables
  <2>5. row_i' <= Len(table'.rows) + 1
    BY <2>1, <2>2, <2>4
  <2> QED BY <2>1, <2>2, <2>3, <2>5 DEF TableInv
<1>3. CASE UnmappedRow
  <2>1. /\ row_pc = "rows" /\ row_i <= Len(table.rows) /\ row_i' = row_i + 1
        /\ UNCHANGED <<row_pc, resource, table, message, response, received>>
    BY <1>3 DEF UnmappedRow, Rows
  <2>2. row_i' <= Len(table.rows) + 1
    BY <1>0, <2>1, RowsCounted DEF CursorType
  <2> QED BY <2>1, <2>2 DEF TableInv
<1>4. CASE PublishRow
  <2>1. /\ row_pc = "rows" /\ row_i <= Len(table.rows) /\ row_pc' = "send" /\ MappedRow(row_i)
        /\ UNCHANGED <<resource, table, row_i, response, received>>
        /\ Carries(resource, table, message', row_i)
    BY <1>4 DEF PublishRow, Rows, Row, Carries
  <2> QED BY <2>1 DEF TableInv, MappedRow
<1>5. CASE FirstColumnMapped
  <2>1. /\ row_pc = "rows" /\ row_pc' = "crashed"
        /\ table.columns # <<>> /\ table.columns[1] \in DOMAIN Fields[resource]
        /\ UNCHANGED <<resource, table, row_i, message, response, received>>
    BY <1>5 DEF FirstColumnMapped, Rows
  <2> QED BY <2>1 DEF TableInv
<1>6. CASE SendRow
  BY <1>6, TableFrame DEF SendRow, refreshVars
<1>7. CASE SubmitRow
  BY <1>0, <1>7, TableSubmit
<1>8. CASE RowSent
  <2>1. /\ row_pc = "send" /\ row_pc' = "rows" /\ row_i' = row_i + 1
        /\ UNCHANGED <<resource, table, message, response, received>>
    BY <1>8 DEF RowSent
  <2>2. row_i <= Len(table.rows)
    BY <2>1 DEF TableInv
  <2>3. row_i' <= Len(table.rows) + 1
    BY <1>0, <2>1, <2>2, RowsCounted DEF CursorType
  <2> QED BY <2>1, <2>3 DEF TableInv
<1>9. CASE RefreshThrows \/ NextResponse
  BY <1>9 DEF RefreshThrows, NextResponse, Over, TableInv
<1>10. CASE TableSent
  <2>1. /\ row_pc = "rows" /\ row_pc' = "done" /\ row_i > Len(table.rows)
        /\ UNCHANGED <<resource, table, row_i, message, response, received>>
    BY <1>10 DEF TableSent
  <2>2. row_i <= Len(table.rows) + 1
    BY <2>1 DEF TableInv
  <2>3. row_i = Len(table.rows) + 1
    BY <1>0, <2>1, <2>2, RowsCounted DEF CursorType
  <2> QED BY <2>1, <2>2, <2>3 DEF TableInv
<1>11. CASE Crashed \/ (Stopped /\ UNCHANGED refreshVars) \/ UNCHANGED allVars
  BY <1>11, TableFrame DEF Crashed, allVars, refreshVars
<1> QED BY <1>1, <1>2, <1>3, <1>4, <1>5, <1>6, <1>7, <1>8, <1>9, <1>10, <1>11
        DEF RefreshNext, RefreshStep

(* Every row of the table is the line LineOf names.                        *)
LEMMA RowIsLine ==
    ASSUME TableInv, row_pc # "idle", NEW row \in 1..Len(table.rows)
    PROVE  /\ LineOf(row) \in DataLines
           /\ table.rows[row] = RowOf(response.lines[LineOf(row)])
           /\ table.columns = Names /\ Len(response.lines) # 0
           /\ Len(table.rows) = Cardinality(DataLines)
<1> DEFINE n == Len(response.lines)
<1>1. /\ response \in Responses /\ table = OnHttpResponse(response) /\ table.state # "malformed"
      /\ Len(table.rows) \in Nat
  BY RowsCounted DEF TableInv
<1>2. n # 0
  <2>1. Len(<<>>) = 0
    OBVIOUS
  <2> QED BY <1>1, <2>1, TableHoldsRows
<1>3. table.columns = response.lines[1] /\ HoldsRows(response, table.rows, n) /\ n \in Nat
  BY <1>1, <1>2, TableHoldsRows
<1>4. DataLines = RowLines(response)
  BY DEF DataLines, RowLines, Names
<1>5. \A i \in DataLines : i <= n
  BY <1>3 DEF DataLines
<1>6. {j \in RowLines(response) : j <= n} = DataLines
  BY <1>4, <1>5
<1> HIDE DEF n
<1>7. LineOf(row) = CHOOSE i \in DataLines : Count(response, i) = row
  BY <1>4 DEF LineOf, Count
<1>8. \E i \in DataLines : Count(response, i) = row
  BY <1>3, <1>4 DEF HoldsRows
<1>9. LineOf(row) \in DataLines /\ Count(response, LineOf(row)) = row
  BY <1>7, <1>8
<1>10. table.rows[row] = RowOf(response.lines[LineOf(row)])
  BY <1>3, <1>4, <1>5, <1>9 DEF HoldsRows
<1>11. Len(table.rows) = Cardinality(DataLines)
  BY <1>3, <1>6 DEF HoldsRows, Count
<1> QED BY <1>2, <1>3, <1>9, <1>10, <1>11 DEF Names, n
(* A message that carries a row says what its line means.                  *)
LEMMA MeansItsLine ==
    ASSUME TableInv, row_pc # "idle", ~SectorIsField,
           NEW row \in 1..Len(table.rows), NEW m, Carries(resource, table, m, row)
    PROVE  [m EXCEPT !.entries = Range(@)] = Meaning(LineOf(row))
<1> DEFINE i == LineOf(row)
           cells == response.lines[i]
           values == table.rows[row].values
           n == Len(Names)
<1>1. /\ i \in DataLines /\ table.rows[row] = RowOf(cells)
      /\ table.columns = Names /\ Len(response.lines) # 0
  BY RowIsLine
<1>2. IsList(Names) /\ IsList(cells)
  <2>1. 1 \in DOMAIN response.lines /\ i \in DOMAIN response.lines
    BY <1>1, LineByLine DEF TableInv, DataLines
  <2> QED BY <2>1, ResponsesAssumption DEF TableInv, Names
<1>3. Names \in Seq(Range(Names)) /\ n \in Nat /\ Len(cells) = n
  BY <1>1, <1>2 DEF IsList, DataLines, Names
<1>4. values = [j \in 1..n - 1 |-> Read(cells[j + 1])] /\ table.rows[row].sector = cells[1]
  BY <1>1, <1>3 DEF RowOf
<1> HIDE DEF i, cells, values, n
<1>5. Range(FieldList(resource, Names, values)) = FieldsUpTo(resource, Names, values, n)
  BY <1>3, FieldListMeans DEF SectorIsField, n
<1>6. \A j \in 2..n : values[j - 1] = Read(cells[j])
  <2> SUFFICES ASSUME NEW j \in 2..n PROVE values[j - 1] = Read(cells[j])
    OBVIOUS
  <2>1. j - 1 \in 1..n - 1 /\ (j - 1) + 1 = j
    BY <1>3
  <2> QED BY <1>4, <2>1
<1>7. Meaning(i) =
        [stream |-> NameMap[resource][cells[1]], entries |-> FieldsUpTo(resource, Names, values, n)]
  BY <1>6 DEF Meaning, FieldsUpTo, cells, n
<1>8. m = [stream |-> NameMap[resource][cells[1]], entries |-> FieldList(resource, Names, values)]
  BY <1>1, <1>4 DEF Carries, values
<1> QED BY <1>5, <1>7, <1>8 DEF i

LEMMA AllFaithful ==
    ASSUME DeliveryInv, TableInv
    PROVE  TableFaithful
<1>1. RowsInOrder /\ NothingMissed
  BY DEF DeliveryInv, RowsBehind, OpenGetsAll, NothingMissed
<1>2. CASE row_pc = "idle"
  BY <1>1, <1>2 DEF TableFaithful
<1>3. CASE row_pc # "idle"
  <2>1. /\ response \in Responses /\ table = OnHttpResponse(response) /\ table.state # "malformed"
        /\ Len(table.rows) \in Nat /\ DOMAIN table.rows = 1..Len(table.rows)
    BY <1>3, RowsCounted DEF TableInv
  <2>2. row_pc = "crashed" => SectorIsField
    <3>1. table.columns # <<>> => table.columns = Names
      BY <2>1, TableHoldsRows DEF Names
    <3> QED BY <3>1 DEF TableInv, SectorIsField
  <2>3. TableRead
    <3>1. Len(table.rows) = Cardinality(DataLines)
      <4>1. CASE Len(response.lines) = 0
        <5>1. table.rows = <<>> /\ DataLines = {}
          BY <2>1, <4>1, TableHoldsRows DEF DataLines
        <5> QED BY <5>1, FS_EmptySet
      <4>2. CASE Len(response.lines) # 0
        <5>1. HoldsRows(response, table.rows, Len(response.lines)) /\ Len(response.lines) \in Nat
          BY <2>1, <4>2, TableHoldsRows
        <5>2. {j \in RowLines(response) : j <= Len(response.lines)} = DataLines
          BY <5>1 DEF RowLines, DataLines, Names
        <5> QED BY <5>1, <5>2 DEF HoldsRows, Count
      <4> QED BY <4>1, <4>2
    <3>2. \A row \in 1..Len(table.rows) : table.rows[row].sector = response.lines[LineOf(row)][1]
      <4> SUFFICES ASSUME NEW row \in 1..Len(table.rows)
                   PROVE  table.rows[row].sector = response.lines[LineOf(row)][1]
        OBVIOUS
      <4>1. table.rows[row] = RowOf(response.lines[LineOf(row)])
        BY <1>3, RowIsLine
      <4> QED BY <4>1 DEF RowOf
    <3> QED BY <2>1, <3>1, <3>2 DEF TableRead
  <2>4. RowsFaithful
    <3> SUFFICES ASSUME NEW s \in Sessions, NEW k \in DOMAIN received[s], ~SectorIsField
                 PROVE  [received[s][k].message EXCEPT !.entries = Range(@)]
                            = Meaning(LineOf(received[s][k].row))
      BY DEF RowsFaithful
    <3>1. received[s][k].row \in 1..Len(table.rows)
      BY <1>3, <2>1 DEF DeliveryInv, CursorType, RowsBehind, TableInv
    <3>2. Carries(resource, table, received[s][k].message, received[s][k].row)
      BY <1>3 DEF TableInv
    <3> QED BY <1>3, <3>1, <3>2, MeansItsLine
  <2>5. row_pc = "done" => row_i = Len(table.rows) + 1
    BY DEF TableInv
  <2> QED BY <1>1, <2>2, <2>3, <2>4, <2>5 DEF TableFaithful
<1> QED BY <1>2, <1>3

(* What a session gets of a refresh are rows of the table, in their order, *)
(* none twice, each under the stream of its own sector and with every      *)
(* value in the field of its own column (psych.cc:1162-1286, 1468-1573):   *)
(* for any text the server answers, any resources and fields, any number   *)
(* of sessions, and logins that come and go meanwhile.                     *)
THEOREM RefreshFaithful == RefreshSpec => []TableFaithful
<1>1. RefreshInit => TableInv
  BY DEF RefreshInit, TableInv
<1>2. PublisherInv => SendInv
  BY DEF PublisherInv
<1>3. RefreshSpec => [](DeliveryInv /\ TableInv)
  BY <1>1, <1>2, DeliveryInit, DeliveryStep, TableStep, ProviderHolds, PTL DEF RefreshSpec
<1> QED BY <1>3, AllFaithful, PTL
=============================================================================
