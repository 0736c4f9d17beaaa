--------------------------- MODULE ProviderProofs ---------------------------
(* Theorems about Provider, for any number of sessions and streams, any    *)
(* RWF versions and any number of events.                                  *)
EXTENDS Provider, FiniteSetTheorems, TLAPS

-----------------------------------------------------------------------------
(* Type correctness is inductive by itself.                                *)

LEMMA TypeInit == Init => TypeOK
BY NumSessionsAssumption, MaxEventsAssumption
   DEF Init, TypeOK, Sessions, NullToken, NoVersion, LoginStates

(* The loops over sessions_ stay inside the vector.                        *)
LEMMA LoopIndex ==
    /\ 1 \in Sessions
    /\ \A i \in Sessions : i < NumSessions => i + 1 \in Sessions
BY NumSessionsAssumption DEF Sessions

LEMMA TypeMain == TypeOK /\ MainNext => TypeOK'
<1> SUFFICES ASSUME TypeOK, MainNext PROVE TypeOK'
  OBVIOUS
<1> USE LoopIndex
<1>1. CASE SessionInit
  <2>1. handle' \in [Sessions -> {"null", "session", "omm", "error", "login"}]
    BY <1>1 DEF TypeOK, SessionInit
  <2>2. main_pc' \in {"init", "verify"} /\ main_i' \in Sessions
    BY <1>1 DEF TypeOK, SessionInit, NextSession
  <2> QED BY <1>1, <2>1, <2>2 DEF TypeOK, SessionInit, MainOnly, gateVars, evtVars, pubVars, sendVars, watchVars
<1>2. CASE VerifyVersion
  BY <1>2 DEF TypeOK, VerifyVersion, MainOnly, gateVars, evtVars, pubVars, sendVars, watchVars
<1>3. CASE CreateOMMProvider
  <2>1. handle' \in [Sessions -> {"null", "session", "omm", "error", "login"}]
    BY <1>3 DEF TypeOK, CreateOMMProvider
  <2>2. rwf' \in [Sessions -> RwfVersions \cup {NoVersion}]
    BY <1>3 DEF TypeOK, CreateOMMProvider
  <2>3. min_rwf' \in RwfVersions \cup {NoVersion}
    BY <1>3 DEF TypeOK, CreateOMMProvider, DegradeRwf
  <2>4. main_pc' \in {"create", "streams"} /\ main_i' \in Sessions
    BY <1>3 DEF TypeOK, CreateOMMProvider, NextSession
  <2> QED BY <1>3, <2>1, <2>2, <2>3, <2>4 DEF TypeOK, CreateOMMProvider, MainOnly, gateVars, evtVars, pubVars, sendVars, watchVars
<1>4. CASE CreateOMMProviderThrows
  BY <1>4 DEF TypeOK, CreateOMMProviderThrows, MainOnly, gateVars, evtVars, pubVars, sendVars, watchVars
<1>5. CASE NullSessionDereferenced
  BY <1>5 DEF TypeOK, NullSessionDereferenced, MainOnly, gateVars, evtVars, pubVars, sendVars, watchVars
<1>6. ASSUME NEW r \in Streams, CreateItemStream(r) PROVE TypeOK'
  BY <1>6 DEF TypeOK, CreateItemStream, ItemToken, evtVars, pubVars, sendVars, watchVars, NullToken
<1>7. CASE StartThreads
  BY <1>7 DEF TypeOK, StartThreads, MainOnly, gateVars, evtVars, pubVars, sendVars, watchVars
<1> QED BY <1>1, <1>2, <1>3, <1>4, <1>5, <1>6, <1>7 DEF MainNext

LEMMA TypeEvent == TypeOK /\ (Deliver \/ Handle) => TypeOK'
<1> SUFFICES ASSUME TypeOK, Deliver \/ Handle PROVE TypeOK'
  OBVIOUS
<1> USE DEF mainVars, gateVars, sendVars, watchVars, pubVars
<1>0. ASSUME Dispatch PROVE events' \in 0..MaxEvents
  BY <1>0, MaxEventsAssumption DEF Dispatch, TypeOK
<1>1. ASSUME NEW s \in Sessions, IgnoredEvent(s) \/ OnOMMCmdErrorEvent(s) PROVE TypeOK'
  BY <1>0, <1>1 DEF TypeOK, IgnoredEvent, OnOMMCmdErrorEvent
<1>2. ASSUME NEW s \in Sessions, LoginResponseDiscarded(s) PROVE TypeOK'
  BY <1>0, <1>2 DEF TypeOK, LoginResponseDiscarded, LoginResponse, LoginStates
<1>3. ASSUME NEW s \in Sessions, OnLoginSuspect(s) PROVE TypeOK'
  BY <1>0, <1>3 DEF TypeOK, OnLoginSuspect, LoginResponse, Mute, Watch, LoginStates
<1>4. ASSUME NEW s \in Sessions, OnLoginClosed(s) PROVE TypeOK'
  BY <1>0, <1>4 DEF TypeOK, OnLoginClosed, LoginResponse, Mute, Watch, LoginStates
<1>5. ASSUME NEW s \in Sessions, OnLoginSuccess(s) PROVE TypeOK'
  BY <1>0, <1>5 DEF TypeOK, OnLoginSuccess, LoginResponse, LoginStates
<1>6. CASE SendDirectoryResponse
  BY <1>6 DEF TypeOK, SendDirectoryResponse, GetServiceDirectory
<1>8. CASE DirectoryMalformed
  BY <1>8 DEF TypeOK, DirectoryMalformed
<1>9. ASSUME NEW r \in Streams, ResetToken(r) PROVE TypeOK'
  BY <1>9 DEF TypeOK, ResetToken
<1>10. CASE Unmute
  BY <1>10 DEF TypeOK, Unmute, Watch
<1>11. CASE LoginSuccessThrows
  BY <1>11 DEF TypeOK, LoginSuccessThrows
<1> QED BY <1>1, <1>2, <1>3, <1>4, <1>5, <1>6, <1>8, <1>9, <1>10, <1>11 DEF Deliver, Handle, evtVars

LEMMA TypeSend == TypeOK /\ ((\E r \in Streams : Send(r)) \/ SendStep) => TypeOK'
<1> SUFFICES ASSUME TypeOK, (\E r \in Streams : Send(r)) \/ SendStep PROVE TypeOK'
  OBVIOUS
<1> USE LoopIndex DEF mainVars, gateVars, evtVars, watchVars, NullToken
<1>0. ASSUME NextSend PROVE pub_pc' \in {"read", "return"} /\ pub_s' \in Sessions /\ pub_tok' \in Nat
  BY <1>0 DEF NextSend, TypeOK
<1>1. ASSUME NEW r \in Streams, Send(r) PROVE TypeOK'
  BY <1>1 DEF TypeOK, Send
<1>2. CASE ReadToken
  BY <1>2 DEF TypeOK, ReadToken
<1>3. CASE CheckMuted
  BY <1>0, <1>3 DEF TypeOK, CheckMuted
<1>4. CASE Submit
  <2>1. late' \in [Sessions -> Nat]
    BY <1>4 DEF TypeOK, Submit
  <2> QED BY <1>0, <1>4, <2>1 DEF TypeOK, Submit
<1>6. CASE SubmitThrows
  BY <1>6 DEF TypeOK, SubmitThrows
<1>7. CASE SendReturns
  BY <1>7 DEF TypeOK, SendReturns
<1> QED BY <1>1, <1>2, <1>3, <1>4, <1>6, <1>7 DEF SendStep

LEMMA TypeStep == TypeOK /\ [Next]_vars => TypeOK'
<1>1. CASE Stopped \/ UNCHANGED vars
  BY <1>1 DEF Stopped, TypeOK, vars, mainVars, gateVars, evtVars, pubVars, sendVars, watchVars
<1> QED BY <1>1, TypeMain, TypeEvent, TypeSend DEF Next

(* The program's state is always well typed: in particular every loop over *)
(* sessions_ indexes a token that exists.                                  *)
THEOREM TypeCorrect == Spec => []TypeOK
BY TypeInit, TypeStep, PTL DEF Spec

-----------------------------------------------------------------------------
(* The publishing gate.                                                    *)

GateInv == Phases /\ HandlerInv /\ UnmutedHasTokens /\ MutedWhenDown

LEMMA GateInit == Init => GateInv
BY DEF Init, GateInv, Phases, HandlerInv, UnmutedHasTokens, MutedWhenDown

LEMMA GateStep == TypeOK /\ GateInv /\ [Next]_vars => GateInv'
<1> SUFFICES ASSUME TypeOK, GateInv, [Next]_vars PROVE GateInv'
  OBVIOUS
<1> USE DEF GateInv, Phases, HandlerInv, UnmutedHasTokens, MutedWhenDown
<1>1. CASE MainNext
  <2> USE DEF TypeOK, MainOnly, gateVars, evtVars, pubVars, sendVars
  <2>1. CASE SessionInit
    BY <2>1 DEF SessionInit, NextSession
  <2>2. CASE VerifyVersion
    BY <2>2 DEF VerifyVersion
  <2>3. CASE CreateOMMProvider
    BY <2>3 DEF CreateOMMProvider, NextSession
  <2>4. CASE CreateOMMProviderThrows \/ NullSessionDereferenced
    BY <2>4 DEF CreateOMMProviderThrows, NullSessionDereferenced
  <2>5. ASSUME NEW r \in Streams, CreateItemStream(r) PROVE GateInv'
    BY <2>5 DEF CreateItemStream, ItemToken
  <2>6. CASE StartThreads
    BY <2>6 DEF StartThreads
  <2> QED BY <1>1, <2>1, <2>2, <2>3, <2>4, <2>5, <2>6 DEF MainNext
<1>2. CASE Deliver
  <2> USE DEF TypeOK, mainVars, gateVars, pubVars, sendVars, LoginResponse, Dispatch
  <2> PICK s \in Sessions : \/ IgnoredEvent(s) \/ OnOMMCmdErrorEvent(s) \/ LoginResponseDiscarded(s)
                            \/ OnLoginSuspect(s) \/ OnLoginClosed(s) \/ OnLoginSuccess(s)
    BY <1>2 DEF Deliver
  <2>1. CASE IgnoredEvent(s) \/ OnOMMCmdErrorEvent(s)
    BY <2>1 DEF IgnoredEvent, OnOMMCmdErrorEvent
  <2>2. CASE LoginResponseDiscarded(s)
    BY <2>2 DEF LoginResponseDiscarded
  <2>3. CASE OnLoginSuspect(s)
    BY <2>3 DEF OnLoginSuspect, Mute
  <2>4. CASE OnLoginClosed(s)
    BY <2>4 DEF OnLoginClosed, Mute
  <2>5. CASE OnLoginSuccess(s)
    BY <2>5 DEF OnLoginSuccess
  <2> QED BY <2>1, <2>2, <2>3, <2>4, <2>5
<1>3. CASE Handle
  <2> USE DEF TypeOK, mainVars, gateVars, pubVars, sendVars
  <2>1. CASE SendDirectoryResponse
    BY <2>1 DEF SendDirectoryResponse
  <2>3. CASE DirectoryMalformed
    BY <2>3 DEF DirectoryMalformed
  <2>4. ASSUME NEW r \in Streams, ResetToken(r) PROVE GateInv'
    BY <2>4 DEF ResetToken, NullToken
  <2>5. CASE Unmute
    BY <2>5 DEF Unmute
  <2>6. CASE LoginSuccessThrows
    BY <2>6 DEF LoginSuccessThrows
  <2> QED BY <1>3, <2>1, <2>3, <2>4, <2>5, <2>6 DEF Handle
<1>4. CASE (\E r \in Streams : Send(r)) \/ SendStep
  BY <1>4 DEF TypeOK, SendStep, Send, ReadToken, CheckMuted, Submit, SubmitThrows,
              SendReturns, NextSend, mainVars, gateVars, evtVars
<1>5. CASE Stopped \/ UNCHANGED vars
  BY <1>5 DEF Stopped, vars, mainVars, gateVars, evtVars, pubVars, sendVars
<1> QED BY <1>1, <1>2, <1>3, <1>4, <1>5 DEF Next

(* A session that is open has a token for every stream, always, and one    *)
(* whose login is not up is never open.                                    *)
THEOREM GateSafe == Spec => [](UnmutedHasTokens /\ MutedWhenDown)
<1>1. Spec => []GateInv
  BY GateInit, GateStep, TypeCorrect, PTL DEF Spec
<1>2. GateInv => UnmutedHasTokens /\ MutedWhenDown
  BY DEF GateInv
<1> QED BY <1>1, <1>2, PTL

(* A Suspect or Closed login mutes the session for good: no OnLoginSuccess *)
(* that was still resetting tokens opens it again.                         *)
THEOREM MutedSafe == Spec => []MutedWhenDown
BY GateSafe, PTL

-----------------------------------------------------------------------------
(* Tokens.                                                                 *)

LEMMA TokensStep == TypeOK /\ TokensDistinct /\ [Next]_vars => TokensDistinct'
<1> SUFFICES ASSUME TypeOK, TokensDistinct, [Next]_vars PROVE TokensDistinct'
  OBVIOUS
<1> USE DEF TypeOK, TokensDistinct, NullToken
<1>1. ASSUME NEW r \in Streams, CreateItemStream(r) PROVE TokensDistinct'
  <2> SUFFICES ASSUME NEW s \in Sessions, NEW q \in Streams
               PROVE  /\ token'[q][s] <= generated'[s]
                      /\ \A p \in Streams \ {q} : token'[p][s] = token'[q][s] => token'[q][s] = NullToken
    OBVIOUS
  <2> QED BY <1>1 DEF CreateItemStream, ItemToken
<1>2. CASE SendDirectoryResponse
  BY <1>2 DEF SendDirectoryResponse
<1>3. ASSUME NEW r \in Streams, ResetToken(r) PROVE TokensDistinct'
  <2> SUFFICES ASSUME NEW s \in Sessions, NEW q \in Streams
               PROVE  /\ token'[q][s] <= generated'[s]
                      /\ \A p \in Streams \ {q} : token'[p][s] = token'[q][s] => token'[q][s] = NullToken
    OBVIOUS
  <2> QED BY <1>3 DEF ResetToken
<1>4. CASE UNCHANGED <<token, generated>>
  BY <1>4
<1>5. \/ \E r \in Streams : CreateItemStream(r) \/ ResetToken(r)
      \/ SendDirectoryResponse
      \/ UNCHANGED <<token, generated>>
  BY DEF Next, MainNext, SessionInit, VerifyVersion, CreateOMMProvider, CreateOMMProviderThrows,
         NullSessionDereferenced, StartThreads, MainOnly, Stopped, vars, gateVars,
         Deliver, IgnoredEvent, OnOMMCmdErrorEvent, LoginResponseDiscarded, OnLoginSuspect, OnLoginClosed, OnLoginSuccess,
         Handle, DirectoryMalformed, Unmute, LoginSuccessThrows,
         SendStep, Send, ReadToken, CheckMuted, Submit, SubmitThrows, SendReturns
<1> QED BY <1>1, <1>2, <1>3, <1>4, <1>5

(* No two streams are ever published under the same token of a session.    *)
THEOREM TokensSafe == Spec => []TokensDistinct
<1>1. Init => TokensDistinct
  BY DEF Init, TokensDistinct, NullToken
<1> QED BY <1>1, TokensStep, TypeCorrect, PTL DEF Spec

-----------------------------------------------------------------------------
(* The tokens a session publishes with.                                    *)

(* One iteration of ResetTokens: every stream already dealt with is one    *)
(* token older, and one more stream has been dealt with.                   *)
LEMMA FreshReset ==
    ASSUME TypeOK, FreshInv, NEW r \in Streams, ResetToken(r)
    PROVE  FreshInv'
<1> DEFINE Done == Streams \ evt_todo
<1>1. /\ r \in evt_todo /\ evt_pc = "reset" /\ evt_s \in Sessions
      /\ evt_s' = evt_s /\ Streams \ evt_todo' = Done \cup {r}
  BY DEF ResetToken, TypeOK
<1>2. /\ generated[evt_s] \in Nat
      /\ \A q \in Streams : token[q][evt_s] \in Nat
      /\ generated'[evt_s] = generated[evt_s] + 1
      /\ token'[r][evt_s] = generated[evt_s] + 1
      /\ \A q \in Streams \ {r} : token'[q][evt_s] = token[q][evt_s]
  BY <1>1 DEF ResetToken, TypeOK
<1>3. IsFiniteSet(Done)
  BY StreamsAssumption, FS_Subset
<1>4. Cardinality(Done) \in Nat
  BY <1>3, FS_CardinalityType
<1>5. Cardinality(Done \cup {r}) = Cardinality(Done) + 1
  BY <1>1, <1>3, FS_AddElement
<1>6. \A q \in Done : generated[evt_s] - token[q][evt_s] < Cardinality(Done)
  BY <1>1 DEF FreshInv
<1>7. \A q \in Done \cup {r} : generated'[evt_s] - token'[q][evt_s] < Cardinality(Done) + 1
  <2> SUFFICES ASSUME NEW q \in Done \cup {r}
               PROVE  generated'[evt_s] - token'[q][evt_s] < Cardinality(Done) + 1
    OBVIOUS
  <2>1. CASE q = r
    BY <1>2, <1>4, <2>1
  <2>2. CASE q # r
    <3>1. q \in Done /\ q \in Streams /\ token'[q][evt_s] = token[q][evt_s]
      BY <1>2, <2>2
    <3>2. generated[evt_s] - token[q][evt_s] < Cardinality(Done)
      BY <1>6, <3>1
    <3> QED BY <1>2, <1>4, <3>1, <3>2
  <2> QED BY <2>1, <2>2
<1> QED BY <1>1, <1>5, <1>7 DEF FreshInv

LEMMA FreshStep == TypeOK /\ GateInv /\ FreshInv /\ [Next]_vars => FreshInv'
<1> SUFFICES ASSUME TypeOK, GateInv, FreshInv, [Next]_vars PROVE FreshInv'
  OBVIOUS
<1>1. ASSUME NEW r \in Streams, ResetToken(r) PROVE FreshInv'
  BY <1>1, FreshReset
<1>2. CASE SendDirectoryResponse \/ DirectoryMalformed
  <2>1. evt_todo' = Streams
    BY <1>2 DEF SendDirectoryResponse, DirectoryMalformed, GateInv, HandlerInv
  <2> QED BY <2>1 DEF FreshInv
<1>3. CASE evt_pc' # "reset"
  BY <1>3 DEF FreshInv
<1>4. CASE UNCHANGED <<token, generated, evt_pc, evt_s, evt_todo>>
  BY <1>4 DEF FreshInv
<1>5. \/ \E r \in Streams : ResetToken(r)
      \/ SendDirectoryResponse \/ DirectoryMalformed
      \/ evt_pc' # "reset"
      \/ UNCHANGED <<token, generated, evt_pc, evt_s, evt_todo>>
  <2>1. CASE MainNext
    BY <2>1 DEF MainNext, SessionInit, VerifyVersion, CreateOMMProvider, CreateOMMProviderThrows,
           NullSessionDereferenced, CreateItemStream, StartThreads, MainOnly, gateVars, evtVars, GateInv, Phases
  <2>2. CASE Deliver
    BY <2>2 DEF Deliver, IgnoredEvent, OnOMMCmdErrorEvent, LoginResponseDiscarded, OnLoginSuspect,
           OnLoginClosed, OnLoginSuccess, gateVars
  <2>3. CASE Handle
    BY <2>3 DEF Handle, Unmute, LoginSuccessThrows
  <2>4. CASE Stopped \/ (\E r \in Streams : Send(r)) \/ SendStep \/ UNCHANGED vars
    BY <2>4 DEF Stopped, vars, gateVars, evtVars, SendStep, Send, ReadToken, CheckMuted, Submit,
           SubmitThrows, SendReturns
  <2> QED BY <2>1, <2>2, <2>3, <2>4 DEF Next
<1> QED BY <1>1, <1>2, <1>3, <1>4, <1>5

LEMMA FreshHolds == Spec => []FreshInv
<1>1. Init => FreshInv
  BY DEF Init, FreshInv
<1>2. Spec => []GateInv
  BY GateInit, GateStep, TypeCorrect, PTL DEF Spec
<1> QED BY <1>1, <1>2, FreshStep, TypeCorrect, PTL DEF Spec

(* A session opens only with a token for every stream that this very login *)
(* generated, whatever the publisher does meanwhile.                       *)
THEOREM FreshTokens == Spec => UnmuteOnlyWithFreshTokens
<1>1. TypeOK /\ GateInv /\ FreshInv /\ [Next]_vars => [UnmuteFresh]_vars
  <2> SUFFICES ASSUME TypeOK, GateInv, FreshInv, Next,
                      NEW s \in Sessions, is_muted[s], ~is_muted'[s]
               PROVE  /\ login_state[s] = "OpenOk"
                      /\ \A r \in Streams : generated[s] - token[r][s] < Cardinality(Streams)
    BY DEF UnmuteFresh
  <2>1. CASE Unmute
    <3>1. evt_s = s /\ evt_pc = "reset" /\ evt_todo = {}
      BY <2>1 DEF Unmute, TypeOK
    <3> QED BY <3>1 DEF GateInv, HandlerInv, FreshInv
  <2>2. UNCHANGED is_muted \/ Unmute
    BY DEF Next, MainNext, SessionInit, VerifyVersion, CreateOMMProvider, CreateOMMProviderThrows,
           NullSessionDereferenced, CreateItemStream, StartThreads, MainOnly, Stopped, vars, gateVars,
           Deliver, IgnoredEvent, OnOMMCmdErrorEvent, LoginResponseDiscarded, OnLoginSuspect, OnLoginClosed,
           OnLoginSuccess, Mute, TypeOK, Handle, SendDirectoryResponse, DirectoryMalformed, ResetToken,
           LoginSuccessThrows, SendStep, Send, ReadToken, CheckMuted, Submit, SubmitThrows, SendReturns
  <2> QED BY <2>1, <2>2
<1>2. Spec => []GateInv
  BY GateInit, GateStep, TypeCorrect, PTL DEF Spec
<1> QED BY <1>1, <1>2, FreshHolds, TypeCorrect, PTL DEF Spec, UnmuteOnlyWithFreshTokens

-----------------------------------------------------------------------------
(* The publisher against the gate.                                         *)

PublisherInv == WatchInv /\ NullTokenOnlyOnLoginRace /\ LateInv /\ SendInv

LEMMA PublisherInit == Init => PublisherInv
BY DEF Init, PublisherInv, WatchInv, NullTokenOnlyOnLoginRace, LateInv, AtMostOneLateMessage, SendInv

(* Steps that touch neither the gate nor the publisher.                    *)
LEMMA PublisherFrame ==
    ASSUME PublisherInv, UNCHANGED <<is_muted, late, pubVars>>
    PROVE  PublisherInv'
BY DEF PublisherInv, WatchInv, NullTokenOnlyOnLoginRace, LateInv, AtMostOneLateMessage, SendInv, Passed,
       pubVars, sendVars, watchVars

(* A login response that mutes.                                            *)
LEMMA PublisherMute ==
    ASSUME TypeOK, PublisherInv, NEW s \in Sessions, Mute(s), UNCHANGED sendVars
    PROVE  PublisherInv'
<1> USE DEF TypeOK, PublisherInv, Mute, Watch, sendVars
<1>1. WatchInv'
  BY DEF WatchInv
<1>2. NullTokenOnlyOnLoginRace'
  BY DEF NullTokenOnlyOnLoginRace
<1>3. LateInv'
  BY DEF LateInv, AtMostOneLateMessage
<1>4. SendInv'
  BY DEF SendInv, Passed
<1> QED BY <1>1, <1>2, <1>3, <1>4

LEMMA PublisherUnmute == TypeOK /\ PublisherInv /\ Unmute => PublisherInv'
<1> SUFFICES ASSUME TypeOK, PublisherInv, Unmute PROVE PublisherInv'
  OBVIOUS
<1> USE DEF TypeOK, PublisherInv, Unmute, Watch, sendVars
<1>1. WatchInv'
  BY DEF WatchInv
<1>2. NullTokenOnlyOnLoginRace'
  BY DEF NullTokenOnlyOnLoginRace
<1>3. LateInv'
  BY DEF LateInv, AtMostOneLateMessage
<1>4. SendInv'
  BY DEF SendInv, Passed
<1> QED BY <1>1, <1>2, <1>3, <1>4

LEMMA PublisherOwnStep ==
    TypeOK /\ UnmutedHasTokens /\ PublisherInv /\ ((\E r \in Streams : Send(r)) \/ SendStep) => PublisherInv'
<1> SUFFICES ASSUME TypeOK, UnmutedHasTokens, PublisherInv,
                    (\E r \in Streams : Send(r)) \/ SendStep
             PROVE  PublisherInv'
  OBVIOUS
<1> USE DEF PublisherInv, WatchInv, NullTokenOnlyOnLoginRace, LateInv, AtMostOneLateMessage, SendInv,
            gateVars, watchVars
<1>0. /\ pub_s \in Nat /\ NumSessions \in Nat /\ pub_s <= NumSessions
      /\ \A s \in pub_open : s \in Nat /\ 1 <= s /\ s <= NumSessions
  BY NumSessionsAssumption DEF TypeOK, Sessions
<1>1. ASSUME NEW r \in Streams, Send(r) PROVE PublisherInv'
  BY <1>1 DEF Send, Passed, Sessions
<1>2. CASE ReadToken
  BY <1>2 DEF ReadToken, UnmutedHasTokens, TypeOK, Passed
<1>3. CASE CheckMuted
  <2>1. WatchInv' /\ NullTokenOnlyOnLoginRace' /\ LateInv'
    BY <1>3 DEF CheckMuted, NextSend
  <2>2. CASE is_muted[pub_s] /\ NextSend
    <3>1. pub_s \notin pub_open
      BY <2>2
    <3>2. \A s \in pub_open' : Passed(s)' => s \in pub_sent'
      BY <1>0, <1>3, <2>2, <3>1 DEF CheckMuted, NextSend, Passed
    <3> QED BY <1>0, <1>3, <2>1, <2>2, <3>2 DEF CheckMuted, NextSend
  <2>3. CASE ~is_muted[pub_s] /\ pub_pc' = "submit" /\ UNCHANGED <<pub_s, pub_tok>>
    BY <1>0, <1>3, <2>1, <2>3 DEF CheckMuted, Passed
  <2> QED BY <1>3, <2>2, <2>3 DEF CheckMuted
<1>4. CASE Submit
  <2>1. WatchInv' /\ NullTokenOnlyOnLoginRace'
    BY <1>4 DEF Submit, NextSend
  <2>2. LateInv'
    <3>1. \A s \in Sessions : late'[s] <= 1
      BY <1>4 DEF Submit, TypeOK
    <3> QED BY <1>4, <3>1 DEF Submit, NextSend
  <2>3. \A s \in pub_open' : Passed(s)' => s \in pub_sent'
    BY <1>0, <1>4 DEF Submit, NextSend, Passed
  <2> QED BY <1>0, <1>4, <2>1, <2>2, <2>3 DEF Submit, NextSend
<1>6. CASE SubmitThrows
  BY <1>6 DEF SubmitThrows
<1>7. CASE SendReturns
  BY <1>7 DEF SendReturns
<1> QED BY <1>1, <1>2, <1>3, <1>4, <1>6, <1>7 DEF SendStep

LEMMA PublisherStep == TypeOK /\ UnmutedHasTokens /\ PublisherInv /\ [Next]_vars => PublisherInv'
<1> SUFFICES ASSUME TypeOK, UnmutedHasTokens, PublisherInv, [Next]_vars PROVE PublisherInv'
  OBVIOUS
<1>1. CASE MainNext
  BY <1>1, PublisherFrame
     DEF MainNext, SessionInit, VerifyVersion, CreateOMMProvider, CreateOMMProviderThrows,
         NullSessionDereferenced, CreateItemStream, StartThreads, MainOnly, gateVars
<1>2. CASE Deliver
  <2> PICK s \in Sessions : \/ IgnoredEvent(s) \/ OnOMMCmdErrorEvent(s) \/ LoginResponseDiscarded(s)
                            \/ OnLoginSuspect(s) \/ OnLoginClosed(s) \/ OnLoginSuccess(s)
    BY <1>2 DEF Deliver
  <2>1. CASE IgnoredEvent(s) \/ OnOMMCmdErrorEvent(s) \/ LoginResponseDiscarded(s) \/ OnLoginSuccess(s)
    BY <2>1, PublisherFrame
       DEF IgnoredEvent, OnOMMCmdErrorEvent, LoginResponseDiscarded, OnLoginSuccess, gateVars
  <2>2. CASE OnLoginSuspect(s) \/ OnLoginClosed(s)
    BY <2>2, PublisherMute DEF OnLoginSuspect, OnLoginClosed
  <2> QED BY <2>1, <2>2
<1>3. CASE Handle
  <2>1. CASE Unmute
    BY <2>1, PublisherUnmute
  <2> QED BY <1>3, <2>1, PublisherFrame
          DEF Handle, SendDirectoryResponse, DirectoryMalformed, ResetToken,
              LoginSuccessThrows, gateVars
<1>4. CASE (\E r \in Streams : Send(r)) \/ SendStep
  BY <1>4, PublisherOwnStep
<1>5. CASE Stopped \/ UNCHANGED vars
  BY <1>5, PublisherFrame DEF Stopped, vars, gateVars
<1> QED BY <1>1, <1>2, <1>3, <1>4, <1>5 DEF Next

(* Whatever login events interleave with a Send: only a session whose gate *)
(* opened during the call can be handed a null token, at most one message  *)
(* leaves after a session is muted, and a Send that returns has reached    *)
(* every session that stayed open and none that stayed shut.               *)
THEOREM PublisherSafe ==
    Spec => [](NullTokenOnlyOnLoginRace /\ AtMostOneLateMessage /\ FanOut)
<1>1. Spec => []PublisherInv
  BY PublisherInit, PublisherStep, TypeCorrect, GateSafe, PTL DEF Spec
<1>2. TypeOK /\ PublisherInv => NullTokenOnlyOnLoginRace /\ AtMostOneLateMessage /\ FanOut
  BY NumSessionsAssumption DEF TypeOK, PublisherInv, LateInv, SendInv, Passed, FanOut, Sessions
<1> QED BY <1>1, <1>2, TypeCorrect, PTL

(* The token handed to a session that is open throughout a Send is never   *)
(* null: the null token needs a login that completes between the read and  *)
(* the test.                                                               *)
THEOREM NullTokenSafe == Spec => []NullTokenOnlyOnLoginRace
BY PublisherSafe, PTL

(* However a Send interleaves with the response that mutes a session, one  *)
(* message at most leaves for it before its next login.                    *)
THEOREM LateSafe == Spec => []AtMostOneLateMessage
BY PublisherSafe, PTL

(* The invariant TLC checks on the instances holds for all of them.        *)
THEOREM InductiveHolds == Spec => []Inductive
<1>1. Spec => []GateInv
  BY GateInit, GateStep, TypeCorrect, PTL DEF Spec
<1>2. Spec => []PublisherInv
  BY PublisherInit, PublisherStep, TypeCorrect, GateSafe, PTL DEF Spec
<1>3. GateInv /\ TokensDistinct /\ FreshInv /\ PublisherInv => Inductive
  BY DEF GateInv, PublisherInv, Inductive
<1> QED BY <1>1, <1>2, <1>3, TokensSafe, FreshHolds, PTL

-----------------------------------------------------------------------------
(* The lowest wire format version.                                         *)

(* Versions are ordered lexicographically.                                 *)
LEMMA VersionOrder ==
    \A u, v, w \in RwfVersions :
        /\ ~LowerVersion(u, u)
        /\ LowerVersion(v, u) => ~LowerVersion(u, v)
        /\ ~LowerVersion(w, u) /\ LowerVersion(v, u) => ~LowerVersion(w, v)
<1> SUFFICES ASSUME NEW u \in RwfVersions, NEW v \in RwfVersions, NEW w \in RwfVersions
             PROVE  /\ ~LowerVersion(u, u)
                    /\ LowerVersion(v, u) => ~LowerVersion(u, v)
                    /\ ~LowerVersion(w, u) /\ LowerVersion(v, u) => ~LowerVersion(w, v)
  OBVIOUS
<1>1. /\ u[1] \in Nat /\ u[2] \in Nat /\ v[1] \in Nat /\ v[2] \in Nat
      /\ w[1] \in Nat /\ w[2] \in Nat
  BY RwfAssumption
<1> QED BY <1>1 DEF LowerVersion

(* The sessions the creation loop has not reached have sent no login.      *)
RwfInv ==
    /\ MinRwf
    /\ \A s \in Sessions : handle[s] = "login" => rwf[s] \in RwfVersions
    /\ main_pc \in {"init", "verify"} => \A s \in Sessions : handle[s] # "login"
    /\ main_pc = "create" => \A s \in Sessions : s >= main_i => handle[s] # "login"

LEMMA RwfCreate == TypeOK /\ RwfInv /\ CreateOMMProvider => RwfInv'
<1> SUFFICES ASSUME TypeOK, RwfInv, CreateOMMProvider PROVE RwfInv'
  OBVIOUS
<1>0. handle[main_i] = "session" /\ main_pc = "create" /\ main_i \in Sessions
  BY DEF CreateOMMProvider, TypeOK
<1>a. main_pc' \in {"create", "streams"} /\ (main_pc' = "create" => main_i' = main_i + 1)
  BY DEF CreateOMMProvider, NextSession
<1>b. \A s \in Sessions : s >= main_i + 1 => s >= main_i /\ s # main_i
  BY <1>0 DEF Sessions
<1>1. ASSUME NEW h \in {"session", "omm", "error"},
             handle' = [handle EXCEPT ![main_i] = h], UNCHANGED <<rwf, min_rwf>>
      PROVE  RwfInv'
  <2>1. \A s \in Sessions : handle'[s] = "login" <=> handle[s] = "login"
    BY <1>0, <1>1 DEF TypeOK
  <2>2. MinRwf'
    BY <1>1, <2>1 DEF RwfInv, MinRwf
  <2> QED BY <1>0, <1>1, <1>a, <1>b, <2>1, <2>2 DEF RwfInv
<1>2. ASSUME NEW v \in RwfVersions,
             handle' = [handle EXCEPT ![main_i] = "login"],
             rwf' = [rwf EXCEPT ![main_i] = v],
             min_rwf' = DegradeRwf(min_rwf, v)
      PROVE  RwfInv'
  <2> DEFINE Up == {s \in Sessions : handle[s] = "login"}
  <2>1. {s \in Sessions : handle'[s] = "login"} = Up \cup {main_i}
    BY <1>0, <1>2 DEF TypeOK
  <2>2. main_i \notin Up
    BY <1>0
  <2>3. rwf'[main_i] = v /\ \A s \in Up : rwf'[s] = rwf[s] /\ rwf[s] \in RwfVersions
    BY <1>0, <1>2, <2>2 DEF TypeOK, RwfInv
  <2>4. CASE Up = {}
    <3>1. min_rwf = NoVersion
      BY <2>4 DEF RwfInv, MinRwf
    <3>2. min_rwf' = v
      BY <1>2, <3>1 DEF DegradeRwf
    <3>3. MinRwf'
      BY <2>1, <2>3, <2>4, <3>2, VersionOrder DEF MinRwf
    <3> QED BY <1>0, <1>2, <1>a, <1>b, <2>1, <2>3, <2>4, <3>3 DEF RwfInv, TypeOK
  <2>5. CASE Up # {}
    <3>1. PICK m \in Up : min_rwf = rwf[m]
      BY <2>5 DEF RwfInv, MinRwf
    <3>2. min_rwf \in RwfVersions /\ min_rwf # NoVersion
      BY <2>3, <3>1, RwfAssumption DEF NoVersion
    <3>3. min_rwf' = IF LowerVersion(v, min_rwf) THEN v ELSE min_rwf
      BY <1>2, <3>2 DEF DegradeRwf
    <3>4. \A s \in Up : ~LowerVersion(rwf[s], min_rwf)
      BY DEF RwfInv, MinRwf
    <3>5. \A s \in Up \cup {main_i} : ~LowerVersion(rwf'[s], min_rwf')
      <4>1. CASE LowerVersion(v, min_rwf)
        BY <2>3, <3>2, <3>3, <3>4, <4>1, VersionOrder
      <4>2. CASE ~LowerVersion(v, min_rwf)
        BY <2>3, <3>2, <3>3, <3>4, <4>2
      <4> QED BY <4>1, <4>2
    <3>6. \E s \in Up \cup {main_i} : min_rwf' = rwf'[s]
      BY <2>3, <3>1, <3>3
    <3>7. MinRwf'
      BY <2>1, <3>5, <3>6 DEF MinRwf
    <3> QED BY <1>0, <1>2, <1>a, <1>b, <2>1, <2>3, <3>7 DEF RwfInv, TypeOK
  <2> QED BY <2>4, <2>5
<1> QED BY <1>1, <1>2 DEF CreateOMMProvider

LEMMA RwfStep == TypeOK /\ RwfInv /\ [Next]_vars => RwfInv'
<1> SUFFICES ASSUME TypeOK, RwfInv, [Next]_vars PROVE RwfInv'
  OBVIOUS
<1>1. CASE CreateOMMProvider
  BY <1>1, RwfCreate
<1>2. CASE SessionInit
  <2>1. \A s \in Sessions : handle[s] # "login" /\ handle'[s] # "login"
    BY <1>2 DEF SessionInit, RwfInv, TypeOK
  <2>2. main_pc' \in {"init", "verify"}
    BY <1>2 DEF SessionInit, NextSession
  <2> QED BY <1>2, <2>1, <2>2 DEF SessionInit, RwfInv, MinRwf
<1>3. CASE VerifyVersion
  BY <1>3 DEF VerifyVersion, RwfInv, MinRwf
<1>4. ASSUME UNCHANGED <<handle, rwf, min_rwf, main_i>>,
             main_pc' \in {main_pc, "failed", "crashed", "running"}
      PROVE  RwfInv'
  BY <1>4 DEF RwfInv, MinRwf
<1>5. \/ CreateOMMProvider \/ SessionInit \/ VerifyVersion
      \/ /\ UNCHANGED <<handle, rwf, min_rwf, main_i>>
         /\ main_pc' \in {main_pc, "failed", "crashed", "running"}
  BY DEF Next, MainNext, CreateOMMProviderThrows, NullSessionDereferenced, CreateItemStream, StartThreads,
         Stopped, vars, mainVars,
         Deliver, IgnoredEvent, OnOMMCmdErrorEvent, LoginResponseDiscarded, OnLoginSuspect, OnLoginClosed, OnLoginSuccess,
         Handle, SendDirectoryResponse, DirectoryMalformed, ResetToken, Unmute,
         LoginSuccessThrows, SendStep, Send, ReadToken, CheckMuted, Submit, SubmitThrows,
         SendReturns
<1> QED BY <1>1, <1>2, <1>3, <1>4, <1>5

LEMMA RwfHolds == Spec => []RwfInv
<1>1. Init => RwfInv
  BY DEF Init, RwfInv, MinRwf
<1> QED BY <1>1, RwfStep, TypeCorrect, PTL DEF Spec

(* Data is encoded for the lowest version any session negotiated, in       *)
(* whatever order the sessions came up and whichever of them failed.       *)
THEOREM MinRwfSafe == Spec => []MinRwf
<1>1. RwfInv => MinRwf
  BY DEF RwfInv
<1> QED BY <1>1, RwfHolds, PTL

-----------------------------------------------------------------------------
(* The service directory.                                                  *)

LEMMA GateHolds == Spec => []GateInv
BY GateInit, GateStep, TypeCorrect, PTL DEF Spec

(* What SendDirectoryResponse submits is a negotiated version.             *)
LEMMA DirectoryVersion ==
    ASSUME TypeOK, GateInv, RwfInv, SendDirectoryResponse
    PROVE  /\ min_rwf # NoVersion /\ main_pc = "running" /\ handle[evt_s] = "login"
           /\ ~LowerVersion(rwf[evt_s], min_rwf)
<1>1. main_pc = "running" /\ handle[evt_s] = "login" /\ evt_s \in Sessions
  BY DEF SendDirectoryResponse, GateInv, Phases, HandlerInv, TypeOK
<1> QED BY <1>1, RwfAssumption DEF RwfInv, MinRwf, NoVersion

ReadableInv ==
    /\ DirectoryReadable
    /\ \A s \in Sessions : directory_sent[s] # NoVersion => main_pc = "running"

LEMMA ReadableStep == TypeOK /\ GateInv /\ RwfInv /\ ReadableInv /\ [Next]_vars => ReadableInv'
<1> SUFFICES ASSUME TypeOK, GateInv, RwfInv, ReadableInv, [Next]_vars PROVE ReadableInv'
  OBVIOUS
<1>1. CASE SendDirectoryResponse
  <2>1. UNCHANGED <<rwf, min_rwf, main_pc>>
        /\ directory_sent' = [directory_sent EXCEPT ![evt_s] = min_rwf]
    BY <1>1 DEF SendDirectoryResponse, GetServiceDirectory, mainVars
  <2> QED BY <1>1, <2>1, DirectoryVersion DEF ReadableInv, DirectoryReadable, TypeOK
<1>2. CASE UNCHANGED <<directory_sent, rwf, min_rwf, main_pc>>
  BY <1>2 DEF ReadableInv, DirectoryReadable
<1>3. CASE UNCHANGED directory_sent /\ main_pc # "running"
  BY <1>3 DEF ReadableInv, DirectoryReadable
<1>4. \/ SendDirectoryResponse
      \/ UNCHANGED <<directory_sent, rwf, min_rwf, main_pc>>
      \/ UNCHANGED directory_sent /\ main_pc # "running"
  BY DEF Next, MainNext, SessionInit, VerifyVersion, CreateOMMProvider, CreateOMMProviderThrows,
         NullSessionDereferenced, CreateItemStream, StartThreads, MainOnly, Stopped, vars, mainVars, gateVars,
         Deliver, IgnoredEvent, OnOMMCmdErrorEvent, LoginResponseDiscarded, OnLoginSuspect, OnLoginClosed,
         OnLoginSuccess, Handle, DirectoryMalformed, ResetToken, Unmute, LoginSuccessThrows,
         SendStep, Send, ReadToken, CheckMuted, Submit, SubmitThrows, SendReturns
<1> QED BY <1>1, <1>2, <1>3, <1>4

(* Every session can read the directory it is sent, although it is encoded *)
(* with the provider's version and not with the session's own.             *)
THEOREM DirectoryReadableByAll == Spec => []DirectoryReadable
<1>1. Init => ReadableInv
  BY DEF Init, ReadableInv, DirectoryReadable
<1>2. ReadableInv => DirectoryReadable
  BY DEF ReadableInv
<1> QED BY <1>1, <1>2, ReadableStep, TypeCorrect, GateHolds, RwfHolds, PTL DEF Spec

DirectoryInv ==
    /\ \A s \in Sessions : ~is_muted[s] => directory_sent[s] # NoVersion
    /\ evt_pc = "reset" => directory_sent[evt_s] # NoVersion
    /\ DirectoryBeforeData

LEMMA DirectoryStep ==
    ASSUME ~ValidationMayFail, TypeOK, GateInv, RwfInv, DirectoryInv, [Next]_vars
    PROVE  DirectoryInv'
<1> USE DEF DirectoryInv, DirectoryBeforeData, TypeOK
<1>1. CASE MainNext
  BY <1>1 DEF MainNext, SessionInit, VerifyVersion, CreateOMMProvider, CreateOMMProviderThrows,
              NullSessionDereferenced, CreateItemStream, StartThreads, MainOnly, gateVars, evtVars,
              pubVars, sendVars
<1>2. CASE Deliver
  BY <1>2 DEF Deliver, IgnoredEvent, OnOMMCmdErrorEvent, LoginResponseDiscarded, OnLoginSuspect, OnLoginClosed,
              OnLoginSuccess, LoginResponse, Dispatch, Mute, gateVars, pubVars, sendVars
<1>3. CASE Handle
  <2>1. CASE SendDirectoryResponse
    BY <2>1, DirectoryVersion DEF SendDirectoryResponse, GetServiceDirectory, pubVars, sendVars
  <2> QED
  BY <1>3, <2>1 DEF Handle, DirectoryMalformed, ResetToken, Unmute,
              LoginSuccessThrows, gateVars, pubVars, sendVars
<1>4. CASE (\E r \in Streams : Send(r)) \/ SendStep
  BY <1>4 DEF SendStep, Send, ReadToken, CheckMuted, NextSend, Submit, SubmitThrows,
              SendReturns, gateVars, evtVars
<1>5. CASE Stopped \/ UNCHANGED vars
  BY <1>5 DEF Stopped, vars, gateVars, evtVars, pubVars, sendVars
<1> QED BY <1>1, <1>2, <1>3, <1>4, <1>5 DEF Next

(* As long as validateMsg() accepts the directory, no session publishes    *)
(* data before it has published its service directory.                     *)
THEOREM DirectoryFirst == ASSUME ~ValidationMayFail PROVE Spec => []DirectoryBeforeData
<1>1. Init => DirectoryInv
  BY DEF Init, DirectoryInv, DirectoryBeforeData
<1>2. TypeOK /\ GateInv /\ RwfInv /\ DirectoryInv /\ [Next]_vars => DirectoryInv'
  BY DirectoryStep
<1>3. DirectoryInv => DirectoryBeforeData
  BY DEF DirectoryInv
<1> QED BY <1>1, <1>2, <1>3, TypeCorrect, GateHolds, RwfHolds, PTL DEF Spec
=============================================================================
