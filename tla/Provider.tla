------------------------------ MODULE Provider ------------------------------
(***************************************************************************)
(* provider_t and its session_t's (provider.cc, session.cc): how login     *)
(* events open and shut the publishing gate of every RFA session while     *)
(* another thread is publishing through it.                                *)
(*                                                                         *)
(* Three threads of control share the state and take no lock:              *)
(*   - the main thread runs provider_t::Init and CreateItemStream, and     *)
(*     only then lets events and timers run (psych.cc:393-519);            *)
(*   - the event thread dispatches the one RFA event queue: processEvent   *)
(*     of every session, one event at a time;                              *)
(*   - the publisher is whichever thread holds query_mutex_: it calls      *)
(*     provider_t::Send for one item stream after another.                 *)
(*                                                                         *)
(* RFA itself (sessions, tokens, submit) is external: its calls may fail   *)
(* or throw wherever the code handles that.                                *)
(***************************************************************************)
EXTENDS Integers, FiniteSets

CONSTANTS
    NumSessions,        \* config_.sessions.size()
    Streams,            \* the RICs published (keys of directory_)
    RwfVersions,        \* <<major, minor>> pairs RFA may report for a session
    MaxEvents,          \* bound: RFA events dispatched in a behaviour
    ValidationMayFail   \* may validateMsg() reject the service directory?

ASSUME NumSessionsAssumption == NumSessions \in Nat \ {0}
ASSUME StreamsAssumption == Streams # {} /\ IsFiniteSet(Streams)
ASSUME RwfAssumption == RwfVersions \subseteq (Nat \X Nat) \ {<<0, 0>>}
ASSUME MaxEventsAssumption == MaxEvents \in Nat
ASSUME ValidationAssumption == ValidationMayFail \in BOOLEAN

Sessions == 1..NumSessions

NullToken == 0          \* nullptr; the n-th token a session generates is n
NoVersion == <<0, 0>>   \* min_rwf_*_version_ before the first session

(***************************************************************************)
(* The last RespStatus a login response carried (stream_state_ and         *)
(* data_state_), as far as OnRespMsg tells the values apart.               *)
(***************************************************************************)
LoginStates == {"None", "OpenOk", "OpenSuspect", "OpenOther", "Closed", "Other"}

VARIABLES
    main_pc,        \* where Init is
    main_i,         \* the session its loop is at
    handle,         \* per session: what has been acquired and registered
    rwf,            \* per session: rwf_major_version_, rwf_minor_version_
    min_rwf,        \* provider_t::min_rwf_*_version_
    directory_,     \* streams entered in provider_t::directory_
    token,          \* item_stream_t::token, per stream and session
    is_muted,       \* session_t::is_muted_
    login_state,    \* session_t::stream_state_ / data_state_
    generated,      \* per session: tokens generated so far
    directory_sent, \* per session: RWF version of the service directory submitted
    late,           \* per session: data submitted since it was last muted
    events,         \* RFA events dispatched so far
    evt_pc, evt_s, evt_todo,        \* the event thread
    pub_pc, pub_r, pub_s, pub_tok,  \* the publisher
    pub_sent,       \* sessions this Send has submitted to (observer)
    pub_open,       \* sessions unmuted ever since this Send began (observer)
    pub_shut        \* sessions muted ever since this Send began (observer)

mainVars == <<main_pc, main_i, handle, rwf, min_rwf, directory_>>
gateVars == <<token, is_muted, login_state, generated, directory_sent>>
evtVars == <<evt_pc, evt_s, evt_todo, events>>
sendVars == <<pub_pc, pub_r, pub_s, pub_tok, pub_sent>>
watchVars == <<pub_open, pub_shut>>
pubVars == <<sendVars, watchVars>>
vars == <<mainVars, gateVars, late, evtVars, pubVars>>

-----------------------------------------------------------------------------
(* The constructors of provider_t, session_t and item_stream_t.            *)
Init ==
    /\ main_pc = "init" /\ main_i = 1
    /\ handle = [s \in Sessions |-> "null"]
    /\ rwf = [s \in Sessions |-> NoVersion]
    /\ min_rwf = NoVersion
    /\ directory_ = {}
    /\ token = [r \in Streams |-> [s \in Sessions |-> NullToken]]
    /\ is_muted = [s \in Sessions |-> TRUE]
    /\ login_state = [s \in Sessions |-> "None"]
    /\ generated = [s \in Sessions |-> 0]
    /\ directory_sent = [s \in Sessions |-> NoVersion]
    /\ late = [s \in Sessions |-> 0]
    /\ events = 0
    /\ evt_pc = "idle" /\ evt_s = 1 /\ evt_todo = {}
    /\ pub_pc = "idle" /\ pub_r \in Streams /\ pub_s = 1
    /\ pub_tok = NullToken /\ pub_sent = {}
    /\ pub_open = {} /\ pub_shut = {}

-----------------------------------------------------------------------------
(* The main thread: psych_t::Init as far as provider_t is concerned.       *)

MainOnly == UNCHANGED <<gateVars, late, evtVars, pubVars>>

(* The loop over sessions_: the next session, or the next stage after the  *)
(* last one.                                                               *)
NextSession(stage, next) ==
    IF main_i < NumSessions
    THEN main_pc' = stage /\ main_i' = main_i + 1
    ELSE main_pc' = next /\ main_i' = 1

(* session_t::Init: acquire() may return null; provider_t::Init ignores it.*)
SessionInit ==
    /\ main_pc = "init"
    /\ \E h \in {"null", "session"} : handle' = [handle EXCEPT ![main_i] = h]
    /\ NextSession("init", "verify")
    /\ UNCHANGED <<rwf, min_rwf, directory_>>
    /\ MainOnly

(* rfa_t::VerifyVersion: an unsupported runtime ends the initialisation.   *)
VerifyVersion ==
    /\ main_pc = "verify"
    /\ main_pc' \in {"create", "failed"}
    /\ UNCHANGED <<main_i, handle, rwf, min_rwf, directory_>>
    /\ MainOnly

LowerVersion(v, w) ==
    \/ v[1] = w[1] /\ v[2] < w[2]
    \/ v[1] < w[1]

(* Mutant of DegradeRwf: the first session's version is kept.              *)
RwfKeepsFirst(min, v) == IF min = NoVersion THEN v ELSE min

(* The negotiated version of the first session, degraded by later ones.    *)
DegradeRwf(min, v) ==
    LET first == IF min = NoVersion THEN v ELSE min
    IN  IF LowerVersion(v, first) THEN v ELSE first

(* session_t::CreateOMMProvider and SendLoginRequest for the next session. *)
(* createOMMProvider() and the two registerClient()s may return null; the  *)
(* false this returns is ignored by provider_t::Init, an exception is not. *)
CreateOMMProvider ==
    /\ main_pc = "create"
    /\ handle[main_i] = "session"
    /\ \/ \E h \in {"session", "omm", "error"} :
            /\ handle' = [handle EXCEPT ![main_i] = h]
            /\ UNCHANGED <<rwf, min_rwf>>
       \/ \E v \in RwfVersions :
            /\ handle' = [handle EXCEPT ![main_i] = "login"]
            /\ rwf' = [rwf EXCEPT ![main_i] = v]
            /\ min_rwf' = DegradeRwf(min_rwf, v)
    /\ NextSession("create", "streams")
    /\ UNCHANGED directory_
    /\ MainOnly

CreateOMMProviderThrows ==
    /\ main_pc = "create"
    /\ handle[main_i] = "session"
    /\ main_pc' = "failed"
    /\ UNCHANGED <<main_i, handle, rwf, min_rwf, directory_>>
    /\ MainOnly

(* A session that was not acquired is a null session_ that                 *)
(* CreateOMMProvider dereferences: the process dies.                       *)
NullSessionDereferenced ==
    /\ main_pc = "create"
    /\ handle[main_i] = "null"
    /\ main_pc' = "crashed"
    /\ UNCHANGED <<main_i, handle, rwf, min_rwf, directory_>>
    /\ MainOnly

(* session_t::CreateItemStream: a session that is muted has no token yet.  *)
ItemToken(s) == IF is_muted[s] THEN NullToken ELSE generated[s] + 1

(* provider_t::CreateItemStream: a token from every session, then the      *)
(* stream enters directory_.                                               *)
CreateItemStream(r) ==
    /\ main_pc = "streams"
    /\ r \notin directory_
    /\ token' = [token EXCEPT ![r] = [s \in Sessions |-> ItemToken(s)]]
    /\ generated' = [s \in Sessions |->
                    IF is_muted[s] THEN generated[s] ELSE generated[s] + 1]
    /\ directory_' = directory_ \cup {r}
    /\ UNCHANGED <<main_pc, main_i, handle, rwf, min_rwf, is_muted,
                   login_state, directory_sent, late, evtVars, pubVars>>

(* Every stream exists: the event and timer threads may run.               *)
StartThreads ==
    /\ main_pc = "streams"
    /\ directory_ = Streams
    /\ main_pc' = "running"
    /\ UNCHANGED <<main_i, handle, rwf, min_rwf, directory_>>
    /\ MainOnly

(* psych_t::Init returned false, or the process is gone.                   *)
Stopped ==
    /\ main_pc \in {"failed", "crashed"}
    /\ UNCHANGED vars

-----------------------------------------------------------------------------
(* The event thread.                                                       *)

(* What the observers of the current Send see of a change of is_muted_.    *)
Watch ==
    /\ pub_open' = {s \in pub_open : ~is_muted'[s]}
    /\ pub_shut' = {s \in pub_shut : is_muted'[s]}

Dispatch ==
    /\ main_pc = "running"
    /\ evt_pc = "idle"
    /\ events < MaxEvents
    /\ events' = events + 1

(* processEvent for what no state depends on: an event of another type, an *)
(* item event that is no RespMsg or no login.                              *)
IgnoredEvent(s) ==
    /\ Dispatch
    /\ handle[s] = "login"
    /\ UNCHANGED <<mainVars, gateVars, late, evt_pc, evt_s,
                   evt_todo, pubVars>>

(* A submit() failed after the fact: it is logged, nothing is sent again.  *)
OnOMMCmdErrorEvent(s) ==
    /\ Dispatch
    /\ handle[s] \in {"error", "login"}
    /\ UNCHANGED <<mainVars, gateVars, late, evt_pc, evt_s,
                   evt_todo, pubVars>>

LoginResponse(s, state) ==
    /\ Dispatch
    /\ handle[s] = "login"
    /\ login_state' = [login_state EXCEPT ![s] = state]

(* OnRespMsg for a state no handler exists for: the gate stays as it is.   *)
LoginResponseDiscarded(s) ==
    /\ \E state \in {"OpenOther", "Other"} : LoginResponse(s, state)
    /\ UNCHANGED <<mainVars, token, is_muted, generated, directory_sent,
                   late, evt_pc, evt_s, evt_todo, pubVars>>

Mute(s) ==
    /\ is_muted' = [is_muted EXCEPT ![s] = TRUE]
    /\ late' = [late EXCEPT ![s] = IF is_muted[s] THEN @ ELSE 0]
    /\ Watch

(* Mutant of OnLoginSuspect: the session goes on publishing.               *)
SuspectNotMuted(s) ==
    /\ LoginResponse(s, "OpenSuspect")
    /\ UNCHANGED <<mainVars, token, is_muted, generated, directory_sent, late,
                   evt_pc, evt_s, evt_todo, pubVars>>

OnLoginSuspect(s) ==
    /\ LoginResponse(s, "OpenSuspect")
    /\ Mute(s)
    /\ UNCHANGED <<mainVars, token, generated, directory_sent, evt_pc, evt_s, evt_todo, sendVars>>

OnLoginClosed(s) ==
    /\ LoginResponse(s, "Closed")
    /\ Mute(s)
    /\ UNCHANGED <<mainVars, token, generated, directory_sent, evt_pc, evt_s, evt_todo, sendVars>>

(* Mutants of OnLoginSuccess: no ResetTokens; only missing tokens are      *)
(* generated; no SendDirectoryResponse.                                    *)
LoginBegins(s, pc, todo) ==
    /\ LoginResponse(s, "OpenOk")
    /\ evt_pc' = pc
    /\ evt_s' = s
    /\ evt_todo' = todo
    /\ UNCHANGED <<mainVars, token, is_muted, generated, directory_sent, late,
                   pubVars>>
LoginKeepsTokens(s) == LoginBegins(s, "directory", {})
LoginFillsTokens(s) ==
    LoginBegins(s, "directory", {r \in directory_ : token[r][s] = NullToken})
LoginSkipsDirectory(s) == LoginBegins(s, "reset", directory_)

(* OnLoginSuccess: SendDirectoryResponse, ResetTokens, unmute.             *)
OnLoginSuccess(s) ==
    /\ LoginResponse(s, "OpenOk")
    /\ evt_pc' = "directory"
    /\ evt_s' = s
    /\ evt_todo' = directory_
    /\ UNCHANGED <<mainVars, token, is_muted, generated, directory_sent,
                   late, pubVars>>

(* The directory, as far as a session can fail to read it: its RWF version.*)
GetServiceDirectory == min_rwf

(* SendDirectoryResponse: a token is generated and thrown away, the        *)
(* directory submitted.                                                    *)
SendDirectoryResponse ==
    /\ evt_pc = "directory"
    /\ generated' = [generated EXCEPT ![evt_s] = @ + 1]
    /\ directory_sent' = [directory_sent EXCEPT ![evt_s] = GetServiceDirectory]
    /\ evt_pc' = "reset"
    /\ UNCHANGED <<mainVars, token, is_muted, login_state, late, evt_s, evt_todo,
                   events, pubVars>>

(* validateMsg() throws inside SendDirectoryResponse, which returns false; *)
(* OnLoginSuccess ignores the result.                                      *)
DirectoryMalformed ==
    /\ evt_pc = "directory"
    /\ ValidationMayFail
    /\ evt_pc' = "reset"
    /\ UNCHANGED <<mainVars, gateVars, late, evt_s, evt_todo,
                   events, pubVars>>

(* Mutant of ResetToken: every stream gets the token generated last.       *)
ResetTokenShared(r) ==
    /\ evt_pc = "reset"
    /\ r \in evt_todo
    /\ token' = [token EXCEPT ![r][evt_s] = generated[evt_s]]
    /\ evt_todo' = evt_todo \ {r}
    /\ UNCHANGED <<mainVars, is_muted, login_state, generated, directory_sent,
                   late, evt_pc, evt_s, events, pubVars>>

(* ResetTokens, one entry of directory_ at a time, in any order.           *)
ResetToken(r) ==
    /\ evt_pc = "reset"
    /\ r \in evt_todo
    /\ generated' = [generated EXCEPT ![evt_s] = @ + 1]
    /\ token' = [token EXCEPT ![r][evt_s] = generated[evt_s] + 1]
    /\ evt_todo' = evt_todo \ {r}
    /\ UNCHANGED <<mainVars, is_muted, login_state, directory_sent, late, evt_pc, evt_s, events, pubVars>>

Unmute ==
    /\ evt_pc = "reset"
    /\ evt_todo = {}
    /\ is_muted' = [is_muted EXCEPT ![evt_s] = FALSE]
    /\ Watch
    /\ evt_pc' = "idle"
    /\ UNCHANGED <<mainVars, token, login_state, generated, directory_sent,
                   late, evt_s, evt_todo, events, sendVars>>

(* InvalidUsageException from submit() or generateItemToken(): caught in   *)
(* OnLoginSuccess, which leaves the gate as it was.                        *)
LoginSuccessThrows ==
    /\ \/ evt_pc = "directory"
       \/ evt_pc = "reset" /\ evt_todo # {}
    /\ evt_pc' = "idle"
    /\ evt_todo' = {}
    /\ UNCHANGED <<mainVars, gateVars, late, evt_s, events,
                   pubVars>>

-----------------------------------------------------------------------------
(* The publisher: provider_t::Send for one stream.                         *)

Send(r) ==
    /\ main_pc = "running"
    /\ pub_pc = "idle"
    /\ pub_pc' = "read"
    /\ pub_r' = r
    /\ pub_s' = 1
    /\ pub_sent' = {}
    /\ pub_open' = {s \in Sessions : ~is_muted[s]}
    /\ pub_shut' = {s \in Sessions : is_muted[s]}
    /\ UNCHANGED <<mainVars, gateVars, late, evtVars, pub_tok>>

(* item_stream->token[i], an argument of the call of session_t::Send.      *)
ReadToken ==
    /\ pub_pc = "read"
    /\ pub_tok' = token[pub_r][pub_s]
    /\ pub_pc' = "check"
    /\ UNCHANGED <<mainVars, gateVars, late, evtVars, pub_r, pub_s,
                   pub_sent, watchVars>>

(* Mutant of NextSend: one session too many.                               *)
NextSendOverruns ==
    /\ pub_tok' = NullToken
    /\ IF pub_s <= NumSessions
       THEN pub_pc' = "read" /\ pub_s' = pub_s + 1
       ELSE pub_pc' = "return" /\ pub_s' = pub_s

(* The loop over sessions_ goes on, or ends.                               *)
NextSend ==
    /\ pub_tok' = NullToken
    /\ IF pub_s < NumSessions
       THEN pub_pc' = "read" /\ pub_s' = pub_s + 1
       ELSE pub_pc' = "return" /\ pub_s' = pub_s

(* Mutants of CheckMuted: no test; a muted session ends the loop.          *)
MutedNotChecked ==
    /\ pub_pc = "check"
    /\ pub_pc' = "submit"
    /\ UNCHANGED <<mainVars, gateVars, late, evtVars, pub_r, pub_s, pub_tok,
                   pub_sent, watchVars>>
MutedEndsLoop ==
    /\ pub_pc = "check"
    /\ pub_pc' = IF is_muted[pub_s] THEN "return" ELSE "submit"
    /\ UNCHANGED <<mainVars, gateVars, late, evtVars, pub_r, pub_s, pub_tok,
                   pub_sent, watchVars>>

(* session_t::Send: if (is_muted_) return false.                           *)
CheckMuted ==
    /\ pub_pc = "check"
    /\ \/ is_muted[pub_s] /\ NextSend
       \/ ~is_muted[pub_s] /\ pub_pc' = "submit" /\ UNCHANGED <<pub_s, pub_tok>>
    /\ UNCHANGED <<mainVars, gateVars, late, evtVars, pub_r,
                   pub_sent, watchVars>>

(* session_t::Submit: submit() returns, the loop goes on.                  *)
Submit ==
    /\ pub_pc = "submit"
    /\ pub_sent' = pub_sent \cup {pub_s}
    /\ late' = [late EXCEPT ![pub_s] = IF is_muted[pub_s] THEN @ + 1 ELSE @]
    /\ NextSend
    /\ UNCHANGED <<mainVars, gateVars, evtVars, pub_r, watchVars>>

(* InvalidUsageException from submit(): the loop over sessions_ is left,   *)
(* the refresh it belongs to is abandoned (psych.cc:1066).                 *)
SubmitThrows ==
    /\ pub_pc = "submit"
    /\ pub_pc' = "idle"
    /\ pub_s' = 1 /\ pub_tok' = NullToken /\ pub_sent' = {}
    /\ pub_open' = {} /\ pub_shut' = {}
    /\ UNCHANGED <<mainVars, gateVars, late, evtVars, pub_r>>

(* PROVIDER_PC_MSGS_SENT is incremented and Send returns true.             *)
SendReturns ==
    /\ pub_pc = "return"
    /\ pub_pc' = "idle"
    /\ pub_s' = 1 /\ pub_sent' = {}
    /\ pub_open' = {} /\ pub_shut' = {}
    /\ UNCHANGED <<mainVars, gateVars, late, evtVars, pub_r, pub_tok>>

-----------------------------------------------------------------------------
MainNext ==
    \/ SessionInit \/ VerifyVersion
    \/ CreateOMMProvider \/ CreateOMMProviderThrows \/ NullSessionDereferenced
    \/ \E r \in Streams : CreateItemStream(r)
    \/ StartThreads

Deliver ==
    \E s \in Sessions :
        \/ IgnoredEvent(s) \/ OnOMMCmdErrorEvent(s) \/ LoginResponseDiscarded(s)
        \/ OnLoginSuspect(s) \/ OnLoginClosed(s) \/ OnLoginSuccess(s)

Handle ==
    \/ SendDirectoryResponse \/ DirectoryMalformed
    \/ \E r \in Streams : ResetToken(r)
    \/ Unmute \/ LoginSuccessThrows

SendStep ==
    \/ ReadToken \/ CheckMuted \/ Submit \/ SubmitThrows
    \/ SendReturns

Next ==
    \/ MainNext \/ Stopped
    \/ Deliver \/ Handle
    \/ \E r \in Streams : Send(r)
    \/ SendStep

(* Each thread goes on with the call it is in; nothing obliges RFA to      *)
(* deliver an event or the timer to start another Send.                    *)
Spec == Init /\ [][Next]_vars /\ WF_vars(MainNext) /\ WF_vars(Handle) /\ WF_vars(SendStep)

-----------------------------------------------------------------------------
TypeOK ==
    /\ main_pc \in {"init", "verify", "create", "streams", "running", "failed", "crashed"}
    /\ main_i \in Sessions
    /\ handle \in [Sessions -> {"null", "session", "omm", "error", "login"}]
    /\ rwf \in [Sessions -> RwfVersions \cup {NoVersion}]
    /\ min_rwf \in RwfVersions \cup {NoVersion}
    /\ directory_ \in SUBSET Streams
    /\ token \in [Streams -> [Sessions -> Nat]]
    /\ is_muted \in [Sessions -> BOOLEAN]
    /\ login_state \in [Sessions -> LoginStates]
    /\ generated \in [Sessions -> Nat]
    /\ directory_sent \in [Sessions -> RwfVersions \cup {NoVersion}]
    /\ late \in [Sessions -> Nat]
    /\ events \in 0..MaxEvents
    /\ evt_pc \in {"idle", "directory", "reset"}
    /\ evt_s \in Sessions
    /\ evt_todo \in SUBSET Streams
    /\ pub_pc \in {"idle", "read", "check", "submit", "return"}
    /\ pub_r \in Streams
    /\ pub_s \in Sessions
    /\ pub_tok \in Nat
    /\ pub_sent \in SUBSET Sessions
    /\ pub_open \in SUBSET Sessions
    /\ pub_shut \in SUBSET Sessions

-----------------------------------------------------------------------------
(* Safety.                                                                 *)

(* A session that publishes has a token for every stream: OnLoginSuccess   *)
(* resets the tokens before it unmutes, and no handler takes one away      *)
(* (session.cc:384-387, 492-510). Init creates streams without a token.    *)
UnmutedHasTokens ==
    \A s \in Sessions : ~is_muted[s] =>
        handle[s] = "login" /\ \A r \in Streams : token[r][s] # NullToken

(* A session whose last login response was Suspect or Closed is muted,     *)
(* whatever a login success before it was still doing (session.cc:516-538).*)
MutedWhenDown ==
    \A s \in Sessions :
        login_state[s] \in {"None", "OpenSuspect", "Closed"} => is_muted[s]

(* No two streams of a session share a token, and no token is one that the *)
(* session will generate again: a refresh of one RIC cannot be taken for   *)
(* one of another (session.cc:502-508, setItemToken in Submit).            *)
TokensDistinct ==
    \A s \in Sessions : \A r \in Streams :
        /\ token[r][s] <= generated[s]
        /\ \A q \in Streams \ {r} :
              token[q][s] = token[r][s] => token[r][s] = NullToken

(* provider_t::Send reads the token before session_t::Send tests           *)
(* is_muted_ (provider.cc:123, session.cc:250). A null token gets past the *)
(* test only if the login completed in between: never to a session that    *)
(* has been open for the whole of the call.                                *)
NullTokenOnlyOnLoginRace ==
    (pub_pc \in {"check", "submit"} /\ pub_tok = NullToken) => pub_s \notin pub_open

(* The test of is_muted_ and the submit() are not atomic, so a message may *)
(* leave after the session was muted: at most one, until it is unmuted     *)
(* again (session.cc:250-253).                                             *)
AtMostOneLateMessage == \A s \in Sessions : late[s] <= 1

(* When provider_t::Send returns true, every session that was open for the *)
(* whole call has the message, and none that was muted for the whole call  *)
(* has it (provider.cc:113-129).                                           *)
FanOut ==
    pub_pc = "return" => /\ pub_open \subseteq pub_sent
                         /\ pub_shut \cap pub_sent = {}

(* Init leaves in min_rwf_*_version_ the lowest version of the sessions    *)
(* that could send their login, in whatever order they were created        *)
(* (session.cc:190-214).                                                   *)
MinRwf ==
    LET Up == {s \in Sessions : handle[s] = "login"}
    IN  /\ Up = {} => min_rwf = NoVersion
        /\ Up # {} => \E s \in Up : min_rwf = rwf[s]
        /\ \A s \in Up : ~LowerVersion(rwf[s], min_rwf)

(* No session is sent a service directory in a later version than the one  *)
(* it negotiated itself, although all of them are encoded alike, for the   *)
(* lowest version (provider.cc:142, session.cc:445-452): none is sent      *)
(* before every session has negotiated.                                    *)
DirectoryReadable ==
    \A s \in Sessions : directory_sent[s] # NoVersion =>
        /\ ~LowerVersion(rwf[s], directory_sent[s])
        /\ directory_sent[s] = min_rwf

(* "before publishing data, a non-interactive provider must publish a      *)
(* service directory" (session.cc:401-402): a session about to submit data *)
(* has submitted its directory.                                            *)
DirectoryBeforeData ==
    pub_pc = "submit" => directory_sent[pub_s] # NoVersion

(* A session is unmuted only in a login that is Open/Ok and with the       *)
(* tokens of this very login: the newest ones it generated, one for each   *)
(* stream (session.cc:384-387).                                            *)
UnmuteFresh ==
    \A s \in Sessions : is_muted[s] /\ ~is_muted'[s] =>
        /\ login_state[s] = "OpenOk"
        /\ \A r \in Streams : generated[s] - token[r][s] < Cardinality(Streams)
UnmuteOnlyWithFreshTokens == [][UnmuteFresh]_vars

-----------------------------------------------------------------------------
(* The inductive invariant behind the safety properties.                   *)

(* Nothing is delivered or published before every stream exists.           *)
Phases ==
    /\ main_pc # "running" =>
          /\ evt_pc = "idle" /\ pub_pc = "idle"
          /\ \A s \in Sessions : is_muted[s]
    /\ main_pc = "running" => directory_ = Streams

(* What the event thread knows inside OnLoginSuccess.                      *)
HandlerInv ==
    /\ evt_pc # "idle" => handle[evt_s] = "login" /\ login_state[evt_s] = "OpenOk"
    /\ evt_pc = "directory" => evt_todo = Streams
    /\ evt_pc = "reset" => \A r \in Streams \ evt_todo : token[r][evt_s] # NullToken

(* ... and how many tokens it has generated since it gave one to a stream: *)
(* fewer than there are streams it has given one to.                       *)
FreshInv ==
    evt_pc = "reset" =>
        \A r \in Streams \ evt_todo :
            generated[evt_s] - token[r][evt_s] < Cardinality(Streams \ evt_todo)

WatchInv ==
    /\ \A s \in pub_open : ~is_muted[s]
    /\ \A s \in pub_shut : is_muted[s]

LateInv ==
    /\ AtMostOneLateMessage
    /\ pub_pc = "submit" /\ is_muted[pub_s] => late[pub_s] = 0

(* The sessions the loop of provider_t::Send has dealt with.               *)
Passed(s) == s < pub_s \/ (s = pub_s /\ pub_pc = "return")

SendInv ==
    /\ \A s \in pub_open : Passed(s) => s \in pub_sent
    /\ pub_pc = "return" => pub_s = NumSessions
    /\ pub_sent \cap pub_shut = {}
    /\ pub_pc = "submit" => pub_s \notin pub_shut

(* The conjunction is preserved by every step; TLC checks it on the        *)
(* instances, ProviderProofs proves it.                                    *)
Inductive ==
    /\ Phases /\ HandlerInv /\ UnmutedHasTokens /\ MutedWhenDown
    /\ TokensDistinct /\ FreshInv
    /\ WatchInv /\ NullTokenOnlyOnLoginRace /\ LateInv /\ SendInv

-----------------------------------------------------------------------------
(* What the repository says of the program and the code does not do.       *)

(* provider.hh:38 "Session token which is valid from login success to      *)
(* login close.": what is submitted carries a token, not null.             *)
SubmitHasToken == pub_pc = "submit" => pub_tok # NullToken
=============================================================================
