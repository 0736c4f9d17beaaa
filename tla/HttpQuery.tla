----------------------------- MODULE HttpQuery ------------------------------
(***************************************************************************)
(* psych_t::httpPsychQuery and its callers (psych.cc:695-1392, tcl.cc):    *)
(* the timer and Tcl threads compete for query_mutex_, the one that gets   *)
(* it polls every resource over HTTP, publishes what parses, and retries   *)
(* the rest round after round ("carousel") until nothing is pending or the *)
(* retries are used up.                                                    *)
(*                                                                         *)
(* The loop state (pending, retries, handles) belongs to the lock holder,  *)
(* but two things outlive a query: connections_, with the modification     *)
(* time last seen of every resource, and the libcurl multi handle          *)
(* multipass_, with whatever easy handles are still added to it.           *)
(*                                                                         *)
(* The HTTP server and libcurl are external. A Tcl command works on a copy *)
(* ("dup") of connections_ ("own").                                        *)
(***************************************************************************)
EXTENDS Integers, FiniteSets

CONSTANTS
    Connections,        \* the resources polled, keys of connections_
    TclThreads,         \* threads issuing Tcl commands ({} in the application)
    RetryCount,         \* atol (config_.retry_count)
    RetryDelay,         \* atol (config_.retry_delay_ms); 0: exponential backoff
    RetrySleepDefault,  \* RETRY_SLEEP_DEFAULT
    RetrySleepMax,      \* RETRY_SLEEP_MAX
    PanicThreshold,     \* config_.panic_threshold, NoThreshold when empty
    NoThreshold,
    ErrorCodes,         \* response codes other than 200 (0: no response)
    Offsets,            \* |filetime - request time| the server's clock produces
    MaxVersion,         \* bound: file versions the server goes through
    MaxTcl              \* bound: Tcl commands issued in a behaviour

ASSUME ConnectionsAssumption == Connections # {}
ASSUME TimerAssumption == "timer" \notin TclThreads /\ "none" \notin TclThreads
ASSUME RetryAssumption ==
    /\ RetryCount \in Int /\ RetryDelay \in Nat
    /\ RetrySleepDefault \in Nat \ {0} /\ RetrySleepMax \in Nat
    /\ RetrySleepDefault <= RetrySleepMax
ASSUME CodesAssumption == ErrorCodes \subseteq Nat \ {200}
ASSUME OffsetsAssumption == Offsets \subseteq Nat /\ NoThreshold \notin Nat
ASSUME ThresholdAssumption == PanicThreshold \in Nat \cup {NoThreshold}
ASSUME BoundsAssumption == MaxVersion \in Nat \ {0} /\ MaxTcl \in Nat

VARIABLES
    query_mutex,    \* the thread that owns query_mutex_, or "none"
    timer,          \* time_pump_t::Run: "waiting", "running" or "ended"
    pc,             \* where httpPsychQuery is
    pending,        \* connections still to be served in this query
    retries,        \* retry_numretries
    retry_sleep,    \* milliseconds before the next round
    multi,          \* easy handles added to multipass_
    running,        \* those of them whose transfer is not finished
    done,           \* finished transfers not yet read by curl_multi_info_read
    filetime,       \* connection_t::last_filetime, of both maps
    server,         \* version (modification time) of each file on the server
    tcl_left,       \* Tcl commands still to come
    crash,          \* "no", or the undefined behaviour the process ran into
    refreshed,      \* last refresh: the version, and was the table whole?
    sent_now,       \* refreshes of each connection in this query (observer)
    spoiled         \* filetime recorded, table not published (observer)

lockVars == <<query_mutex, timer, tcl_left>>
loopVars == <<pending, retries, retry_sleep>>
curlVars == <<multi, running, done>>
obsVars == <<refreshed, sent_now, spoiled>>
vars == <<lockVars, pc, loopVars, curlVars, filetime, server, crash, obsVars>>

Maps == {"own", "dup"}
Handles == Maps \X Connections
MyMap == IF query_mutex = "timer" THEN "own" ELSE "dup"

(* What a finished transfer can look like: the response code (0 when there *)
(* is none), and for a 200                                                 *)
(*   untyped  no Content-Type header                                       *)
(*   nohead   content type, size or magic number is wrong                  *)
(*   notable  the time stamp or column line is malformed                   *)
(*   cut      broken off: too large for the buffer, or timed out           *)
(*   good     the whole file                                               *)
(* with or without a Last-Modified time, off by some clock offset.         *)
Failures == [code : ErrorCodes, body : {"none"}, stamped : {FALSE}, offset : {0}]
Headless == [code : {200}, body : {"untyped", "nohead"}, stamped : {FALSE}, offset : {0}]
Undated == [code : {200}, body : {"notable", "cut", "good"}, stamped : {FALSE}, offset : {0}]
Dated == [code : {200}, body : {"notable", "cut", "good"}, stamped : {TRUE}, offset : Offsets]
Responses == Failures \cup Headless \cup Undated \cup Dated

Done == [map : Maps, conn : Connections, resp : Responses, version : 1..MaxVersion]

-----------------------------------------------------------------------------
Init ==
    /\ query_mutex = "none" /\ timer = "waiting" /\ tcl_left = MaxTcl
    /\ pc = "idle"
    /\ pending = {} /\ retries = 0 /\ retry_sleep = 0
    /\ multi = {} /\ running = {} /\ done = {}
    /\ filetime = [m \in Maps |-> [c \in Connections |-> 0]]
    /\ server = [c \in Connections |-> 1]
    /\ crash = "no"
    /\ refreshed = [c \in Connections |-> [version |-> 0, whole |-> TRUE]]
    /\ sent_now = [c \in Connections |-> 0]
    /\ spoiled = [c \in Connections |-> FALSE]

(* A new version of a file appears on the server.                          *)
NewFile(c) ==
    /\ crash = "no"
    /\ server[c] < MaxVersion
    /\ server' = [server EXCEPT ![c] = @ + 1]
    /\ UNCHANGED <<lockVars, pc, loopVars, curlVars, filetime, crash, obsVars>>

-----------------------------------------------------------------------------
(* The callers.                                                            *)

(* The prologue of httpPsychQuery.                                         *)
StartQuery ==
    /\ pc' = "prepare"
    /\ pending' = Connections
    /\ retries' = RetryCount
    /\ retry_sleep' = IF RetryDelay # 0 THEN RetryDelay ELSE RetrySleepDefault
    /\ UNCHANGED <<curlVars, server, crash, obsVars>>

(* OnTimer with the lock.                                                  *)
OnTimer ==
    /\ crash = "no"
    /\ timer = "waiting"
    /\ query_mutex = "none"
    /\ query_mutex' = "timer"
    /\ timer' = "running"
    /\ StartQuery
    /\ UNCHANGED <<tcl_left, filetime>>

(* OnTimer without it: "Periodic refresh aborted due to running query."    *)
OnTimerAborted ==
    /\ crash = "no"
    /\ timer = "waiting"
    /\ query_mutex # "none"
    /\ UNCHANGED vars

(* tclPsychRepublish and tclPsychHardRepublish: fresh connection_t's; they *)
(* differ in the reuse of sockets only.                                    *)
TclRepublish(t) ==
    /\ crash = "no"
    /\ tcl_left > 0
    /\ tcl_left' = tcl_left - 1
    /\ query_mutex = "none"
    /\ query_mutex' = t
    /\ filetime' = [filetime EXCEPT !["dup"] = [c \in Connections |-> 0]]
    /\ StartQuery
    /\ UNCHANGED timer

(* "query already running"                                                 *)
TclRefused(t) ==
    /\ crash = "no"
    /\ tcl_left > 0
    /\ tcl_left' = tcl_left - 1
    /\ query_mutex \notin {"none", t}
    /\ UNCHANGED <<query_mutex, timer, pc, loopVars, curlVars, filetime, server,
                   crash, obsVars>>

(* httpPsychQuery is left: the lock is released, its locals are gone.      *)
LeaveQuery ==
    /\ query_mutex' = "none"
    /\ pc' = "idle"
    /\ pending' = {} /\ retries' = 0 /\ retry_sleep' = 0
    /\ sent_now' = [c \in Connections |-> 0]
    /\ UNCHANGED <<tcl_left, done, filetime, server, crash, refreshed, spoiled>>

-----------------------------------------------------------------------------
(* One round: prepare, perform, drain, decide.                             *)

(* handle.reset() takes the old easy handles of `cs` out of multipass_,    *)
(* curl_multi_add_handle() puts new ones for `ok` in.                      *)
Rehandle(cs, ok) ==
    /\ multi' = (multi \ ({MyMap} \X cs)) \cup ({MyMap} \X ok)
    /\ running' = (running \ ({MyMap} \X cs)) \cup ({MyMap} \X ok)

(* A new easy handle for every pending connection; curl_easy_init() may    *)
(* return null, which leaves the connection pending.                       *)
Prepare ==
    /\ crash = "no"
    /\ pc = "prepare"
    /\ \E ok \in SUBSET pending : Rehandle(pending, ok)
    /\ pc' = "perform"
    /\ UNCHANGED <<lockVars, loopVars, done, filetime, server, crash, obsVars>>

(* Mutant of PrepareThrows: OnTimer returns true, the timer goes on.       *)
PrepareThrowsIgnored ==
    /\ crash = "no"
    /\ pc = "prepare"
    /\ \E cs \in SUBSET pending : \E ok \in SUBSET cs : Rehandle(cs, ok)
    /\ timer' = IF MyMap = "own" THEN "waiting" ELSE timer
    /\ LeaveQuery

(* std::exception (connection->data.reserve) after some of the handles     *)
(* were added. The lock is released. The timer thread ends; its handles    *)
(* stay where they are. A Tcl command destroys its copies and returns.     *)
PrepareThrows ==
    /\ crash = "no"
    /\ pc = "prepare"
    /\ \E cs \in SUBSET pending : \E ok \in SUBSET cs :
          IF MyMap = "own"
          THEN /\ Rehandle(cs, ok)
               /\ timer' = "ended"
          ELSE /\ multi' = multi \ ({"dup"} \X Connections)
               /\ running' = running \ ({"dup"} \X Connections)
               /\ UNCHANGED timer
    /\ LeaveQuery

(* A transfer ends. The server honours If-Modified-Since: a file that has  *)
(* not changed since is answered 304 and not 200.                          *)
Complete(h, r) ==
    /\ crash = "no"
    /\ pc = "perform"
    /\ h \in running
    /\ LET unmodified == h[1] = "own" /\ filetime["own"][h[2]] >= server[h[2]]
       IN  r.code \notin (IF unmodified THEN {200} ELSE {304})
    /\ running' = running \ {h}
    /\ done' = done \cup {[map |-> h[1], conn |-> h[2], resp |-> r,
                           version |-> server[h[2]]]}
    /\ UNCHANGED <<lockVars, pc, loopVars, multi, filetime, server, crash,
                   refreshed, sent_now, spoiled>>

(* while (running_handles > 0)                                             *)
Performed ==
    /\ crash = "no"
    /\ pc = "perform"
    /\ running = {}
    /\ pc' = "drain"
    /\ UNCHANGED <<lockVars, loopVars, curlVars, filetime, server, crash, obsVars>>

(* OnHttpResponse: the checks before the modification time is recorded.    *)
Panics(r) == PanicThreshold # NoThreshold /\ r.stamped /\ r.offset >= PanicThreshold
Reaches(r) == r.code = 200 /\ r.body \in {"notable", "cut", "good"} /\ ~Panics(r)

(* last_filetime = filetime, unless there is no Last-Modified (-1).        *)
Records(r) == Reaches(r) /\ r.stamped

(* What follows is the table; the result of the transfer is not looked at. *)
OnHttpResponse(r) == Reaches(r) /\ r.body # "notable"

(* Mutants of RecordFiletime: -1 is recorded for a file without a time;    *)
(* the time is recorded before the response is looked at.                  *)
RecordsUnknown(d) ==
    filetime' = IF Reaches(d.resp)
                THEN [filetime EXCEPT ![d.map][d.conn] = IF d.resp.stamped THEN d.version ELSE -1]
                ELSE filetime
RecordsFirst(d) == filetime' = [filetime EXCEPT ![d.map][d.conn] = d.version]

RecordFiletime(d) ==
    filetime' = IF Records(d.resp)
                THEN [filetime EXCEPT ![d.map][d.conn] = d.version]
                ELSE filetime

(* A response that is no refresh: HTTP_MALFORMED is incremented, the       *)
(* connection stays pending and its handle in multipass_.                  *)
Rejected(d) ==
    /\ crash = "no"
    /\ pc = "drain"
    /\ d \in done
    /\ d.resp.body # "untyped"
    /\ ~OnHttpResponse(d.resp)
    /\ done' = done \ {d}
    /\ RecordFiletime(d)
    /\ spoiled' = [spoiled EXCEPT ![d.conn] = @ \/ (d.map = "own" /\ Records(d.resp))]
    /\ UNCHANGED <<lockVars, pc, loopVars, multi, running, server, crash,
                   refreshed, sent_now>>

(* strncmp (nullptr, "text/plain", ...)                                    *)
NoContentType(d) ==
    /\ crash = "no"
    /\ pc = "drain"
    /\ d \in done
    /\ d.resp.body = "untyped"
    /\ crash' = "content_type"
    /\ UNCHANGED <<lockVars, pc, loopVars, curlVars, filetime, server, obsVars>>

(* Mutant of ErasePending: the connection stays in the queue.              *)
NothingErased(d) == pending' = pending /\ crash' = "no"

(* pending.erase (std::remove_if (...)): erasing the end iterator when the *)
(* connection is not of this query.                                        *)
ErasePending(d) ==
    IF d.map = MyMap /\ d.conn \in pending
    THEN pending' = pending \ {d.conn} /\ crash' = "no"
    ELSE pending' = pending /\ crash' = "erase"

(* SendRefresh: every row that is mapped to a stream is sent to it (see     *)
(* Provider), unless it throws before the last one.                        *)
SendRefresh(d) ==
    \E sent \in BOOLEAN :
        /\ refreshed' = IF sent
                        THEN [refreshed EXCEPT ![d.conn] =
                                [version |-> d.version, whole |-> d.resp.body = "good"]]
                        ELSE refreshed
        /\ spoiled' = [spoiled EXCEPT ![d.conn] =
              @ \/ (d.map = "own" /\ Records(d.resp) /\ ~(sent /\ d.resp.body = "good"))]

(* SendRefresh, then the connection is done with whether it threw or not   *)
(* ("request is now considered successful"). In a Tcl command the          *)
(* connection's resource is a reference to a destroyed pair: the refresh   *)
(* may also find no stream, or crash.                                      *)
Refresh(d) ==
    /\ crash = "no"
    /\ pc = "drain"
    /\ d \in done
    /\ OnHttpResponse(d.resp)
    /\ done' = done \ {d}
    /\ RecordFiletime(d)
    /\ SendRefresh(d)
    /\ sent_now' = [sent_now EXCEPT ![d.conn] = @ + 1]
    /\ multi' = multi \ {<<d.map, d.conn>>}
    /\ ErasePending(d)
    /\ UNCHANGED <<lockVars, pc, retries, retry_sleep, running, server>>

DanglingResource(d) ==
    /\ crash = "no"
    /\ pc = "drain"
    /\ d \in done
    /\ OnHttpResponse(d.resp)
    /\ d.map = "dup"
    /\ crash' = "resource"
    /\ UNCHANGED <<lockVars, pc, loopVars, curlVars, filetime, server, obsVars>>

(* Mutants of Retry: the backoff has no limit; retries are not counted.    *)
RetryWith(left, sleep) ==
    /\ crash = "no"
    /\ pc = "drain"
    /\ done = {}
    /\ pending # {}
    /\ retries > 0
    /\ retries' = left
    /\ retry_sleep' = sleep
    /\ pc' = "prepare"
    /\ UNCHANGED <<lockVars, pending, curlVars, filetime, server, crash, obsVars>>
RetryUncapped == RetryWith(retries - 1, 2 * retry_sleep)
RetryForever == RetryWith(retries, retry_sleep)

(* Connections are pending, retries are left, and retry_timeout_ms, if it  *)
(* is set, has not passed: sleep and go round again.                       *)
Retry ==
    /\ crash = "no"
    /\ pc = "drain"
    /\ done = {}
    /\ pending # {}
    /\ retries > 0
    /\ retries' = retries - 1
    /\ retry_sleep' = IF RetryDelay # 0 THEN retry_sleep
                      ELSE IF 2 * retry_sleep > RetrySleepMax THEN RetrySleepMax
                      ELSE 2 * retry_sleep
    /\ pc' = "prepare"
    /\ UNCHANGED <<lockVars, pending, curlVars, filetime, server, crash, obsVars>>

(* Mutant of EndQuery: the handles are not reset.                          *)
EndQueryLeaks ==
    /\ crash = "no"
    /\ pc = "drain"
    /\ done = {}
    /\ timer' = IF query_mutex = "timer" THEN "waiting" ELSE timer
    /\ UNCHANGED <<multi, running>>
    /\ LeaveQuery

(* Complete, or HTTP_RETRIES_EXCEEDED (none left, or retry_timeout_ms has  *)
(* passed): every handle is reset, the lock released.                      *)
EndQuery ==
    /\ crash = "no"
    /\ pc = "drain"
    /\ done = {}
    /\ multi' = multi \ ({MyMap} \X Connections)
    /\ running' = running \ ({MyMap} \X Connections)
    /\ timer' = IF query_mutex = "timer" THEN "waiting" ELSE timer
    /\ LeaveQuery

Stopped ==
    /\ \/ crash # "no"
       \/ timer = "ended" /\ pc = "idle"
    /\ UNCHANGED vars

-----------------------------------------------------------------------------
Drain ==
    \E d \in done : Rejected(d) \/ NoContentType(d) \/ Refresh(d) \/ DanglingResource(d)

(* The steps of the thread that has the lock.                              *)
QueryStep ==
    \/ Prepare \/ PrepareThrows
    \/ Performed
    \/ Drain
    \/ Retry \/ EndQuery

(* The steps of libcurl and the server.                                    *)
Transfer == \E h \in Handles, r \in Responses : Complete(h, r)

Next ==
    \/ \E c \in Connections : NewFile(c)
    \/ OnTimer \/ OnTimerAborted
    \/ \E t \in TclThreads : TclRepublish(t) \/ TclRefused(t)
    \/ QueryStep
    \/ Transfer
    \/ Stopped

(* The lock holder goes on and the timer is due again and again. Nothing   *)
(* is said of a transfer: unless timeout_ms is configured no step of the   *)
(* code ends one that the server has stopped answering.                    *)
Fairness ==
    /\ WF_vars(QueryStep)
    /\ WF_vars(OnTimer)

Spec == Init /\ [][Next]_vars /\ Fairness

-----------------------------------------------------------------------------
TypeOK ==
    /\ query_mutex \in TclThreads \cup {"none", "timer"}
    /\ timer \in {"waiting", "running", "ended"}
    /\ pc \in {"idle", "prepare", "perform", "drain"}
    /\ pending \subseteq Connections
    /\ retries \in Int
    /\ retry_sleep \in Nat
    /\ multi \subseteq Handles
    /\ running \subseteq Handles
    /\ done \subseteq Done
    /\ filetime \in [Maps -> [Connections -> 0..MaxVersion]]
    /\ server \in [Connections -> 1..MaxVersion]
    /\ tcl_left \in 0..MaxTcl
    /\ crash \in {"no", "erase", "content_type", "resource"}
    /\ refreshed \in [Connections -> [version : 0..MaxVersion, whole : BOOLEAN]]
    /\ sent_now \in [Connections -> Nat]
    /\ spoiled \in [Connections -> BOOLEAN]

(* The single-iterator erase of a connection that is not pending is        *)
(* undefined (psych.cc:1072). It can only happen once a timer query has    *)
(* been ended by an exception, which leaves its handles in multipass_ for  *)
(* the next query to perform and drain (psych.cc:1035, 733).               *)
EraseDefined == crash = "erase" => timer = "ended"

(* One query publishes each resource at most once, whatever the order in   *)
(* which transfers end and however many rounds it takes: a retry never     *)
(* repeats what was already done (psych.cc:1065-1074).                     *)
RefreshedOnce ==
    \A c \in Connections : (crash = "no" /\ timer # "ended") => sent_now[c] <= 1

(* The exponential backoff never sleeps for more than RETRY_SLEEP_MAX      *)
(* (psych.cc:1099-1103).                                                   *)
BackoffBounded == RetryDelay = 0 => retry_sleep <= RetrySleepMax

(* A query that has ended leaves no easy handle in multipass_, unless the  *)
(* timer thread died in it (psych.cc:1113-1116).                           *)
NoHandleLeaks ==
    (crash = "no" /\ query_mutex = "none" /\ timer # "ended") => multi = {}

(* If-Modified-Since never hides a file: as long as no response was        *)
(* recorded without its table being published, the newest time recorded    *)
(* is that of a version the resource was refreshed with (psych.cc:1231).   *)
RecordedIsPublished ==
    \A c \in Connections : ~spoiled[c] => filetime["own"][c] <= refreshed[c].version

(* Every query ends and gives query_mutex_ back, through all its retries,  *)
(* rejected responses and exceptions; what may keep the lock for ever is a *)
(* transfer that never ends, and nothing else: CURLOPT_TIMEOUT_MS is set   *)
(* only if timeout_ms is configured (psych.cc:885-892, 989).               *)
QueryEnds ==
    (query_mutex # "none") ~>
        (query_mutex = "none" \/ crash # "no" \/ [](running # {}))

(* What an update needs of its environment: every transfer ends            *)
(* (timeout_ms is configured, or the server never falls silent), memory    *)
(* for the handles is available some time, and a server that is asked      *)
(* again and again for a file delivers it some time.                       *)
HandlesMade == Prepare /\ {MyMap} \X pending \subseteq multi'
Good(r) == r.code = 200 /\ r.body = "good" /\ r.stamped /\ ~Panics(r)
Delivers(c) == \E r \in Responses : Good(r) /\ Complete(<<"own", c>>, r)

Responsive ==
    /\ WF_vars(Transfer)
    /\ SF_vars(HandlesMade)
    /\ \A c \in Connections : SF_vars(Delivers(c))

(* Rejected responses, clock panics, failed retries and refused locks      *)
(* delay an update but do not lose it: as long as the environment is       *)
(* responsive, a version on the server is published, or replaced by a      *)
(* newer one, unless a response was spoiled or the timer or the process is *)
(* gone (psych.cc:1089-1110, 1225-1231).                                   *)
UpdateArrives ==
    Responsive =>
        \A c \in Connections : \A v \in 1..MaxVersion :
            (server[c] = v) ~> \/ refreshed[c].version = v
                               \/ server[c] # v
                               \/ spoiled[c] \/ timer = "ended" \/ crash # "no"

-----------------------------------------------------------------------------
(* The inductive invariant behind the safety properties: while the timer   *)
(* thread lives, whatever is in multipass_ or in its message queue belongs *)
(* to a connection the current query still waits for.                      *)
Own(h) == h[1] = MyMap /\ h[2] \in pending

Carousel ==
    /\ \A c \in Connections : sent_now[c] <= 1 /\ (sent_now[c] = 1 => c \notin pending)
    /\ \A h \in multi \cup running : Own(h)
    /\ \A d \in done : Own(<<d.map, d.conn>>) /\ <<d.map, d.conn>> \notin running
    /\ \A d, e \in done : d.map = e.map /\ d.conn = e.conn => d = e
    /\ pc = "prepare" => done = {}
    /\ pc = "idle" => /\ pending = {} /\ done = {} /\ multi = {} /\ running = {}
                      /\ \A c \in Connections : sent_now[c] = 0

Inductive ==
    /\ pc = "idle" <=> query_mutex = "none"
    /\ timer = "running" <=> query_mutex = "timer"
    /\ crash = "no" /\ timer # "ended" => Carousel
    /\ EraseDefined
    /\ BackoffBounded

(* Why no version is published after a newer one, and why the recorded     *)
(* time is that of a published version: a message is of this round, so it  *)
(* is at least as new as whatever was recorded and published before it.    *)
Versions ==
    /\ pc \in {"idle", "prepare"} => done = {}
    /\ \A c \in Connections :
          /\ refreshed[c].version <= server[c] /\ filetime["own"][c] <= server[c]
          /\ ~spoiled[c] => filetime["own"][c] <= refreshed[c].version
    /\ \A d \in done :
          /\ d.version <= server[d.conn]
          /\ crash = "no" /\ timer # "ended" => refreshed[d.conn].version <= d.version
          /\ crash = "no" /\ ~spoiled[d.conn] => filetime["own"][d.conn] <= d.version

-----------------------------------------------------------------------------
(* The retry loop implements Polling: a transfer, a rejected response, a   *)
(* retry and a file that changes meanwhile are no steps of it.             *)
Promise == INSTANCE Polling WITH
    Resources <- Connections,
    Threads <- TclThreads \cup {"timer"},
    holder <- query_mutex,
    todo <- pending,
    sent <- sent_now,
    shown <- [c \in Connections |-> refreshed[c].version],
    broken <- (crash # "no" \/ timer = "ended")

(* However many rounds a query takes, and in whatever order its transfers  *)
(* end, it serves each resource at most once, takes what it has served off *)
(* its queue in the same step, and never publishes an older file after a   *)
(* newer one, also when a Tcl command and the timer publish in turn        *)
(* (psych.cc:1035-1074, 776-801).                                          *)
RefinesPolling == Promise!Spec

-----------------------------------------------------------------------------
(* What the repository says of the program and the code does not do.       *)

(* config.hh:208 "Responses will be rejected above this size.": what is    *)
(* published is never a table that was broken off.                         *)
OnlyWholeTables == \A c \in Connections : refreshed[c].whole
=============================================================================
