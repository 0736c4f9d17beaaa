------------------------------ MODULE Lifecycle -----------------------------
(***************************************************************************)
(* The life of psych_t instances (psych.cc:253-692), and the threads that  *)
(* look at them meanwhile: the SNMP agent's thread walking the tables of   *)
(* the MIB (snmp_agent.cc, psychMIB.cc), and the threads Windows runs      *)
(* CtrlHandler on.                                                         *)
(*                                                                         *)
(* One thread constructs, initialises, closes and deletes instances: in    *)
(* the application main() with its only one, in the plug-in the Analytics  *)
(* Engine (external) with as many as it likes, one call at a time. The     *)
(* list of instances, the libcurl and SNMP reference counts and the weak   *)
(* pointer to the event queue are global. The unique_lock statements of    *)
(* the constructor and destructor declare a variable and lock nothing      *)
(* (psych.cc:270, 277), so nothing here waits for global_list_lock_.       *)
(***************************************************************************)
EXTENDS Integers, Sequences, FiniteSets, SequencesExt

CONSTANTS
    Instances,      \* psych_t objects that may come into being
    NumSessions,    \* config_.sessions.size(), of each of them
    NoInstance,
    MaxCtrl         \* bound: console events

ASSUME SessionsAssumption == NumSessions \in [Instances -> Nat \ {0}]
ASSUME InstancesAssumption == Instances # {} /\ NoInstance \notin Instances
ASSUME CtrlAssumption == MaxCtrl \in Nat

VARIABLES
    build,          \* CONFIG_PSYCH_AS_APPLICATION, or the plug-in
    life,           \* where in its life each instance is
    global_list,    \* psych_t::global_list_
    held,           \* per instance: what Init has set up and Clear not undone
    active,         \* per instance: event_queue_->isActive()
    pc, cur, step,  \* the thread that owns the instances
    curl_ref,       \* psych_t::curl_ref_count_
    curl_global,    \* curl_global_init() done, curl_global_cleanup() not
    snmp_ref,       \* snmp_agent_t::ref_count_
    snmp,           \* the SNMP thread, and the agent its pump belongs to
    walk,           \* the query the SNMP thread is in: snmp_context_t
    ctrl,           \* the calls of CtrlHandler
    crash           \* "no", or the undefined behaviour the process ran into

ownVars == <<pc, cur, step>>
instVars == <<life, global_list, held, active>>
curlVars == <<curl_ref, curl_global>>
snmpVars == <<snmp_ref, snmp>>
vars == <<build, instVars, ownVars, curlVars, snmpVars, walk, ctrl, crash>>

(* What Init sets up, in its order; the plug-in has an event pump of its   *)
(* own and a Tcl interface. "streams" are stream_vector_ and query_vector_.*)
InitOrder ==
    IF build = "application"
    THEN <<"curl", "multi", "rfa", "queue", "log", "provider", "streams",
           "snmp", "timer">>
    ELSE <<"curl", "multi", "rfa", "queue", "log", "provider", "streams",
           "pump", "snmp", "tcl", "timer">>

(* Mutant of ClearOrder: libcurl is cleaned up too early.                  *)
ClearOrderCurlFirst ==
    <<"timer", "snmp", "pump", "streams", "provider", "log", "queue", "rfa",
      "curl", "multi">>

(* What Clear undoes, in its order. connections_ and the Tcl commands are  *)
(* not among it.                                                           *)
ClearOrder ==
    <<"timer", "snmp", "pump", "streams", "provider", "log", "queue", "rfa",
      "multi", "curl">>

Things == {"curl", "multi", "rfa", "queue", "log", "provider", "streams",
           "connections", "pump", "snmp", "tcl", "timer"}

Constructed == {i \in Instances : life[i] # "absent"}
Listed(i) == \E n \in DOMAIN global_list : global_list[n] = i
Position(i) == CHOOSE n \in DOMAIN global_list : global_list[n] = i

(* Some shared_ptr to the event queue of i is left.                        *)
QueueAlive(i) ==
    \/ held[i] \cap {"queue", "log", "provider", "pump"} # {}
    \/ \E h \in DOMAIN ctrl : ctrl[h] \in {"holds", "deactivated"}

NoWalk == [table |-> "none", psych_it |-> NoInstance, session_it |-> 0,
           rows |-> <<>>, of |-> <<>>]

-----------------------------------------------------------------------------
Init ==
    /\ build \in {"application", "plugin"}
    /\ life = [i \in Instances |-> "absent"]
    /\ global_list = <<>>
    /\ held = [i \in Instances |-> {}]
    /\ active = [i \in Instances |-> FALSE]
    /\ pc = "idle" /\ cur \in Instances /\ step = 1
    /\ curl_ref = 0 /\ curl_global = FALSE
    /\ snmp_ref = 0
    /\ snmp = [state |-> "off", owner |-> NoInstance, stop |-> FALSE]
    /\ walk = NoWalk
    /\ ctrl = [h \in 1..MaxCtrl |-> "none"]
    /\ crash = "no"

(* psych_t::psych_t: the instance is listed before it is initialised.      *)
Construct(i) ==
    /\ crash = "no"
    /\ pc = "idle"
    /\ life[i] = "absent"
    /\ build = "application" => Constructed = {}
    /\ life' = [life EXCEPT ![i] = "new"]
    /\ global_list' = Append(global_list, i)
    /\ UNCHANGED <<build, held, active, ownVars, curlVars, snmpVars, walk, ctrl, crash>>

(* Run() or init(): the configuration is read, then Init.                  *)
Start(i) ==
    /\ crash = "no"
    /\ pc = "idle"
    /\ life[i] = "new"
    /\ pc' = "init" /\ cur' = i /\ step' = 1
    /\ UNCHANGED <<build, instVars, curlVars, snmpVars, walk, ctrl, crash>>

(* The configuration is not valid: no Init, and no Clear.                  *)
ConfigRejected(i) ==
    /\ crash = "no"
    /\ pc = "idle"
    /\ life[i] = "new"
    /\ life' = [life EXCEPT ![i] = "failed"]
    /\ UNCHANGED <<build, global_list, held, active, ownVars, curlVars, snmpVars,
                   walk, ctrl, crash>>

-----------------------------------------------------------------------------
(* psych_t::Init, stage by stage.                                          *)

At(stage) == crash = "no" /\ pc = "init" /\ InitOrder[step] = stage

(* The stage is done; after the last one the application enters MainLoop.  *)
Advance ==
    /\ cur' = cur
    /\ IF step < Len(InitOrder)
       THEN step' = step + 1 /\ pc' = pc /\ life' = life
       ELSE /\ step' = 1
            /\ pc' = IF build = "application" THEN "loop" ELSE "idle"
            /\ life' = [life EXCEPT ![cur] = "up"]

(* Init returns false. init() of the plug-in clears the instance before it *)
(* throws; Run() of the application just returns.                          *)
InitFails(things) ==
    /\ held' = [held EXCEPT ![cur] = things]
    /\ life' = [life EXCEPT ![cur] = "failed"]
    /\ pc' = IF build = "application" THEN "idle" ELSE "clear"
    /\ cur' = cur /\ step' = 1

(* The first reference initialises libcurl.                                *)
InitCurl ==
    /\ At("curl")
    /\ curl_ref' = curl_ref + 1
    /\ \/ /\ curl_global' = (curl_global \/ curl_ref = 0)
          /\ held' = [held EXCEPT ![cur] = @ \cup {"curl"}]
          /\ Advance
       \/ /\ curl_ref = 0
          /\ UNCHANGED curl_global
          /\ InitFails(held[cur])
    /\ UNCHANGED <<build, global_list, active, snmpVars, walk, ctrl, crash>>

(* The stages that concern this instance only. Some may have stored their  *)
(* object when they fail (rfa_.reset (new rfa_t), then rfa_->Init()).      *)
StoredFirst == {"rfa", "log", "provider", "streams", "connections", "pump", "tcl"}

InitStage ==
    /\ crash = "no"
    /\ pc = "init"
    /\ InitOrder[step] \notin {"curl", "snmp"}
    /\ LET stage == InitOrder[step]
           made == IF stage = "streams" THEN {stage, "connections"} ELSE {stage}
       IN  \/ /\ held' = [held EXCEPT ![cur] = @ \cup made]
              /\ active' = [active EXCEPT ![cur] = @ \/ stage = "queue"]
              /\ Advance
           \/ /\ \E some \in SUBSET (made \cap StoredFirst) : InitFails(held[cur] \cup some)
              /\ active' = active
    /\ UNCHANGED <<build, global_list, curlVars, snmpVars, walk, ctrl, crash>>

(* snmp_agent_t::Run, called by the constructor: only the first agent      *)
(* starts the thread, and what Run returns is ignored. An exception may    *)
(* leave a reference behind that no agent gives back.                      *)
InitSnmp ==
    /\ At("snmp")
    /\ \/ /\ snmp_ref' = snmp_ref + 1
          /\ snmp' \in IF snmp_ref > 0 THEN {snmp}
                       ELSE {snmp, [state |-> "on", owner |-> cur, stop |-> FALSE]}
          /\ held' = [held EXCEPT ![cur] = @ \cup {"snmp"}]
          /\ Advance
       \/ UNCHANGED <<snmpVars, held>> /\ Advance      \* SNMP is not enabled
       \/ /\ snmp_ref' \in {snmp_ref} \cup (IF snmp_ref = 0 THEN {1} ELSE {})
          /\ snmp' = snmp
          /\ InitFails(held[cur])
    /\ UNCHANGED <<build, global_list, active, curlVars, walk, ctrl, crash>>

-----------------------------------------------------------------------------
(* The end of an instance.                                                 *)

ClearNext(life_after) ==
    /\ cur' = cur
    /\ IF step < Len(ClearOrder)
       THEN step' = step + 1 /\ pc' = pc /\ life' = life
       ELSE /\ step' = 1 /\ pc' = "idle"
            /\ life' = [life EXCEPT ![cur] = life_after]

(* Destroy: when MainLoop has ended, or when the Analytics Engine says so. *)
Destroy(i) ==
    /\ crash = "no"
    /\ life[i] = "up"
    /\ IF build = "application" THEN pc = "loop" /\ ~active[i] ELSE pc = "idle"
    /\ life' = [life EXCEPT ![i] = "closed"]
    /\ held' = [held EXCEPT ![i] = @ \ {"tcl"}]
    /\ pc' = "clear" /\ cur' = i /\ step' = 1
    /\ UNCHANGED <<build, global_list, active, curlVars, snmpVars, walk, ctrl, crash>>

(* ~psych_t: off the list, then Clear, again.                              *)
Delete(i) ==
    /\ crash = "no"
    /\ pc = "idle"
    /\ life[i] \in {"failed", "closed"} \/ (life[i] = "new" /\ build = "plugin")
    /\ life' = [life EXCEPT ![i] = "deleting"]
    /\ global_list' = RemoveAt(global_list, Position(i))
    /\ pc' = "clear" /\ cur' = i /\ step' = 1
    /\ UNCHANGED <<build, held, active, curlVars, snmpVars, walk, ctrl, crash>>

Clearing(what) == crash = "no" /\ pc = "clear" /\ ClearOrder[step] = what

AfterClear == IF life[cur] = "deleting" THEN "deleted" ELSE life[cur]

(* Mutant of ClearStep: the timer thread is interrupted but not joined.    *)
ClearStepNoJoin ==
    /\ crash = "no"
    /\ pc = "clear"
    /\ ClearOrder[step] \notin {"snmp", "curl"}
    /\ held' = [held EXCEPT ![cur] = IF ClearOrder[step] = "timer" THEN @ ELSE @ \ {ClearOrder[step]}]
    /\ active' = [active EXCEPT ![cur] = @ /\ ClearOrder[step] # "pump"]
    /\ ClearNext(AfterClear)
    /\ UNCHANGED <<build, global_list, curlVars, snmpVars, walk, ctrl, crash>>

(* One member is reset. The timer and event threads are joined here; the   *)
(* queue is deactivated before its thread is.                              *)
ClearStep ==
    /\ crash = "no"
    /\ pc = "clear"
    /\ ClearOrder[step] \notin {"snmp", "curl"}
    /\ held' = [held EXCEPT ![cur] = @ \ {ClearOrder[step]}]
    /\ active' = [active EXCEPT ![cur] = @ /\ ClearOrder[step] # "pump"]
    /\ ClearNext(AfterClear)
    /\ UNCHANGED <<build, global_list, curlVars, snmpVars, walk, ctrl, crash>>

(* snmp_agent_t::Clear: the last agent signals the exit of the thread, if  *)
(* it is its own, and has to join it.                                      *)
SnmpSignal ==
    /\ Clearing("snmp")
    /\ "snmp" \in held[cur]
    /\ snmp_ref = 1
    /\ snmp.owner = cur /\ snmp.state = "on" /\ ~snmp.stop
    /\ snmp' = [snmp EXCEPT !.stop = TRUE]
    /\ UNCHANGED <<build, instVars, ownVars, curlVars, snmp_ref, walk, ctrl, crash>>

(* Mutants of SnmpClear: a reference is given back that was not taken; the *)
(* thread is not joined.                                                   *)
SnmpClearUnguarded ==
    /\ Clearing("snmp")
    /\ held' = [held EXCEPT ![cur] = @ \ {"snmp"}]
    /\ snmp_ref' = snmp_ref - 1
    /\ ClearNext(AfterClear)
    /\ UNCHANGED <<build, global_list, active, curlVars, snmp, walk, ctrl, crash>>
SnmpClearNoJoin ==
    /\ Clearing("snmp")
    /\ held' = [held EXCEPT ![cur] = @ \ {"snmp"}]
    /\ snmp_ref' = IF "snmp" \in held[cur] THEN snmp_ref - 1 ELSE snmp_ref
    /\ ClearNext(AfterClear)
    /\ UNCHANGED <<build, global_list, active, curlVars, snmp, walk, ctrl, crash>>

(* The agent is destroyed: with no reference left once its thread is gone, *)
(* otherwise at once, even if the thread runs on its pump.                 *)
SnmpClear ==
    /\ Clearing("snmp")
    /\ held' = [held EXCEPT ![cur] = @ \ {"snmp"}]
    /\ IF "snmp" \in held[cur]
       THEN /\ snmp_ref' = snmp_ref - 1
            /\ (snmp_ref = 1 /\ snmp.owner = cur) => snmp.state = "off"
            /\ snmp' = IF snmp.owner = cur /\ snmp.state = "on"
                       THEN [snmp EXCEPT !.state = "orphan"] ELSE snmp
       ELSE UNCHANGED snmpVars
    /\ ClearNext(AfterClear)
    /\ UNCHANGED <<build, global_list, active, curlVars, walk, ctrl, crash>>

(* A reference is given back, whether or not Init had taken it.            *)
ClearCurl ==
    /\ Clearing("curl")
    /\ curl_ref' = curl_ref - 1
    /\ curl_global' = (curl_global /\ curl_ref # 1)
    /\ held' = [held EXCEPT ![cur] = @ \ {"curl"}]
    /\ ClearNext(AfterClear)
    /\ UNCHANGED <<build, global_list, active, snmpVars, walk, ctrl, crash>>

-----------------------------------------------------------------------------
(* The SNMP thread: a walk over the plug-in or the session table (there    *)
(* are two of each, walked alike), then the handler.                       *)

Crash(why) ==
    /\ crash' = why
    /\ UNCHANGED <<build, instVars, ownVars, curlVars, snmpVars, walk, ctrl>>

(* Mutant of Hunt: the first row is the only one.                          *)
HuntOnce(i, s) == [psych_it |-> NoInstance, session_it |-> 0, seen |-> {}]
(* "hunt for next valid node": in a later instance the search begins with  *)
(* ++session_it, at its second session. `seen` are the instances whose     *)
(* provider_ is looked at.                                                 *)
Hunt(i, s) ==
    LET later == {n \in DOMAIN global_list : n > Position(i)}
        fit == {n \in later : NumSessions[global_list[n]] >= 2}
        next == CHOOSE n \in fit : \A m \in fit : n <= m
    IN  IF s < NumSessions[i]
        THEN [psych_it |-> i, session_it |-> s + 1, seen |-> {i}]
        ELSE IF fit = {}
        THEN [psych_it |-> NoInstance, session_it |-> 0,
              seen |-> {i} \cup {global_list[n] : n \in later}]
        ELSE [psych_it |-> global_list[next], session_it |-> 2,
              seen |-> {i} \cup {global_list[n] : n \in {m \in later : m <= next}}]

(* The next instance of the plug-in table.                                 *)
NextInstance(i) ==
    LET n == Position(i) IN
    [psych_it |-> IF n < Len(global_list) THEN global_list[n + 1] ELSE NoInstance,
     session_it |-> 0, seen |-> {}]

(* get_next_data_point: one row, and on to the next.                       *)
Row(table, i, s, rows, of) ==
    LET hunt == IF table = "session" THEN Hunt(i, s) ELSE NextInstance(i)
    IN  IF \E j \in hunt.seen : "provider" \notin held[j]
        THEN Crash("provider")
        ELSE /\ walk' = [table |-> table, psych_it |-> hunt.psych_it,
                         session_it |-> hunt.session_it,
                         rows |-> Append(rows, <<i, s>>), of |-> of]
             /\ UNCHANGED <<build, instVars, ownVars, curlVars, snmpVars, ctrl, crash>>

(* get_first_data_point: a context, which holds a lock nobody else takes.  *)
WalkFirst(table) ==
    /\ crash = "no"
    /\ snmp.state = "on" /\ ~snmp.stop
    /\ walk = NoWalk
    /\ global_list # <<>>
    /\ Row(table, global_list[1], IF table = "session" THEN 1 ELSE 0, <<>>, global_list)

(* The node psych_it points to may have been removed from the list.        *)
WalkNext ==
    /\ crash = "no"
    /\ walk.table \in {"plugin", "session"}
    /\ walk.psych_it # NoInstance
    /\ IF Listed(walk.psych_it)
       THEN Row(walk.table, walk.psych_it, walk.session_it, walk.rows, walk.of)
       ELSE Crash("iterator")

(* What a row points to and the handler reads: the psych_t of the plug-in  *)
(* tables, the session_t, owned by the provider, of the session tables.    *)
PluginRowGone(row) == life[row[1]] = "deleted"
SessionRowGone(row) == "provider" \notin held[row[1]]

(* The last row has been passed: the context is freed, then the handler    *)
(* follows the pointers of the rows.                                       *)
WalkHandler ==
    /\ crash = "no"
    /\ walk.table # "none"
    /\ walk.psych_it = NoInstance
    /\ IF \E n \in DOMAIN walk.rows :
             IF walk.table = "session" THEN SessionRowGone(walk.rows[n])
                                       ELSE PluginRowGone(walk.rows[n])
       THEN Crash("context")
       ELSE /\ walk' = NoWalk
            /\ UNCHANGED <<build, instVars, ownVars, curlVars, snmpVars, ctrl, crash>>

(* snmp::event_pump_t::Run, between two queries: the exit is signalled.    *)
SnmpExit ==
    /\ crash = "no"
    /\ walk = NoWalk
    /\ snmp.state = "on" /\ snmp.stop
    /\ snmp' = [snmp EXCEPT !.state = "off"]
    /\ UNCHANGED <<build, instVars, ownVars, curlVars, snmp_ref, walk, ctrl, crash>>

(* The thread goes on with a pump that was destroyed with its agent.       *)
PumpFreed ==
    /\ crash = "no"
    /\ walk = NoWalk
    /\ snmp.state = "orphan"
    /\ Crash("pump")

-----------------------------------------------------------------------------
(* CtrlHandler, each call on a thread of its own, while it is registered.  *)

CtrlOnly == UNCHANGED <<build, life, global_list, held, ownVars, curlVars, snmpVars, walk>>

(* if (!g_event_queue.expired())                                           *)
CtrlCheck(h) ==
    /\ crash = "no"
    /\ build = "application"
    /\ pc = "loop"
    /\ ctrl[h] = "none"
    /\ ctrl' = [ctrl EXCEPT ![h] = IF QueueAlive(cur) THEN "checked" ELSE "done"]
    /\ CtrlOnly /\ UNCHANGED <<active, crash>>

(* auto sp = g_event_queue.lock(): null if the queue has gone since.       *)
CtrlLock(h) ==
    /\ crash = "no"
    /\ ctrl[h] = "checked"
    /\ IF QueueAlive(cur)
       THEN ctrl' = [ctrl EXCEPT ![h] = "holds"] /\ crash' = crash
       ELSE ctrl' = ctrl /\ crash' = "ctrl"
    /\ CtrlOnly /\ UNCHANGED active

(* Mutant of CtrlDeactivate: the event is logged only.                     *)
CtrlLogsOnly(h) ==
    /\ crash = "no"
    /\ ctrl[h] = "holds"
    /\ ctrl' = [ctrl EXCEPT ![h] = "deactivated"]
    /\ CtrlOnly /\ UNCHANGED <<active, crash>>

CtrlDeactivate(h) ==
    /\ crash = "no"
    /\ ctrl[h] = "holds"
    /\ active' = [active EXCEPT ![cur] = FALSE]
    /\ ctrl' = [ctrl EXCEPT ![h] = "deactivated"]
    /\ CtrlOnly /\ UNCHANGED crash

(* sp goes out of scope.                                                   *)
CtrlRelease(h) ==
    /\ crash = "no"
    /\ ctrl[h] = "deactivated"
    /\ ctrl' = [ctrl EXCEPT ![h] = "done"]
    /\ CtrlOnly /\ UNCHANGED <<active, crash>>

-----------------------------------------------------------------------------
(* The process has ended, or the engine calls no more.                     *)
Stopped ==
    /\ \/ crash # "no"
       \/ pc = "idle" /\ \A i \in Constructed : life[i] = "deleted"
    /\ UNCHANGED vars

Calls ==
    \E i \in Instances :
        Construct(i) \/ Start(i) \/ ConfigRejected(i) \/ Destroy(i) \/ Delete(i)

InCall ==
    \/ InitCurl \/ InitStage \/ InitSnmp
    \/ ClearStep \/ SnmpSignal \/ SnmpClear \/ ClearCurl

SnmpThread ==
    \/ WalkNext \/ WalkHandler \/ SnmpExit \/ PumpFreed

CtrlThread(h) == CtrlLock(h) \/ CtrlDeactivate(h) \/ CtrlRelease(h)

Next ==
    \/ Calls \/ InCall
    \/ \E table \in {"plugin", "session"} : WalkFirst(table)
    \/ SnmpThread
    \/ \E h \in 1..MaxCtrl : CtrlCheck(h) \/ CtrlThread(h)
    \/ Stopped

(* The application calls what comes next; the engine need not. Every       *)
(* thread goes on with what it is in: RFA, libcurl and Net-SNMP calls      *)
(* return, the event pump can be joined, and so can the timer thread, its  *)
(* query being over some time (no transfer hangs, which timeout_ms ensures *)
(* if it is configured, psych.cc:885), and the first due time is found     *)
(* (which psych.cc:755 alone does not ensure).                             *)
Fairness ==
    /\ WF_vars(build = "application" /\ Calls)
    /\ WF_vars(InCall)
    /\ WF_vars(SnmpThread)
    /\ \A h \in 1..MaxCtrl : WF_vars(CtrlThread(h))

Spec == Init /\ [][Next]_vars /\ Fairness

-----------------------------------------------------------------------------
(* The instances whose SNMP agent has run.                                 *)
Holders == {i \in Instances : "snmp" \in held[i]}

(* Types, and how the parts of the state hang together: the list holds     *)
(* each instance once, from its constructor to its destructor; every agent *)
(* has a reference of its own to the SNMP thread (an exception of Init may *)
(* leave one too many, never one too few); and a walk knows instances only *)
(* that were constructed, though they may have left the list since. The    *)
(* count of libcurl is an int that becomes -1 when Clear has run a second  *)
(* time (psych.cc:667-668).                                                *)
TypeOK ==
    /\ build \in {"application", "plugin"}
    /\ life \in [Instances -> {"absent", "new", "up", "failed", "closed", "deleting", "deleted"}]
    /\ global_list \in Seq(Instances)
    /\ \A m, n \in DOMAIN global_list : global_list[m] = global_list[n] => m = n
    /\ \A i \in Instances : Listed(i) <=> life[i] \in {"new", "up", "failed", "closed"}
    /\ held \in [Instances -> SUBSET Things]
    /\ active \in [Instances -> BOOLEAN]
    /\ pc \in {"idle", "init", "loop", "clear"}
    /\ cur \in Instances
    /\ step \in 1..11
    /\ curl_ref \in Int /\ curl_global \in BOOLEAN
    /\ snmp_ref \in Nat /\ Cardinality(Holders) <= snmp_ref
    /\ snmp \in [state : {"off", "on", "orphan"}, owner : Instances \cup {NoInstance},
                 stop : BOOLEAN]
    /\ walk.table \in {"none", "plugin", "session"}
    /\ walk.psych_it \in Constructed \cup {NoInstance}
    /\ walk.session_it \in Nat
    /\ walk.rows \in Seq(Instances \X Nat)
    /\ \A n \in DOMAIN walk.rows : walk.rows[n][1] \in Constructed
    /\ ctrl \in [1..MaxCtrl -> {"none", "checked", "holds", "deactivated", "done"}]
    /\ crash \in {"no", "provider", "iterator", "context", "pump", "ctrl"}

-----------------------------------------------------------------------------
(* There has been one instance at most.                                    *)
Alone == \A i, j \in Constructed : i = j

(* The application never reads what is not there: the SNMP thread is       *)
(* started after the provider and joined before it is reset, and the list  *)
(* is not touched meanwhile (psych.cc:391, 478, 642-657). The exceptions   *)
(* are the code's: a second instance (listed before it has a provider, or  *)
(* outliving the agent with the thread), the destructor after a late Init  *)
(* failure (the instance leaves the list before the agent is closed,       *)
(* psych.cc:278-281), and a second console event during the shutdown that  *)
(* the first one began (psych.cc:610-612).                                 *)
SoloSafe ==
    /\ crash \in {"provider", "context", "pump"} => ~Alone
    /\ crash = "iterator" => ~Alone \/ life[cur] = "deleting"
    /\ crash = "ctrl" => \E h \in 1..MaxCtrl : ctrl[h] = "deactivated" \/ ctrl[h] = "done"

(* A libcurl multi handle exists only between curl_global_init() and       *)
(* curl_global_cleanup(), as long as there is one instance: Clear runs     *)
(* twice for it and gives back two references for the one Init took, but   *)
(* the second is ignored (psych.cc:332, 667-668). The easy handles are not *)
(* meant: those a query that threw left in connections_ go with the        *)
(* members of psych_t, after the cleanup.                                  *)
CurlReady ==
    Alone => \A i \in Instances : "multi" \in held[i] => curl_global

(* The timer thread never outlives anything OnTimer uses, on whatever path *)
(* Init failed or Clear was reached (psych.cc:515, 634-638).               *)
TimerAlive ==
    \A i \in Instances : "timer" \in held[i] =>
        {"multi", "provider", "queue", "streams", "connections"} \subseteq held[i]

(* A walk over a list that stays as it was returns no row twice. In the    *)
(* plug-in table it misses none; in the session table none but the first   *)
(* session of an instance after the first (psychMIB.cc:926-931): with one  *)
(* instance it is complete.                                                *)
WalkMisses ==
    (crash = "no" /\ walk.table # "none" /\ walk.psych_it = NoInstance /\ global_list = walk.of) =>
        /\ \A m, n \in DOMAIN walk.rows : walk.rows[m] = walk.rows[n] => m = n
        /\ \A n \in DOMAIN walk.of :
              \A s \in IF walk.table = "session" THEN 1..NumSessions[walk.of[n]] ELSE {0} :
                 \/ \E m \in DOMAIN walk.rows : walk.rows[m] = <<walk.of[n], s>>
                 \/ walk.table = "session" /\ n > 1 /\ s = 1

(* A console event ends the application: the queue is deactivated,         *)
(* MainLoop left, every thread joined and the instance destroyed, even     *)
(* while SNMP queries are being answered (psych.cc:610-616, 630-670).      *)
CtrlEnds ==
    (\E h \in 1..MaxCtrl : ctrl[h] # "none") ~> (life[cur] = "deleted" \/ crash # "no")

-----------------------------------------------------------------------------
(* What the repository says of the program and the code does not do.       *)

(* psych.cc:660 "assert (event_queue_.use_count() <= 1);": nobody else     *)
(* holds the event queue when Clear lets go of it.                         *)
QueueUnshared ==
    (pc = "clear" /\ ClearOrder[step] = "queue") =>
        \A h \in 1..MaxCtrl : ctrl[h] \notin {"holds", "deactivated"}
=============================================================================
