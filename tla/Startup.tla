------------------------------- MODULE Startup -------------------------------
(***************************************************************************)
(* From a configuration document to a running schedule: the part of        *)
(* psych_t::init, Run and Init that the document decides (psych.cc), and   *)
(* the periodic timer time_pump_t (psych.hh). The document is parsed, the  *)
(* resources become connections, streams and name maps, GetNextInterval    *)
(* looks for the first due time, and the timer thread calls OnTimer.       *)
(*                                                                         *)
(* Whatever else can fail in Init is module Lifecycle's. The clock is not  *)
(* read before GetNextInterval: it starts at any time of the day, and      *)
(* moves from there on.                                                    *)
(***************************************************************************)
EXTENDS Config, FiniteSetsExt

CONSTANTS
    Text,               \* attributes, names, keys and the strings of JSON
    XmlDocuments,       \* sequences of <config> nodes
    JsonDocuments,      \* what is under kConfigJson: [read, dict]
    Day,                \* seconds in a day
    ULongRange,         \* numeric_limits<unsigned long>::max() + 1
    MaxTime             \* bound: the clock

ASSUME ClockAssumption ==
    /\ Day \in Nat \ {0} /\ MaxTime \in Nat
    /\ ULongRange \in Nat /\ ULongRange > MaxTime
    /\ \A t \in DOMAIN Number : ULongRange > Number[t]

(* What the documents are made of: an attribute that is missing is "". The *)
(* members of a dictionary have different names.                           *)
SnmpNode == [filelog : Text, agentX : Seq([subagent : Text, socket : Text])]
ConnectionNode == [name : Text, defaultPort : Text, server : Seq(Text)]
SessionNode == [name : Text, publisher : Seq(Text), connection : Seq(ConnectionNode),
                login : Seq([LoginKeys -> Text])]
RfaNode == [attrs : [{"key", "maximum_data_size"} -> Text], service : Seq(Text),
            DACS : Seq(Text), session : Seq(SessionNode), monitor : Seq(Text),
            eventQueue : Seq(Text), vendor : Seq(Text)]
ResourceNode == [name : Text, field : Seq([name : Text, id : Text]),
                 item : Seq([name : Text, topic : Text, src : Text]),
                 link : Seq([rel : Text, name : Text, href : Text])]
PsychNode == [attrs : [PsychKeys -> Text], resource : Seq(ResourceNode)]
ConfigNode == [Snmp : Seq(SnmpNode), Rfa : Seq(RfaNode), psych : Seq(PsychNode)]

IsVector(v) == Len(v) \in Nat /\ DOMAIN v = 1..Len(v)
Members(dict, Value) == \A k \in DOMAIN dict : k \in Text /\ dict[k] \in Value
Entries(part, Entry(_)) == part[1] = "list" =>
    IsVector(part[2]) /\ \A i \in DOMAIN part[2] : part[2][i][1] = "dict" => Entry(part[2][i][2])

SessionDict(d) == Members(d.strings, Text) /\ (d.rssl_servers[1] = "list" => d.rssl_servers[2] \in Seq(Text))
ResourceDict(d) ==
    /\ Members(d.strings, Text) /\ d.entitlement_code \in Int
    /\ d.fields[1] = "dict" =>
          /\ d.fields[2] \in Seq([name : Text, id : Int])
          /\ \A i, j \in DOMAIN d.fields[2] : d.fields[2][i].name = d.fields[2][j].name => i = j
    /\ d.items[1] = "dict" =>
          /\ IsVector(d.items[2])
          /\ \A i, j \in DOMAIN d.items[2] : d.items[2][i].src = d.items[2][j].src => i = j
          /\ \A i \in DOMAIN d.items[2] :
                /\ d.items[2][i].src \in Text
                /\ d.items[2][i].value[1] = "dict" => Members(d.items[2][i].value[2].strings, Text)
ConfigDict(d) ==
    /\ Members(d.booleans, BOOLEAN) /\ Members(d.strings, Text)
    /\ Entries(d.sessions, SessionDict) /\ Entries(d.resources, ResourceDict)

ASSUME DocumentsAssumption ==
    /\ "" \in Text
    /\ XmlDocuments \subseteq Seq(ConfigNode)
    /\ \A d \in JsonDocuments :
          \/ d.read \in {"missing", "thrown", "rejected", "list"}
          \/ d.read = "dict" /\ ConfigDict(d.dict)

VARIABLES
    source,         \* "xml" in the plug-in, "json" in the application
    document,
    pc,             \* how far init or Run is
    config,         \* config_
    index,          \* the next resource of the loop in Init
    connections,    \* connections_: path -> resource; only paths are compared
    stream_vector,  \* stream_vector_: RIC -> the resource its stream refers to
    query_vector,   \* query_vector_: path -> (sector -> topic and RIC)
    now,            \* system clock, in seconds
    started,        \* the clock as GetNextInterval read it
    reference,      \* reference_ptime
    timer,          \* time_pump_t::Run: "none", "sleeping", "calling" or "ended"
    due_time,       \* time_pump_t::due_time_
    td,             \* time_pump_t::td_
    fired           \* calls of OnTimer that returned true (observer)

startVars == <<source, document, pc, config, index, connections, stream_vector, query_vector>>
timeVars == <<now, started, reference, timer, due_time, td, fired>>
vars == <<startVars, timeVars>>

Init ==
    /\ \/ source = "xml" /\ document \in XmlDocuments
       \/ source = "json" /\ document \in JsonDocuments
    /\ pc = "parse"
    /\ config = DefaultConfig
    /\ index = 1
    /\ connections = <<>> /\ stream_vector = <<>> /\ query_vector = <<>>
    /\ now \in 0..Day - 1
    /\ started = 0 /\ reference = 0
    /\ timer = "none" /\ due_time = 0 /\ td = 0 /\ fired = 0

Goto(label) ==
    /\ pc' = label
    /\ UNCHANGED <<source, document, config, index, connections, stream_vector, query_vector>>

-----------------------------------------------------------------------------
(* The next label for the outcome of a parser. Nothing catches what it     *)
(* throws.                                                                 *)
After(status) ==
    CASE status = "ok" -> "streams" [] status = "false" -> "failed"
      [] status = "thrown" -> "thrown" [] OTHER -> "crashed"

Parsed(r) ==
    /\ config' = r.value
    /\ pc' = After(r.status)
    /\ UNCHANGED <<source, document, index, connections, stream_vector, query_vector>>
    /\ UNCHANGED timeVars

XmlResult == [d \in XmlDocuments |-> ParseDomElement(d)]

PluginInit ==
    /\ source = "xml" /\ pc = "parse"
    /\ Parsed(XmlResult[document])

(* A document that JSONReader rejects is parsed a second time and then     *)
(* used; a root that is not a dictionary is cast to one.                   *)
JsonResult ==
    [d \in JsonDocuments |->
        CASE d.read = "missing" -> Result("false", DefaultConfig)
          [] d.read = "thrown" -> Result("thrown", DefaultConfig)
          [] d.read \in {"rejected", "list"} -> Result("undefined", DefaultConfig)
          [] OTHER -> ParseConfig(d.dict)]

Run ==
    /\ source = "json" /\ pc = "parse"
    /\ Parsed(JsonResult[document])

(* One round of "Create state for published instruments". connections_ and *)
(* query_vector_ are keyed by the path: emplace drops the second resource  *)
(* with the same one, but its streams have been created by then.           *)
Rics(r) == {r.items[sector].RIC : sector \in DOMAIN r.items}
NameMap(r) == [sector \in DOMAIN r.items |->
                 [topic |-> r.items[sector].topic, stream |-> r.items[sector].RIC]]

(* Mutants of AddResource: the second name map replaces the first; the     *)
(* iterator is not advanced.                                               *)
AddResourceReplaces ==
    /\ pc = "streams"
    /\ index <= Len(config.resources)
    /\ LET r == config.resources[index]
       IN  /\ connections' = Emplace(connections, r.path, index)
           /\ stream_vector' = [ric \in DOMAIN stream_vector \cup Rics(r) |->
                                  IF ric \in DOMAIN stream_vector THEN stream_vector[ric] ELSE index]
           /\ query_vector' = [p \in DOMAIN query_vector \cup {r.path} |->
                                 IF p = r.path THEN NameMap(r) ELSE query_vector[p]]
    /\ index' = index + 1
    /\ UNCHANGED <<source, document, pc, config>> /\ UNCHANGED timeVars
AddResourceAgain ==
    /\ pc = "streams"
    /\ index <= Len(config.resources)
    /\ LET r == config.resources[index]
       IN  /\ connections' = Emplace(connections, r.path, index)
           /\ stream_vector' = [ric \in DOMAIN stream_vector \cup Rics(r) |->
                                  IF ric \in DOMAIN stream_vector THEN stream_vector[ric] ELSE index]
           /\ query_vector' = Emplace(query_vector, r.path, NameMap(r))
    /\ UNCHANGED <<source, document, pc, config, index>> /\ UNCHANGED timeVars

AddResource ==
    /\ pc = "streams"
    /\ index <= Len(config.resources)
    /\ LET r == config.resources[index]
       IN  /\ connections' = Emplace(connections, r.path, index)
           /\ stream_vector' = [ric \in DOMAIN stream_vector \cup Rics(r) |->
                                  IF ric \in DOMAIN stream_vector THEN stream_vector[ric] ELSE index]
           /\ query_vector' = Emplace(query_vector, r.path, NameMap(r))
    /\ index' = index + 1
    /\ UNCHANGED <<source, document, pc, config>> /\ UNCHANGED timeVars

(* CreateItemStream fails for one of the RICs without a stream.            *)
CreateItemStreamFails ==
    /\ pc = "streams"
    /\ index <= Len(config.resources)
    /\ LET r == config.resources[index]
       IN  /\ connections' = Emplace(connections, r.path, index)
           /\ \E made \in SUBSET (Rics(r) \ DOMAIN stream_vector) :
                 /\ made # Rics(r) \ DOMAIN stream_vector
                 /\ stream_vector' = [ric \in DOMAIN stream_vector \cup made |->
                                        IF ric \in made THEN index ELSE stream_vector[ric]]
    /\ pc' = "failed"
    /\ UNCHANGED <<source, document, config, index, query_vector>> /\ UNCHANGED timeVars

StreamsDone ==
    /\ pc = "streams"
    /\ index > Len(config.resources)
    /\ Goto("interval")
    /\ UNCHANGED timeVars

-----------------------------------------------------------------------------
(* GetNextInterval. duration_from_string takes an empty text for zero; it  *)
(* and stoi throw for anything else that is no number, which Init catches. *)
OffsetText == config.text.time_offset_constant
IntervalText == config.text.interval
Offset == Atol(OffsetText)
Interval == Number[IntervalText]
TextsConvert == OffsetText \in DOMAIN Number \cup {""} /\ IntervalText \in DOMAIN Number

TimerThrows ==
    /\ pc = "interval"
    /\ ~TextsConvert
    /\ Goto("failed")
    /\ UNCHANGED timeVars

Midnight == (now \div Day) * Day
ReadClock ==
    /\ pc = "interval"
    /\ TextsConvert
    /\ started' = now
    /\ reference' = Midnight + Offset
    /\ Goto("yesterday")
    /\ UNCHANGED <<now, timer, due_time, td, fired>>

(* The loop looks for the reference time of yesterday, but its condition   *)
(* reads nothing that it changes.                                          *)
BeforeFirstInterval == Offset + Interval > started % Day

Yesterday ==
    /\ pc = "yesterday"
    /\ BeforeFirstInterval
    /\ reference > -MaxTime
    /\ reference' = reference - Day
    /\ UNCHANGED startVars /\ UNCHANGED <<now, started, timer, due_time, td, fired>>

(* Round down to a multiple of the interval, then to the next period. C++  *)
(* division truncates towards zero.                                        *)
Abs(a) == IF a >= 0 THEN a ELSE -a
Quot(a, b) == IF (a >= 0) = (b > 0) THEN Abs(a) \div Abs(b) ELSE -(Abs(a) \div Abs(b))

(* Mutant of NextDue: not incremented to the next period.                  *)
EndOfPeriod(ref) == ref + Quot(started - ref, Interval) * Interval

NextDue(ref) == ref + Quot(started - ref, Interval) * Interval + Interval

(* The timer thread is spawned. stoul wraps a negative number around.      *)
CreateTimer ==
    /\ pc = "yesterday"
    /\ ~BeforeFirstInterval
    /\ Interval # 0
    /\ due_time' = NextDue(reference)
    /\ td' = Interval % ULongRange
    /\ timer' = "sleeping"
    /\ Goto("running")
    /\ UNCHANGED <<now, started, reference, fired>>

DivideByZero ==
    /\ pc = "yesterday"
    /\ ~BeforeFirstInterval
    /\ Interval = 0
    /\ Goto("crashed")
    /\ UNCHANGED timeVars

-----------------------------------------------------------------------------
(* time_pump_t::Run. sleep_until returns at once when it is late.          *)
Wake ==
    /\ timer = "sleeping"
    /\ now >= due_time
    /\ timer' = "calling"
    /\ UNCHANGED startVars /\ UNCHANGED <<now, started, reference, due_time, td, fired>>

OnTimerReturns ==
    /\ timer = "calling"
    /\ \/ timer' = "sleeping" /\ due_time' = due_time + td /\ fired' = fired + 1
       \/ timer' = "ended" /\ UNCHANGED <<due_time, fired>>
    /\ UNCHANGED startVars /\ UNCHANGED <<now, started, reference, td>>

Tick ==
    /\ pc \in {"yesterday", "running"}
    /\ now < MaxTime
    /\ now' = now + 1
    /\ UNCHANGED startVars /\ UNCHANGED <<started, reference, timer, due_time, td, fired>>

MainThread ==
    \/ PluginInit \/ Run \/ AddResource \/ CreateItemStreamFails \/ StreamsDone
    \/ TimerThrows \/ ReadClock \/ Yesterday \/ CreateTimer \/ DivideByZero
TimerThread == Wake \/ OnTimerReturns

Next == MainThread \/ TimerThread \/ Tick

(* Neither thread waits for anything but the clock: OnTimer returns, as    *)
(* long as no transfer hangs (QueryEnds of HttpQuery).                     *)
Spec == Init /\ [][Next]_vars /\ WF_vars(MainThread) /\ WF_vars(TimerThread)

-----------------------------------------------------------------------------
(* What an XML tree means: all nodes of a tag in document order, whatever  *)
(* node they are in.                                                       *)
Nodes(parents, tag) == FlattenSeq([i \in DOMAIN parents |-> parents[i][tag]])
LastGiven(texts) ==
    LET given == {i \in DOMAIN texts : texts[i] # ""}
    IN  IF given = {} THEN "" ELSE texts[Max(given)]
Attributes(nodes, k) == [i \in DOMAIN nodes |-> nodes[i].attrs[k]]
Links(psych) == Nodes(Nodes(psych, "resource"), "link")

XmlMeaning ==
    LET rfa == Nodes(document, "Rfa")
        psych == Nodes(document, "psych")
        sessions == Nodes(rfa, "session")
    IN  /\ \A k \in PsychKeys : config.text[k] = LastGiven(Attributes(psych, k))
        /\ config.text.maximum_data_size = LastGiven(Attributes(rfa, "maximum_data_size"))
        /\ config.text.service_name = LastGiven(Nodes(rfa, "service"))
        /\ Len(config.sessions) = Len(sessions)
        /\ \A i \in DOMAIN sessions :
              config.sessions[i].rssl_servers = Nodes(sessions[i].connection, "server")
        /\ Len(config.resources) = Len(Links(psych))
        /\ psych # <<>> => Links(Front(psych)) = <<>>
        /\ \A i \in DOMAIN config.resources : config.resources[i].path = Links(psych)[i].href

(* A field id that stoi throws for; one that is missing is refused.        *)
OddFieldId ==
    \E c \in Range(document) : \E p \in Range(c.psych) : \E r \in Range(p.resource) :
        \E f \in Range(r.field) : f.id \notin DOMAIN Number \cup {""}

(* What a JSON document must look like for its types to be right, and what *)
(* it then means. A field whose id is no integer has the id of the last    *)
(* one before it that is, or else the entitlement code.                    *)
ListOfDicts(part) == part[1] = "list" /\ \A i \in DOMAIN part[2] : part[2][i][1] = "dict"
WellTyped ==
    /\ document.read = "dict"
    /\ LET d == document.dict
       IN  d.sessions[1] # "absent" /\ d.resources[1] # "absent" =>
             /\ ListOfDicts(d.sessions) /\ ListOfDicts(d.resources)
             /\ \A i \in DOMAIN d.sessions[2] : d.sessions[2][i][2].rssl_servers[1] = "list"
             /\ \A i \in DOMAIN d.resources[2] :
                   LET r == d.resources[2][i][2]
                   IN  /\ r.fields[1] = "dict" /\ r.items[1] = "dict"
                       /\ \A j \in DOMAIN r.items[2] : r.items[2][j].value[1] = "dict"

LastInteger(code, fields, j) ==
    LET integers == {i \in 1..j : fields[i].id # NotInteger}
    IN  IF integers = {} THEN code ELSE fields[Max(integers)].id

JsonMeaning ==
    LET d == document.dict
    IN  /\ Len(config.sessions) = Len(d.sessions[2])
        /\ Len(config.resources) = Len(d.resources[2])
        /\ \A i \in DOMAIN config.resources :
              LET from == d.resources[2][i][2]
                  to == config.resources[i]
              IN  /\ Cardinality(DOMAIN to.items) = Len(from.items[2])
                  /\ \A j \in DOMAIN from.fields[2] :
                        to.fields[from.fields[2][j].name] =
                            LastInteger(from.entitlement_code, from.fields[2], j)

InUse == {"streams", "interval", "yesterday", "running"}

(* The document decides. Undefined behaviour comes of a JSON document with *)
(* a type that is wrong or of an interval of zero (psych.cc:761), never of *)
(* another XML tree; init is left by an exception for a field id that is   *)
(* no number, though "invalid content" is to return false (config.cc:17),  *)
(* and for nothing else in a tree; Run is if the JSON reader throws. What  *)
(* is put to use has the right types and means what the document says,     *)
(* node by node: the last setting given, all sessions with all their       *)
(* servers, the fields under their own ids or that of the field before     *)
(* (config.cc:991). Because a second <psych> node clears the resources of  *)
(* the first (config.cc:640), which Validate then refuses, an accepted     *)
(* tree has resources in its last one only.                                *)
DocumentDecides ==
    /\ pc = "crashed" =>
          \/ source = "json" /\ ~WellTyped
          \/ config.text.interval = "0"
    /\ pc = "thrown" => IF source = "xml" THEN OddFieldId ELSE document.read = "thrown"
    /\ pc \in InUse => IF source = "xml" THEN XmlMeaning ELSE WellTyped /\ JsonMeaning

(* Every path is polled once, for the first resource that has it, and what *)
(* it returns is published under the items of that same resource; every    *)
(* RIC has one stream, which refers to the first resource that names it;   *)
(* a stream that no query refers to belongs to resources whose path        *)
(* another one had before (psych.cc:395-433, config.hh:100-105).           *)
StreamsConfigured ==
    pc \in {"interval", "yesterday", "running"} =>
        LET rs == config.resources
            Paths == {rs[i].path : i \in DOMAIN rs}
            Having(p) == {i \in DOMAIN rs : rs[i].path = p}
            Naming(ric) == {i \in DOMAIN rs : ric \in Rics(rs[i])}
            Served(ric) == \E p \in Paths : \E s \in DOMAIN query_vector[p] :
                              query_vector[p][s].stream = ric
        IN  /\ DOMAIN connections = Paths /\ DOMAIN query_vector = Paths
            /\ \A p \in Paths :
                  /\ connections[p] = Min(Having(p))
                  /\ query_vector[p] = NameMap(rs[connections[p]])
            /\ DOMAIN stream_vector = UNION {Rics(rs[i]) : i \in DOMAIN rs}
            /\ \A ric \in DOMAIN stream_vector :
                  /\ stream_vector[ric] = Min(Naming(ric))
                  /\ ~Served(ric) => \A i \in Naming(ric) : i # Min(Having(rs[i].path))

(* The schedule: OnTimer is called for every multiple of the interval, as  *)
(* counted from the offset on the day the timer was set up, that lies      *)
(* after the start, never before it is due and never twice, however long   *)
(* calls take; the first lies within one interval. A negative interval     *)
(* passes both conversions and is not a schedule (psych.cc:739-768,        *)
(* psych.hh:176-188).                                                      *)
DueOnGrid ==
    timer # "none" /\ Interval > 0 =>
        LET first == due_time - fired * Interval
            grid == (started \div Day) * Day + Offset
        IN  /\ first \in started + 1..started + Interval
            /\ (first - grid) % Interval = 0
            /\ fired > 0 => due_time - Interval <= now
            /\ timer \in {"calling", "ended"} => due_time <= now

Ended == pc \in {"running", "failed", "thrown", "crashed"}

(* Starting comes to an end unless the clock is read before the first      *)
(* interval after the offset is over: then the loop at psych.cc:755 never  *)
(* ends. Once running, the timer catches up with every due time the clock  *)
(* has reached.                                                            *)
StartupEnds ==
    /\ <>(Ended \/ (pc = "yesterday" /\ Offset + Interval > started % Day))
    /\ \A d \in 0..MaxTime :
          (timer = "sleeping" /\ due_time = d /\ now >= d) ~> (timer = "ended" \/ due_time > d)
=============================================================================
