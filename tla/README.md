# A verification of the psych feed handler

psych polls MarketPsych sentiment tables over HTTP and republishes them as
records on Reuters RFA sessions. It builds as a console application
(`CONFIG_PSYCH_AS_APPLICATION`, the default of `CMakeLists.txt`) or as a plug-in
of the Velocity Analytics Engine. This directory holds TLA+ models of its core,
the TLC runs that check them, and TLAPS proofs. Paths below are relative to
`src/src/`.

## 1. The system

| component | state | operations | talks to |
|---|---|---|---|
| `psych_t` life cycle (`psych.cc`, `main.cc`, `plugin.cc`) | the members `Init` builds, global list of instances, libcurl reference count | constructor, `Run`/`init`, `Init`, `MainLoop`, `Clear`, `Destroy`, destructor | everything below |
| `provider_t`, `session_t` (`provider.cc`, `session.cc`) | sessions, lowest RWF version, directory of item streams, per session: mute flag, tokens, login state | `Init`, `CreateItemStream`, `processEvent` and its login handlers, `Send`/`Submit` | RFA (external), the query |
| HTTP query (`psych.cc`: `OnTimer`, `httpPsychQuery`) | `query_mutex_`, `connections_` with their handles and `last_filetime`, the libcurl multi handle, pending queue, retries | prepare, perform, drain, retry, end | HTTP server and libcurl (external), `provider_t::Send` |
| response parser, refresh (`OnHttpResponse`, `SendRefresh`) | none of their own | parse a table, publish its rows | query, provider |
| Tcl commands (`tcl.cc`) | a copy of `connections_` | `psych_republish`, `psych_hard_republish` | query |
| schedule (`GetNextInterval`, `time_pump_t`) | due time | first due time, next due time | `OnTimer` |
| event pump, control handler (`psych.cc`, `psych.hh`) | global weak pointer to the event queue | dispatch, deactivate | RFA queue, `Clear` |
| SNMP agent (`snmp_agent.cc`) | reference count, thread, pump | `Run`, `Clear` | Net-SNMP (external) |
| MIB tables (`psychMIB.cc`) | the iterator context of a walk | first, next, free, handler | global list, provider |
| configuration (`config.cc`) | `config_t` | parse XML (plug-in) or JSON (application), validate | all |
| JSON reader (`chromium/json/json_reader.cc`, `chromium/string_number_conversions.cc`) | position, depth, error code of a parse | `JsonToValue` | configuration, value trees |
| value trees (`chromium/values.cc`) | nodes linked by owning raw pointers | set, get, remove, merge, copy, swap | JSON reader, configuration |
| RFA context, logging (`rfa.cc`, `rfa_logging.cc`) | RFA configuration database | `Init`, `VerifyVersion`, log events | RFA |
| rest of `chromium/`, `microsoft/` | | vendored helpers | |

Threads: the main thread (application) or the engine's (plug-in); the RFA event
thread; the timer thread; Tcl threads (plug-in); the SNMP thread; one thread per
console event. The gate (`is_muted_`, tokens) and the global list are shared
without an effective lock; queries exclude each other with `try_lock`.

What is hard, and what correctness means:

* **Provider.** Logins come and go on one thread while another fans messages
  out. No session may publish without permission, directory or token; no two
  records may share a token; a message must reach every session that is open.
* **HTTP query.** Transfers end in any order, or badly; rounds are repeated;
  two things outlive a query (the multi handle and the modification times). A
  table must be published once, wholly, and no update may be lost for good.
* **Life cycle.** `Init` may fail anywhere; `Clear` must end the threads before
  it frees what they use, twice in a row if need be; SNMP walks and console
  events go on meanwhile.
* **Configuration and start.** Two parsers for one structure, one of them on
  unchecked casts; nodes that repeat; maps keyed by what need not be unique. What
  is accepted must mean what the document says, every resource must be polled
  and published under its own items, and the first due time must lie ahead, on
  the grid of the schedule.
* **JSON reader and value trees.** A recursive descent with error paths out of
  every level; numbers at the limits of their type; ownership by raw pointers
  handed back and forth. Exactly the documents of the grammar must be read, and
  no sequence of calls may delete a node twice, lose it or share it.

Each hazard is listed in `PROJECT.json` at its line, with the properties that
would catch it.

Two facts about the source that the models take into account: `CHECK` and
`LOG(FATAL)` of the vendored Chromium copy log but do not abort; and
`boost::unique_lock<boost::shared_mutex> (global_list_lock_);` declares a
variable and locks nothing. At this commit the application compiles only with
NDEBUG (the default, a Release build): the assertion at `provider.cc:122` reads
`item_stream-<token`. The plug-in calls `event_pump->Run` (`psych.cc:463`), which
does not compile; the models take the evident reading of both.

## 2. Modules

| module | models |
|---|---|
| `Provider` | `provider_t` and `session_t`: the main thread initialising, the event thread, the publisher |
| `HttpQuery` | timer, Tcl commands, `httpPsychQuery`, `OnHttpResponse`, `SendRefresh` |
| `Polling` | abstract: what a query promises; `HttpQuery` implements it |
| `Refresh` | composes `Provider` with the table of a response: rows, columns, one `Send` per row |
| `Lifecycle` | instances, `Init`/`Clear`, the control handler, SNMP agent and MIB walks |
| `Config` | the two parsers of `config_t` and `Validate`, as operators |
| `Startup` | `Init`, from document to streams; `GetNextInterval`; `time_pump_t` |
| `JsonNumbers` | number tokens and the number conversions, with the definition by place value they are compared with |
| `JsonReader` | `JSONReader`; extends `JsonNumbers` |
| `JsonLanguage` | reference: the grammar the reader is compared with |
| `Values` | `DictionaryValue` and `ListValue` on a heap |
| `ValueTrees` | abstract: independent trees; `Values` implements them |
| `MCProvider`, `MCRefresh`, `MCHttpQuery`, `MCLifecycle`, `MCStartup`, `MCJsonReader`, `MCValues` | constants for TLC |
| `ProviderProofs`, `RefreshProofs`, `HttpQueryProofs`, `LifecycleProofs`, `StartupProofs`, `JsonReaderProofs` | theorems |
| `Induction` | lemmas: induction over numbers, folds, recursive functions |
| `Loops` | lemmas: a loop with an early return keeps what its rounds keep |

### Provider

Variables carry the names of the members (`is_muted`, `token`, `directory_`,
`min_rwf`); a token is a number, the n-th a session generates, 0 is null. `main_pc` steps through
`Init`; `evt_*` is the event thread inside `OnLoginSuccess`, whose three steps
(directory, one token after another, unmute) interleave with the publisher
`pub_*`: read the token, test the mute flag, submit, per session. RFA calls may
return null or throw wherever the code handles it. The variables `late`,
`pub_sent`, `pub_open`, `pub_shut` and `directory_sent` are observers.

### HttpQuery

One holder of `query_mutex` runs a query; `pc` says where in a round it is.
`multi`, `running` and `done` are libcurl's view: handles added, transfers under
way, results not yet read. A response is a record of what `OnHttpResponse` tells
apart: code, how far the body gets through the checks, whether there is a
`Last-Modified`, and its distance from the clock (the panic threshold). The
timer works on `connections_` ("own"), a Tcl command on its copy ("dup"); the
server answers 304 to the former if it has nothing newer. `crash` records
undefined behaviour the code can run into. `retry_timeout_ms` is a free choice
(`EndQuery` is possible whenever `Retry` is). A transfer (`Transfer`) is a step of
libcurl and the server, not of the query: the loop at `psych.cc:989` waits for it,
and as `CURLOPT_TIMEOUT_MS` is set only if `timeout_ms` is configured
(`psych.cc:885-892`, no default), nothing in the code ends one that hangs.
Observers: `refreshed`, `sent_now`, `spoiled`.

`Polling` knows only who polls, what is left to serve, what was served and in
which version. `Promise` maps it: the holder is the lock holder, `todo` is the
pending queue, `sent` is what the
query refreshed, `shown` the version published last, and `broken` holds once an
exception has ended the timer thread or the process ran into undefined
behaviour. Every other step of a query (transfers, retries, erroneous answers)
is a stutter.

### Refresh

Extends `Provider` and makes its publisher the thread that drains the results of
a query: `Respond` is a result that `OnHttpResponse` could make a table of (the
module defines that table line by line), then each row of `SendRefresh` is
skipped, if its sector has no stream, or sent through `Provider`'s own actions
`Send`, `ReadToken`, `CheckMuted`, `Submit`, `SendReturns`. An exception of
`Submit` ends the table, and the request counts as served all the same. The
other threads of `Provider` go on meanwhile (`Others`). A cell is a numeral,
"nan", or any other text, which leaves a value of its own ("unset"). A resource
whose configuration names the first column as a field reads before the start of
the row's values: garbage goes out, or the process dies (`FirstColumnMapped`).
Which resource is answered, and when, is a free choice here: `HttpQuery` says
what it may be. `message` is what goes out; `received`, `response` and `since`
(the rows begun before a session was last unmuted) are observers.

### Lifecycle

`held[i]` is the set of things instance `i` has built and not freed; `InitOrder`
and `ClearOrder` are the orders of the code. The owning thread is `pc`, `cur`,
`step`: between calls, in a stage of `Init`, in `MainLoop`, or in a stage of
`Clear`. The SNMP thread walks a table row by row with the iterators of
`snmp_context_t` and then runs the handler on the pointers it kept; each call of
`CtrlHandler` takes its four steps. Of libcurl there is the reference count, the
initialisation and the multi handle; the easy handles are `HttpQuery`'s. The plug-in build may have several
instances, the application has one. `SnmpSignal` is the send before the join of
`snmp_agent_t::Clear`; the join is the guard of `SnmpClear`.

### Config and Startup

`Config` has one operator per parser function, with its name. A result carries
the configuration and how the function ended: `ok`, `false`, `thrown` (`stoi`),
or `undefined` (a null or wrongly cast pointer, as `CHECK` does not abort). Of
the `psych` attributes, three stand for the rest, which are read alike.
`Startup` takes a document through the parser, runs the loop of `Init` that
fills `connections_`, `stream_vector_` and `query_vector_`, follows
`GetNextInterval` statement by statement (`ReadClock`, `Yesterday`,
`CreateTimer`), then `time_pump_t::Run`. `fired` is an observer.

Things about this code that the models rest on. `psych.cc:311` calls
`parseDomElement`; `config.cc` defines `ParseDomElement`; the model takes them for
one. The application parses its text twice: the first result is only compared
with null (and leaked), the second is used untested. A blank string in JSON replaces a default,
a blank attribute in XML does not, and the file of the SNMP log is read from XML
only. `ParseConfig` shares one pointer among its lists, and `ParseResource` one
between fields and items: what is no list, or missing, is taken for the one before
(`ParseResources`, `ParseItems`). A field id that is no number throws out of `init`
(`std::stoi`, `config.cc:793`), where `config.cc:17-20` has invalid content return
false; one that is no integer in JSON gets the id of the field before it. A negative interval is accepted; `stoul`
wraps it around. A process started before the offset plus one interval of the
day loops at `psych.cc:755` for ever; `StartupEnds` excepts just that case.

### JsonNumbers, JsonReader and JsonLanguage

The document arrives lexeme by lexeme, so that every document up to a length is
tried and the reader never sees more than it has asked for. The recursion of
`BuildValue` is the stack of containers under construction; `stack_depth` is a
variable of its own, as the code counts separately. A string is what
`ParseStringToken` and `DecodeString` tell apart: plain, with an escape, with a
`\u` escape, which the first accepts and the second does not decode. A number is a sequence of
characters: `JsonNumbers` follows `ReadInt`, `ParseNumberToken` and
`IteratorRangeToNumber` (`BaseInvoke`) character by character, and defines independently what
JSON calls a number (`JsonNumber`) and what it amounts to, by place value
(`Amount`). `ErrorsTellWhy` says what each error code claims of the document;
`JsonLanguage` defines which lexeme sequences are documents and what value each
has; every string the tokeniser accepts is one of them. The reader departs from
it in two ways, which `ReadsTheLanguage` names and delimits: a document is given up
at a string with a `\u` escape, and left by an exception at a number that no double
can hold, for which `json_reader.hh:179-181` promises NULL (`std::stod` throws,
`string_number_conversions.cc:389`).

### Values and ValueTrees

`heap` is the set of live nodes, so that reading a deleted one is an error of the
model; `held` are the roots the caller owns. Keys may be paths ("a.a"). The
caller keeps to the contract of `values.hh`: it hands over roots it owns, none
that contains the target; it does not swap nested containers. One assumption about
callers is the model's own: a dictionary is merged with itself or with one of another
tree. `values.hh:296-300` asks for nothing of the kind, but the loop of
`values.cc:633-651` may delete the dictionary it is reading if that is inside its
target. Nothing in this repository calls `MergeDictionary`. `ValueTrees` has the same calls on
values without pointers; the mapping reads the value under each held root.

## 3. Runs

| run | instance | result |
|---|---|---|
| `provider_publish` | 2 sessions, 2 streams, 2 RWF versions, 3 events | ten safety and action properties hold |
| `refresh` | 1 session, 2 streams, 4 events, 2 resources, 5 responses, directory always valid | rows delivered as the response says; directory before data; every call returns |
| `provider_no_directory` | 1 session, directory may be rejected | **violated**: data without a directory |
| `provider_null_token` | 1 session | **violated**: a null token is submitted |
| `http_query` | 1 resource with 2 versions, timer and Tcl, 2 retries, 304, panic threshold | five invariants hold; queries end; updates arrive; `Polling` is implemented |
| `http_oversize` | 1 resource | **violated**: a table broken off is published |
| `lifecycle` | 2 instances of 1 and 2 sessions, both builds, 2 console events | five invariants hold; a console event ends the application |
| `lifecycle_assert` | 1 instance, 1 console event | **violated**: the assertion on the queue's use count |
| `startup` | complete documents of both kinds and every one or two edits of them, any time of day | accepted means what it says; resources, streams, schedule; starting ends |
| `json_reader` | all documents of up to 9 lexemes, nesting limit 3, integers to 15; all spellings of a number of up to 4 characters | accepts the grammar, right values, errors that explain, numbers to their limits |
| `json_string` | all documents of up to 5 lexemes | **violated**: a string that was accepted is not decoded |
| `values` | 4 live nodes and one a call may need in between, keys "a" and "a.a" | one owner each; independent trees are implemented |

Why the bounds are enough. *Sessions and streams*: interference between two
sessions, and between two streams of one, needs two; the RWF versions differ in
both components in opposite directions. *Events*: three are a login, a fall and
another login of one session, or logins of two and a fall of one; the proofs
need no bound. *Resources*: TLC follows one, through two retries and two file
versions, as its handles alone can be stale in two ways (of the other map, of a
dead query) and its liveness is its own; what two do to each other (transfers that
end in either order, erasing from a queue of several) is in the proofs, which
cover every safety property of this run for any number. *Tables*: one
session in `refresh`, as what a session gets of a table depends on no other
session (that fan-out reaches all of them is checked with two in
`provider_publish`, and proved); four events are a login, a fall and another login between the rows,
and one more; the responses have an unstamped and a one-column header, no rows,
mapped, unmapped, short and commented rows, and the resources have a column that
is no field, one that is a field of both, and one with the first column as a
field. *Two retries* give
a first, a repeated and a last round; the backoff constants are small so that the limit
is reached in the first. *Two file versions*: one recorded, one newer. *Offsets* 0 and 5
lie on both sides of the panic threshold 3. A threshold of 0, which by `config.hh:220`
disables the check, is not run: by `psych.cc:1225` every stamped response then panics,
and none is ever published. *Two
instances*, of one and two sessions in either order, are where the session walk
goes wrong; a second console event is where the control handler does.
*Documents*: an edit leaves out, blanks, repeats or mistypes one part; pairs
cover repeated nodes around each of them. A day of 7 seconds is no multiple of
the intervals 2 and 3, so that the grid differs from day to day; `MaxTime` 12
goes past midnight and leaves several due times to catch up with. *Lexemes*: nine
hold a container in a container in a third, one too many for the limit with
their ends, and a member twice in one dictionary; documents hold one number of
each kind, and all spellings of up to four characters (sign, digits, fraction or
exponent) are tried by themselves; `MaxInt` 15 puts both bounds of an integer,
and their last digits, within two characters. *Nodes*: four are a tree of depth
three beside another root, a list that is padded, or two trees of two to swap, or
to merge with a member of one name in both. For that merge there is a fifth address
(`MaxAddress`), as the copy is made before the old member is deleted; between calls
four nodes are live. Indices go to 2, past the end of every list that can grow.
Symmetry is used in safety runs only.

The five violations are differences between the code and what the repository
says of it; `PROJECT.json` quotes both sides. `SoloSafe`, `CurlReady` and
`WalkMisses` name in their statement the cases in which the code does not keep
what it keeps otherwise: a second instance in a process, a walk during the
destructor after a late failure of `Init`, a second console event during
shutdown, the first session of a later instance. `EraseDefined` and
`UpdateArrives` do so for a timer thread ended by an exception and for a
response whose modification time was recorded although its table was not
published, `QueryEnds` for a transfer that never ends, `DocumentDecides` for field
ids that are no numbers and for wrong types in JSON, `ReadsTheLanguage` for the two
departures described above.

Where code and comments disagree without a run of their own: overflow of a double
(`json_reader.hh:179-181`) and field ids (`config.cc:17-20`), which the properties
just named delimit, and the panic threshold 0 (`config.hh:220`).

### Fairness

* `Provider`: each thread continues the call it is in (weak fairness of the main
  thread, the login handler, `Send`). Nothing obliges RFA to deliver events.
* `Refresh`: likewise; its publisher also goes on from row to row. Nothing
  obliges the server to answer.
* `HttpQuery`: the lock holder continues and the timer is due again and again
  (`time_pump_t::Run` loops). That is all `QueryEnds` has: a query ends, unless from
  some point on a transfer is under way for ever. `UpdateArrives` states in
  its premise (`Responsive`) what it needs of the environment: every transfer ends,
  as with `timeout_ms` configured or a server that never falls silent; memory for
  handles is there some time (strong fairness); a server asked again and again
  answers well some time (strong fairness). `try_lock` needs no fairness, as Tcl
  commands are finitely many in a behaviour.
* `Startup`: the main thread and the timer thread continue; the clock need not
  advance. `OnTimer` returns, which by `QueryEnds` it does unless a transfer hangs.
* `Lifecycle`: threads continue what they are in; in the application `main`
  makes the next call. Joins return when the thread can end, and the
  first due time is found. The join of the timer thread (`psych.cc:634-638`) waits
  for its query: it is assumed that no transfer hangs, as the code ensures only with
  `timeout_ms` configured.

Deadlock is checked in every run but `startup`, where the process stops when
the configuration is refused, an exception passes `main`, or the timer thread
has ended; `Stopped` and `Finished` mark the states in which the others are over.

## 4. Proofs

TLAPS checks the theorems for all values of the constants, under the assumptions
named beside the CONSTANTS; TLC evaluates each of them on its instances. They
say: at least one session, stream and resource; RWF versions other than 0.0;
backoff default no larger than its maximum; `"timer"` and `"none"` no names of Tcl
threads; at least one session per instance; the lines of a response and the
spellings of a number are sequences (`ResponsesAssumption`,
`SpellingsAssumption`); a document has the shape of its source, a tree of nodes
with attributes or a dictionary whose members are given once
(`DocumentsAssumption`: a typed getter finds only values of its type; where the
code expects a list or a dictionary without testing, anything may stand); an `unsigned long` holds the
clock and every interval (`ClockAssumption`); an `int` holds at least 10; the
nesting limit is not 0; names of plain strings are no other lexemes
(`PlainAssumption`). No bound of a run is among them but where the model itself
counts (`MaxEvents`, `MaxCtrl`, ...), and those are any numbers.

* `ProviderProofs`. `TypeCorrect`; then `Inductive`, a conjunction of the gate
  properties with what they need: nothing runs before every stream exists
  (`Phases`), tokens already reset in a login are not null (`HandlerInv`), the
  observers agree with the mute flags (`WatchInv`), a submit under way on a
  muted session is its first since (`LateInv`), and the sessions the loop has
  passed have the message if they were open (`SendInv`). From it: `GateSafe`,
  `MutedSafe`, `TokensSafe`, `PublisherSafe`, `NullTokenSafe`, `LateSafe`.
  `FreshTokens` needs more: while `OnLoginSuccess` resets tokens, a stream it has
  passed is fewer tokens behind than streams it has passed (`FreshInv`), so that
  at the end the tokens are those this login generated. `MinRwfSafe` and
  `DirectoryReadableByAll` rest on an invariant of the initialisation loop;
  `DirectoryFirst` assumes that RFA does not reject the directory.
* `HttpQueryProofs`. `TypeCorrect`; `Inductive` says that while the timer thread
  lives, every handle and every result in libcurl belongs to a pending
  connection of the query that holds the lock (`Carousel`). The exception is
  what `PrepareThrows` leaves behind. From it: `EraseSafe`, `PublishedOnce`,
  `BackoffSafe`, `HandlesSafe`. `Versions` adds what the server and the recorded
  times have to do with each other: nothing is published or recorded before the
  server has it, and while no response was spoiled, what the timer's own
  connections recorded was published. From it: `RecordedSafe`.
  `PollingImplemented` is the refinement: the initial states map to those of
  `Polling`, and under both invariants every step maps to a step of it or a
  stutter, for any number of resources, versions, threads and retries.
* `RefreshProofs`. `RefreshImplementsProvider`: every step of the composition is a
  step of `Provider` or a stutter, so the step lemmas of `ProviderProofs` apply:
  `RefreshGateSafe`, `RefreshDirectoryFirst`. `RefreshDelivers` proves two parts
  of `TableFaithful`, order and completeness. Its invariant (`DeliveryInv`) says
  that a `Send` is under way just while a row is being sent and has submitted
  only to sessions its loop has passed, that what a session has are rows behind
  the loop, and that an open session has every mapped row begun after it was
  unmuted and has been open throughout the current `Send`; `SendInv` of
  `Provider` then gives it that row too. `RefreshFaithful` is the whole of
  `TableFaithful`: `TableInv` says that the table is what `OnHttpResponse` makes of
  the response and that every message received, and the one being sent, carries
  its row (`Carries`); what the row loop and the field loop make of the text is
  then followed element by element, each fold being a sequence of steps
  (`Induction`).
* `LifecycleProofs`. `TimerSafe`: `TimerAlive` for any number of instances. It needs
  that `Init` builds in its order, so that a timer thread exists only when
  everything before it was made (`Built`), and that an instance in `Clear` has
  no timer thread after the first stage (`Joined`). `TypeCorrect` says besides the
  types how the state hangs together: the global list holds each instance once, from
  constructor to destructor (`ListInv`); at least as many references to the agent are
  counted as instances hold one (`RefInv`); a walk knows only instances that were
  constructed (`WalkType`). The count of libcurl has no lower bound: `Clear` gives back
  a reference each time it runs, and -1 is reached.
  `CurlSafe` and `AloneSafe` are about one instance in a
  process, the case the statements make: with it, the first reference to libcurl
  is the one that initialises it and the one that cleans it up is given back after the
  multi handle (`CurlInv`; nothing is said of easy handles), the SNMP thread runs only while its agent is held
  (`SnmpInv`), and `MainLoop` is left only after a console event has deactivated
  its queue (`CtrlInv`).
  `WalksReturnAll` is `WalkMisses` for lists of any length whose members
  come and go while a walk is under way. Its invariant (`WalkInv`) is about the
  part behind the iterators: rows returned precede the current one in the order
  of the list, and whatever precedes it and was there from the beginning was
  returned; constructors append, so that the order of those that stay never
  changes (`OrderStep`).
* `StartupProofs`. `ScheduleKept`: outside the loop that may never end, the
  reference time is the offset on the day the clock was read (`ClockInv`), the
  first due time is the first multiple of the interval after it (by the
  arithmetic of a truncating division), and every later one is a whole number of
  intervals away (`GridInv`). `StreamsSafe`: after each round of the loop the maps
  are right for the resources so far (`VectorsInv`).
  `DocumentObeyed` is `DocumentDecides`, for trees and dictionaries of any size.
  The two parsers are some twenty loops, one inside the other, each with an early
  return. Each is an instance of `Loops` with a statement of what holds after i
  nodes (its `...Holds`), and they are put together from the leaves upwards: what
  servers make of a session, sessions of an `<Rfa>` node, links of a resource. For
  the top of the tree this is `TreeMeans`: sessions and texts are those of all
  `<Rfa>` nodes in order, and resources those of all `<psych>` nodes, of which
  those of every node but the last have lost their fields and items, since
  `ParsePsychNode` clears the lists of the resources it has and not the list of
  resources (`Spent`). `Validate` refuses a resource without fields, hence an
  accepted tree has resources in its last `<psych>` node only, and
  `TreeMeans` becomes the comparison with the document (`XmlMeant`). In a
  dictionary each loop also tells why it ended early: an entry of the wrong type
  (`...EntryFailed`), so that types that are right exclude undefined behaviour
  (`JsonMeant`). An exception comes from the innermost loop of the tree, over the
  fields, and is passed out loop by loop with what caused it (`OddFields` up to
  `OddTree`); ids that are no integers in a dictionary get the last integer before
  them (`LastIntegerNext`). `DocumentInv` carries this through the rest of the start;
  the only other way to crash is to divide by the interval, and only the text
  "0" converts to zero (`ZeroText`).
  Texts are members of a constant `Text` (in the run: all strings), as the
  proofs use nothing of a text but that "" is one.
* `JsonReaderProofs`. `DepthBounded`: as long as the reader is reading, the counter
  is the number of `BuildValue`s in progress (`StackInv`). `ErrorsExplained`: the
  reader looks one lexeme ahead, what it has passed over before a root or since a
  comma is gaps, each container on the stack was opened by a mark of the document
  (`Reading`); each error path then finds the culprit at the end of the document.
  `NumbersRead`: the comparisons with `max / 10` and `min / 10` are exact
  (`BoundsFit`), the loop computes the amount digit by digit (`Horner`), which is
  the sum by place value (`MagnitudeIsHorner`), and the tokeniser stops where the
  grammar of numbers does (`TokenIsNumber`, `NumberIsToken`).
* `Induction`. Induction is stated with sets in place of predicates: a set of
  numbers that holds the first and with each the next holds all (`UpTo`). From it:
  the functions by which folds and recursive functions are defined exist
  (`IterationExists`, `RecursionExists`), and a fold over n elements takes n steps.

`Inductive` of `HttpQuery` is an invariant of its run too: it is where a query serves
a resource at most once (`Carousel`) and the backoff keeps its limit.

Model-checked only:

* Liveness (`ThreadsReturn`, `QueryEnds`, `UpdateArrives`, `CtrlEnds`,
  `StartupEnds`): fairness and ENABLED are out of the prover's reach.
* `ReadsTheLanguage`, whose grammar is generated by nested set recursion and whose
  meaning of a value is a RECURSIVE operator.
* `Values` (`TypeOK`, `OneOwner`, `RefinesTrees`): copy, merge and delete are
  RECURSIVE over trees.

## 5. Not modelled

* Text: the syntax of XML and of the header of a table, field encoding, the constant
  fields of a message, mantissas, DACS
  locks, log messages, printing a configuration. Pure functions of their input
  without protocol. Of the JSON reader: characters of strings, error positions
  and messages.
* How long `Sleep` takes: the backoff is bounded, and uninterruptible in the
  model as in the code.
* Performance counters, which nothing else reads.
* The easy handles a timer query leaves in `connections_` when an exception ends it:
  `~psych_t` releases them with its members, after `curl_multi_cleanup` and
  `curl_global_cleanup`. `CurlReady` and `CurlSafe` are about the multi handle.
* What follows a null session (`provider.cc:64`): the model ends there.
* The command line, and logging; the columns of the MIB tables.
* RFA, libcurl, Net-SNMP, the Analytics Engine and Windows are external: they
  appear through the results their calls may have.

## 6. Plan

1. Done: `Provider`, `HttpQuery`, `Lifecycle`, with proofs; `Polling` and the
   refinement, proved; `Config`, `Startup`, `JsonReader`, `Values`; `Refresh`, the
   composition of the table of a response with the gate of `Provider`, with proofs.
2. Done: proofs of every safety property of `Provider`, `HttpQuery`, `Refresh`,
   `Lifecycle` and `Startup`, and of all of `JsonReader` but the comparison with
   the grammar.
3. Proofs left: ownership in `Values` (`OneOwner`), with its recursions written as
   recursive functions.
