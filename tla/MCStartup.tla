------------------------------ MODULE MCStartup ------------------------------
(* One complete document of each kind, and every document that is one or   *)
(* two edits away from it.                                                 *)
EXTENDS Startup

MCText == STRING

Attrs(interval, offset, size) ==
    [interval |-> interval, time_offset_constant |-> offset, maximum_response_size |-> size]
NoAttrs == Attrs("", "", "")

Link(href) == [rel |-> "resource", name |-> "news", href |-> href]
Field(id) == [name |-> "sentiment", id |-> id]
Item(src, ric) == [name |-> ric, topic |-> "t", src |-> src]
Resource(name, fields, items, links) ==
    [name |-> name, field |-> fields, item |-> items, link |-> links]
Equities == Resource("equities", <<Field("1")>>, <<Item("s1", "A"), Item("s2", "B")>>, <<Link("p1")>>)
Currencies == Resource("currencies", <<Field("2")>>, <<Item("s1", "B"), Item("s2", "C")>>, <<Link("p2")>>)

Login == [application_id |-> "256", instance_id |-> "1", user_name |-> "user1", position |-> ""]
Connection(servers) == [name |-> "c", defaultPort |-> "", server |-> servers]
Session == [name |-> "s", publisher |-> <<"p">>, connection |-> <<Connection(<<"adh1">>)>>,
            login |-> <<Login>>]

Base ==
    [Snmp |-> <<>>,
     Rfa |-> <<[attrs |-> [key |-> "k", maximum_data_size |-> "4"],
                service |-> <<"v">>, DACS |-> <<"1">>, session |-> <<Session>>,
                monitor |-> <<"m">>, eventQueue |-> <<"q">>, vendor |-> <<"n">>]>>,
     psych |-> <<[attrs |-> Attrs("2", "", "4"), resource |-> <<Equities, Currencies>>]>>]

Psych(attrs, resources) == [attrs |-> attrs, resource |-> resources]

XmlEdits == {"none", "snmp", "agent", "no rfa", "second rfa", "no service", "blank service",
    "second session", "blank session", "no login", "second login", "no server", "blank server",
    "second connection", "blank connection", "no publisher", "blank monitor", "second vendor",
    "no size", "zero size", "second psych", "psych first", "psych settings",
    "blank resource", "second link", "blank link", "same path", "junk field", "blank field",
    "second field", "blank item", "no items", "same sector", "no link", "no psych"}

Edited(e, c) ==
    LET rfa == c.Rfa[1] IN
    CASE e = "snmp" -> [c EXCEPT !.Snmp = <<[filelog |-> "f", agentX |-> <<>>]>>]
      [] e = "agent" -> [c EXCEPT !.Snmp =
            <<[filelog |-> "", agentX |-> <<[subagent |-> "no", socket |-> "x"]>>]>>]
      [] e = "no rfa" -> [c EXCEPT !.Rfa = Tail(@)]
      [] e = "second rfa" -> [c EXCEPT !.Rfa = Append(@, [rfa EXCEPT !.attrs.maximum_data_size = "3"])]
      [] e = "no service" -> [c EXCEPT !.Rfa[1].service = <<>>]
      [] e = "blank service" -> [c EXCEPT !.Rfa[1].service = Append(@, "")]
      [] e = "second session" -> [c EXCEPT !.Rfa[1].session = Append(@, Session)]
      [] e = "blank session" -> [c EXCEPT !.Rfa[1].session[1].name = ""]
      [] e = "no login" -> [c EXCEPT !.Rfa[1].session[1].login = <<>>]
      [] e = "second login" -> [c EXCEPT !.Rfa[1].session[1].login =
                                  Append(@, [Login EXCEPT !.user_name = ""])]
      [] e = "no server" -> [c EXCEPT !.Rfa[1].session[1].connection = <<Connection(<<>>)>>]
      [] e = "blank server" -> [c EXCEPT !.Rfa[1].session[1].connection = <<Connection(<<"">>)>>]
      [] e = "second connection" -> [c EXCEPT !.Rfa[1].session[1].connection =
                                       Append(@, Connection(<<"adh2", "adh3">>))]
      [] e = "blank connection" -> [c EXCEPT !.Rfa[1].session[1].connection =
                                       Append(@, [Connection(<<>>) EXCEPT !.name = ""])]
      [] e = "no publisher" -> [c EXCEPT !.Rfa[1].session[1].publisher = <<>>]
      [] e = "blank monitor" -> [c EXCEPT !.Rfa[1].monitor = <<"">>]
      [] e = "second vendor" -> [c EXCEPT !.Rfa[1].vendor = Append(@, "")]
      [] e = "no size" -> [c EXCEPT !.Rfa[1].attrs.maximum_data_size = ""]
      [] e = "zero size" -> [c EXCEPT !.psych[1].attrs.maximum_response_size = "0"]
      [] e = "no psych" -> [c EXCEPT !.psych = <<>>]
      [] e = "second psych" -> [c EXCEPT !.psych = Append(@, Psych(NoAttrs, <<Equities>>))]
      [] e = "psych first" -> [c EXCEPT !.psych = <<Psych(Attrs("", "1", ""), <<>>)>> \o @]
      [] e = "psych settings" -> [c EXCEPT !.psych = Append(@, Psych(Attrs("3", "", "0"), <<>>))]
      [] e = "blank resource" -> [c EXCEPT !.psych[1].resource[1].name = ""]
      [] e = "second link" -> [c EXCEPT !.psych[1].resource[2].link = Append(@, Link("p3"))]
      [] e = "blank link" -> [c EXCEPT !.psych[1].resource[2].link = Append(@, Link(""))]
      [] e = "no link" -> [c EXCEPT !.psych[1].resource[2].link = <<>>]
      [] e = "same path" -> [c EXCEPT !.psych[1].resource[2].link[1].href = "p1"]
      [] e = "junk field" -> [c EXCEPT !.psych[1].resource[1].field = <<Field("junk")>>]
      [] e = "blank field" -> [c EXCEPT !.psych[1].resource[1].field = <<Field("")>>]
      [] e = "second field" -> [c EXCEPT !.psych[1].resource[1].field = Append(@, Field("3"))]
      [] e = "blank item" -> [c EXCEPT !.psych[1].resource[1].item[1].name = ""]
      [] e = "no items" -> [c EXCEPT !.psych[1].resource[1].item = <<>>]
      [] e = "same sector" -> [c EXCEPT !.psych[1].resource[1].item = Append(@, Item("s1", "C"))]
      [] OTHER -> c

(* Two edits of different parts; "no rfa" and "no psych" leave none.       *)
XmlEdited == {Edited(e, Base) : e \in XmlEdits}
                 \cup {Edited(e, Edited(f, Base)) :
                         e \in {"psych first", "second rfa", "second session", "second vendor"},
                         f \in XmlEdits \ {"no rfa", "no psych", "no link"}}
Schedules == {Attrs(i, o, "4") : i \in {"2", "3", "-2", "0", "", "junk"}, o \in {"", "1", "-1", "junk"}}
MCXmlDocuments ==
    {<<c>> : c \in XmlEdited} \cup {<<>>, <<Base, Base>>,
        <<Base, [Snmp |-> <<>>, Rfa |-> <<>>, psych |-> <<>>]>>,
        <<[Base EXCEPT !.psych = <<>>], [Base EXCEPT !.Rfa = <<>>]>>}
    \cup {<<[Base EXCEPT !.psych[1].attrs = a]>> : a \in Schedules}

-----------------------------------------------------------------------------
Dict(d) == <<"dict", d>>
JsonItem(src, ric) == [src |-> src, value |-> Dict([strings |-> [RIC |-> ric, topic |-> "t"]])]
JsonResource(path, fields, items) ==
    [strings |-> [name |-> path, source |-> "news", path |-> path], entitlement_code |-> 7,
     fields |-> Dict(fields), items |-> Dict(items)]
JsonField(name, id) == [name |-> name, id |-> id]
JsonSession ==
    [strings |-> [session_name |-> "s", connection_name |-> "c", publisher_name |-> "p",
                  application_id |-> "256", instance_id |-> "1", user_name |-> "user1"],
     rssl_servers |-> <<"list", <<"adh1">>>>]

JsonBase ==
    [booleans |-> <<>>,
     strings |-> [service_name |-> "v", monitor_name |-> "m", event_queue_name |-> "q",
                  vendor_name |-> "n", maximum_data_size |-> "4", maximum_response_size |-> "4",
                  interval |-> "2"],
     sessions |-> <<"list", <<Dict(JsonSession)>>>>,
     resources |-> <<"list",
        <<Dict(JsonResource("p1", <<JsonField("f", 1), JsonField("g", 2)>>,
                            <<JsonItem("s1", "A"), JsonItem("s2", "B")>>)),
          Dict(JsonResource("p2", <<JsonField("f", 3)>>, <<JsonItem("s1", "B")>>))>>>>]

JsonEdits == {"none", "no sessions", "scalar sessions", "empty sessions", "scalar session",
    "two sessions", "no servers", "empty servers", "blank user", "no resources",
    "scalar resources", "empty resources", "scalar resource", "same path", "no fields",
    "scalar fields", "odd field", "no items", "empty items", "scalar item", "no RIC",
    "blank service", "snmp", "bare resource", "no lists"}

JsonEdited(e, d) ==
    CASE e = "no sessions" -> [d EXCEPT !.sessions = <<"absent">>]
      [] e = "scalar sessions" -> [d EXCEPT !.sessions = <<"scalar">>]
      [] e = "empty sessions" -> [d EXCEPT !.sessions[2] = <<>>]
      [] e = "scalar session" -> [d EXCEPT !.sessions[2] = Append(@, <<"scalar">>)]
      [] e = "two sessions" -> [d EXCEPT !.sessions[2] = Append(@, Dict(JsonSession))]
      [] e = "no servers" -> [d EXCEPT !.sessions[2][1][2].rssl_servers = <<"absent">>]
      [] e = "empty servers" -> [d EXCEPT !.sessions[2][1][2].rssl_servers = <<"list", <<>>>>]
      [] e = "blank user" -> [d EXCEPT !.sessions[2][1][2].strings.user_name = ""]
      [] e = "no resources" -> [d EXCEPT !.resources = <<"absent">>]
      [] e = "scalar resources" -> [d EXCEPT !.resources = <<"scalar">>]
      [] e = "empty resources" -> [d EXCEPT !.resources[2] = <<>>]
      [] e = "scalar resource" -> [d EXCEPT !.resources[2] = Append(@, <<"scalar">>)]
      [] e = "same path" -> [d EXCEPT !.resources[2][2][2].strings.path = "p1"]
      [] e = "no fields" -> [d EXCEPT !.resources[2][1][2].fields = <<"absent">>]
      [] e = "scalar fields" -> [d EXCEPT !.resources[2][1][2].fields = <<"scalar">>]
      [] e = "odd field" -> [d EXCEPT !.resources[2][1][2].fields[2][2].id = NotInteger]
      [] e = "no items" -> [d EXCEPT !.resources[2][1][2].items = <<"absent">>]
      [] e = "empty items" -> [d EXCEPT !.resources[2][1][2].items[2] = <<>>]
      [] e = "scalar item" -> [d EXCEPT !.resources[2][1][2].items[2][1].value = <<"scalar">>]
      [] e = "no RIC" -> [d EXCEPT !.resources[2][1][2].items[2][1].value =
                            Dict([strings |-> [topic |-> "t"]])]
      [] e = "bare resource" -> [d EXCEPT !.resources[2][1][2].fields = Dict(<<>>),
                                          !.resources[2][1][2].items = <<"absent">>]
      [] e = "no lists" -> [d EXCEPT !.sessions[2] = <<>>, !.resources = <<"scalar">>]
      [] e = "blank service" -> [d EXCEPT !.strings.service_name = ""]
      [] e = "snmp" -> [d EXCEPT !.booleans = [is_snmp_enabled |-> TRUE]]
      [] OTHER -> d

MCJsonDocuments ==
    {[read |-> r, dict |-> JsonBase] : r \in {"missing", "rejected", "thrown", "list"}}
    \cup {[read |-> "dict", dict |-> JsonEdited(e, JsonBase)] : e \in JsonEdits}
    \cup {[read |-> "dict", dict |-> JsonEdited(e, JsonEdited("two sessions", JsonBase))] :
            e \in JsonEdits \ {"no sessions", "scalar sessions"}}
    \cup {[read |-> "dict", dict |-> [JsonBase EXCEPT !.strings.interval = i]] : i \in {"0", "-2", "junk"}}
=============================================================================
