------------------------------- MODULE Config -------------------------------
(***************************************************************************)
(* config_t (config.cc, config.hh): what the plug-in makes of an XML tree  *)
(* and the application of a JSON document.                                 *)
(*                                                                         *)
(* An XML node is a record of its attributes and of the sequences of its   *)
(* descendants by tag; an attribute that is missing is "". In a JSON       *)
(* document a part is <<"absent">>, <<"scalar">>, <<"list", ...>> or       *)
(* <<"dict", ...>>; `strings` and `booleans` hold the members of that type *)
(* (GetString and GetBoolean leave their target alone for all others). A   *)
(* step of parsing returns a result: the configuration so far with "ok",   *)
(* "false" for an early return, "thrown" for an exception, "undefined" for *)
(* undefined behaviour. CHECK does not abort in this build.                *)
(***************************************************************************)
EXTENDS Integers, Sequences, FiniteSets, SequencesExt, Functions

(* Texts that are numbers; atol returns 0 for all others, stoi throws.     *)
Number == [t \in {"-2", "-1", "0", "1", "2", "3", "4"} |->
             CASE t = "-2" -> -2 [] t = "-1" -> -1 [] t = "0" -> 0 [] t = "1" -> 1
               [] t = "2" -> 2 [] t = "3" -> 3 [] OTHER -> 4]
Atol(t) == IF t \in DOMAIN Number THEN Number[t] ELSE 0

(* The psych attributes not listed are read the same way.                  *)
PsychKeys == {"interval", "time_offset_constant", "maximum_response_size"}
RfaKeys == {"key", "service_name", "dacs_id", "monitor_name", "event_queue_name",
            "vendor_name", "maximum_data_size"}
TextKeys == PsychKeys \cup RfaKeys \cup {"snmp_filelog", "agentx_socket"}
LoginKeys == {"application_id", "instance_id", "user_name", "position"}
SessionKeys == LoginKeys \cup {"session_name", "connection_name", "publisher_name",
                               "rssl_default_port"}

DefaultConfig ==
    [is_snmp_enabled |-> FALSE, is_agentx_subagent |-> TRUE,
     text |-> [k \in TextKeys |-> ""], sessions |-> <<>>, resources |-> <<>>]

Result(status, value) == [status |-> status, value |-> value]
Ok(value) == Result("ok", value)

(* A loop over nodes with an early return.                                 *)
Each(Parse(_, _), start, nodes) ==
    LET Upto[i \in 0..Len(nodes)] ==
            IF i = 0 THEN Ok(start)
            ELSE LET r == Upto[i - 1]
                 IN  IF r.status = "ok" THEN Parse(r.value, nodes[i]) ELSE r
    IN  Upto[Len(nodes)]
Then(r, Continue(_)) == IF r.status = "ok" THEN Continue(r.value) ELSE r

Override(text, attrs) ==
    [k \in DOMAIN text |-> IF k \in DOMAIN attrs /\ attrs[k] # "" THEN attrs[k] ELSE text[k]]
Emplace(map, key, value) == IF key \in DOMAIN map THEN map
                            ELSE [k \in DOMAIN map \cup {key} |-> IF k = key THEN value ELSE map[k]]

-----------------------------------------------------------------------------
ValidSession(s) ==
    /\ \A k \in SessionKeys \ {"position", "rssl_default_port"} : s.text[k] # ""
    /\ s.rssl_servers # <<>>

ValidResource(r) ==
    r.name # "" /\ r.path # "" /\ DOMAIN r.fields # {} /\ DOMAIN r.items # {}

Validate(c) ==
    /\ c.sessions # <<>>
    /\ \A i \in DOMAIN c.sessions : ValidSession(c.sessions[i])
    /\ \A k \in {"service_name", "monitor_name", "event_queue_name", "vendor_name"} : c.text[k] # ""
    /\ \A k \in {"maximum_data_size", "maximum_response_size"} : Atol(c.text[k]) > 0
    /\ \A i \in DOMAIN c.resources : ValidResource(c.resources[i])

Accepted(c) == Result(IF Validate(c) THEN "ok" ELSE "false", c)

-----------------------------------------------------------------------------
(* The XML tree: <Snmp>.                                                   *)
ParseAgentXNode(c, node) ==
    Ok([c EXCEPT !.is_agentx_subagent = IF node.subagent # "" THEN node.subagent = "true" ELSE @,
                 !.text = Override(@, [agentx_socket |-> node.socket])])

ParseSnmpNode(c, node) ==
    Then(Each(ParseAgentXNode, [c EXCEPT !.text = Override(@, [snmp_filelog |-> node.filelog])],
              node.agentX),
         LAMBDA d : Ok([d EXCEPT !.is_snmp_enabled = TRUE]))

(* <Rfa>. An unnamed service is an error, an unnamed monitor is not.       *)
ParseServiceNode(c, name) ==
    IF name = "" THEN Result("false", c) ELSE Ok([c EXCEPT !.text.service_name = name])
ParseDacsNode(c, id) == Ok([c EXCEPT !.text = Override(@, [dacs_id |-> id])])
ParseMonitorNode(c, name) == Ok([c EXCEPT !.text = Override(@, [monitor_name |-> name])])
ParseEventQueueNode(c, name) == Ok([c EXCEPT !.text = Override(@, [event_queue_name |-> name])])
ParseVendorNode(c, name) == Ok([c EXCEPT !.text = Override(@, [vendor_name |-> name])])

ParsePublisherNode(session, name) == Ok([session EXCEPT !.text.publisher_name = name])

ParseServerNode(session, server) ==
    IF server = "" THEN Result("false", session)
    ELSE Ok([session EXCEPT !.rssl_servers = Append(@, server)])

(* A second connection renames the session's connection and adds servers.  *)
ParseConnectionNode(session, node) ==
    IF node.name = "" THEN Result("false", session)
    ELSE Each(ParseServerNode, [session EXCEPT !.text.connection_name = node.name,
                                               !.text.rssl_default_port = node.defaultPort],
              node.server)

ParseLoginNode(session, login) ==
    Ok([session EXCEPT !.text = [k \in DOMAIN @ |-> IF k \in LoginKeys THEN login[k] ELSE @[k]]])

NewSession == [text |-> [k \in SessionKeys |-> ""], rssl_servers |-> <<>>]

ParseSessionNode(c, node) ==
    LET named == [NewSession EXCEPT !.text.session_name = node.name]
        parsed == Then(Then(Each(ParsePublisherNode, named, node.publisher),
                            LAMBDA s : Each(ParseConnectionNode, s, node.connection)),
                       LAMBDA s : Each(ParseLoginNode, s, node.login))
    IN  IF node.name = "" THEN Result("false", c)
        ELSE Result(parsed.status, IF parsed.status = "ok"
                                   THEN [c EXCEPT !.sessions = Append(@, parsed.value)] ELSE c)

ParseRfaNode(c, node) ==
    LET start == [c EXCEPT !.text = Override(@, node.attrs)]
    IN  Then(Then(Then(Then(Then(
            Each(ParseServiceNode, start, node.service),
            LAMBDA d : Each(ParseDacsNode, d, node.DACS)),
            LAMBDA d : Each(ParseSessionNode, d, node.session)),
            LAMBDA d : Each(ParseMonitorNode, d, node.monitor)),
            LAMBDA d : Each(ParseEventQueueNode, d, node.eventQueue)),
            LAMBDA d : Each(ParseVendorNode, d, node.vendor))

(* <psych>. The first of several fields or items of one name counts.       *)
ParseFieldNode(fields, node) ==
    CASE node.name = "" \/ node.id = "" -> Result("false", fields)
      [] node.name # "" /\ node.id # "" /\ node.id \notin DOMAIN Number -> Result("thrown", fields)
      [] OTHER -> Ok(Emplace(fields, node.name, Number[node.id]))

ParseItemNode(items, node) ==
    IF "" \in {node.name, node.topic, node.src} THEN Result("false", items)
    ELSE Ok(Emplace(items, node.src, [RIC |-> node.name, topic |-> node.topic]))

(* One resource for every link.                                            *)
ParseLinkNode(c, node, name, fields, items) ==
    IF "" \in {node.rel, node.name, node.href} THEN Result("false", c)
    ELSE Ok([c EXCEPT !.resources =
                Append(@, [name |-> name, source |-> node.name, path |-> node.href,
                           fields |-> fields, items |-> items])])

ParseResourceNode(c, node) ==
    LET fields == Each(ParseFieldNode, <<>>, node.field)
        items == Each(ParseItemNode, <<>>, node.item)
    IN  CASE node.name = "" -> Result("false", c)
          [] node.name # "" /\ fields.status # "ok" -> Result(fields.status, c)
          [] node.name # "" /\ fields.status = "ok" /\ items.status # "ok" -> Result(items.status, c)
          [] OTHER -> Each(LAMBDA d, link : ParseLinkNode(d, link, node.name, fields.value, items.value),
                           c, node.link)

(* Mutant of ResetLists: the resources of an earlier node keep theirs.     *)
ResetNothing(c) == c

(* "reset all lists": of the resources of earlier nodes, not these.        *)
ResetLists(c) ==
    [c EXCEPT !.resources = [i \in DOMAIN @ |-> [@[i] EXCEPT !.fields = <<>>, !.items = <<>>]]]

ParsePsychNode(c, node) ==
    Each(ParseResourceNode, ResetLists([c EXCEPT !.text = Override(@, node.attrs)]), node.resource)

ParseConfigNode(c, node) ==
    Then(Then(Each(ParseSnmpNode, c, node.Snmp),
              LAMBDA d : Each(ParseRfaNode, d, node.Rfa)),
         LAMBDA d : Each(ParsePsychNode, d, node.psych))

ParseDomElement(nodes) == Then(Each(ParseConfigNode, DefaultConfig, nodes), Accepted)

-----------------------------------------------------------------------------
(* The JSON tree. A key that is a string replaces the default, blank or    *)
(* not.                                                                    *)
GetString(text, dict) ==
    [k \in DOMAIN text |-> IF k \in DOMAIN dict.strings THEN dict.strings[k] ELSE text[k]]

GetBoolean(value, dict, key) == IF key \in DOMAIN dict.booleans THEN dict.booleans[key] ELSE value

(* A sessions list that is not one is a null pointer; an entry that is not *)
(* a dictionary is cast to one.                                            *)
EachEntry(Parse(_, _), c, list) ==
    IF list[1] # "list" THEN Result("undefined", c)
    ELSE Each(LAMBDA d, entry : IF entry[1] # "dict" THEN Result("undefined", d)
                                ELSE Parse(d, entry[2]),
              c, list[2])

ParseSession(c, dict) ==
    IF dict.rssl_servers[1] # "list" THEN Result("undefined", c)
    ELSE Ok([c EXCEPT !.sessions =
            Append(@, [text |-> GetString(NewSession.text, dict),
                       rssl_servers |-> dict.rssl_servers[2]])])

(* A field that is not an integer gets what integer_value holds: the id of *)
(* the field before it, at first the entitlement code.                     *)
NotInteger == -99
ParseField(acc, field) ==
    LET id == IF field.id = NotInteger THEN acc.integer_value ELSE field.id
    IN  Ok([integer_value |-> id, map |-> Emplace(acc.map, field.name, id)])
ParseFields(fields, code) ==
    Each(ParseField, [integer_value |-> code, map |-> <<>>], fields).value.map

ParseItem(items, item) ==
    IF item.value[1] # "dict" THEN Result("undefined", items)
    ELSE Ok(Emplace(items, item.src, GetString([RIC |-> "", topic |-> ""], item.value[2])))

(* Without "items" the pointer is still that of the fields, whose integers *)
(* are then taken for items.                                               *)
ParseItems(dict) ==
    CASE dict.items[1] = "dict" -> Each(ParseItem, <<>>, dict.items[2])
      [] dict.items[1] = "absent" /\ dict.fields[2] = <<>> -> Ok(<<>>)
      [] OTHER -> Result("undefined", <<>>)

ParseResource(c, dict) ==
    LET text == GetString([name |-> "", source |-> "", path |-> ""], dict)
        items == ParseItems(dict)
    IN  IF dict.fields[1] # "dict" THEN Result("undefined", c)
        ELSE IF items.status # "ok" THEN Result(items.status, c)
        ELSE Ok([c EXCEPT !.resources =
                Append(@, [name |-> text.name, source |-> text.source, path |-> text.path,
                           fields |-> ParseFields(dict.fields[2], dict.entitlement_code),
                           items |-> items.value])])

(* The list pointer is shared: resources that are no list leave it at the  *)
(* sessions, which have no "fields" to point to.                           *)
ParseResources(c, dict) ==
    IF dict.resources[1] = "list" THEN EachEntry(ParseResource, c, dict.resources)
    ELSE Result(IF dict.sessions[2] = <<>> THEN "ok" ELSE "undefined", c)

(* Mutant of HasKey: both arrays are looked up without being there.        *)
HasAnyKey(dict, key) == TRUE

HasKey(dict, key) == dict[key][1] # "absent"

(* The file of the SNMP log is not read.                                   *)
ParseConfig(dict) ==
    LET start == [DefaultConfig EXCEPT
                    !.is_snmp_enabled = GetBoolean(@, dict, "is_snmp_enabled"),
                    !.is_agentx_subagent = GetBoolean(@, dict, "is_agentx_subagent"),
                    !.text = [GetString(@, dict) EXCEPT !.snmp_filelog = ""]]
    IN  IF ~HasKey(dict, "sessions") \/ ~HasKey(dict, "resources")
        THEN Result("false", DefaultConfig)
        ELSE Then(Then(EachEntry(ParseSession, start, dict.sessions),
                       LAMBDA c : ParseResources(c, dict)),
                  Accepted)
=============================================================================
