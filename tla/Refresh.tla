------------------------------ MODULE Refresh -------------------------------
(***************************************************************************)
(* Where HttpQuery and Provider meet: OnHttpResponse turns the text of a   *)
(* response into a table, SendRefresh turns each row into a message and    *)
(* hands it to provider_t::Send (psych.cc:1162-1573), while logins and     *)
(* their loss go on in the RFA event thread.                               *)
(*                                                                         *)
(* A response is a header line, well formed or not, and lines of cells.    *)
(* This module adds the thread that holds query_mutex_ to Provider: it is  *)
(* the publisher, and calls Send once for every row it can map.            *)
(***************************************************************************)
EXTENDS Provider, Sequences, SequencesExt, Functions

CONSTANTS
    Resources,      \* config_.resources
    Fields,         \* resource_t::fields, column -> FID, of each
    NameMap,        \* query_vector_, sector -> stream, of each
    Responses       \* what the server may answer: [stamp, lines]

ASSUME NameMapAssumption ==
    \A x \in Resources : \A sector \in DOMAIN NameMap[x] : NameMap[x][sector] \in Streams

(* A response is a sequence of lines, a line a sequence of cells.          *)
IsList(s) == s \in Seq(Range(s))
ASSUME ResponsesAssumption ==
    \A r \in Responses : IsList(r.lines) /\ \A i \in DOMAIN r.lines : IsList(r.lines[i])

VARIABLES
    row_pc,     \* where the drain loop is: "idle", "rows", "send", "done" or "crashed"
    resource,   \* connection->resource
    table,      \* columns and rows
    row_i,      \* the row SendRefresh is at
    message,    \* response: its stream and field list
    response,   \* the response the table was made of (observer)
    received,   \* what this refresh has submitted to each session (observer)
    since       \* per session: rows begun before it was unmuted (observer)

rowVars == <<row_pc, resource, table, row_i, message, response, received>>
refreshVars == <<rowVars, since>>
allVars == <<vars, refreshVars>>

-----------------------------------------------------------------------------
(* A cell: a number, NaN (published blank), or no number, of which >> makes *)
(* 0 or leaves `double f` as it was.                                       *)
Numerals == {"1", "2", "3"}
Read(cell) ==
    CASE cell \in Numerals -> cell [] cell = "nan" -> "blank" [] OTHER -> "unset"

(* One line of the table. A row with a wrong number of cells is skipped.   *)
Line(acc, cells) ==
    CASE acc.state = "header" ->
            IF Len(cells) < 2 THEN [acc EXCEPT !.state = "malformed"]
            ELSE [acc EXCEPT !.state = "row", !.columns = cells]
      [] acc.state = "row" /\ cells[1] = "#" -> [acc EXCEPT !.state = "fin"]
      [] acc.state = "row" /\ cells[1] # "#" /\ Len(cells) = Len(acc.columns) ->
            [acc EXCEPT !.rows = Append(@, [sector |-> cells[1],
                                            values |-> [j \in 1..Len(cells) - 1 |-> Read(cells[j + 1])]])]
      [] OTHER -> acc

OnHttpResponse(r) ==
    FoldLeft(Line, [state |-> IF r.stamp THEN "header" ELSE "malformed",
                    columns |-> <<>>, rows |-> <<>>], r.lines)

(* Mutant of Column: an unmapped column is not counted.                    *)
ColumnNotCounted(acc, column, fields, values) ==
    IF column \notin DOMAIN fields THEN acc
    ELSE [idx |-> acc.idx + 1,
          entries |-> Append(acc.entries, <<fields[column],
                         IF acc.idx = 0 THEN "garbage" ELSE values[acc.idx]>>)]

(* "map each column data to a TREP-RT FID": values are offset from the     *)
(* second column. CHECK (column_idx > 0) does not stop the first one.      *)
Column(acc, column, fields, values) ==
    IF column \notin DOMAIN fields THEN [acc EXCEPT !.idx = @ + 1]
    ELSE [idx |-> acc.idx + 1,
          entries |-> Append(acc.entries, <<fields[column],
                         IF acc.idx = 0 THEN "garbage" ELSE values[acc.idx]>>)]

FieldList(x, columns, values) ==
    FoldLeft(LAMBDA acc, column : Column(acc, column, Fields[x], values),
             [idx |-> 0, entries |-> <<>>], columns).entries

-----------------------------------------------------------------------------
NoMessage == [stream |-> "none", entries |-> <<>>]
NoResponse == [stamp |-> FALSE, lines |-> <<>>]
NoTable == [state |-> "none", columns |-> <<>>, rows |-> <<>>]

RefreshInit ==
    /\ Init
    /\ row_pc = "idle" /\ resource = "none" /\ row_i = 1
    /\ table = NoTable /\ message = NoMessage /\ response = NoResponse
    /\ received = [s \in Sessions |-> <<>>]
    /\ since = [s \in Sessions |-> 0]

(* The locals of the drain loop, cleared for the next result.              *)
Over ==
    /\ row_pc' = "idle" /\ resource' = "none" /\ row_i' = 1
    /\ table' = NoTable /\ message' = NoMessage /\ response' = NoResponse
    /\ received' = [s \in Sessions |-> <<>>]
    /\ since' = [s \in Sessions |-> 0]

(* A response for some resource that is a table. Any other one is counted  *)
(* as malformed, and changes nothing here.                                 *)
Respond ==
    /\ main_pc = "running"
    /\ row_pc = "idle"
    /\ \E x \in Resources, r \in Responses :
          /\ OnHttpResponse(r).state # "malformed"
          /\ resource' = x
          /\ response' = r
          /\ table' = OnHttpResponse(r)
    /\ row_pc' = "rows"
    /\ UNCHANGED <<row_i, message, received, since, vars>>

Row == table.rows[row_i]
Rows == row_pc = "rows" /\ row_i <= Len(table.rows)
MappedRow(i) == table.rows[i].sector \in DOMAIN NameMap[resource]

(* "row may not exist in map"                                              *)
UnmappedRow ==
    /\ Rows /\ ~MappedRow(row_i)
    /\ row_i' = row_i + 1
    /\ UNCHANGED <<row_pc, resource, table, message, response, received, since, vars>>

PublishRow ==
    /\ Rows /\ MappedRow(row_i)
    /\ message' = [stream |-> NameMap[resource][Row.sector],
                   entries |-> FieldList(resource, table.columns, Row.values)]
    /\ Send(message'.stream)
    /\ row_pc' = "send"
    /\ UNCHANGED <<resource, table, row_i, response, received, since>>

(* row.second[-1] may not be readable.                                     *)
FirstColumnMapped ==
    /\ Rows /\ MappedRow(row_i)
    /\ table.columns # <<>> /\ table.columns[1] \in DOMAIN Fields[resource]
    /\ row_pc' = "crashed"
    /\ UNCHANGED <<resource, table, row_i, message, response, received, since, vars>>

(* The steps of provider_t::Send.                                          *)
SendRow ==
    /\ row_pc = "send"
    /\ ReadToken \/ CheckMuted
    /\ UNCHANGED refreshVars

SubmitRow ==
    /\ row_pc = "send"
    /\ Submit
    /\ received' = [received EXCEPT ![pub_s] = Append(@, [row |-> row_i, message |-> message])]
    /\ UNCHANGED <<row_pc, resource, table, row_i, message, response, since>>

(* Mutant of RowSent: the same row again.                                  *)
RowSentAgain ==
    /\ row_pc = "send"
    /\ SendReturns
    /\ row_pc' = "rows"
    /\ UNCHANGED <<resource, table, row_i, message, response, received, since>>

RowSent ==
    /\ row_pc = "send"
    /\ SendReturns
    /\ row_pc' = "rows"
    /\ row_i' = row_i + 1
    /\ UNCHANGED <<resource, table, message, response, received, since>>

(* The exception leaves SendRefresh, the rest of the table is lost.        *)
RefreshThrows ==
    /\ row_pc = "send"
    /\ SubmitThrows
    /\ Over

TableSent ==
    /\ row_pc = "rows"
    /\ row_i > Len(table.rows)
    /\ row_pc' = "done"
    /\ UNCHANGED <<resource, table, row_i, message, response, received, since, vars>>

(* "request is now considered successful"                                  *)
NextResponse ==
    /\ row_pc = "done"
    /\ Over
    /\ UNCHANGED vars

(* The main thread and the event thread. A session that is unmuted before  *)
(* a row's Send has begun must get that row.                               *)
Begun == IF row_pc = "send" THEN row_i ELSE row_i - 1
Others ==
    /\ row_pc # "crashed"
    /\ MainNext \/ Deliver \/ Handle
    /\ since' = [s \in Sessions |-> IF is_muted[s] /\ ~is_muted'[s] THEN Begun ELSE since[s]]
    /\ UNCHANGED rowVars

Crashed == row_pc = "crashed" /\ UNCHANGED allVars

RefreshStep ==
    \/ UnmappedRow \/ PublishRow \/ FirstColumnMapped
    \/ SendRow \/ SubmitRow \/ RowSent \/ RefreshThrows
    \/ TableSent \/ NextResponse

RefreshNext ==
    \/ Others \/ Respond \/ RefreshStep \/ Crashed
    \/ Stopped /\ UNCHANGED refreshVars

(* Each thread goes on with the call it is in; nothing obliges the server  *)
(* to answer or RFA to deliver an event.                                   *)
RefreshSpec ==
    /\ RefreshInit /\ [][RefreshNext]_allVars
    /\ WF_allVars(MainNext /\ Others) /\ WF_allVars(Handle /\ Others) /\ WF_allVars(RefreshStep)

-----------------------------------------------------------------------------
(* What a response means, read off its text: the lines after the names of  *)
(* the columns and before the first comment that have a cell for each      *)
(* column; each is a message with the cell under the name of each column   *)
(* that is configured.                                                     *)
Names == response.lines[1]
DataLines == {i \in 2..Len(response.lines) :
                /\ \A j \in 2..i : response.lines[j][1] # "#"
                /\ Len(response.lines[i]) = Len(Names)}
Meaning(i) ==
    [stream |-> NameMap[resource][response.lines[i][1]],
     entries |-> {<<Fields[resource][Names[j]], Read(response.lines[i][j])>> :
                    j \in {j \in 2..Len(Names) : Names[j] \in DOMAIN Fields[resource]}}]

(* The line a row of the table was made of.                                *)
LineOf(row) == CHOOSE i \in DataLines : Cardinality({j \in DataLines : j <= i}) = row
SectorIsField == Names[1] \in DOMAIN Fields[resource]

TableRead ==
    /\ Len(table.rows) = Cardinality(DataLines)
    /\ \A row \in DOMAIN table.rows : table.rows[row].sector = response.lines[LineOf(row)][1]

RowsFaithful ==
    \A s \in Sessions : \A k \in DOMAIN received[s] :
        LET got == received[s][k]
        IN  SectorIsField \/ [got.message EXCEPT !.entries = Range(@)] = Meaning(LineOf(got.row))

(* The rows of a refresh reach a session in their order, none twice.       *)
RowsInOrder ==
    \A s \in Sessions : \A j, k \in DOMAIN received[s] :
        j < k => received[s][j].row < received[s][k].row

Got(s, row) == \E k \in DOMAIN received[s] : received[s][k].row = row

(* Every mapped row behind the loop whose Send began after a session was   *)
(* last unmuted has reached it.                                            *)
NothingMissed ==
    row_pc = "done" =>
        \A s \in Sessions : ~is_muted[s] =>
            \A row \in since[s] + 1..row_i - 1 : MappedRow(row) => Got(s, row)

(* What a session gets of a refresh are rows of the table, in their order, *)
(* none twice, under the stream of their own sector and with every value   *)
(* in the field of its own column, unless the first column is configured   *)
(* as a field. A refresh that ends without an exception has sent a session *)
(* every row whose Send began after it was last unmuted: what it missed,   *)
(* it missed before (psych.cc:1065 calls the request successful all the    *)
(* same). And nothing is read outside a row unless the first column is a   *)
(* field (psych.cc:1526).                                                  *)
TableFaithful ==
    /\ row_pc = "crashed" => SectorIsField
    /\ row_pc # "idle" => TableRead /\ RowsFaithful
    /\ row_pc = "done" => row_i = Len(table.rows) + 1
    /\ RowsInOrder
    /\ NothingMissed

(* Liveness: Init ends, every login success that is being handled is dealt *)
(* with, and a refresh comes to its end, whatever the other threads do     *)
(* meanwhile (provider.cc:113-129, session.cc:384-392, psych.cc:1468).     *)
ThreadsReturn ==
    /\ <>(main_pc \in {"running", "failed", "crashed"})
    /\ (evt_pc # "idle") ~> (evt_pc = "idle" \/ row_pc = "crashed")
    /\ (row_pc # "idle") ~> (row_pc \in {"idle", "crashed"})
=============================================================================
