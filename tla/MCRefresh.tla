------------------------------ MODULE MCRefresh ------------------------------
(* Two resources that share a stream and a column; one has the column of   *)
(* the sectors for a field.                                                *)
EXTENDS Refresh

OneVersion == {<<14, 1>>}
MCStreams == {"A", "B"}
MCFields == [equities |-> [Buzz |-> 1, Joy |-> 2], currencies |-> [Joy |-> 3, Sector |-> 4]]
MCNameMap == [equities |-> [s1 |-> "A", s2 |-> "B"], currencies |-> [s1 |-> "B"]]

Header == <<"Sector", "Fear", "Buzz", "Joy">>
Text(lines) == [stamp |-> TRUE, lines |-> lines]
MCResponses ==
    {[stamp |-> FALSE, lines |-> <<Header>>], Text(<<>>), Text(<<<<"Sector">>>>),
     Text(<<Header, <<"s1", "1", "2", "3">>, <<"s3", "1", "1", "1">>, <<"s2", "2", "nan", "text">>>>),
     Text(<<Header, <<"s2", "1", "2">>, <<"s2", "3", "3", "1">>, <<"#">>, <<"s1", "1", "1", "1">>>>)}
=============================================================================
