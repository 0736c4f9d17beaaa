---------------------------- MODULE JsonLanguage ----------------------------
(***************************************************************************)
(* What JSONReader is meant to accept, written as a grammar that generates *)
(* documents together with their values, and the properties that compare   *)
(* the reader with it. A document is generated bottom up, by its length;   *)
(* the reader consumes it top down with one lexeme of lookahead.           *)
(***************************************************************************)
EXTENDS JsonReader

Max2(a, b) == IF a > b THEN a ELSE b

(* Every string that ParseStringToken accepts is one, as a value or a key. *)
Leaves ==
    {[lex |-> <<s>>, val |-> <<"string", s>>, depth |-> 1] : s \in Strings}
        \cup {[lex |-> <<"num">>, val |-> <<"num">>, depth |-> 1],
              [lex |-> <<"null">>, val |-> <<"null">>, depth |-> 1],
              [lex |-> <<"true">>, val |-> <<"boolean">>, depth |-> 1]}

(* The comma-separated sequences of n lexemes with more than one member.   *)
Joined(n, before, last(_), op(_, _)) ==
    UNION {{[lex |-> b.lex \o <<",">> \o m.lex, val |-> op(b.val, m.val),
             depth |-> Max2(b.depth, m.depth)] : b \in before[k], m \in last(n - k - 1)} :
           k \in 1..n - 2}

Wrapped(open, close, kind, body, comma) ==
    {[lex |-> <<open>> \o b.lex \o comma \o <<close>>, val |-> <<kind, b.val>>,
      depth |-> b.depth + 1] : b \in body}

(* A repeated key: the last one counts.                                    *)
Override(f, g) == [k \in DOMAIN f \cup DOMAIN g |-> IF k \in DOMAIN g THEN g[k] ELSE f[k]]

(* The values, lists of elements and lists of members of n lexemes.        *)
Grammar(trailing) ==
    LET Empty(open, close, kind) ==
            {[lex |-> <<open, close>>, val |-> <<kind, <<>>>>, depth |-> 1]}
        Gen[n \in 0..MaxLexemes] ==
            LET values ==
                    (IF n = 1 THEN Leaves ELSE {})
                    \cup (IF n = 2 THEN Empty("[", "]", "list") \cup Empty("{", "}", "dict") ELSE {})
                    \cup (IF n > 2 THEN Wrapped("[", "]", "list", Gen[n - 2].elements, <<>>)
                                        \cup Wrapped("{", "}", "dict", Gen[n - 2].members, <<>>)
                                   ELSE {})
                    \cup (IF n > 3 /\ trailing
                          THEN Wrapped("[", "]", "list", Gen[n - 3].elements, <<",">>)
                               \cup Wrapped("{", "}", "dict", Gen[n - 3].members, <<",">>)
                          ELSE {})
                Values(m) == IF m = n THEN values ELSE Gen[m].values
                Single(v) == [v EXCEPT !.val = <<v.val>>]
                Pair(k, v) == [lex |-> <<k, ":">> \o v.lex,
                               val |-> [x \in {k} |-> v.val], depth |-> v.depth]
                Pairs(m) == {Pair(k, v) : k \in Strings, v \in IF m > 2 THEN Gen[m - 2].values ELSE {}}
            IN  [values |-> values,
                 elements |-> {Single(v) : v \in values}
                     \cup Joined(n, [k \in 1..n - 2 |-> Gen[k].elements],
                                 LAMBDA m : {Single(v) : v \in Values(m)}, LAMBDA a, b : a \o b),
                 members |-> Pairs(n)
                     \cup Joined(n, [k \in 1..n - 2 |-> Gen[k].members], Pairs, Override)]
    IN  UNION {{v \in Gen[n].values : v.val[1] \in {"list", "dict"} /\ v.depth <= StackLimit} :
               n \in 0..MaxLexemes}

Language == [trailing \in BOOLEAN |-> Grammar(trailing)]
Begun == [trailing \in BOOLEAN |-> UNION {Prefixes(d.lex) : d \in Language[trailing]}]
Sentences == [trailing \in BOOLEAN |-> {d.lex : d \in Language[trailing]}]
ValueOf == [trailing \in BOOLEAN |->
              [l \in Sentences[trailing] |-> (CHOOSE d \in Language[trailing] : d.lex = l).val]]

-----------------------------------------------------------------------------
(* The document without gaps, and the value it stands for.                 *)
Read == SelectSeq(doc, LAMBDA x : x \notin {"gap", "torn"})
Ended == Read # <<>> /\ Last(Read) = "end"

RECURSIVE Meaning(_)
Meaning(v) ==
    CASE v[1] = "num" -> DecodeNumber(text)
      [] v[1] \in {"list", "dict"} -> <<v[1], [k \in DOMAIN v[2] |-> Meaning(v[2][k])]>>
      [] OTHER -> v

WellSpelt == "num" \in Range(Read) => JsonNumber(text)

(* The reader accepts exactly the documents of the grammar, with and       *)
(* without trailing commas, gaps anywhere, nested up to the limit, and     *)
(* returns their value, the last of several members of one name included.  *)
(* It never rejects what could still become such a document, although it   *)
(* looks only one lexeme ahead, and complains of data after the root only  *)
(* when it has read a document (json_reader.cc:205-357, 179-192).          *)
(* There are two departures, and no others: it gives up a document at a    *)
(* string with a \u escape (json_reader.cc:499), and it is left by an      *)
(* exception at a number that no double can hold                           *)
(* (string_number_conversions.cc:389).                                     *)
ReadsTheLanguage ==
    LET sentences == Sentences[allow_trailing_comma]
        begun == Begun[allow_trailing_comma]
    IN  /\ result[1] \in {"list", "dict"} =>
              /\ Front(Read) \in sentences /\ WellSpelt
              /\ result = Meaning(ValueOf[allow_trailing_comma][Front(Read)])
        /\ result = <<"NULL">> =>
              \/ ~WellSpelt
              \/ Last(Read) = "unicode"
              \/ IF Ended THEN Front(Read) \notin sentences ELSE Read \notin begun
        /\ error_code = "UNEXPECTED_DATA_AFTER_ROOT" => Front(Read) \in sentences
        /\ result = <<"thrown">> =>
              /\ Last(Read) = "num" /\ JsonNumber(text) /\ OutOfRange(text)
              /\ Len(Read) + StackLimit <= MaxLexemes => Read \in begun

-----------------------------------------------------------------------------
(* What the repository says of the program and the code does not do.       *)

(* json_reader.hh:189-190 "This should always succeed (otherwise           *)
(* ParseStringToken would have failed).": no string that ParseStringToken  *)
(* has accepted makes the reader reject what is still right.               *)
StringsDecode ==
    result = <<"NULL">> /\ Last(Read) \in Strings =>
        Read \notin Begun[allow_trailing_comma]
=============================================================================
