----------------------------- MODULE JsonReader -----------------------------
(***************************************************************************)
(* JSONReader (chromium/json/json_reader.cc): the recursive descent parser *)
(* that turns the configuration file into a tree of Values. How it reads   *)
(* numbers is module JsonNumbers'.                                         *)
(*                                                                         *)
(* The document arrives lexeme by lexeme. The recursion of BuildValue is   *)
(* an explicit stack, one frame per container under construction. A value  *)
(* is a tuple whose first element is its type:                             *)
(*     <<"null">>  <<"boolean">>  <<"integer", n>>  <<"double">>           *)
(*     <<"string", s>>  <<"list", seq of values>>  <<"dict", key -> value>> *)
(***************************************************************************)
EXTENDS JsonNumbers, FiniteSets, SequencesExt

CONSTANTS
    StackLimit,         \* kStackLimit
    Texts,              \* spellings of a number, sequences of characters
    Plain,              \* strings without an escape
    MaxGaps,            \* bound: gaps between lexemes
    MaxLexemes          \* bound: length of a document

ASSUME LimitAssumption == StackLimit \in Nat \ {0} /\ MaxLexemes \in Nat /\ MaxGaps \in Nat

VARIABLES
    allow_trailing_comma,
    doc,            \* the document as far as it has been looked at
    pos,            \* json_pos_: lexemes consumed
    text,           \* the spelling of the numbers in this document, if any
    stack,          \* containers under construction, innermost last
    stack_depth,    \* stack_depth_
    pc,             \* what the innermost BuildValue expects next
    node,           \* the value BuildValue has returned
    error_code,     \* error_code_
    result          \* <<"none">>, a value, <<"NULL">> or <<"thrown">>

vars == <<allow_trailing_comma, doc, pos, text, stack, stack_depth, pc, node, error_code, result>>

-----------------------------------------------------------------------------
(* Lexemes. What ParseStringToken tells apart: plain strings; "escaped",   *)
(* with an escape DecodeString knows; "unicode", with a \u escape; "bad",  *)
(* with an invalid one; "open", without its closing quote. "gap" stands    *)
(* for white space or a comment, "torn" for a comment that is not closed,  *)
(* "junk" for any other character. "end" is the terminating NUL, or one    *)
(* inside the file.                                                        *)
Strings == Plain \cup {"escaped", "unicode"}
Marks == {"{", "}", "[", "]", ",", ":"}
Gaps == {"gap", "torn"}
Words == {"null", "true"}
Lexemes == Marks \cup Words \cup Strings \cup Gaps
               \cup {"num", "bad", "open", "junk", "end"}

ASSUME PlainAssumption ==
    Plain \cap (Marks \cup Words \cup Gaps
                   \cup {"escaped", "unicode", "num", "bad", "open", "junk", "end"}) = {}

-----------------------------------------------------------------------------
(* ParseToken does not consume the token, but it does consume the gaps     *)
(* before it. `Token` is what it returns at the current lexeme.            *)
Known == pos < Len(doc)
Token ==
    LET lexeme == doc[pos + 1]
    IN  CASE lexeme \in Strings -> "string"
          [] lexeme = "num" -> IF IsNumber(text) THEN "number" ELSE "invalid"
          [] lexeme \in {"bad", "open", "junk"} -> "invalid"
          [] OTHER -> lexeme

(* ParseStringToken sets the code of an invalid escape itself.             *)
TokenError == IF doc[pos + 1] = "bad" THEN "INVALID_ESCAPE" ELSE error_code

Ready == result = <<"none">> /\ Known /\ doc[pos + 1] \notin Gaps

(* The \u case of DecodeString is commented out: it returns NULL.          *)
DecodeString(lexeme) == IF lexeme = "unicode" THEN <<"NULL">> ELSE <<"string", lexeme>>

(* JsonToValue, with either setting of its flag, and the first BuildValue. *)
Init ==
    /\ allow_trailing_comma \in BOOLEAN
    /\ doc = <<>> /\ pos = 0
    /\ text = <<>>
    /\ stack = <<>>
    /\ stack_depth = 1
    /\ pc = "value"
    /\ node = <<"NULL">>
    /\ error_code = "NO_ERROR"
    /\ result = <<"none">>

(* The next lexeme is looked at. A document of MaxLexemes lexemes, and one *)
(* with an open comment, ends.                                             *)
NextLexeme ==
    /\ result = <<"none">>
    /\ ~Known
    /\ \E x \in Lexemes :
          /\ (Len(doc) >= MaxLexemes \/ "torn" \in Range(doc)) => x = "end"
          /\ x \in Gaps => Len(SelectSeq(doc, LAMBDA y : y \in Gaps)) < MaxGaps
          /\ doc' = Append(doc, x)
          /\ text' \in IF x = "num" /\ text = <<>> THEN Texts ELSE {text}
    /\ UNCHANGED <<allow_trailing_comma, pos, stack, stack_depth, pc, node, error_code, result>>

EatWhitespaceAndComments ==
    /\ result = <<"none">>
    /\ Known
    /\ doc[pos + 1] \in Gaps
    /\ pos' = pos + 1
    /\ UNCHANGED <<allow_trailing_comma, doc, text, stack, stack_depth, pc, node, error_code, result>>

(* Mutant of Fail: JsonToValue does not fall back to SYNTAX_ERROR.         *)
FailUnnamed(code) ==
    /\ error_code' = code
    /\ result' = <<"NULL">>
    /\ stack' = <<>> /\ node' = <<"NULL">>
    /\ UNCHANGED <<allow_trailing_comma, doc, pos, text, stack_depth, pc>>

(* Every BuildValue on the stack returns NULL and its unique_ptr deletes   *)
(* the container; JsonToValue calls an error nobody named a syntax error.  *)
Fail(code) ==
    /\ error_code' = IF code = "NO_ERROR" THEN "SYNTAX_ERROR" ELSE code
    /\ result' = <<"NULL">>
    /\ stack' = <<>> /\ node' = <<"NULL">>
    /\ UNCHANGED <<allow_trailing_comma, doc, pos, text, stack_depth, pc>>

(* Mutant of Store: a member that is there is kept.                        *)
StoreKeepsFirst(frame, value) ==
    LET members == frame.value[2]
    IN  [frame EXCEPT !.value =
            IF frame.value[1] = "list" THEN <<"list", Append(members, value)>>
            ELSE <<"dict", [k \in DOMAIN members \cup {frame.key} |->
                              IF k \in DOMAIN members THEN members[k] ELSE value]>>]

(* Append, or SetWithoutPathExpansion, which replaces an earlier member of *)
(* the same name.                                                          *)
Store(frame, value) ==
    LET members == frame.value[2]
    IN  [frame EXCEPT !.value =
            IF frame.value[1] = "list" THEN <<"list", Append(members, value)>>
            ELSE <<"dict", [k \in DOMAIN members \cup {frame.key} |->
                              IF k = frame.key THEN value ELSE members[k]]>>]

(* The end of BuildValue: json_pos_ += token.length, --stack_depth_, and   *)
(* the caller, another BuildValue or JsonToValue, has the value.           *)
Return(value, callers) ==
    /\ pos' = pos + 1
    /\ stack_depth' = stack_depth - 1
    /\ node' = value
    /\ IF callers = <<>>
       THEN stack' = <<>> /\ pc' = "root"
       ELSE stack' = Append(Front(callers), Store(Last(callers), value)) /\ pc' = "after"
    /\ UNCHANGED <<allow_trailing_comma, doc, text, error_code, result>>

-----------------------------------------------------------------------------
(* BuildValue, from its start.                                             *)
(* Mutant of TooDeep: one level too many.                                  *)
TooDeepTooLate == stack_depth > StackLimit + 1
TooDeep == stack_depth > StackLimit

NestingError ==
    /\ result = <<"none">> /\ pc = "value"
    /\ TooDeep
    /\ Fail("TOO_MUCH_NESTING")

(* The root must be an array or an object.                                 *)
BadRoot ==
    /\ Ready /\ pc = "value" /\ ~TooDeep
    /\ stack = <<>>
    /\ Token \notin {"{", "["}
    /\ Fail("BAD_ROOT_ELEMENT_TYPE")

Scalar ==
    CASE Token = "string" -> DecodeString(doc[pos + 1])
      [] Token = "number" -> DecodeNumber(text)
      [] Token = "true" -> <<"boolean">>
      [] Token = "null" -> <<"null">>
      [] OTHER -> <<"NULL">>

BuildScalar ==
    /\ Ready /\ pc = "value" /\ ~TooDeep
    /\ stack # <<>>
    /\ Token \notin {"{", "["}
    /\ IF Scalar = <<"NULL">> THEN Fail(TokenError)
       ELSE Scalar # <<"thrown">> /\ Return(Scalar, stack)

(* The exception passes through JSONReader, which deletes what it built.   *)
StodOutOfRange ==
    /\ Ready /\ pc = "value" /\ ~TooDeep
    /\ stack # <<>>
    /\ Token = "number"
    /\ Scalar = <<"thrown">>
    /\ result' = <<"thrown">>
    /\ stack' = <<>> /\ node' = <<"NULL">>
    /\ UNCHANGED <<allow_trailing_comma, doc, pos, text, stack_depth, pc, error_code>>

Open ==
    /\ Ready /\ pc = "value" /\ ~TooDeep
    /\ Token \in {"{", "["}
    /\ pos' = pos + 1
    /\ stack' = Append(stack, [value |-> <<IF Token = "[" THEN "list" ELSE "dict", <<>>>>,
                               key |-> "none"])
    /\ pc' = "first"
    /\ UNCHANGED <<allow_trailing_comma, doc, text, stack_depth, node, error_code, result>>

-----------------------------------------------------------------------------
(* The loop over the members of the innermost container: pc is "first"     *)
(* after the opening mark, "after" after a member, "next" after a comma.   *)
Kind == Last(stack).value[1]
Closes == Token = IF Kind = "list" THEN "]" ELSE "}"

Close ==
    /\ Ready
    /\ \/ pc \in {"first", "after"}
       \/ pc = "next" /\ allow_trailing_comma
    /\ Closes
    /\ Return(Last(stack).value, Front(stack))

TrailingComma ==
    /\ Ready /\ pc = "next" /\ Closes
    /\ ~allow_trailing_comma
    /\ Fail("TRAILING_COMMA")

Element ==
    /\ Ready /\ pc \in {"first", "next"}
    /\ Kind = "list" /\ ~Closes
    /\ pc' = "value"
    /\ stack_depth' = stack_depth + 1
    /\ UNCHANGED <<allow_trailing_comma, doc, pos, text, stack, node, error_code, result>>

(* A key that is not a string token, one with an invalid escape included;  *)
(* a key that cannot be decoded.                                           *)
BadKey ==
    /\ Ready /\ pc \in {"first", "next"}
    /\ Kind = "dict" /\ ~Closes
    /\ \/ Token # "string" /\ Fail("UNQUOTED_DICTIONARY_KEY")
       \/ Token = "string" /\ DecodeString(doc[pos + 1]) = <<"NULL">> /\ Fail(error_code)

Key ==
    /\ Ready /\ pc \in {"first", "next"}
    /\ Kind = "dict"
    /\ Token = "string" /\ DecodeString(doc[pos + 1]) # <<"NULL">>
    /\ pos' = pos + 1
    /\ stack' = [stack EXCEPT ![Len(stack)].key = DecodeString(doc[pos + 1])[2]]
    /\ pc' = "colon"
    /\ UNCHANGED <<allow_trailing_comma, doc, text, stack_depth, node, error_code, result>>

Colon ==
    /\ Ready /\ pc = "colon"
    /\ IF Token # ":" THEN Fail(TokenError)
       ELSE /\ pos' = pos + 1
            /\ pc' = "value"
            /\ stack_depth' = stack_depth + 1
            /\ UNCHANGED <<allow_trailing_comma, doc, text, stack, node, error_code, result>>

Separator ==
    /\ Ready /\ pc = "after" /\ ~Closes
    /\ IF Token # "," THEN Fail(TokenError)
       ELSE /\ pos' = pos + 1
            /\ pc' = "next"
            /\ UNCHANGED <<allow_trailing_comma, doc, text, stack, stack_depth, node,
                           error_code, result>>

(* JsonToValue: nothing may follow the root.                               *)
Root ==
    /\ Ready /\ pc = "root"
    /\ IF Token = "end"
       THEN /\ result' = node
            /\ UNCHANGED <<allow_trailing_comma, doc, pos, text, stack, stack_depth, pc,
                           node, error_code>>
       ELSE Fail("UNEXPECTED_DATA_AFTER_ROOT")

Finished == result # <<"none">> /\ UNCHANGED vars

Next ==
    \/ NextLexeme \/ EatWhitespaceAndComments
    \/ NestingError \/ BadRoot \/ BuildScalar \/ StodOutOfRange \/ Open
    \/ Close \/ TrailingComma \/ Element \/ BadKey \/ Key \/ Colon \/ Separator
    \/ Root \/ Finished

Spec == Init /\ [][Next]_vars

-----------------------------------------------------------------------------
TypeOK ==
    /\ allow_trailing_comma \in BOOLEAN
    /\ doc \in Seq(Lexemes) /\ pos \in 0..Len(doc)
    /\ text \in Texts \cup {<<>>}
    /\ pc \in {"value", "first", "colon", "after", "next", "root"}
    /\ result = <<"none">> => stack_depth = Len(stack) + (IF pc = "value" THEN 1 ELSE 0)
    /\ stack_depth \in 0..StackLimit + 1

(* Every spelling of a number that JSON allows, and no other, is a number  *)
(* token, and it becomes an integer of exactly that amount if it is one    *)
(* that an int can hold, whatever the digits before the limit are          *)
(* (string_number_conversions.cc:244,260 compare with max/10 and min/10,   *)
(* which round towards zero). The conversions read no state: looking once, *)
(* before the first lexeme, is enough.                                     *)
NumbersReadRight ==
    doc = <<>> => \A s \in Spellings : ReadsRight(s)

Opening(n) == {i \in 1..n : doc[i] \in {"{", "["}}

(* What a code says of the document, whose last lexeme is the culprit.     *)
Explains(code) ==
    LET culprit == Last(doc)
        before == {i \in 1..Len(doc) - 1 : doc[i] \notin Gaps}
    IN  /\ code = "UNEXPECTED_DATA_AFTER_ROOT" => culprit # "end"
        /\ code = "TRAILING_COMMA" =>
              /\ ~allow_trailing_comma /\ culprit \in {"]", "}"}
              /\ \E i \in before : doc[i] = "," /\ \A j \in before : j <= i
        /\ code = "TOO_MUCH_NESTING" => Cardinality(Opening(Len(doc))) >= StackLimit
        /\ code = "INVALID_ESCAPE" => culprit = "bad"
        /\ code = "UNQUOTED_DICTIONARY_KEY" => culprit \notin Strings
        /\ code = "BAD_ROOT_ELEMENT_TYPE" => culprit \notin {"{", "["} /\ before = {}
        /\ code = "SYNTAX_ERROR" => culprit # "bad"

(* A rejected document always gets a code, and the code names the first    *)
(* thing that is wrong (json_reader.hh:131-133): the culprit is the lexeme *)
(* the reader looked at last. A key with an invalid escape is reported as  *)
(* an unquoted one.                                                        *)
ErrorsTellWhy ==
    /\ result = <<"NULL">> <=> error_code # "NO_ERROR"
    /\ Explains(error_code)
=============================================================================
