-------------------------- MODULE JsonReaderProofs --------------------------
(***************************************************************************)
(* JSONReader, for any kStackLimit, any range of an int and any document.  *)
(*                                                                         *)
(* The depth of the recursion. stack_depth_ is a counter that BuildValue   *)
(* increments on its way in and decrements on only one of its ways out;    *)
(* the theorem is that, as long as the reader is reading, it still counts  *)
(* the BuildValues in progress, and that it never passes the limit by more *)
(* than the one that finds out.                                            *)
(*                                                                         *)
(* Errors. The theorem is that a rejected document has a code and that the *)
(* code is true of the lexeme the reader stopped at.                       *)
(*                                                                         *)
(* Numbers. The conversion to an int goes digit by digit and compares with *)
(* quotients before it multiplies; the theorem is that it accepts what an  *)
(* int can hold, to the last digit of both limits, and that its amount is  *)
(* the sum by place value.                                                 *)
(***************************************************************************)
EXTENDS JsonReader, SequenceTheorems, FiniteSetTheorems, Induction

(* What the type invariant rests on: the containers form a sequence; the   *)
(* loop over members runs inside a container, JsonToValue outside all of   *)
(* them; only a BuildValue that has not looked at the limit may exceed it. *)
StackInv ==
    /\ stack \in Seq(Range(stack))
    /\ result = <<"none">> =>
          /\ pc \in {"first", "colon", "after", "next"} => stack # <<>>
          /\ pc = "root" => stack = <<>>
          /\ pc # "value" => stack_depth <= StackLimit

JsonInv == TypeOK /\ StackInv

-----------------------------------------------------------------------------
(* The sequences the parser builds are sequences.                          *)
LEMMA OwnRange ==
    ASSUME NEW S, NEW s \in Seq(S)
    PROVE  s \in Seq(Range(s))
BY DEF Range

LEMMA EmptyStack == <<>> \in Seq(Range(<<>>)) /\ Len(<<>>) = 0
BY DEF Range

LEMMA Pushed ==
    ASSUME NEW S, NEW s \in Seq(S), NEW x
    PROVE  /\ Append(s, x) \in Seq(Range(Append(s, x)))
           /\ Len(Append(s, x)) = Len(s) + 1
           /\ Append(s, x) # <<>>
<1>1. s \in Seq(S \cup {x})
  OBVIOUS
<1>2. Append(s, x) \in Seq(S \cup {x}) /\ Len(Append(s, x)) = Len(s) + 1
  BY <1>1
<1>3. Append(s, x) # <<>>
  BY <1>2, EmptyStack
<1> QED
  BY <1>2, <1>3, OwnRange

LEMMA FrontOf ==
    ASSUME NEW S, NEW s \in Seq(S), s # <<>>
    PROVE  /\ Front(s) \in Seq(S)
           /\ Len(Front(s)) = Len(s) - 1
           /\ Len(s) \in Nat \ {0}
<1> DEFINE m == Len(s) - 1
<1>1. Len(s) \in Nat \ {0}
  OBVIOUS
<1>2. m \in Nat /\ \A i \in 1..m : s[i] \in S
  BY <1>1
<1> HIDE DEF m
<1>3. SubSeq(s, 1, m) \in Seq(S) /\ Len(SubSeq(s, 1, m)) = IF 1 <= m THEN m - 1 + 1 ELSE 0
  BY <1>2, SubSeqProperties
<1>4. Len(SubSeq(s, 1, m)) = m
  BY <1>2, <1>3
<1> QED
  BY <1>1, <1>3, <1>4 DEF Front, m

LEMMA Replaced ==
    ASSUME NEW S, NEW s \in Seq(S), s # <<>>, NEW x
    PROVE  /\ [s EXCEPT ![Len(s)] = x] \in Seq(Range([s EXCEPT ![Len(s)] = x]))
           /\ Len([s EXCEPT ![Len(s)] = x]) = Len(s)
           /\ [s EXCEPT ![Len(s)] = x] # <<>>
<1> DEFINE t == [s EXCEPT ![Len(s)] = x]
<1>1. Len(s) \in Nat \ {0}
  OBVIOUS
<1>2. t \in Seq(S \cup {x}) /\ Len(t) = Len(s)
  BY <1>1
<1>3. t # <<>>
  BY <1>1, <1>2, EmptyStack
<1>4. t \in Seq(Range(t))
  BY <1>2, OwnRange
<1> QED
  BY <1>2, <1>3, <1>4

-----------------------------------------------------------------------------
(* A step that leaves the containers alone.                                *)
LEMMA SameStack ==
    ASSUME JsonInv, UNCHANGED <<stack, allow_trailing_comma>>,
           doc' \in Seq(Lexemes), pos' \in 0..Len(doc'), text' \in Texts \cup {<<>>},
           pc' \in {"value", "first", "colon", "after", "next", "root"},
           result = <<"none">>,
           \/ pc' = pc /\ stack_depth' = stack_depth
           \/ pc \in {"first", "colon", "after", "next"} /\ pc' = "value"
              /\ stack_depth' = stack_depth + 1
           \/ pc = "after" /\ pc' = "next" /\ stack_depth' = stack_depth
    PROVE  JsonInv'
<1> USE LimitAssumption
<1>1. Len(stack) \in Nat
  BY DEF JsonInv, StackInv
<1>2. stack_depth = Len(stack) + (IF pc = "value" THEN 1 ELSE 0)
  BY DEF JsonInv, TypeOK
<1>3. stack_depth' = Len(stack) + (IF pc' = "value" THEN 1 ELSE 0)
  BY <1>1, <1>2
<1>4. stack_depth' \in 0..StackLimit + 1
  BY <1>1 DEF JsonInv, TypeOK, StackInv
<1>5. TypeOK'
  BY <1>3, <1>4 DEF JsonInv, TypeOK
<1>6. StackInv'
  BY DEF JsonInv, TypeOK, StackInv
<1> QED
  BY <1>5, <1>6 DEF JsonInv

(* When the reader gives up, the containers are gone, and the counter      *)
(* stays where it was.                                                     *)
LEMMA GivesUp ==
    ASSUME JsonInv, result' # <<"none">>, stack' = <<>>,
           UNCHANGED <<allow_trailing_comma, doc, pos, text, stack_depth, pc>>
    PROVE  JsonInv'
BY EmptyStack DEF JsonInv, TypeOK, StackInv

LEMMA FailStep ==
    ASSUME JsonInv, NEW code, Fail(code)
    PROVE  JsonInv'
BY GivesUp DEF Fail

(* A BuildValue returns: to the one that holds `callers`, or to JsonToValue. *)
LEMMA ReturnStep ==
    ASSUME JsonInv, NEW value, NEW callers, Return(value, callers),
           result = <<"none">>, pos < Len(doc),
           callers \in Seq(Range(stack)),
           stack_depth = Len(callers) + 1,
           stack_depth <= StackLimit
    PROVE  JsonInv'
<1> USE LimitAssumption
<1>1. Len(callers) \in Nat
  OBVIOUS
<1>2. doc' = doc /\ pos' \in 0..Len(doc')
  BY DEF JsonInv, TypeOK, Return
<1>3. CASE callers = <<>>
  <2>1. stack' = <<>> /\ pc' = "root" /\ stack_depth' = 0
    BY <1>3, EmptyStack DEF Return, JsonInv, TypeOK
  <2>2. TypeOK'
    BY <2>1, <1>2, EmptyStack DEF JsonInv, TypeOK, Return
  <2>3. StackInv'
    BY <2>1, EmptyStack DEF StackInv
  <2> QED
    BY <2>2, <2>3 DEF JsonInv
<1>4. CASE callers # <<>>
  <2> DEFINE frame == Store(Last(callers), value)
  <2>1. stack' = Append(Front(callers), frame) /\ pc' = "after" /\ stack_depth' = stack_depth - 1
    BY <1>4 DEF Return
  <2> HIDE DEF frame
  <2>2. Front(callers) \in Seq(Range(stack)) /\ Len(Front(callers)) = Len(callers) - 1
    BY <1>4, FrontOf
  <2>3. /\ stack' \in Seq(Range(stack')) /\ stack' # <<>>
        /\ Len(stack') = Len(Front(callers)) + 1
    BY <2>1, <2>2, Pushed
  <2>4. stack_depth' = Len(stack')
    BY <1>1, <2>1, <2>2, <2>3
  <2>5. stack_depth' \in 0..StackLimit
    BY <1>1, <2>1
  <2>6. TypeOK'
    BY <1>2, <2>1, <2>4, <2>5 DEF JsonInv, TypeOK, Return
  <2>7. StackInv'
    BY <2>1, <2>3, <2>5 DEF StackInv
  <2> QED
    BY <2>6, <2>7 DEF JsonInv
<1> QED
  BY <1>3, <1>4

LEMMA OpenStep ==
    ASSUME JsonInv, Open
    PROVE  JsonInv'
<1> USE LimitAssumption
<1> DEFINE frame == [value |-> <<IF Token = "[" THEN "list" ELSE "dict", <<>>>>, key |-> "none"]
<1>1. stack' = Append(stack, frame) /\ pc' = "first" /\ stack_depth' = stack_depth
  BY DEF Open
<1>2. result = <<"none">> /\ pc = "value" /\ ~(stack_depth > StackLimit) /\ pos < Len(doc)
  BY DEF Open, Ready, Known, TooDeep
<1>3. UNCHANGED <<allow_trailing_comma, doc, text, result>> /\ pos' = pos + 1
  BY DEF Open
<1> HIDE DEF frame
<1>4. stack \in Seq(Range(stack)) /\ pos \in 0..Len(doc) /\ Len(doc) \in Nat
  BY DEF JsonInv, TypeOK, StackInv
<1>5. stack_depth = Len(stack) + 1 /\ stack_depth \in 0..StackLimit + 1
  BY <1>2 DEF JsonInv, TypeOK
<1>6. stack' \in Seq(Range(stack')) /\ Len(stack') = Len(stack) + 1 /\ stack' # <<>>
  BY <1>1, <1>4, Pushed
<1>7. stack_depth' = Len(stack') /\ stack_depth' \in 0..StackLimit
  BY <1>1, <1>2, <1>5, <1>6
<1>8. pos' \in 0..Len(doc)
  BY <1>2, <1>3, <1>4
<1>9. TypeOK'
  BY <1>1, <1>3, <1>7, <1>8 DEF JsonInv, TypeOK
<1>10. StackInv'
  BY <1>1, <1>6, <1>7 DEF StackInv
<1> QED
  BY <1>9, <1>10 DEF JsonInv

LEMMA KeyStep ==
    ASSUME JsonInv, Key
    PROVE  JsonInv'
<1> USE LimitAssumption
<1> DEFINE frame == [stack[Len(stack)] EXCEPT !.key = DecodeString(doc[pos + 1])[2]]
<1>1. /\ stack' = [stack EXCEPT ![Len(stack)] = frame]
      /\ pc' = "colon" /\ stack_depth' = stack_depth
  BY DEF Key
<1> HIDE DEF frame
<1>2. stack # <<>> /\ stack \in Seq(Range(stack)) /\ stack_depth <= StackLimit
  BY DEF JsonInv, StackInv, Key, Ready
<1>3. stack' \in Seq(Range(stack')) /\ Len(stack') = Len(stack) /\ stack' # <<>>
  BY <1>1, <1>2, Replaced
<1>4. pos' \in 0..Len(doc)
  BY DEF JsonInv, TypeOK, Key, Ready, Known
<1>5. stack_depth = Len(stack)
  BY <1>2 DEF JsonInv, TypeOK, StackInv, Key, Ready
<1>6. TypeOK'
  BY <1>1, <1>3, <1>4, <1>5 DEF JsonInv, TypeOK, Key
<1>7. StackInv'
  BY <1>1, <1>2, <1>3 DEF StackInv
<1> QED
  BY <1>6, <1>7 DEF JsonInv

LEMMA CloseStep ==
    ASSUME JsonInv, Close
    PROVE  JsonInv'
<1> USE LimitAssumption
<1> DEFINE value == Last(stack).value
           callers == Front(stack)
<1>1. Return(value, callers) /\ result = <<"none">> /\ pos < Len(doc)
  BY DEF Close, Ready, Known
<1> HIDE DEF value, callers
<1>2. stack # <<>> /\ stack \in Seq(Range(stack)) /\ stack_depth <= StackLimit
  BY DEF JsonInv, StackInv, Close, Ready
<1>3. stack_depth = Len(stack)
  BY <1>2 DEF JsonInv, TypeOK, StackInv, Close, Ready
<1>4. callers \in Seq(Range(stack)) /\ Len(callers) = Len(stack) - 1 /\ Len(stack) \in Nat
  BY <1>2, FrontOf DEF callers
<1>5. stack_depth = Len(callers) + 1
  BY <1>3, <1>4
<1> QED
  BY <1>1, <1>2, <1>4, <1>5, ReturnStep

LEMMA BuildScalarStep ==
    ASSUME JsonInv, BuildScalar
    PROVE  JsonInv'
<1> USE LimitAssumption
<1> DEFINE value == Scalar
<1>1. CASE value = <<"NULL">>
  BY <1>1, FailStep DEF BuildScalar
<1>2. CASE value # <<"NULL">>
  <2>1. Return(value, stack) /\ result = <<"none">> /\ pos < Len(doc)
    BY <1>2 DEF BuildScalar, Ready, Known
  <2> HIDE DEF value
  <2>2. pc = "value" /\ ~(stack_depth > StackLimit)
    BY DEF BuildScalar, TooDeep
  <2>3. /\ stack \in Seq(Range(stack)) /\ stack_depth = Len(stack) + 1
        /\ stack_depth \in 0..StackLimit + 1
    BY <2>1, <2>2 DEF JsonInv, TypeOK, StackInv
  <2>4. stack_depth <= StackLimit
    BY <2>2, <2>3
  <2> QED
    BY <2>1, <2>3, <2>4, ReturnStep
<1> QED
  BY <1>1, <1>2

-----------------------------------------------------------------------------
LEMMA JsonInit == Init => JsonInv
<1> SUFFICES ASSUME Init PROVE JsonInv
  OBVIOUS
<1>1. TypeOK
  BY LimitAssumption, EmptyStack DEF Init, TypeOK
<1>2. StackInv
  BY EmptyStack DEF Init, StackInv
<1> QED
  BY <1>1, <1>2 DEF JsonInv

LEMMA JsonStep == JsonInv /\ [Next]_vars => JsonInv'
<1> SUFFICES ASSUME JsonInv, [Next]_vars PROVE JsonInv'
  OBVIOUS
<1> USE LimitAssumption
<1>1. CASE NextLexeme
  <2>1. PICK x \in Lexemes : /\ doc' = Append(doc, x)
                             /\ text' \in IF x = "num" /\ text = <<>> THEN Texts ELSE {text}
    BY <1>1 DEF NextLexeme
  <2>2. doc \in Seq(Lexemes) /\ Len(doc) \in Nat /\ pos \in 0..Len(doc) /\ text \in Texts \cup {<<>>}
    BY DEF JsonInv, TypeOK
  <2>3. doc' \in Seq(Lexemes) /\ Len(doc') = Len(doc) + 1
    BY <2>1, <2>2
  <2>4. pos' \in 0..Len(doc') /\ text' \in Texts \cup {<<>>}
    BY <1>1, <2>1, <2>2, <2>3 DEF NextLexeme
  <2> QED
    BY <1>1, <2>3, <2>4, SameStack DEF NextLexeme, JsonInv, TypeOK
<1>2. CASE EatWhitespaceAndComments
  BY <1>2, SameStack DEF EatWhitespaceAndComments, Known, JsonInv, TypeOK
<1>3. CASE NestingError
  BY <1>3, FailStep DEF NestingError
<1>4. CASE BadRoot
  BY <1>4, FailStep DEF BadRoot
<1>5. CASE BuildScalar
  BY <1>5, BuildScalarStep
<1>6. CASE StodOutOfRange
  BY <1>6, GivesUp DEF StodOutOfRange
<1>7. CASE Open
  BY <1>7, OpenStep
<1>8. CASE Close
  BY <1>8, CloseStep
<1>9. CASE TrailingComma
  BY <1>9, FailStep DEF TrailingComma
<1>10. CASE Element
  BY <1>10, SameStack DEF Element, Ready, JsonInv, TypeOK
<1>11. CASE BadKey
  BY <1>11, FailStep DEF BadKey
<1>12. CASE Key
  BY <1>12, KeyStep
<1>13. CASE Colon
  <2>1. CASE Token # ":"
    BY <1>13, <2>1, FailStep DEF Colon
  <2>2. CASE Token = ":"
    BY <1>13, <2>2, SameStack DEF Colon, Ready, Known, JsonInv, TypeOK
  <2> QED
    BY <2>1, <2>2
<1>14. CASE Separator
  <2>1. CASE Token # ","
    BY <1>14, <2>1, FailStep DEF Separator
  <2>2. CASE Token = ","
    <3>1. /\ UNCHANGED <<allow_trailing_comma, doc, text, stack, stack_depth>>
          /\ pc = "after" /\ pc' = "next" /\ pos' = pos + 1
          /\ result = <<"none">> /\ pos < Len(doc)
      BY <1>14, <2>2 DEF Separator, Ready, Known
    <3>2. /\ doc' \in Seq(Lexemes) /\ pos' \in 0..Len(doc') /\ text' \in Texts \cup {<<>>}
          /\ pc' \in {"value", "first", "colon", "after", "next", "root"}
      BY <3>1 DEF JsonInv, TypeOK
    <3> QED
      BY <3>1, <3>2, SameStack
  <2> QED
    BY <2>1, <2>2
<1>15. CASE Root
  <2>1. CASE Token # "end"
    BY <1>15, <2>1, FailStep DEF Root
  <2>2. CASE Token = "end"
    BY <1>15, <2>2 DEF Root, Ready, JsonInv, TypeOK, StackInv
  <2> QED
    BY <2>1, <2>2
<1>16. CASE Finished \/ UNCHANGED vars
  BY <1>16 DEF Finished, vars, JsonInv, TypeOK, StackInv
<1> QED
  BY <1>1, <1>2, <1>3, <1>4, <1>5, <1>6, <1>7, <1>8, <1>9, <1>10, <1>11, <1>12,
     <1>13, <1>14, <1>15, <1>16 DEF Next

(* The depth counted is the depth of the recursion, and the recursion is   *)
(* at most one call deeper than kStackLimit: BuildValue at json_reader.cc  *)
(* lines 198 to 344, whose error paths leave the counter as it is.         *)
THEOREM DepthBounded == Spec => []TypeOK
<1>1. JsonInv => TypeOK
  BY DEF JsonInv
<1> QED
  BY <1>1, JsonInit, JsonStep, PTL DEF Spec

-----------------------------------------------------------------------------
(* Errors. What ErrorsTellWhy rests on, as long as the reader is reading:  *)
(* it looks one lexeme ahead; what it has passed over before a root is     *)
(* gaps, after a comma too; every container was opened; and what becomes   *)
(* the root is a container.                                                *)
IsContainer(frame) == "value" \in DOMAIN frame /\ frame.value[1] \in {"list", "dict"}

AfterComma == \E i \in 1..pos : doc[i] = "," /\ \A j \in i + 1..pos : doc[j] \in Gaps

Reading ==
    /\ error_code = "NO_ERROR"
    /\ Len(doc) <= pos + 1
    /\ pc = "next" => AfterComma
    /\ pc = "value" /\ stack = <<>> => \A i \in 1..pos : doc[i] \in Gaps
    /\ Len(stack) <= Cardinality(Opening(pos))
    /\ \A i \in 1..Len(stack) : IsContainer(stack[i])
    /\ pc = "root" => node[1] \in {"list", "dict"}

WhyInv == ErrorsTellWhy /\ (result = <<"none">> => Reading)

LEMMA Opened ==
    ASSUME JsonInv, NEW n \in 0..Len(doc)
    PROVE  /\ Cardinality(Opening(n)) \in Nat
           /\ \A m \in 0..n : Cardinality(Opening(m)) <= Cardinality(Opening(n))
           /\ \A m \in 0..n : m < n /\ doc[n] \in {"{", "["} =>
                 Cardinality(Opening(m)) + 1 <= Cardinality(Opening(n))
<1>1. n \in Nat
  BY DEF JsonInv, TypeOK
<1>2. IsFiniteSet(1..n)
  BY <1>1, FS_Interval
<1>3. IsFiniteSet(Opening(n))
  BY <1>2, FS_Subset DEF Opening
<1>4. ASSUME NEW m \in 0..n
      PROVE  /\ IsFiniteSet(Opening(m)) /\ Cardinality(Opening(m)) <= Cardinality(Opening(n))
             /\ Cardinality(Opening(m)) \in Nat
  <2>1. Opening(m) \subseteq Opening(n)
    <3>1. 1..m \subseteq 1..n
      BY <1>1
    <3> QED BY <3>1 DEF Opening
  <2> QED BY <1>3, <2>1, FS_Subset, FS_CardinalityType
<1>5. ASSUME NEW m \in 0..n, m < n, doc[n] \in {"{", "["}
      PROVE  Cardinality(Opening(m)) + 1 <= Cardinality(Opening(n))
  <2>1. n \notin Opening(m) /\ Opening(m) \cup {n} \subseteq Opening(n)
    <3>1. 1..m \subseteq 1..n /\ n \in 1..n /\ n \notin 1..m
      <4>1. m \in 0..n /\ m < n
        BY <1>5
      <4>2. m \in Nat
        BY <1>1
      <4> QED BY <1>1, <4>1, <4>2
    <3> QED BY <1>5, <3>1 DEF Opening
  <2>2. Cardinality(Opening(m) \cup {n}) = Cardinality(Opening(m)) + 1
    BY <1>4, <2>1, FS_AddElement
  <2>3. Cardinality(Opening(m) \cup {n}) <= Cardinality(Opening(n))
    BY <1>3, <2>1, FS_Subset
  <2> QED BY <2>2, <2>3
<1> QED BY <1>3, <1>4, <1>5, FS_CardinalityType

(* The lexeme looked at is the last of the document, and the token tells   *)
(* what it is.                                                             *)
LEMMA Culprit ==
    ASSUME JsonInv, Reading, Ready
    PROVE  /\ result = <<"none">> /\ pos \in Nat /\ Len(doc) = pos + 1 /\ Last(doc) = doc[pos + 1]
           /\ doc[pos + 1] \in Lexemes /\ doc[pos + 1] \notin Gaps
<1>1. doc \in Seq(Lexemes) /\ pos \in 0..Len(doc) /\ Len(doc) \in Nat
  BY DEF JsonInv, TypeOK
<1>2. result = <<"none">> /\ pos < Len(doc) /\ doc[pos + 1] \notin Gaps
  BY DEF Ready, Known
<1>3. Len(doc) = pos + 1
  BY <1>1, <1>2 DEF Reading
<1> QED BY <1>1, <1>2, <1>3 DEF Last

LEMMA TokenTells ==
    ASSUME doc[pos + 1] \in Lexemes
    PROVE  /\ Token = "string" <=> doc[pos + 1] \in Strings
           /\ \A mark \in Marks \cup {"end"} : Token = mark <=> doc[pos + 1] = mark
<1>1. CASE doc[pos + 1] \in Strings
  BY <1>1, PlainAssumption DEF Token, Strings, Marks
<1>2. CASE doc[pos + 1] = "num"
  BY <1>2, PlainAssumption DEF Token, Strings, Marks
<1>3. CASE doc[pos + 1] \notin Strings /\ doc[pos + 1] # "num"
  BY <1>3 DEF Token, Lexemes, Marks, Words, Gaps
<1> QED BY <1>1, <1>2, <1>3

(* A reader that gives up with a code that explains why.                   *)
LEMMA Explained ==
    ASSUME JsonInv, WhyInv, NEW code, Fail(code),
           Explains(IF code = "NO_ERROR" THEN "SYNTAX_ERROR" ELSE code)
    PROVE  WhyInv'
<1> DEFINE final == IF code = "NO_ERROR" THEN "SYNTAX_ERROR" ELSE code
<1>1. /\ error_code' = final /\ result' = <<"NULL">>
      /\ UNCHANGED <<allow_trailing_comma, doc>>
  BY DEF Fail
<1>2. final # "NO_ERROR"
  OBVIOUS
<1> HIDE DEF final
<1>3. Explains(final)
  BY DEF final
<1>4. Explains(error_code)'
  BY <1>1, <1>3 DEF Explains, Opening
<1> QED
  BY <1>1, <1>2, <1>4 DEF WhyInv, ErrorsTellWhy

(* A step of a reader that goes on reading.                                *)
LEMMA ReadsOn ==
    ASSUME JsonInv, result' = <<"none">>, Reading'
    PROVE  WhyInv'
BY DEF WhyInv, ErrorsTellWhy, Reading, Explains

(* A step that consumes a lexeme or none, and opens nothing.               *)
LEMMA OpenedSoFar ==
    ASSUME JsonInv, UNCHANGED doc, pos' \in {pos, pos + 1}, pos' \in 0..Len(doc)
    PROVE  /\ Cardinality(Opening(pos)) \in Nat /\ Cardinality(Opening(pos)') \in Nat
           /\ Cardinality(Opening(pos)) <= Cardinality(Opening(pos)')
           /\ pos' = pos + 1 /\ doc[pos + 1] \in {"{", "["} =>
                 Cardinality(Opening(pos)) + 1 <= Cardinality(Opening(pos)')
<1>1. pos \in Nat /\ pos' \in Nat /\ pos \in 0..Len(doc)
  BY DEF JsonInv, TypeOK
<1>2. Opening(pos)' = Opening(pos')
  BY DEF Opening
<1>3. pos \in 0..pos' /\ pos' \in 0..Len(doc)
  BY <1>1
<1> DEFINE n == pos'
<1>4. n \in 0..Len(doc) /\ pos \in 0..n
  BY <1>3
<1> HIDE DEF n
<1>5. /\ Cardinality(Opening(n)) \in Nat
      /\ Cardinality(Opening(pos)) <= Cardinality(Opening(n))
      /\ pos < n /\ doc[n] \in {"{", "["} => Cardinality(Opening(pos)) + 1 <= Cardinality(Opening(n))
  BY <1>4, Opened
<1>6. Cardinality(Opening(pos)) \in Nat
  BY <1>1, Opened
<1>7. pos' = pos + 1 => pos < pos'
  BY <1>1
<1> QED
  BY <1>2, <1>5, <1>6, <1>7 DEF n

LEMMA LastFrame ==
    ASSUME NEW S, NEW s \in Seq(S), s # <<>>
    PROVE  /\ Last(s) = s[Len(s)] /\ Len(s) \in 1..Len(s)
           /\ \A i \in 1..Len(Front(s)) : i \in 1..Len(s) /\ Front(s)[i] = s[i]
<1>1. Len(s) \in Nat \ {0}
  OBVIOUS
<1>2. Len(Front(s)) = Len(s) - 1
  BY FrontOf
<1> QED BY <1>1, <1>2 DEF Last, Front

LEMMA StoredIsContainer ==
    ASSUME NEW frame, NEW value, IsContainer(frame)
    PROVE  IsContainer(Store(frame, value))
BY DEF IsContainer, Store

LEMMA ReturnExplained ==
    ASSUME JsonInv, WhyInv, result = <<"none">>, pos < Len(doc),
           NEW value, NEW callers, Return(value, callers),
           callers \in Seq(Range(stack)), Len(callers) <= Len(stack),
           \A i \in 1..Len(callers) : IsContainer(callers[i]),
           callers = <<>> => value[1] \in {"list", "dict"}
    PROVE  WhyInv'
<1>1. pos \in Nat /\ Len(doc) \in Nat /\ Len(stack) \in Nat /\ Len(callers) \in Nat
  BY DEF JsonInv, TypeOK, StackInv
<1>2. /\ UNCHANGED <<doc, error_code, result>> /\ pos' = pos + 1 /\ pos' \in 0..Len(doc)
      /\ node' = value /\ pc' \in {"root", "after"}
  BY <1>1 DEF Return
<1>3. Reading
  BY DEF WhyInv
<1>4. Cardinality(Opening(pos)') \in Nat /\ Len(stack) <= Cardinality(Opening(pos)')
  <2>1. Cardinality(Opening(pos)) \in Nat /\ Cardinality(Opening(pos)') \in Nat
        /\ Cardinality(Opening(pos)) <= Cardinality(Opening(pos)')
    BY <1>2, OpenedSoFar
  <2>2. Len(stack) <= Cardinality(Opening(pos))
    BY <1>3 DEF Reading
  <2> QED BY <1>1, <2>1, <2>2
<1>5. /\ Len(stack') <= Len(stack) /\ \A i \in 1..Len(stack') : IsContainer(stack'[i])
      /\ pc' = "root" => callers = <<>>
  <2>1. CASE callers = <<>>
    BY <1>1, <2>1, EmptyStack DEF Return
  <2>2. CASE callers # <<>>
    <3> DEFINE frame == Store(Last(callers), value)
    <3>1. stack' = Append(Front(callers), frame) /\ pc' = "after"
      BY <2>2 DEF Return
    <3>2. IsContainer(frame)
      BY <2>2, LastFrame, StoredIsContainer
    <3> HIDE DEF frame
    <3>3. Front(callers) \in Seq(Range(stack)) /\ Len(Front(callers)) = Len(callers) - 1
      BY <2>2, FrontOf
    <3>4. \A i \in 1..Len(Front(callers)) : IsContainer(Front(callers)[i])
      BY <2>2, LastFrame
    <3>5. Len(stack') = Len(Front(callers)) + 1 /\ Len(stack') = Len(callers)
      BY <1>1, <3>1, <3>3, Pushed
    <3>6. \A i \in 1..Len(Front(callers)) + 1 :
             stack'[i] = IF i <= Len(Front(callers)) THEN Front(callers)[i] ELSE frame
      BY <3>1, <3>3
    <3> QED BY <1>1, <3>1, <3>2, <3>3, <3>4, <3>5, <3>6
  <2> QED BY <2>1, <2>2
<1>6. Reading'
  <2>1. error_code' = "NO_ERROR" /\ Len(doc') <= pos' + 1
    BY <1>1, <1>2, <1>3 DEF Reading
  <2>2. Len(stack') <= Cardinality(Opening(pos)')
    <3>1. Len(stack') \in Nat \/ Len(stack') = 0
      <4>1. JsonInv => stack \in Seq(Range(stack))
        BY DEF JsonInv, StackInv
      <4> QED
        BY <1>1, <1>5, EmptyStack, FrontOf, Pushed DEF Return
    <3> QED BY <1>1, <1>4, <1>5, <3>1
  <2> QED
    BY <1>2, <1>5, <2>1, <2>2 DEF Reading
<1> QED
  BY <1>2, <1>6, ReadsOn

LEMMA ContainersKept ==
    ASSUME JsonInv, WhyInv, result = <<"none">>,
           UNCHANGED <<doc, stack, node, error_code, result>>,
           pos' \in {pos, pos + 1}, pos' \in 0..Len(doc),
           pc' = "next" => AfterComma',
           pc' = "value" /\ stack = <<>> => \A i \in 1..pos' : doc[i] \in Gaps,
           pc' = "root" => pc = "root"
    PROVE  WhyInv'
<1>1. pos \in Nat /\ Len(doc) \in Nat /\ Len(stack) \in Nat
  BY DEF JsonInv, TypeOK, StackInv
<1>2. Reading
  BY DEF WhyInv
<1>3. /\ Cardinality(Opening(pos)) \in Nat /\ Cardinality(Opening(pos)') \in Nat
      /\ Cardinality(Opening(pos)) <= Cardinality(Opening(pos)')
  BY OpenedSoFar
<1>4. Len(stack) <= Cardinality(Opening(pos)')
  BY <1>1, <1>2, <1>3 DEF Reading
<1>5. Len(doc) <= pos' + 1
  BY <1>1, <1>2 DEF Reading
<1>6. Reading'
  BY <1>2, <1>4, <1>5 DEF Reading
<1> QED
  BY <1>6, ReadsOn

LEMMA NextLexemeExplained ==
    ASSUME JsonInv, WhyInv, NextLexeme
    PROVE  WhyInv'
<1>1. PICK x \in Lexemes : doc' = Append(doc, x)
  BY DEF NextLexeme
<1>2. UNCHANGED <<pos, stack, pc, node, error_code, result>> /\ result = <<"none">> /\ ~(pos < Len(doc))
  BY DEF NextLexeme, Known
<1>3. doc \in Seq(Lexemes) /\ pos \in 0..Len(doc) /\ Len(doc) \in Nat
  BY DEF JsonInv, TypeOK
<1>4. pos = Len(doc) /\ Len(doc') = pos + 1 /\ \A i \in 1..pos : doc'[i] = doc[i]
  BY <1>1, <1>2, <1>3
<1>5. Reading
  BY <1>2 DEF WhyInv
<1>6. Opening(pos)' = Opening(pos)
  BY <1>2, <1>4 DEF Opening
<1>7. pc = "next" => AfterComma'
  <2>1. SUFFICES ASSUME pc = "next" PROVE AfterComma'
    OBVIOUS
  <2>2. PICK i \in 1..pos : doc[i] = "," /\ \A j \in i + 1..pos : doc[j] \in Gaps
    BY <1>5, <2>1 DEF Reading, AfterComma
  <2>3. \A j \in i + 1..pos : j \in 1..pos
    BY <1>3
  <2>4. doc'[i] = "," /\ \A j \in i + 1..pos : doc'[j] \in Gaps
    BY <1>4, <2>2, <2>3
  <2> QED BY <1>2, <2>4 DEF AfterComma
<1>8. Reading'
  BY <1>2, <1>3, <1>4, <1>5, <1>6, <1>7 DEF Reading
<1> QED
  BY <1>2, <1>8, ReadsOn

LEMMA GapExplained ==
    ASSUME JsonInv, WhyInv, EatWhitespaceAndComments
    PROVE  WhyInv'
<1>1. /\ UNCHANGED <<doc, stack, pc, node, error_code, result>> /\ result = <<"none">>
      /\ pos < Len(doc) /\ doc[pos + 1] \in Gaps /\ pos' = pos + 1
  BY DEF EatWhitespaceAndComments, Known
<1>2. pos \in Nat /\ Len(doc) \in Nat
  BY DEF JsonInv, TypeOK
<1>3. Reading
  BY <1>1 DEF WhyInv
<1>4. pos' \in 0..Len(doc)
  BY <1>1, <1>2
<1>5. pc = "next" => AfterComma'
  <2>1. SUFFICES ASSUME pc = "next" PROVE AfterComma'
    OBVIOUS
  <2>2. PICK i \in 1..pos : doc[i] = "," /\ \A j \in i + 1..pos : doc[j] \in Gaps
    BY <1>3, <2>1 DEF Reading, AfterComma
  <2>3. i \in 1..pos + 1 /\ \A j \in i + 1..pos + 1 : j \in i + 1..pos \/ j = pos + 1
    BY <1>2
  <2>4. doc[i] = "," /\ \A j \in i + 1..pos + 1 : doc[j] \in Gaps
    BY <1>1, <2>2, <2>3
  <2> QED BY <1>1, <2>3, <2>4 DEF AfterComma
<1>6. pc = "value" /\ stack = <<>> => \A i \in 1..pos' : doc[i] \in Gaps
  <2>1. \A i \in 1..pos + 1 : i \in 1..pos \/ i = pos + 1
    BY <1>2
  <2> QED BY <1>1, <1>3, <2>1 DEF Reading
<1> QED
  BY <1>1, <1>4, <1>5, <1>6, ContainersKept

LEMMA OpenExplained ==
    ASSUME JsonInv, WhyInv, Open
    PROVE  WhyInv'
<1> DEFINE frame == [value |-> <<IF Token = "[" THEN "list" ELSE "dict", <<>>>>, key |-> "none"]
<1>0. Ready /\ Token \in {"{", "["}
  BY DEF Open
<1>1. /\ stack' = Append(stack, frame) /\ pc' = "first"
      /\ pos' = pos + 1 /\ UNCHANGED <<doc, error_code, result>>
  BY DEF Open
<1>2. result = <<"none">> /\ pos < Len(doc)
  BY <1>0 DEF Ready, Known
<1>3. Reading
  BY <1>2 DEF WhyInv
<1>4. IsContainer(frame)
  BY DEF IsContainer
<1> HIDE DEF frame
<1>5. doc[pos + 1] \in Lexemes /\ pos \in Nat
  BY <1>0, <1>3, Culprit
<1>6. doc[pos + 1] \in {"{", "["}
  <2>1. {"{", "["} \subseteq Marks
    BY DEF Marks
  <2> QED BY <1>0, <1>5, <2>1, TokenTells
<1>7. stack \in Seq(Range(stack)) /\ Len(stack) \in Nat /\ Len(doc) \in Nat
  BY DEF JsonInv, TypeOK, StackInv
<1>8. pos' \in 0..Len(doc)
  BY <1>1, <1>2, <1>5, <1>7
<1>9. Len(stack') = Len(stack) + 1 /\ Len(stack') <= Cardinality(Opening(pos)')
  <2>1. Len(stack') = Len(stack) + 1
    BY <1>1, <1>7, Pushed
  <2>2. /\ Cardinality(Opening(pos)) \in Nat /\ Cardinality(Opening(pos)') \in Nat
        /\ Cardinality(Opening(pos)) + 1 <= Cardinality(Opening(pos)')
    BY <1>1, <1>6, <1>8, OpenedSoFar
  <2>3. Len(stack) <= Cardinality(Opening(pos))
    BY <1>3 DEF Reading
  <2> QED BY <1>7, <2>1, <2>2, <2>3
<1>10. \A i \in 1..Len(stack') : IsContainer(stack'[i])
  <2>1. \A i \in 1..Len(stack) + 1 : stack'[i] = IF i <= Len(stack) THEN stack[i] ELSE frame
    BY <1>1, <1>7
  <2>2. \A i \in 1..Len(stack) : IsContainer(stack[i])
    BY <1>3 DEF Reading
  <2> QED BY <1>4, <1>7, <1>9, <2>1, <2>2
<1>11. Len(doc') <= pos' + 1
  BY <1>1, <1>3, <1>5, <1>7 DEF Reading
<1>12. Reading'
  BY <1>1, <1>3, <1>9, <1>10, <1>11 DEF Reading
<1> QED
  BY <1>1, <1>2, <1>12, ReadsOn

LEMMA KeyExplained ==
    ASSUME JsonInv, WhyInv, Key
    PROVE  WhyInv'
<1> DEFINE frame == [stack[Len(stack)] EXCEPT !.key = DecodeString(doc[pos + 1])[2]]
<1>1. /\ Ready /\ stack' = [stack EXCEPT ![Len(stack)] = frame] /\ pc' = "colon"
      /\ pos' = pos + 1 /\ UNCHANGED <<doc, error_code, result>> /\ pc \in {"first", "next"}
  BY DEF Key
<1>2. result = <<"none">> /\ pos < Len(doc)
  BY <1>1 DEF Ready, Known
<1>3. Reading
  BY <1>2 DEF WhyInv
<1>4. stack \in Seq(Range(stack)) /\ stack # <<>> /\ Len(doc) \in Nat /\ pos \in Nat
  BY <1>1, <1>2 DEF JsonInv, TypeOK, StackInv
<1>5. Len(stack) \in 1..Len(stack) /\ Len(stack) \in Nat
  BY <1>4, LastFrame
<1>6. IsContainer(stack[Len(stack)])
  BY <1>3, <1>5 DEF Reading
<1>7. IsContainer(frame)
  BY <1>6 DEF IsContainer
<1> HIDE DEF frame
<1>8. Len(stack') = Len(stack)
  BY <1>1, <1>4, Replaced
<1>9. \A i \in 1..Len(stack) : stack'[i] = IF i = Len(stack) THEN frame ELSE stack[i]
  BY <1>1, <1>4
<1>10. \A i \in 1..Len(stack') : IsContainer(stack'[i])
  BY <1>3, <1>7, <1>8, <1>9 DEF Reading
<1>11. pos' \in 0..Len(doc) /\ Len(doc') <= pos' + 1
  BY <1>1, <1>2, <1>3, <1>4 DEF Reading
<1>12. Len(stack') <= Cardinality(Opening(pos)')
  <2>1. /\ Cardinality(Opening(pos)) \in Nat /\ Cardinality(Opening(pos)') \in Nat
        /\ Cardinality(Opening(pos)) <= Cardinality(Opening(pos)')
    BY <1>1, <1>11, OpenedSoFar
  <2>2. Len(stack) <= Cardinality(Opening(pos))
    BY <1>3 DEF Reading
  <2> QED BY <1>5, <1>8, <2>1, <2>2
<1>13. Reading'
  BY <1>1, <1>3, <1>10, <1>11, <1>12 DEF Reading
<1> QED
  BY <1>1, <1>2, <1>13, ReadsOn

LEMMA CloseExplained ==
    ASSUME JsonInv, WhyInv, Close
    PROVE  WhyInv'
<1> DEFINE value == Last(stack).value
           callers == Front(stack)
<1>1. Return(value, callers) /\ result = <<"none">> /\ pos < Len(doc)
  BY DEF Close, Ready, Known
<1>2. Reading
  BY <1>1 DEF WhyInv
<1>3. stack # <<>> /\ stack \in Seq(Range(stack)) /\ Len(stack) \in Nat
  BY <1>1 DEF JsonInv, StackInv, Close
<1>4. callers \in Seq(Range(stack)) /\ Len(callers) = Len(stack) - 1
  BY <1>3, FrontOf
<1>5. \A i \in 1..Len(callers) : IsContainer(callers[i])
  BY <1>2, <1>3, LastFrame DEF Reading
<1>6. value[1] \in {"list", "dict"}
  BY <1>2, <1>3, LastFrame DEF Reading, IsContainer
<1> HIDE DEF value, callers
<1>7. Len(callers) <= Len(stack)
  BY <1>3, <1>4
<1> QED
  BY <1>1, <1>4, <1>5, <1>6, <1>7, ReturnExplained

(* What ParseStringToken and the fall back to SYNTAX_ERROR say.            *)
LEMMA TokenErrorExplains ==
    ASSUME JsonInv, WhyInv, Ready
    PROVE  Explains(IF TokenError = "NO_ERROR" THEN "SYNTAX_ERROR" ELSE TokenError)
<1>1. Reading
  BY DEF WhyInv, Ready
<1>2. Last(doc) = doc[pos + 1]
  BY <1>1, Culprit
<1>3. error_code = "NO_ERROR"
  BY <1>1 DEF Reading
<1> QED
  BY <1>2, <1>3 DEF TokenError, Explains

LEMMA NestingErrorExplained ==
    ASSUME JsonInv, WhyInv, NestingError
    PROVE  WhyInv'
<1>1. result = <<"none">> /\ pc = "value" /\ stack_depth > StackLimit /\ Fail("TOO_MUCH_NESTING")
  BY DEF NestingError, TooDeep
<1>2. Reading
  BY <1>1 DEF WhyInv
<1>3. /\ Len(stack) \in Nat /\ stack_depth = Len(stack) + 1
      /\ pos \in 0..Len(doc) /\ Len(doc) \in 0..Len(doc)
  BY <1>1 DEF JsonInv, TypeOK, StackInv
<1>4. /\ Cardinality(Opening(pos)) \in Nat /\ Cardinality(Opening(Len(doc))) \in Nat
      /\ Cardinality(Opening(pos)) <= Cardinality(Opening(Len(doc)))
  BY <1>3, Opened
<1>5. Len(stack) <= Cardinality(Opening(pos))
  BY <1>2 DEF Reading
<1>6. Cardinality(Opening(Len(doc))) >= StackLimit
  BY <1>1, <1>3, <1>4, <1>5, LimitAssumption
<1>7. Explains("TOO_MUCH_NESTING")
  BY <1>6 DEF Explains
<1> QED
  BY <1>1, <1>7, Explained

LEMMA BadRootExplained ==
    ASSUME JsonInv, WhyInv, BadRoot
    PROVE  WhyInv'
<1>1. /\ Ready /\ pc = "value" /\ stack = <<>> /\ Token \notin {"{", "["}
      /\ Fail("BAD_ROOT_ELEMENT_TYPE")
  BY DEF BadRoot
<1>2. Reading
  BY <1>1 DEF WhyInv, Ready
<1>3. pos \in Nat /\ Len(doc) = pos + 1 /\ Last(doc) = doc[pos + 1] /\ doc[pos + 1] \in Lexemes
  BY <1>1, <1>2, Culprit
<1>4. Last(doc) \notin {"{", "["}
  <2>1. {"{", "["} \subseteq Marks
    BY DEF Marks
  <2> QED BY <1>1, <1>3, <2>1, TokenTells
<1>5. {i \in 1..Len(doc) - 1 : doc[i] \notin Gaps} = {}
  <2>1. \A i \in 1..pos : doc[i] \in Gaps
    BY <1>1, <1>2 DEF Reading
  <2>2. Len(doc) - 1 = pos
    BY <1>3
  <2> QED BY <2>1, <2>2
<1>6. Explains("BAD_ROOT_ELEMENT_TYPE")
  BY <1>4, <1>5 DEF Explains
<1> QED
  BY <1>1, <1>6, Explained

LEMMA TrailingCommaExplained ==
    ASSUME JsonInv, WhyInv, TrailingComma
    PROVE  WhyInv'
<1>1. Ready /\ pc = "next" /\ Closes /\ ~allow_trailing_comma /\ Fail("TRAILING_COMMA")
  BY DEF TrailingComma
<1>2. Reading
  BY <1>1 DEF WhyInv, Ready
<1>3. pos \in Nat /\ Len(doc) = pos + 1 /\ Last(doc) = doc[pos + 1] /\ doc[pos + 1] \in Lexemes
  BY <1>1, <1>2, Culprit
<1>4. Last(doc) \in {"]", "}"}
  <2>1. Token \in {"]", "}"}
    BY <1>1 DEF Closes
  <2>2. {"]", "}"} \subseteq Marks
    BY DEF Marks
  <2> QED BY <1>3, <2>1, <2>2, TokenTells
<1> DEFINE before == {i \in 1..Len(doc) - 1 : doc[i] \notin Gaps}
<1>5. \E i \in before : doc[i] = "," /\ \A j \in before : j <= i
  <2>1. PICK i \in 1..pos : doc[i] = "," /\ \A j \in i + 1..pos : doc[j] \in Gaps
    BY <1>1, <1>2 DEF Reading, AfterComma
  <2>2. Len(doc) - 1 = pos
    BY <1>3
  <2>3. i \in before
    BY <2>1, <2>2 DEF Gaps
  <2>4. ASSUME NEW j \in before PROVE j <= i
    <3>1. j \in 1..pos /\ doc[j] \notin Gaps
      BY <2>2, <2>4
    <3>2. j \notin i + 1..pos
      BY <2>1, <3>1
    <3> QED BY <1>3, <3>1, <3>2
  <2> QED BY <2>1, <2>3, <2>4
<1>6. Explains("TRAILING_COMMA")
  BY <1>1, <1>4, <1>5 DEF Explains
<1> QED
  BY <1>1, <1>6, Explained

LEMMA BadKeyExplained ==
    ASSUME JsonInv, WhyInv, BadKey
    PROVE  WhyInv'
<1>1. Ready
  BY DEF BadKey
<1>2. Reading
  BY <1>1 DEF WhyInv, Ready
<1>3. Last(doc) = doc[pos + 1] /\ doc[pos + 1] \in Lexemes
  BY <1>1, <1>2, Culprit
<1>4. CASE Token # "string" /\ Fail("UNQUOTED_DICTIONARY_KEY")
  <2>1. Last(doc) \notin Strings
    BY <1>3, <1>4, TokenTells
  <2>2. Explains("UNQUOTED_DICTIONARY_KEY")
    BY <2>1 DEF Explains
  <2> QED BY <1>4, <2>2, Explained
<1>5. CASE Token = "string" /\ Fail(error_code)
  <2>1. Last(doc) \in Strings
    BY <1>3, <1>5, TokenTells
  <2>2. Last(doc) # "bad"
    BY <2>1, PlainAssumption DEF Strings
  <2>3. error_code = "NO_ERROR"
    BY <1>2 DEF Reading
  <2>4. Explains("SYNTAX_ERROR")
    BY <2>2 DEF Explains
  <2> QED BY <1>5, <2>3, <2>4, Explained
<1> QED
  BY <1>4, <1>5 DEF BadKey

LEMMA BuildScalarExplained ==
    ASSUME JsonInv, WhyInv, BuildScalar
    PROVE  WhyInv'
<1> DEFINE value == Scalar
<1>1. Ready /\ pc = "value" /\ stack # <<>>
  BY DEF BuildScalar
<1>2. CASE value = <<"NULL">>
  <2>1. Fail(TokenError)
    BY <1>2 DEF BuildScalar
  <2> QED BY <1>1, <2>1, TokenErrorExplains, Explained
<1>3. CASE value # <<"NULL">>
  <2>1. Return(value, stack)
    BY <1>3 DEF BuildScalar
  <2> HIDE DEF value
  <2>2. result = <<"none">> /\ pos < Len(doc)
    BY <1>1 DEF Ready, Known
  <2>3. stack \in Seq(Range(stack)) /\ Len(stack) <= Len(stack)
    BY DEF JsonInv, StackInv
  <2>4. \A i \in 1..Len(stack) : IsContainer(stack[i])
    BY <2>2 DEF WhyInv, Reading
  <2> QED BY <1>1, <2>1, <2>2, <2>3, <2>4, ReturnExplained
<1> QED BY <1>2, <1>3

LEMMA SeparatorExplained ==
    ASSUME JsonInv, WhyInv, Separator
    PROVE  WhyInv'
<1>1. Ready /\ pc = "after"
  BY DEF Separator
<1>2. CASE Token # ","
  <2>1. Fail(TokenError)
    BY <1>2 DEF Separator
  <2> QED BY <1>1, <2>1, TokenErrorExplains, Explained
<1>3. CASE Token = ","
  <2>1. /\ UNCHANGED <<doc, stack, node, error_code, result>> /\ pos' = pos + 1 /\ pc' = "next"
    BY <1>3 DEF Separator
  <2>2. Reading /\ result = <<"none">>
    BY <1>1 DEF WhyInv, Ready
  <2>3. pos \in Nat /\ Len(doc) = pos + 1 /\ doc[pos + 1] \in Lexemes
    BY <1>1, <2>2, Culprit
  <2>4. doc[pos + 1] = ","
    BY <1>3, <2>3, TokenTells DEF Marks
  <2>5. pos' \in 0..Len(doc)
    BY <2>1, <2>3
  <2>6. AfterComma'
    <3>1. pos' \in 1..pos' /\ \A j \in pos' + 1..pos' : FALSE
      BY <2>1, <2>3
    <3>2. doc'[pos'] = ","
      BY <2>1, <2>4
    <3> QED BY <3>1, <3>2 DEF AfterComma
  <2> QED BY <2>1, <2>2, <2>5, <2>6, ContainersKept
<1> QED BY <1>2, <1>3

LEMMA RootExplained ==
    ASSUME JsonInv, WhyInv, Root
    PROVE  WhyInv'
<1>1. Ready /\ pc = "root"
  BY DEF Root
<1>2. Reading
  BY <1>1 DEF WhyInv, Ready
<1>3. CASE Token # "end"
  <2>1. Fail("UNEXPECTED_DATA_AFTER_ROOT")
    BY <1>3 DEF Root
  <2>2. Last(doc) = doc[pos + 1] /\ doc[pos + 1] \in Lexemes
    BY <1>1, <1>2, Culprit
  <2>3. Last(doc) # "end"
    BY <1>3, <2>2, TokenTells
  <2>4. Explains("UNEXPECTED_DATA_AFTER_ROOT")
    BY <2>3 DEF Explains
  <2> QED BY <2>1, <2>4, Explained
<1>4. CASE Token = "end"
  <2>1. result' = node /\ UNCHANGED <<allow_trailing_comma, doc, error_code>>
    BY <1>4 DEF Root
  <2>2. node[1] \in {"list", "dict"} /\ error_code = "NO_ERROR"
    BY <1>1, <1>2 DEF Reading
  <2>3. result' # <<"NULL">> /\ result' # <<"none">> /\ error_code' = "NO_ERROR"
    BY <2>1, <2>2
  <2> QED BY <2>3 DEF WhyInv, ErrorsTellWhy, Explains
<1> QED BY <1>3, <1>4

LEMMA WhyInit == Init => WhyInv
<1> SUFFICES ASSUME Init PROVE WhyInv
  OBVIOUS
<1>1. /\ doc = <<>> /\ pos = 0 /\ stack = <<>> /\ pc = "value" /\ error_code = "NO_ERROR"
      /\ result = <<"none">>
  BY DEF Init
<1>2. Opening(pos) = {}
  BY <1>1 DEF Opening
<1>3. Reading
  BY <1>1, <1>2, EmptyStack, FS_EmptySet DEF Reading
<1> QED
  BY <1>1, <1>3 DEF WhyInv, ErrorsTellWhy, Explains

LEMMA WhyStep == JsonInv /\ WhyInv /\ [Next]_vars => WhyInv'
<1> SUFFICES ASSUME JsonInv, WhyInv, [Next]_vars PROVE WhyInv'
  OBVIOUS
<1>1. CASE StodOutOfRange
  BY <1>1 DEF StodOutOfRange, Ready, WhyInv, Reading, ErrorsTellWhy, Explains
<1>2. CASE Element
  <2>1. /\ UNCHANGED <<doc, pos, stack, node, error_code, result>> /\ pc' = "value"
        /\ result = <<"none">> /\ pc \in {"first", "next"}
    BY <1>2 DEF Element, Ready
  <2>2. stack # <<>> /\ pos \in 0..Len(doc)
    BY <2>1 DEF JsonInv, TypeOK, StackInv
  <2> QED
    BY <2>1, <2>2, ContainersKept
<1>3. CASE Colon
  <2>1. Ready /\ pc = "colon"
    BY <1>3 DEF Colon
  <2>2. CASE Token # ":"
    <3>1. Fail(TokenError)
      BY <1>3, <2>2 DEF Colon
    <3> QED BY <2>1, <3>1, TokenErrorExplains, Explained
  <2>3. CASE Token = ":"
    <3>1. /\ UNCHANGED <<doc, stack, node, error_code, result>> /\ pos' = pos + 1 /\ pc' = "value"
      BY <1>3, <2>3 DEF Colon
    <3>2. result = <<"none">> /\ pos < Len(doc)
      BY <2>1 DEF Ready, Known
    <3>3. stack # <<>> /\ pos' \in 0..Len(doc)
      BY <2>1, <3>1, <3>2 DEF JsonInv, TypeOK, StackInv
    <3> QED BY <3>1, <3>2, <3>3, ContainersKept
  <2> QED BY <2>2, <2>3
<1>4. CASE Finished \/ UNCHANGED vars
  <2>1. /\ allow_trailing_comma' = allow_trailing_comma /\ doc' = doc /\ pos' = pos
        /\ stack' = stack /\ pc' = pc /\ node' = node /\ error_code' = error_code
        /\ result' = result
    BY <1>4 DEF Finished, vars
  <2>2. Opening(pos)' = Opening(pos) /\ Opening(Len(doc))' = Opening(Len(doc))
    BY <2>1 DEF Opening
  <2>3. ErrorsTellWhy'
    BY <2>1, <2>2 DEF WhyInv, ErrorsTellWhy, Explains
  <2>4. result = <<"none">> => Reading'
    BY <2>1, <2>2 DEF WhyInv, Reading, AfterComma
  <2> QED
    BY <2>1, <2>3, <2>4 DEF WhyInv
<1> QED
  BY <1>1, <1>2, <1>3, <1>4, NextLexemeExplained, GapExplained, NestingErrorExplained,
     BadRootExplained, BuildScalarExplained, OpenExplained, CloseExplained,
     TrailingCommaExplained, BadKeyExplained, KeyExplained, SeparatorExplained, RootExplained
     DEF Next

(* A document the reader rejects has a code, and the code tells what is    *)
(* wrong with the lexeme it stopped at: the error paths of BuildValue,     *)
(* json_reader.cc:198-353, and of JsonToValue, 169-195.                    *)
THEOREM ErrorsExplained == Spec => []ErrorsTellWhy
<1>1. WhyInv => ErrorsTellWhy
  BY DEF WhyInv
<1> QED
  BY <1>1, JsonInit, JsonStep, WhyInit, WhyStep, PTL DEF Spec

-----------------------------------------------------------------------------
(* Numbers. The comparisons that precede output * 10 +/- digit are exact,  *)
(* whatever the last digits of the limits are.                             *)
LEMMA PositiveBounds ==
    ASSUME NEW o \in Nat, NEW d \in 0..9
    PROVE  PositiveCheckBounds(o, d) <=> o * 10 + d <= MaxInt
<1> DEFINE q == MaxInt \div 10
<1>1. q \in Int /\ 10 * q <= MaxInt /\ MaxInt < 10 * q + 10
  BY IntAssumption
<1>2. Quot(MaxInt, 10) = q /\ Rem(MaxInt, 10) = MaxInt - 10 * q
  BY IntAssumption DEF Quot, Rem
<1> HIDE DEF q
<1> QED BY <1>1, <1>2, IntAssumption DEF PositiveCheckBounds

LEMMA NegativeBounds ==
    ASSUME NEW o \in Int, o <= 0, NEW d \in 0..9
    PROVE  NegativeCheckBounds(o, d) <=> MinInt <= o * 10 - d
<1> DEFINE q == (MaxInt + 1) \div 10
<1>1. q \in Int /\ 10 * q <= MaxInt + 1 /\ MaxInt + 1 < 10 * q + 10
  BY IntAssumption
<1>2. MinInt < 0 /\ -MinInt = MaxInt + 1 /\ MinInt \in Int
  BY IntAssumption DEF MinInt
<1>3. Quot(MinInt, 10) = -q /\ Rem(MinInt, 10) = MinInt + 10 * q
  BY <1>1, <1>2 DEF Quot, Rem
<1> HIDE DEF q
<1> QED BY <1>1, <1>2, <1>3, IntAssumption DEF NegativeCheckBounds, MinInt

(* Digits, and 0 for what is none.                                         *)
Value(c) == IF IsAsciiDigit(c) THEN Digit[c] ELSE 0

LEMMA DigitValue ==
    ASSUME NEW c
    PROVE  Value(c) \in 0..9 /\ (IsAsciiDigit(c) => Digit[c] = Value(c))
BY DEF Value, IsAsciiDigit, Digit

(* The amount of the digits from position i on, digit by digit.            *)
Horner(h, s, i) ==
    h = [k \in i - 1..Len(s) |-> IF k = i - 1 THEN 0 ELSE h[k - 1] * 10 + Value(s[k])]

LEMMA HornerExists ==
    ASSUME NEW s, Len(s) \in Nat, NEW i \in 1..Len(s) + 1
    PROVE  \E h \in [i - 1..Len(s) -> Nat] : Horner(h, s, i)
<1> DEFINE a == i - 1
           b == Len(s)
           G == [k \in a + 1..b |-> [v \in Nat |-> v * 10 + Value(s[k])]]
<1>1. a \in Int /\ b \in Int /\ a <= b
  OBVIOUS
<1>2. G \in [a + 1..b -> [Nat -> Nat]]
  <2>1. \A k : Value(s[k]) \in Nat
    BY DigitValue
  <2> QED BY <2>1
<1>3. PICK h \in [a..b -> Nat] : Recurs(h, a, b, 0, G)
  <2>1. 0 \in Nat
    OBVIOUS
  <2> HIDE DEF a, b, G
  <2> QED BY <1>1, <1>2, <2>1, RecursionExists
<1>4. \A k \in a..b : k # a => k \in a + 1..b /\ k - 1 \in a..b
  BY <1>1
<1>5. \A k \in a..b : k # a => G[k][h[k - 1]] = h[k - 1] * 10 + Value(s[k])
  BY <1>4
<1>6. Horner(h, s, i)
  <2> HIDE DEF G
  <2> QED BY <1>3, <1>5 DEF Horner, Recurs
<1> QED BY <1>3, <1>6

LEMMA HornerSteps ==
    ASSUME NEW s, Len(s) \in Nat, NEW i \in 1..Len(s) + 1,
           NEW h \in [i - 1..Len(s) -> Nat], Horner(h, s, i)
    PROVE  /\ h[i - 1] = 0
           /\ \A k \in i..Len(s) : h[k] = h[k - 1] * 10 + Value(s[k]) /\ h[k - 1] \in Nat
<1>1. i - 1 \in i - 1..Len(s) /\ h[i - 1] = 0
  BY DEF Horner
<1>2. ASSUME NEW k \in i..Len(s)
      PROVE  h[k] = h[k - 1] * 10 + Value(s[k]) /\ h[k - 1] \in Nat
  <2>1. k \in i - 1..Len(s) /\ k # i - 1 /\ k - 1 \in i - 1..Len(s)
    OBVIOUS
  <2> QED BY <2>1 DEF Horner
<1> QED BY <1>1, <1>2

(* It never decreases: once beyond the limit, always beyond it.            *)
LEMMA HornerGrows ==
    ASSUME NEW s, Len(s) \in Nat, NEW i \in 1..Len(s) + 1,
           NEW h \in [i - 1..Len(s) -> Nat], Horner(h, s, i), NEW k \in i..Len(s)
    PROVE  h[k - 1] <= h[k]
<1>1. h[k] = h[k - 1] * 10 + Value(s[k]) /\ h[k - 1] \in Nat
  BY HornerSteps
<1>2. Value(s[k]) \in 0..9
  BY DigitValue
<1> QED BY <1>1, <1>2

(* What an int of that sign can hold.                                      *)
Fits(sign, amount) == IF sign = 1 THEN amount <= MaxInt ELSE MinInt <= -amount

(* An amount with its sign.                                                *)
Signed(sign, amount) == IF sign = 1 THEN amount ELSE -amount

LEMMA SignedStep ==
    ASSUME NEW sign \in {1, -1}, NEW x \in Nat, NEW d \in 0..9
    PROVE  Signed(sign, x) * 10 + sign * d = Signed(sign, x * 10 + d)
<1>1. CASE sign = 1
  BY <1>1 DEF Signed
<1>2. CASE sign = -1
  <2>1. Signed(sign, x) = -x /\ Signed(sign, x * 10 + d) = -(x * 10 + d)
    BY <1>2 DEF Signed
  <2>2. sign * d = -d
    BY <1>2
  <2>3. (-x) * 10 + -d = -(x * 10 + d)
    OBVIOUS
  <2> QED BY <2>1, <2>2, <2>3
<1> QED BY <1>1, <1>2

LEMMA NothingFits ==
    ASSUME NEW sign \in {1, -1}, NEW x \in Nat, x < 1
    PROVE  Fits(sign, x) /\ Signed(sign, x) = 0
<1>1. MinInt <= -x /\ x <= MaxInt
  BY IntAssumption DEF MinInt
<1>2. -x = 0 /\ x = 0
  OBVIOUS
<1> QED BY <1>1, <1>2 DEF Fits, Signed

(* The check before a digit is appended is right.                          *)
CheckBounds(sign, output, digit) ==
    IF sign = 1 THEN PositiveCheckBounds(output, digit) ELSE NegativeCheckBounds(output, digit)

LEMMA BoundsFit ==
    ASSUME NEW sign \in {1, -1}, NEW x \in Nat, NEW d \in 0..9
    PROVE  CheckBounds(sign, Signed(sign, x), d) <=> Fits(sign, x * 10 + d)
<1>1. CASE sign = 1
  <2>1. PositiveCheckBounds(x, d) <=> x * 10 + d <= MaxInt
    BY PositiveBounds
  <2> QED BY <1>1, <2>1 DEF Signed, Fits, CheckBounds
<1>2. CASE sign = -1
  <2>1. -x \in Int /\ -x <= 0 /\ (-x) * 10 - d = -(x * 10 + d)
    OBVIOUS
  <2>2. NegativeCheckBounds(-x, d) <=> MinInt <= (-x) * 10 - d
    BY <2>1, NegativeBounds
  <2>3. sign # 1
    BY <1>2
  <2> QED BY <2>1, <2>2, <2>3 DEF Signed, Fits, CheckBounds
<1> QED BY <1>1, <1>2

(* Base<Sign>::Invoke: it succeeds on digits that fit, with their amount.  *)
LEMMA InvokeReads ==
    ASSUME NEW s, Len(s) \in Nat, NEW i \in 1..Len(s) + 1, NEW sign \in {1, -1},
           NEW h \in [i - 1..Len(s) -> Nat], Horner(h, s, i)
    PROVE  LET r == BaseInvoke(s, i, sign)
           IN  /\ r.ok <=> AllDigits(s, i, Len(s) + 1) /\ Fits(sign, h[Len(s)])
               /\ r.ok => r.output = sign * h[Len(s)]
<1> DEFINE V == [ok : BOOLEAN, output : Int]
           a == i - 1
           b == Len(s)
           Base == [ok |-> Len(s) >= i, output |-> 0]
           Step(k, before) ==
               IF ~before.ok THEN before
               ELSE IF ~IsAsciiDigit(s[k]) THEN [before EXCEPT !.ok = FALSE]
               ELSE IF k > i /\ ~(IF sign = 1
                                  THEN PositiveCheckBounds(before.output, Digit[s[k]])
                                  ELSE NegativeCheckBounds(before.output, Digit[s[k]]))
               THEN [ok |-> FALSE, output |-> IF sign = 1 THEN MaxInt ELSE MinInt]
               ELSE [ok |-> TRUE, output |-> before.output * 10 + sign * Digit[s[k]]]
           Body(f) == [k \in i - 1..Len(s) |-> IF k < i THEN Base ELSE Step(k, f[k - 1])]
           G == [k \in a + 1..b |-> [v \in V |-> Step(k, v)]]
           R == CHOOSE f : f = Body(f)
<1>0. MinInt \in Int /\ MaxInt \in Int
  BY IntAssumption DEF MinInt
<1>1. BaseInvoke(s, i, sign) = R[Len(s)]
  BY DEF BaseInvoke
<1>2. a \in Int /\ b \in Int /\ a <= b /\ Base \in V
  OBVIOUS
<1>3. G \in [a + 1..b -> [V -> V]]
  <2> SUFFICES ASSUME NEW k \in a + 1..b, NEW v \in V PROVE Step(k, v) \in V
    OBVIOUS
  <2>1. v.ok \in BOOLEAN /\ v.output \in Int
    OBVIOUS
  <2>2. CASE ~v.ok \/ ~IsAsciiDigit(s[k])
    BY <2>2
  <2>3. CASE v.ok /\ IsAsciiDigit(s[k])
    <3>1. v.output * 10 + sign * Digit[s[k]] \in Int
      <4>1. Digit[s[k]] \in Int
        BY <2>3, DigitValue
      <4>2. sign * Digit[s[k]] \in Int
        BY <4>1
      <4> QED BY <2>1, <4>2
    <3> DEFINE out == v.output * 10 + sign * Digit[s[k]]
    <3> HIDE DEF out
    <3>2. Step(k, v) = [ok |-> FALSE, output |-> IF sign = 1 THEN MaxInt ELSE MinInt]
          \/ Step(k, v) = [ok |-> TRUE, output |-> out]
      BY <2>3 DEF out
    <3>3. out \in Int
      BY <3>1 DEF out
    <3> QED BY <1>0, <3>2, <3>3
  <2> QED BY <2>2, <2>3
<1>4. PICK f \in [a..b -> V] : Recurs(f, a, b, Base, G)
  <2> HIDE DEF a, b, G, V, Base
  <2> QED BY <1>2, <1>3, RecursionExists
<1>5. \A k \in a..b : k # a => k \in a + 1..b /\ k - 1 \in a..b /\ ~(k < i)
  BY <1>2
<1>6. \A k \in a..b : k # a => G[k][f[k - 1]] = Step(k, f[k - 1])
  <2> HIDE DEF Step, V
  <2> QED BY <1>4, <1>5
<1>7. f = Body(f)
  <2> HIDE DEF Step, G, Base
  <2>1. \A k \in a..b : (IF k = a THEN Base ELSE G[k][f[k - 1]])
                        = (IF k < i THEN Base ELSE Step(k, f[k - 1]))
    BY <1>5, <1>6
  <2>2. f = [k \in a..b |-> IF k < i THEN Base ELSE Step(k, f[k - 1])]
    BY <1>4, <2>1 DEF Recurs
  <2> QED BY <2>2
<1>8. R = Body(R)
  <2> HIDE DEF Body
  <2> QED BY <1>7
<1>9. \A k \in a..b : R[k] = IF k = a THEN Base ELSE Step(k, R[k - 1])
  <2> HIDE DEF R, Step, Base
  <2> QED BY <1>5, <1>8
<1> HIDE DEF V, Base, Step, Body, G, R
<1> DEFINE Reads(k) == \A j \in i..k : IsAsciiDigit(s[j])
           Fine(k) == b >= i /\ Reads(k) /\ Fits(sign, h[k])
           Good(k) == IF Fine(k) THEN R[k] = [ok |-> TRUE, output |-> Signed(sign, h[k])]
                                 ELSE R[k].ok = FALSE
<1>10. Good(a)
  <2>1. h[a] = 0 /\ Fits(sign, h[a]) /\ Signed(sign, h[a]) = 0
    <3>1. h[a] = 0
      BY HornerSteps
    <3>2. h[a] \in Nat /\ h[a] < 1
      BY <3>1
    <3> HIDE DEF a
    <3> QED BY <3>1, <3>2, NothingFits
  <2>2. R[a] = Base
    <3>1. a \in a..b
      BY <1>2
    <3> QED BY <1>9, <3>1
  <2>3. Reads(a)
    OBVIOUS
  <2> HIDE DEF Reads, a
  <2>4. CASE b >= i
    BY <2>1, <2>2, <2>3, <2>4 DEF Base
  <2>5. CASE ~(b >= i)
    <3>1. ~Fine(a)
      BY <2>5
    <3>2. (Len(s) >= i) = FALSE
      BY <2>5
    <3>3. Base.ok = FALSE
      BY <3>2 DEF Base
    <3> QED BY <2>2, <3>1, <3>3
  <2> QED BY <2>4, <2>5
<1>11. ASSUME NEW k \in i..b, Good(k - 1)
       PROVE  Good(k)
  <2>1. k \in a..b /\ k # a /\ b >= i /\ k - 1 \in a..b /\ k \in Int /\ i \in Int
    OBVIOUS
  <2>2. R[k] = Step(k, R[k - 1])
    BY <1>9, <2>1
  <2>3. h[k] = h[k - 1] * 10 + Value(s[k]) /\ h[k - 1] \in Nat /\ h[k - 1] <= h[k] /\ h[k] \in Nat
    BY <2>1, HornerSteps, HornerGrows
  <2>4. Value(s[k]) \in 0..9
    BY DigitValue
  <2>5. Reads(k) <=> Reads(k - 1) /\ IsAsciiDigit(s[k])
    BY <2>1
  <2> HIDE DEF Reads
  <2>6. CASE ~Fine(k - 1)
    <3>1. R[k] = R[k - 1] /\ R[k].ok = FALSE
      BY <1>11, <2>2, <2>6 DEF Step
    <3>2. Fits(sign, h[k]) => Fits(sign, h[k - 1])
      BY <1>0, <2>3 DEF Fits
    <3>3. ~Fine(k)
      BY <2>5, <2>6, <3>2
    <3> QED BY <3>1, <3>3
  <2>7. CASE Fine(k - 1) /\ ~IsAsciiDigit(s[k])
    <3>1. R[k] = [R[k - 1] EXCEPT !.ok = FALSE] /\ R[k - 1] = [ok |-> TRUE, output |-> Signed(sign, h[k - 1])]
      BY <1>11, <2>2, <2>7 DEF Step
    <3>2. R[k].ok = FALSE
      BY <3>1
    <3>3. ~Fine(k)
      BY <2>5, <2>7
    <3> QED BY <3>2, <3>3
  <2>8. CASE Fine(k - 1) /\ IsAsciiDigit(s[k])
    <3> DEFINE x == h[k - 1]
               d == Value(s[k])
               o == Signed(sign, x)
    <3>1. Digit[s[k]] = d /\ R[k - 1] = [ok |-> TRUE, output |-> o]
      BY <1>11, <2>8, DigitValue
    <3>2. x \in Nat /\ d \in 0..9 /\ h[k] = x * 10 + d
      BY <2>3, <2>4
    <3>3. Fine(k) <=> Fits(sign, h[k])
      BY <2>1, <2>5, <2>8
    <3>4. k = i => Fits(sign, h[k])
      <4>1. k = i => h[k] \in 0..9
        BY <2>1, <3>2, HornerSteps
      <4> QED BY <4>1, IntAssumption DEF Fits, MinInt
    <3> HIDE DEF x, d
    <3>5. CheckBounds(sign, o, d) <=> Fits(sign, h[k])
      BY <3>2, BoundsFit
    <3>6. o * 10 + sign * d = Signed(sign, h[k])
      BY <3>2, SignedStep
    <3> HIDE DEF o
    <3>7. R[k] = IF k > i /\ ~CheckBounds(sign, o, d)
                 THEN [ok |-> FALSE, output |-> IF sign = 1 THEN MaxInt ELSE MinInt]
                 ELSE [ok |-> TRUE, output |-> o * 10 + sign * d]
      BY <2>2, <2>8, <3>1 DEF Step, CheckBounds
    <3>8. CASE Fits(sign, h[k])
      BY <3>3, <3>5, <3>6, <3>7, <3>8
    <3>9. CASE ~Fits(sign, h[k])
      <4>1. k > i
        BY <2>1, <3>4, <3>9
      <4> QED BY <3>3, <3>5, <3>7, <3>9, <4>1
    <3> QED BY <3>8, <3>9
  <2> QED BY <2>6, <2>7, <2>8, <1>11
<1>12. Good(b)
  <2> DEFINE n == b - a
             T == {m \in 0..n : Good(a + m)}
  <2>1. 0 \in T
    <3>1. 0 \in 0..n /\ a + 0 = a
      BY <1>2
    <3> HIDE DEF Good
    <3> QED BY <1>10, <3>1
  <2>2. \A m \in 0..n : m \in T /\ m < n => m + 1 \in T
    <3> SUFFICES ASSUME NEW m \in 0..n, Good(a + m), m < n PROVE m + 1 \in 0..n /\ Good(a + (m + 1))
      OBVIOUS
    <3>1. m \in Int /\ m + 1 \in 0..n /\ i \in Int
      OBVIOUS
    <3>2. a + (m + 1) = i + m /\ i + m <= b /\ i <= i + m
      BY <1>2, <3>1
    <3>3. a + (m + 1) \in i..b /\ (a + (m + 1)) - 1 = a + m
      BY <1>2, <3>1, <3>2
    <3> HIDE DEF Good
    <3> QED BY <1>11, <3>1, <3>3
  <2>3. n \in Nat /\ a + n = b
    BY <1>2
  <2> HIDE DEF T
  <2>4. 0..n \subseteq T
    <3> HIDE DEF n
    <3> QED BY <2>1, <2>2, <2>3, UpTo
  <2>5. n \in T
    <3>1. n \in 0..n
      BY <2>3
    <3> QED BY <2>4, <3>1
  <2> HIDE DEF Good
  <2> QED BY <2>3, <2>5 DEF T
<1>13. Reads(b) /\ b >= i <=> AllDigits(s, i, Len(s) + 1)
  BY DEF AllDigits
<1>14. Signed(sign, h[b]) = sign * h[b]
  <2>1. h[b] \in Nat
    BY <1>2
  <2> QED BY <2>1 DEF Signed
<1> HIDE DEF Reads
<1> QED BY <1>1, <1>12, <1>13, <1>14
LEMMA Distributes ==
    ASSUME NEW x \in Nat, NEW w \in Nat, NEW z \in Nat, NEW d \in Nat
    PROVE  x * (10 * w) + (z + d * w) = (x * 10 + d) * w + z
<1>1. x * (10 * w) = (x * 10) * w
  OBVIOUS
<1>2. (x * 10 + d) * w = (x * 10) * w + d * w
  OBVIOUS
<1> DEFINE p == (x * 10) * w
           q == d * w
<1>3. p \in Nat /\ q \in Nat
  OBVIOUS
<1>4. p + (z + q) = (p + q) + z
  <2> HIDE DEF p, q
  <2> QED BY <1>3
<1> QED BY <1>1, <1>2, <1>4

(* The sum by place value is the amount digit by digit.                    *)
LEMMA MagnitudeIsHorner ==
    ASSUME NEW s, Len(s) \in Nat, NEW i \in 1..Len(s) + 1, AllDigits(s, i, Len(s) + 1),
           NEW h \in [i - 1..Len(s) -> Nat], Horner(h, s, i)
    PROVE  Magnitude(s, i) = h[Len(s)]
<1> DEFINE L == Len(s)
           n == L + 1 - i
           WeightBody(w) == [k \in 0..Len(s) |-> IF k = 0 THEN 1 ELSE 10 * w[k - 1]]
           W == CHOOSE w : w = WeightBody(w)
           SumBody(z) == [k \in 0..Len(s) + 1 - i |->
                IF k = 0 THEN 0 ELSE z[k - 1] + Digit[s[Len(s) + 1 - k]] * W[k - 1]]
           Z == CHOOSE z : z = SumBody(z)
<1>1. Magnitude(s, i) = Z[n]
  BY DEF Magnitude
<1>2. n \in Nat /\ L \in Nat /\ n <= L /\ L - n = i - 1
  OBVIOUS
<1>3. W = WeightBody(W)
  <2> DEFINE G == [k \in 0 + 1..L |-> [v \in Nat |-> 10 * v]]
  <2>1. G \in [0 + 1..L -> [Nat -> Nat]] /\ 0 \in Int /\ L \in Int /\ 0 <= L /\ 1 \in Nat
    OBVIOUS
  <2>2. PICK w \in [0..L -> Nat] : Recurs(w, 0, L, 1, G)
    <3> HIDE DEF G, L
    <3> QED BY <2>1, RecursionExists
  <2>3. \A k \in 0..L : k # 0 => k \in 0 + 1..L /\ k - 1 \in 0..L
    OBVIOUS
  <2>4. \A k \in 0..L : k # 0 => G[k][w[k - 1]] = 10 * w[k - 1]
    BY <2>3
  <2>5. w = WeightBody(w)
    <3> HIDE DEF G
    <3> QED BY <2>2, <2>4 DEF Recurs
  <2> HIDE DEF WeightBody
  <2> QED BY <2>5
<1>4. W[0] = 1 /\ \A k \in 0..n : k < n => W[k + 1] = 10 * W[k]
  <2>1. \A k \in 0..L : W[k] = IF k = 0 THEN 1 ELSE 10 * W[k - 1]
    <3> HIDE DEF W
    <3> QED BY <1>3
  <2> HIDE DEF W
  <2>2. W[0] = 1
    BY <1>2, <2>1
  <2>3. ASSUME NEW k \in 0..n, k < n PROVE W[k + 1] = 10 * W[k]
    <3>1. k + 1 \in 0..L /\ k + 1 # 0 /\ (k + 1) - 1 = k
      BY <1>2, <2>3
    <3> QED BY <2>1, <3>1
  <2> QED BY <2>2, <2>3
<1> HIDE DEF W
<1>5. \A k \in 0..n : W[k] \in Nat
  <2> DEFINE T == {k \in 0..n : W[k] \in Nat}
  <2>1. 0 \in T /\ \A k \in 0..n : k \in T /\ k < n => k + 1 \in T
    BY <1>2, <1>4
  <2> HIDE DEF T, n
  <2>2. 0..n \subseteq T
    BY <1>2, <2>1, UpTo
  <2> QED BY <2>2 DEF T
<1>6. \A k \in 0..n : k # 0 => /\ k \in 0 + 1..n /\ k - 1 \in 0..n
                               /\ Digit[s[L + 1 - k]] = Value(s[L + 1 - k])
                               /\ Value(s[L + 1 - k]) \in Nat
  <2> SUFFICES ASSUME NEW k \in 0..n, k # 0
               PROVE  /\ k \in 0 + 1..n /\ k - 1 \in 0..n
                      /\ Digit[s[L + 1 - k]] = Value(s[L + 1 - k]) /\ Value(s[L + 1 - k]) \in Nat
    OBVIOUS
  <2>1. k \in 0 + 1..n /\ k - 1 \in 0..n /\ L + 1 - k \in i..(L + 1) - 1
    BY <1>2
  <2>2. IsAsciiDigit(s[L + 1 - k])
    BY <2>1 DEF AllDigits
  <2> QED BY <2>1, <2>2, DigitValue
<1>7. Z = SumBody(Z)
  <2> DEFINE G == [k \in 0 + 1..n |-> [v \in Nat |-> v + Digit[s[L + 1 - k]] * W[k - 1]]]
  <2>1. 0 \in Int /\ n \in Int /\ 0 <= n /\ 0 \in Nat
    BY <1>2
  <2>2. G \in [0 + 1..n -> [Nat -> Nat]]
    <3> SUFFICES ASSUME NEW k \in 0 + 1..n, NEW v \in Nat
                 PROVE  v + Digit[s[L + 1 - k]] * W[k - 1] \in Nat
      OBVIOUS
    <3>1. k \in 0..n /\ k # 0
      OBVIOUS
    <3>2. Digit[s[L + 1 - k]] \in Nat /\ W[k - 1] \in Nat
      BY <1>5, <1>6, <3>1
    <3>3. \A x, y \in Nat : v + x * y \in Nat
      OBVIOUS
    <3> HIDE DEF L, n
    <3> QED BY <3>2, <3>3
  <2>3. PICK z \in [0..n -> Nat] : Recurs(z, 0, n, 0, G)
    <3> HIDE DEF G, n
    <3> QED BY <2>1, <2>2, RecursionExists
  <2>4. \A k \in 0..n : k # 0 => G[k][z[k - 1]] = z[k - 1] + Digit[s[L + 1 - k]] * W[k - 1]
    BY <1>6
  <2>5. z = SumBody(z)
    <3> HIDE DEF G
    <3> QED BY <2>3, <2>4 DEF Recurs
  <2> HIDE DEF SumBody
  <2> QED BY <2>5
<1>8. Z[0] = 0 /\ \A k \in 0..n : k < n => Z[k + 1] = Z[k] + Value(s[L - k]) * W[k]
  <2>1. \A k \in 0..n : Z[k] = IF k = 0 THEN 0 ELSE Z[k - 1] + Digit[s[L + 1 - k]] * W[k - 1]
    <3> HIDE DEF Z
    <3> QED BY <1>7
  <2> HIDE DEF Z
  <2>2. Z[0] = 0
    BY <1>2, <2>1
  <2>3. ASSUME NEW k \in 0..n, k < n PROVE Z[k + 1] = Z[k] + Value(s[L - k]) * W[k]
    <3>1. k + 1 \in 0..n /\ k + 1 # 0 /\ (k + 1) - 1 = k /\ L + 1 - (k + 1) = L - k
      BY <1>2, <2>3
    <3>2. Digit[s[L - k]] = Value(s[L - k])
      BY <1>6, <3>1
    <3> QED BY <2>1, <3>1, <3>2
  <2> QED BY <2>2, <2>3
<1> HIDE DEF Z
<1> DEFINE Holds(k) == Z[k] \in Nat /\ h[L - k] * W[k] + Z[k] = h[L]
           T == {k \in 0..n : Holds(k)}
<1>9. 0 \in T
  <2>1. L - 0 = L /\ h[L] \in Nat /\ h[L] * 1 + 0 = h[L] /\ 0 \in 0..n
    BY <1>2
  <2> QED BY <1>4, <1>8, <2>1
<1>10. ASSUME NEW k \in 0..n, k \in T, k < n
       PROVE  k + 1 \in T
  <2>1. k + 1 \in 0..n /\ L - k \in i..L /\ (L - k) - 1 = L - (k + 1) /\ L - k \in i - 1..L
    BY <1>2, <1>10
  <2> DEFINE x == h[L - (k + 1)]
             w == W[k]
             z == Z[k]
             d == Value(s[L - k])
  <2>2. h[L - k] = x * 10 + d /\ x \in Nat
    BY <2>1, HornerSteps
  <2>3. w \in Nat /\ d \in Nat /\ z \in Nat /\ h[L - k] * w + z = h[L]
    <3>1. Holds(k) /\ w \in Nat
      BY <1>5, <1>10
    <3>2. d \in 0..9
      BY DigitValue
    <3> HIDE DEF w, z, d
    <3>3. d \in Nat
      BY <3>2
    <3> QED BY <3>1, <3>3 DEF w, z
  <2>4. W[k + 1] = 10 * w /\ Z[k + 1] = z + d * w
    BY <1>4, <1>8, <1>10
  <2> HIDE DEF x, w, z, d
  <2>5. x * (10 * w) + (z + d * w) = (x * 10 + d) * w + z
    BY <2>2, <2>3, Distributes
  <2>6. z + d * w \in Nat
    BY <2>3
  <2>7. h[L - (k + 1)] * W[k + 1] + Z[k + 1] = h[L] /\ Z[k + 1] \in Nat
    <3>1. h[L - (k + 1)] = x
      BY DEF x
    <3> QED BY <2>2, <2>3, <2>4, <2>5, <2>6, <3>1
  <2> QED BY <2>1, <2>7
<1>11. n \in T
  <2> HIDE DEF T, n
  <2>1. 0..n \subseteq T
    BY <1>2, <1>9, <1>10, UpTo
  <2>2. n \in 0..n
    BY <1>2
  <2> QED BY <2>1, <2>2
<1>12. h[L - n] = 0
  BY <1>2, HornerSteps
<1>13. Z[n] = h[L]
  <2>1. W[n] \in Nat /\ Z[n] \in Nat /\ 0 * W[n] + Z[n] = h[L]
    <3>1. n \in 0..n
      BY <1>2
    <3>2. Holds(n)
      BY <1>11
    <3> QED BY <1>5, <1>12, <3>1, <3>2
  <2> HIDE DEF n
  <2> QED BY <2>1
<1> QED BY <1>1, <1>13
-----------------------------------------------------------------------------
(* ReadInt: the digits from i on, all of them, up to r.                    *)
Stops(s, i, r, can_have_leading_zeros) ==
    /\ r \in i + 1..Len(s) + 1
    /\ AllDigits(s, i, r)
    /\ r <= Len(s) => ~IsAsciiDigit(s[r])
    /\ can_have_leading_zeros \/ s[i] # "0" \/ r = i + 1

LEMMA ReadIntStops ==
    ASSUME NEW s, Len(s) \in Nat, NEW i \in Nat \ {0}, NEW z \in BOOLEAN
    PROVE  /\ ReadInt(s, i, z) # 0 => Stops(s, i, ReadInt(s, i, z), z)
           /\ \A r : Stops(s, i, r, z) => ReadInt(s, i, z) = r
<1> DEFINE others == {j \in i..Len(s) : ~IsAsciiDigit(s[j])}
           stop == IF others = {} THEN Len(s) + 1 ELSE Min(others)
<1>1. ReadInt(s, i, z) = IF stop <= i \/ (~z /\ stop > i + 1 /\ s[i] = "0") THEN 0 ELSE stop
  BY DEF ReadInt
<1>2. /\ stop \in Nat /\ stop <= Len(s) + 1
      /\ stop <= Len(s) => stop \in others
      /\ \A j \in others : stop <= j
  <2>1. CASE others = {}
    BY <2>1
  <2>2. CASE others # {}
    <3>1. others \in SUBSET Nat
      OBVIOUS
    <3>2. PICK m \in others : \A j \in others : m <= j
      <4> HIDE DEF others
      <4> QED BY <2>2, <3>1, LeastNumber
    <3>3. Min(others) \in others /\ \A j \in others : Min(others) <= j
      <4> HIDE DEF others
      <4> QED BY <3>2 DEF Min
    <3>4. stop \in others /\ \A j \in others : stop <= j
      BY <2>2, <3>3
    <3> HIDE DEF stop
    <3> QED BY <3>4
  <2> QED BY <2>1, <2>2
<1> HIDE DEF stop
<1>3. stop <= Len(s) => ~IsAsciiDigit(s[stop])
  BY <1>2
<1>4. \A j \in i..stop - 1 : IsAsciiDigit(s[j])
  <2> SUFFICES ASSUME NEW j \in i..stop - 1, ~IsAsciiDigit(s[j]) PROVE FALSE
    OBVIOUS
  <2>1. j \in i..Len(s) /\ j \in Int /\ j < stop
    BY <1>2
  <2>2. j \in others
    BY <2>1
  <2> HIDE DEF others
  <2> QED BY <1>2, <2>1, <2>2
<1> HIDE DEF others
<1>5. ASSUME ReadInt(s, i, z) # 0
      PROVE  Stops(s, i, ReadInt(s, i, z), z)
  <2>1. ReadInt(s, i, z) = stop /\ ~(stop <= i) /\ (z \/ ~(stop > i + 1) \/ s[i] # "0")
    BY <1>1, <1>5
  <2>2. stop \in i + 1..Len(s) + 1 /\ i < stop /\ (~(stop > i + 1) => stop = i + 1)
    BY <1>2, <2>1
  <2> QED BY <1>3, <1>4, <2>1, <2>2 DEF Stops, AllDigits
<1>6. ASSUME NEW r, Stops(s, i, r, z)
      PROVE  ReadInt(s, i, z) = r
  <2>1. /\ r \in Nat /\ i < r /\ r <= Len(s) + 1
        /\ \A k \in i..r - 1 : IsAsciiDigit(s[k])
        /\ r <= Len(s) => ~IsAsciiDigit(s[r])
        /\ z \/ s[i] # "0" \/ r = i + 1
    BY <1>6 DEF Stops, AllDigits
  <2>2. ~(stop < r)
    <3> SUFFICES ASSUME stop < r PROVE FALSE
      OBVIOUS
    <3>1. stop <= Len(s) /\ stop \notin i..r - 1
      BY <1>2, <1>3, <2>1
    <3>2. stop < i
      BY <1>2, <2>1, <3>1
    <3>3. stop \in others
      BY <1>2, <3>1
    <3> QED BY <1>2, <3>2, <3>3 DEF others
  <2>3. ~(r < stop)
    <3> SUFFICES ASSUME r < stop PROVE FALSE
      OBVIOUS
    <3>1. r \in i..stop - 1 /\ r <= Len(s)
      BY <1>2, <2>1
    <3> QED BY <1>4, <2>1, <3>1
  <2>4. stop = r
    BY <1>2, <2>1, <2>2, <2>3
  <2> QED BY <1>1, <2>1, <2>4
<1> QED BY <1>5, <1>6

(* What may follow the digits of a number is no digit.                     *)
LEMMA NotDigits == ~IsAsciiDigit("-") /\ ~IsAsciiDigit("+") /\ ~IsAsciiDigit(".") /\ ~IsAsciiDigit("e")
BY DEF IsAsciiDigit, Digit

(* Where the digits of a number begin.                                     *)
Start(s) == IF At(s, 1, {"-"}) THEN 2 ELSE 1

(* The tokens are the numbers, and no others.                              *)
LEMMA TokenIsNumber ==
    ASSUME NEW s, Len(s) \in Nat, DOMAIN s = 1..Len(s), IsNumber(s)
    PROVE  JsonNumber(s) /\ Start(s) <= Len(s)
<1> DEFINE L == Len(s)
           a == Start(s)
<1>0. PICK b, c, d :
        /\ b = ReadInt(s, a, FALSE)
        /\ c = IF b # 0 /\ At(s, b, {"."}) THEN ReadInt(s, b + 1, TRUE) ELSE b
        /\ d = IF At(s, c + 1, {"-", "+"}) THEN c + 2 ELSE c + 1
        /\ L + 1 = IF c # 0 /\ At(s, c, {"e"}) THEN ReadInt(s, d, TRUE) ELSE c
  BY DEF IsNumber, ParseNumberToken, Start
<1>1. L + 1 # 0 /\ TRUE \in BOOLEAN /\ FALSE \in BOOLEAN
  OBVIOUS
<1>2. a \in {1, 2} /\ (a = 2 => s[1] = "-") /\ a \in Nat \ {0}
  BY DEF Start, At
<1> HIDE DEF a
<1>3. b # 0 /\ c # 0
  <2> HIDE DEF L
  <2>1. c = 0 => L + 1 = c
    BY <1>0, Zenon
  <2>2. b = 0 => c = b
    BY <1>0, Zenon
  <2> QED BY <1>1, <2>1, <2>2, Zenon
<1>4. Stops(s, a, b, FALSE)
  BY <1>0, <1>1, <1>2, <1>3, ReadIntStops
<1>5. b \in a + 1..L + 1 /\ AllDigits(s, a, b) /\ (s[a] = "0" => b = a + 1)
  BY <1>4 DEF Stops
<1>6. /\ c \in b..L + 1
      /\ b = c \/ (s[b] = "." /\ AllDigits(s, b + 1, c))
  <2>1. CASE At(s, b, {"."})
    <3>1. c = ReadInt(s, b + 1, TRUE) /\ b + 1 \in Nat \ {0} /\ s[b] = "." /\ b \in Nat
      <4>1. c = ReadInt(s, b + 1, TRUE)
        BY <1>0, <1>3, <2>1, Zenon
      <4>2. s[b] = "." /\ b \in Nat
        BY <1>2, <1>5, <2>1 DEF At
      <4> QED BY <4>1, <4>2
    <3>2. Stops(s, b + 1, c, TRUE)
      BY <1>1, <1>3, <3>1, ReadIntStops
    <3>3. c \in (b + 1) + 1..L + 1 /\ AllDigits(s, b + 1, c)
      BY <3>2 DEF Stops
    <3>4. c \in b..L + 1
      <4>1. b \in Nat
        BY <3>1
      <4> QED BY <3>3, <4>1
    <3> QED BY <3>1, <3>3, <3>4
  <2>2. CASE ~At(s, b, {"."})
    <3>0. c = b
      BY <1>0, <2>2, Zenon
    <3>1. c = b /\ b \in b..L + 1
      BY <1>2, <1>5, <3>0
    <3> QED BY <3>1
  <2> QED BY <2>1, <2>2
<1>7. \/ c = L + 1
      \/ /\ s[c] = "e"
         /\ \E x \in {c + 1, c + 2} :
               AllDigits(s, x, L + 1) /\ (x = c + 2 => s[c + 1] \in {"-", "+"})
  <2>1. CASE At(s, c, {"e"})
    <3>1. s[c] = "e" /\ c \in Nat
      BY <1>2, <1>5, <1>6, <2>1 DEF At
    <3>2. d \in {c + 1, c + 2} /\ d \in Nat \ {0} /\ (d = c + 2 => s[c + 1] \in {"-", "+"})
      <4>1. d = IF At(s, c + 1, {"-", "+"}) THEN c + 2 ELSE c + 1
        BY <1>0
      <4> QED BY <3>1, <4>1 DEF At
    <3>3. ReadInt(s, d, TRUE) = L + 1
      BY <1>0, <1>3, <2>1
    <3>4. Stops(s, d, L + 1, TRUE)
      BY <1>1, <3>2, <3>3, ReadIntStops
    <3> QED BY <3>1, <3>2, <3>4 DEF Stops
  <2>2. CASE ~At(s, c, {"e"})
    BY <1>0, <2>2
  <2> QED BY <2>1, <2>2
<1>8. b \in a..L + 1 /\ c \in a..L + 1 /\ b <= c /\ a <= L
  BY <1>2, <1>5, <1>6
<1>9. JsonNumber(s)
  <2> QED BY <1>2, <1>5, <1>6, <1>7, <1>8 DEF JsonNumber
<1> QED BY <1>8, <1>9 DEF a

LEMMA NumberIsToken ==
    ASSUME NEW s, Len(s) \in Nat, DOMAIN s = 1..Len(s), JsonNumber(s)
    PROVE  IsNumber(s)
<1> DEFINE L == Len(s)
<1>1. PICK a \in {1, 2}, b \in 1..L + 1, c \in 1..L + 1 :
        /\ a <= b /\ b <= c
        /\ a = 2 => s[1] = "-"
        /\ AllDigits(s, a, b) /\ (s[a] = "0" => b = a + 1)
        /\ b = c \/ (s[b] = "." /\ AllDigits(s, b + 1, c))
        /\ \/ c = L + 1
           \/ s[c] = "e" /\ \E d \in {c + 1, c + 2} :
                 AllDigits(s, d, L + 1) /\ (d = c + 2 => s[c + 1] \in {"-", "+"})
  BY DEF JsonNumber
<1>2. a < b /\ IsAsciiDigit(s[a]) /\ a \in Nat \ {0} /\ b \in Nat /\ c \in Nat
  BY <1>1 DEF AllDigits
<1>3. Start(s) = a
  <2>1. CASE a = 1
    BY <1>2, <2>1, NotDigits DEF Start, At
  <2>2. CASE a = 2
    <3>1. 1 \in 1..L
      BY <1>1, <1>2, <2>2
    <3> QED BY <1>1, <2>2, <3>1 DEF Start, At
  <2> QED BY <2>1, <2>2
<1>4. b <= L => ~IsAsciiDigit(s[b]) /\ (s[b] = "." <=> b # c)
  BY <1>1, <1>2, NotDigits
<1>5. c <= L => s[c] = "e" /\ ~IsAsciiDigit(s[c])
  BY <1>1, <1>2, NotDigits
<1>6. ReadInt(s, a, FALSE) = b
  <2>1. Stops(s, a, b, FALSE)
    BY <1>1, <1>2, <1>4 DEF Stops
  <2> QED BY <1>2, <2>1, ReadIntStops
<1>7. At(s, b, {"."}) <=> b # c
  <2>1. b \in DOMAIN s <=> b <= L
    BY <1>2
  <2>2. b # c => b <= L
    BY <1>1, <1>2
  <2> QED BY <1>4, <2>1, <2>2 DEF At
<1>8. b # c => ReadInt(s, b + 1, TRUE) = c
  <2> SUFFICES ASSUME b # c PROVE ReadInt(s, b + 1, TRUE) = c
    OBVIOUS
  <2>1. AllDigits(s, b + 1, c) /\ b + 1 < c /\ b + 1 \in Nat \ {0}
    BY <1>1, <1>2 DEF AllDigits
  <2>2. c \in (b + 1) + 1..L + 1
    BY <1>1, <1>2, <2>1
  <2>3. Stops(s, b + 1, c, TRUE)
    BY <1>5, <2>1, <2>2 DEF Stops
  <2> QED BY <2>1, <2>3, ReadIntStops
<1>9. At(s, c, {"e"}) <=> c # L + 1
  <2>1. c \in DOMAIN s <=> c <= L
    BY <1>2
  <2>2. c # L + 1 <=> c <= L
    BY <1>1, <1>2
  <2> QED BY <1>5, <2>1, <2>2 DEF At
<1>10. ASSUME c # L + 1
       PROVE  ReadInt(s, IF At(s, c + 1, {"-", "+"}) THEN c + 2 ELSE c + 1, TRUE) = L + 1
  <2>1. PICK d \in {c + 1, c + 2} : AllDigits(s, d, L + 1) /\ (d = c + 2 => s[c + 1] \in {"-", "+"})
    BY <1>1, <1>10
  <2>2. d < L + 1 /\ d \in Nat \ {0} /\ d \in Nat /\ IsAsciiDigit(s[d])
    BY <1>2, <2>1 DEF AllDigits
  <2>3. (IF At(s, c + 1, {"-", "+"}) THEN c + 2 ELSE c + 1) = d
    <3>1. CASE d = c + 2
      <4>1. c + 1 \in 1..L
        BY <1>2, <2>2, <3>1
      <4> QED BY <2>1, <3>1, <4>1 DEF At
    <3>2. CASE d = c + 1
      BY <2>2, <3>2, NotDigits DEF At
    <3> QED BY <3>1, <3>2
  <2>4. Stops(s, d, L + 1, TRUE)
    BY <2>1, <2>2 DEF Stops
  <2> QED BY <2>2, <2>3, <2>4, ReadIntStops
<1>11. ParseNumberToken(s) = L + 1
  <2> DEFINE int == ReadInt(s, IF At(s, 1, {"-"}) THEN 2 ELSE 1, FALSE)
             frac == IF int # 0 /\ At(s, int, {"."}) THEN ReadInt(s, int + 1, TRUE) ELSE int
  <2>1. int = b
    BY <1>3, <1>6 DEF Start
  <2> HIDE DEF int
  <2>2. frac = c
    <3>1. CASE b = c
      BY <1>7, <2>1, <3>1
    <3>2. CASE b # c
      <4>1. int # 0 /\ At(s, int, {"."})
        BY <1>2, <1>7, <2>1, <3>2
      <4> QED BY <1>8, <2>1, <3>2, <4>1
    <3> QED BY <3>1, <3>2
  <2> HIDE DEF frac
  <2>3. c # 0
    BY <1>1, <1>2
  <2>4. ParseNumberToken(s) =
          IF frac # 0 /\ At(s, frac, {"e"})
          THEN ReadInt(s, IF At(s, frac + 1, {"-", "+"}) THEN frac + 2 ELSE frac + 1, TRUE)
          ELSE frac
    BY DEF ParseNumberToken, int, frac
  <2> QED BY <1>9, <1>10, <2>2, <2>3, <2>4
<1> QED BY <1>11 DEF IsNumber

(* The two ways of reading digits come together.                           *)
LEMMA EverySpelling ==
    ASSUME NEW s, Len(s) \in Nat, DOMAIN s = 1..Len(s)
    PROVE  ReadsRight(s)
<1>1. IsNumber(s) <=> JsonNumber(s)
  BY TokenIsNumber, NumberIsToken
<1>2. ASSUME IsNumber(s)
      PROVE  IF IsInteger(s) /\ Amount(s) \in MinInt..MaxInt
             THEN DecodeNumber(s) = <<"integer", Amount(s)>>
             ELSE DecodeNumber(s)[1] # "integer"
  <2> DEFINE L == Len(s)
             i == IF s[1] = "-" THEN 2 ELSE 1
             sign == IF s[1] = "-" THEN -1 ELSE 1
             r == BaseInvoke(s, i, sign)
  <2>1. Start(s) <= L /\ Start(s) \in {1, 2}
    BY <1>2, TokenIsNumber DEF Start
  <2>2. 1 \in DOMAIN s
    BY <2>1
  <2>3. i = Start(s) /\ (At(s, 1, {"-"}) <=> s[1] = "-")
    BY <2>2 DEF At, Start
  <2>4. StringToInt(s) = r
    BY <2>3 DEF StringToInt
  <2>5. i \in 1..L + 1 /\ sign \in {1, -1}
    BY <2>1, <2>3
  <2> HIDE DEF i, sign
  <2>6. PICK h \in [i - 1..L -> Nat] : Horner(h, s, i)
    BY <2>5, HornerExists
  <2> DEFINE x == h[L]
  <2>7. x \in Nat
    BY <2>5
  <2>8. /\ r.ok <=> AllDigits(s, i, L + 1) /\ Fits(sign, x)
        /\ r.ok => r.output = sign * x
    BY <2>5, <2>6, InvokeReads
  <2>9. IsInteger(s) <=> AllDigits(s, i, L + 1)
    BY DEF IsInteger, i
  <2>10. IsInteger(s) => Magnitude(s, i) = x
    BY <2>5, <2>6, <2>9, MagnitudeIsHorner
  <2> HIDE DEF x, r
  <2>11. IsInteger(s) => Amount(s) = Signed(sign, x) /\ sign * x = Signed(sign, x)
    <3>1. CASE s[1] = "-"
      <4>1. Amount(s) = -Magnitude(s, 2) /\ i = 2 /\ sign = -1
        BY <3>1 DEF Amount, i, sign
      <4> QED BY <2>7, <2>10, <4>1 DEF Signed
    <3>2. CASE s[1] # "-"
      <4>1. Amount(s) = Magnitude(s, 1) /\ i = 1 /\ sign = 1
        BY <3>2 DEF Amount, i, sign
      <4> QED BY <2>7, <2>10, <4>1 DEF Signed
    <3> QED BY <3>1, <3>2
  <2>12. Signed(sign, x) \in MinInt..MaxInt <=> Fits(sign, x)
    <3>1. MinInt \in Int /\ MaxInt \in Int /\ MinInt <= 0 /\ 0 <= MaxInt
      BY IntAssumption DEF MinInt
    <3>2. CASE sign = 1
      BY <2>7, <3>1, <3>2 DEF Signed, Fits
    <3>3. CASE sign = -1
      BY <2>7, <3>1, <3>3 DEF Signed, Fits
    <3> QED BY <2>5, <3>2, <3>3
  <2>13. DecodeNumber(s) = IF r.ok THEN <<"integer", r.output>>
                           ELSE IF StodThrows(s) THEN <<"thrown">> ELSE <<"double">>
    BY <2>4 DEF DecodeNumber
  <2>14. CASE IsInteger(s) /\ Amount(s) \in MinInt..MaxInt
    <3>1. r.ok /\ r.output = Amount(s)
      BY <2>8, <2>9, <2>11, <2>12, <2>14
    <3> QED BY <2>13, <2>14, <3>1
  <2>15. CASE ~(IsInteger(s) /\ Amount(s) \in MinInt..MaxInt)
    <3>1. ~r.ok
      BY <2>8, <2>9, <2>11, <2>12, <2>15
    <3>2. DecodeNumber(s) = <<"thrown">> \/ DecodeNumber(s) = <<"double">>
      BY <2>13, <3>1
    <3> QED BY <2>15, <3>2
  <2> QED BY <2>14, <2>15
<1> QED BY <1>1, <1>2 DEF ReadsRight

(* Every spelling, however long, and whatever an int can hold: the token   *)
(* is a number exactly if JSON says so, and it is read as an int exactly   *)
(* if it is an integer within the limits, of that very amount              *)
(* (json_reader.cc:31-50, 361-420, string_number_conversions.cc:200-270).  *)
THEOREM NumbersRead == Spec => []NumbersReadRight
<1>1. ASSUME NEW s \in Spellings
      PROVE  ReadsRight(s)
  <2>1. Len(s) \in Nat /\ DOMAIN s = 1..Len(s)
    BY SpellingsAssumption DEF IsText
  <2> QED BY <2>1, EverySpelling
<1>2. NumbersReadRight
  BY <1>1 DEF NumbersReadRight
<1> QED BY <1>2, PTL
=============================================================================
