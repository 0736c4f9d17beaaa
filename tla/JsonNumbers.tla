---------------------------- MODULE JsonNumbers -----------------------------
(***************************************************************************)
(* Numbers in JSON: how JSONReader finds a number token                    *)
(* (chromium/json/json_reader.cc) and makes an int or a double of it       *)
(* (chromium/string_number_conversions.cc), character by character, and    *)
(* what a number is by definition.                                         *)
(***************************************************************************)
EXTENDS Integers, Sequences, FiniteSetsExt

CONSTANTS
    MaxInt,             \* numeric_limits<int>::max(); min() is -MaxInt - 1
    MaxExponent,        \* largest exponent a double can have
    Spellings           \* sequences of characters, numbers or not

ASSUME IntAssumption == MaxInt \in Nat /\ MaxInt >= 10 /\ MaxExponent \in Nat

IsText(s) == s \in Seq({s[i] : i \in DOMAIN s})
ASSUME SpellingsAssumption == \A s \in Spellings : IsText(s)

(* The characters that make up the token of a number.                      *)
Digit == [c \in {"0", "1", "2", "3", "4", "5", "6", "7", "8", "9"} |->
            CASE c = "0" -> 0 [] c = "1" -> 1 [] c = "2" -> 2 [] c = "3" -> 3 [] c = "4" -> 4
              [] c = "5" -> 5 [] c = "6" -> 6 [] c = "7" -> 7 [] c = "8" -> 8 [] OTHER -> 9]
IsAsciiDigit(c) == c \in DOMAIN Digit

(* The position after the digits that start at i, 0 when ReadInt fails.    *)
ReadInt(s, i, can_have_leading_zeros) ==
    LET others == {j \in i..Len(s) : ~IsAsciiDigit(s[j])}
        stop == IF others = {} THEN Len(s) + 1 ELSE Min(others)
    IN  IF stop <= i \/ (~can_have_leading_zeros /\ stop > i + 1 /\ s[i] = "0")
        THEN 0 ELSE stop

At(s, i, cs) == i \in DOMAIN s /\ s[i] \in cs

(* The position after [minus] int [frac] [exp], 0 for an invalid token.    *)
ParseNumberToken(s) ==
    LET int == ReadInt(s, IF At(s, 1, {"-"}) THEN 2 ELSE 1, FALSE)
        frac == IF int # 0 /\ At(s, int, {"."}) THEN ReadInt(s, int + 1, TRUE) ELSE int
    IN  IF frac # 0 /\ At(s, frac, {"e"})
        THEN ReadInt(s, IF At(s, frac + 1, {"-", "+"}) THEN frac + 2 ELSE frac + 1, TRUE)
        ELSE frac

IsNumber(s) == ParseNumberToken(s) = Len(s) + 1

(* C++ division truncates towards zero.                                    *)
MinInt == -MaxInt - 1
Quot(a, b) == IF a >= 0 THEN a \div b ELSE -((-a) \div b)
Rem(a, b) == a - b * Quot(a, b)

(* Would output * 10 +/- digit overflow?                                   *)
PositiveCheckBounds(output, digit) ==
    ~(output > Quot(MaxInt, 10) \/ (output = Quot(MaxInt, 10) /\ digit > Rem(MaxInt, 10)))
(* Mutant of NegativeCheckBounds: the bound of the positive numbers.       *)
NegativeAsPositive(output, digit) ==
    ~(output < Quot(MinInt, 10) \/ (output = Quot(MinInt, 10) /\ digit > Rem(MaxInt, 10)))
NegativeCheckBounds(output, digit) ==
    ~(output < Quot(MinInt, 10) \/ (output = Quot(MinInt, 10) /\ digit > 0 - Rem(MinInt, 10)))

(* Base<Sign>::Invoke over the digits from i on.                           *)
BaseInvoke(s, i, sign) ==
    LET Digits[k \in i - 1..Len(s)] ==
            IF k < i THEN [ok |-> Len(s) >= i, output |-> 0]
            ELSE LET before == Digits[k - 1]
                 IN  IF ~before.ok THEN before
                     ELSE IF ~IsAsciiDigit(s[k]) THEN [before EXCEPT !.ok = FALSE]
                     ELSE IF k > i /\ ~(IF sign = 1
                                        THEN PositiveCheckBounds(before.output, Digit[s[k]])
                                        ELSE NegativeCheckBounds(before.output, Digit[s[k]]))
                     THEN [ok |-> FALSE, output |-> IF sign = 1 THEN MaxInt ELSE MinInt]
                     ELSE [ok |-> TRUE, output |-> before.output * 10 + sign * Digit[s[k]]]
    IN  Digits[Len(s)]

(* A number token has no leading white space and no plus sign.             *)
StringToInt(s) ==
    IF At(s, 1, {"-"}) THEN BaseInvoke(s, 2, -1) ELSE BaseInvoke(s, 1, 1)

(* std::stod throws out_of_range where strtod would have set ERANGE, which *)
(* is what the errno test after it is for.                                 *)
StodThrows(s) ==
    \E e \in DOMAIN s :
        s[e] = "e" /\ LET first == IF At(s, e + 1, {"-", "+"}) THEN e + 2 ELSE e + 1
                      IN  BaseInvoke(s, first, 1).output > MaxExponent

DecodeNumber(s) ==
    IF StringToInt(s).ok THEN <<"integer", StringToInt(s).output>>
    ELSE IF StodThrows(s) THEN <<"thrown">>
    ELSE <<"double">>

-----------------------------------------------------------------------------
(* Numbers, by definition: a JSON number is a minus sign or nothing, 0 or  *)
(* a digit string that does not start with 0, a fraction or nothing, an    *)
(* exponent or nothing. Without the last two it is an integer.             *)
AllDigits(s, i, j) == i < j /\ \A k \in i..j - 1 : IsAsciiDigit(s[k])
JsonNumber(s) ==
    \E a \in {1, 2} : \E b, c \in a..Len(s) + 1 :
        /\ b <= c
        /\ a = 2 => s[1] = "-"
        /\ AllDigits(s, a, b) /\ (s[a] = "0" => b = a + 1)
        /\ b = c \/ (s[b] = "." /\ AllDigits(s, b + 1, c))
        /\ \/ c = Len(s) + 1
           \/ s[c] = "e" /\ \E d \in {c + 1, c + 2} :
                 AllDigits(s, d, Len(s) + 1) /\ (d = c + 2 => s[c + 1] \in {"-", "+"})

(* The amount of the digits from i on: the last one counts once, every     *)
(* other one ten times what the next one counts.                           *)
Magnitude(s, i) ==
    LET Weight[k \in 0..Len(s)] == IF k = 0 THEN 1 ELSE 10 * Weight[k - 1]
        Sum[k \in 0..Len(s) + 1 - i] ==
            IF k = 0 THEN 0 ELSE Sum[k - 1] + Digit[s[Len(s) + 1 - k]] * Weight[k - 1]
    IN  Sum[Len(s) + 1 - i]

IsInteger(s) == AllDigits(s, IF s[1] = "-" THEN 2 ELSE 1, Len(s) + 1)
Amount(s) == IF s[1] = "-" THEN -Magnitude(s, 2) ELSE Magnitude(s, 1)

(* The exponent, of either sign, is beyond what a double can have.         *)
OutOfRange(s) ==
    \E e \in DOMAIN s : \E d \in {e + 1, e + 2} :
        /\ s[e] = "e" /\ (d = e + 2 => s[e + 1] \in {"-", "+"})
        /\ AllDigits(s, d, Len(s) + 1)
        /\ Magnitude(s, d) > MaxExponent

(* A number token is a number, and it becomes an int exactly if it is an   *)
(* integer that an int can hold, of that very amount.                      *)
ReadsRight(s) ==
    /\ IsNumber(s) <=> JsonNumber(s)
    /\ IsNumber(s) =>
          IF IsInteger(s) /\ Amount(s) \in MinInt..MaxInt
          THEN DecodeNumber(s) = <<"integer", Amount(s)>>
          ELSE DecodeNumber(s)[1] # "integer"
=============================================================================
