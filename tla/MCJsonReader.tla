---------------------------- MODULE MCJsonReader ----------------------------
(* In documents, one number of each kind: an int, one that only fits into  *)
(* a double, a misspelt one, one that no double can hold. On their own,    *)
(* all spellings of up to four characters.                                 *)
EXTENDS JsonLanguage

MCTexts == {<<"1">>, <<"1", "6">>, <<"0", "1">>, <<"1", "e", "6">>}

MCChars == {"-", "+", "0", "1", "5", "6", ".", "e"}
MCSpellings == UNION {[1..n -> MCChars] : n \in 0..4}
=============================================================================
