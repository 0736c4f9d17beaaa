------------------------------ MODULE MCValues ------------------------------
(* One plain key, one key whose name reads like a path through the first.  *)
EXTENDS Values

MCKeys == {"a", "a.a"}
MCPath == [k \in MCKeys |-> IF k = "a" THEN <<"a">> ELSE <<"a", "a">>]
MCScalars == {<<"integer", 1>>}
=============================================================================
