----------------------------- MODULE MCProvider -----------------------------
(* Small instances of Provider for TLC.                                    *)
EXTENDS Provider, TLC

CONSTANTS r1, r2

OneVersion == {<<14, 1>>}
(* Two versions that differ in both components, in opposite directions.    *)
TwoVersions == {<<13, 2>>, <<14, 1>>}

StreamSymmetry == Permutations(Streams)
=============================================================================
