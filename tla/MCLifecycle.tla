----------------------------- MODULE MCLifecycle ----------------------------
(* Small instances of Lifecycle for TLC.                                   *)
EXTENDS Lifecycle, TLC

CONSTANTS a, b

(* Two instances, with one and two sessions, in either order of creation.  *)
Sizes == (a :> 1) @@ (b :> 2)
OneSize == (a :> 2)
=============================================================================
