----------------------------- MODULE MCHttpQuery ----------------------------
(* The small instances of HttpQuery: one resource. What they check of the  *)
(* safety of a query HttpQueryProofs proves for any number of them.        *)
EXTENDS HttpQuery

CONSTANT c1
=============================================================================
