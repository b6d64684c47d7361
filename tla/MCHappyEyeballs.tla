--------------------------- MODULE MCHappyEyeballs ---------------------------
(* The instance of HappyEyeballs for TLC: two calls and one forwarded request
   on a gate of two slots. The calls are not declared symmetric, because the
   instance also checks liveness. *)
EXTENDS HappyEyeballs
=============================================================================
