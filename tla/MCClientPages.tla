---------------------------- MODULE MCClientPages ----------------------------
(* Instances of the pages for TLC. *)
EXTENDS ClientPages

CONSTANTS k1, a1, a2, d1, d2   \* rows and what they say
=============================================================================
