--------------------------- MODULE MCVueTransition ---------------------------
(* Instances of the transition for TLC. *)
EXTENDS VueTransition

CONSTANTS a, b   \* the children

\* v-show has one child, so no mode; "in-out" needs an enter that takes time.
Usual == {t \in Attributes : /\ t.show => t.mode = "both"
                             /\ t.mode = "in-out" => t.css \/ t.control}
=============================================================================
