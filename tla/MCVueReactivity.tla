-------------------------- MODULE MCVueReactivity --------------------------
(* Instances of the reactivity of a page for TLC. *)
EXTENDS VueReactivity

CONSTANTS a, b   \* the properties

\* An object with both properties and one with a alone.
Both(v, w) == [k \in Keys |-> IF k = a THEN v ELSE w]
PageObjects == {Both(0, 1), Both(1, Undefined)}

IfElse(t, y, n) == [test |-> t, yes |-> y, no |-> n]

\* A computed property that reads b only while a is not 1, a watcher that reads a
\* and the computed property and changes a, and the render watcher.
PageKind == <<"lazy", "user", "render">>
PageProgram == <<IfElse(a, a, b), IfElse(a, 1, b), IfElse(1, a, b)>>
PageReaction == <<Nothing, a, Nothing>>
=============================================================================
