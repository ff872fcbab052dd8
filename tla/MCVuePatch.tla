----------------------------- MODULE MCVuePatch -----------------------------
(* Instances of the patch of a list for TLC. *)
EXTENDS VuePatch

CONSTANTS a, b, c, r, Div, Span

D(k, t, x, f) == [key |-> k, tag |-> t, text |-> x, ref |-> f]

\* Children with keys, one of them once another element, one with another text,
\* with a reference or without, and a text node, which has no key.
ListDescriptions ==
    {D(a, Div, "x", r), D(a, Span, "x", NoRef),
     D(b, Div, "x", r), D(b, Div, "y", NoRef),
     D(c, Div, "x", NoRef), D(NoKey, Text, "x", NoRef)}
=============================================================================
