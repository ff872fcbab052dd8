------------------------------ MODULE VueParser ------------------------------
(***************************************************************************)
(* From a template to its tree: vue.js's parseHTML, which keeps a stack of *)
(* open tags and repairs what is not closed, and the hooks parse gives it, *)
(* which keep a stack of their own and put the elements in their places.   *)
(*                                                                         *)
(* A template is a sequence of tokens.  An attribute is present or not;    *)
(* a text is blank, fixed words or an expression.  Slots, forbidden tags,  *)
(* plain-text elements and comments are left out.                          *)
(***************************************************************************)
EXTENDS Naturals, FiniteSets, SequencesExt

CONSTANTS
    Vocabularies,   \* what a template is written in: tokens it opens with and
                    \* the set of those it goes on with
    MaxTokens       \* bound: tokens after the opening

StartToken(tag, has, slash) == [kind |-> "start", tag |-> tag, has |-> has, slash |-> slash]
EndToken(tag) == [kind |-> "end", tag |-> tag, has |-> {}, slash |-> FALSE]
TextToken(text) == [kind |-> "text", tag |-> text, has |-> {}, slash |-> FALSE]

Directives == {"pre", "for", "if", "elseif", "else", "once", "key", "bind"}
Texts == {"blank", "words", "msg", "item"}

ASSUME ParserAssumption ==
    /\ \A t \in UNION {Range(v.opening) \cup v.tokens : v \in Vocabularies} :
          t.has \subseteq Directives /\ (t.kind = "text" => t.tag \in Texts)
    /\ MaxTokens \in Nat

VARIABLES
    vocabulary,   \* what this template is written in
    template,     \* the tokens read so far
    mode,         \* "parse", then "parsed", then "ready"
    open,         \* parseHTML's stack: the tags that are open
    lastTag,      \* the innermost of them, "" for none
    nodes,        \* the elements and texts made so far
    stack,        \* parse's stack: the elements that are open
    inVPre,       \* below a v-pre
    inPre,        \* below a <pre>
    root          \* the root element, 0 for none

parser == <<open, lastTag, nodes, stack, inVPre, inPre, root>>

-----------------------------------------------------------------------------
(* Tags *)

UnaryTags == {"br", "hr", "img", "input"}
LeftOpenTags == {"p", "li", "td", "tr"}
NonPhrasingTags == {"div", "li", "td", "tr", "form", "hr"}

-----------------------------------------------------------------------------
(* What the hooks do to the state of the parser, s *)

State == [open |-> open, lastTag |-> lastTag, nodes |-> nodes, stack |-> stack,
          inVPre |-> inVPre, inPre |-> inPre, root |-> root]

Becomes(s) ==
    /\ open' = s.open /\ lastTag' = s.lastTag /\ nodes' = s.nodes /\ stack' = s.stack
    /\ inVPre' = s.inVPre /\ inPre' = s.inPre /\ root' = s.root

Top(seq, none) == IF seq = <<>> THEN none ELSE Last(seq)
CurrentParent(s) == Top(s.stack, 0)

\* "raw" is what the tag says, "has" what it is taken for; "conds" are the
\* branches of a v-if.
Element(s, tag, raw, has) ==
    [type |-> "element", tag |-> tag, raw |-> raw, has |-> has, at |-> Len(template) + 1,
     parent |-> CurrentParent(s), children |-> <<>>,
     conds |-> IF "if" \in has THEN <<Len(s.nodes) + 1>> ELSE <<>>]

Text(s, text, type) ==
    [type |-> type, tag |-> text, raw |-> {}, has |-> {}, at |-> Len(template) + 1,
     parent |-> CurrentParent(s), children |-> <<>>, conds |-> <<>>]

\* processFor, processIf and processOnce: v-else counts only without v-if.
Structural(raw) ==
    (raw \cap {"for", "once"})
        \cup IF "if" \in raw THEN {"if"} ELSE raw \cap {"elseif", "else"}

Alternative(node) == node.has \cap {"elseif", "else"} # {}

Blank(s, n) == s.nodes[n].type = "text" /\ s.nodes[n].tag = "blank"

TrimEndingWhitespace(s, n) ==
    LET children == s.nodes[n].children
        kept == {i \in DOMAIN children : ~ Blank(s, children[i])}
        last == IF kept = {} THEN 0 ELSE CHOOSE i \in kept : \A j \in kept : j <= i
    IN IF s.inPre THEN s ELSE [s EXCEPT !.nodes[n].children = SubSeq(children, 1, last)]

AddIfCondition(s, n, block) == [s EXCEPT !.nodes[n].conds = Append(@, block)]

\* findPrevElement drops the texts after the last element.
DropTexts(s, parent) ==
    LET children == s.nodes[parent].children
        elements == {i \in DOMAIN children : s.nodes[children[i]].type = "element"}
        last == IF elements = {} THEN 0
                ELSE CHOOSE i \in elements : \A j \in elements : j <= i
    IN [s EXCEPT !.nodes[parent].children = SubSeq(children, 1, last)]

\* A v-else without a v-if before it is dropped.
ProcessIfConditions(s, n, parent) ==
    LET t == DropTexts(s, parent)
        prev == Top(t.nodes[parent].children, 0)
    IN IF prev # 0 /\ "if" \in t.nodes[prev].has THEN AddIfCondition(t, prev, n) ELSE t

\* An element outside the root counts only as another branch of it.
PlaceElement(s, n) ==
    LET parent == CurrentParent(s)
    IN IF parent # 0
       THEN IF Alternative(s.nodes[n]) THEN ProcessIfConditions(s, n, parent)
            ELSE [s EXCEPT !.nodes[parent].children = Append(@, n)]
       ELSE IF n # s.root /\ "if" \in s.nodes[s.root].has /\ Alternative(s.nodes[n])
       THEN AddIfCondition(s, s.root, n)
       ELSE s

\* Fault: v-pre ends with the first element that is closed.
CloseElementEndingPre(s, n) ==
    LET trimmed == TrimEndingWhitespace(s, n)
        processed == IF s.inVPre THEN trimmed
                     ELSE [trimmed EXCEPT !.nodes[n].has =
                             @ \cup (s.nodes[n].raw \cap {"bind", "key"})]
        placed == TrimEndingWhitespace(PlaceElement(processed, n), n)
    IN [placed EXCEPT !.inVPre = FALSE, !.inPre = @ /\ s.nodes[n].tag # "pre"]

\* closeElement.
CloseElement(s, n) ==
    LET trimmed == TrimEndingWhitespace(s, n)
        processed == IF s.inVPre THEN trimmed
                     ELSE [trimmed EXCEPT !.nodes[n].has =
                             @ \cup (s.nodes[n].raw \cap {"bind", "key"})]
        placed == TrimEndingWhitespace(PlaceElement(processed, n), n)
    IN [placed EXCEPT !.inVPre = @ /\ "pre" \notin s.nodes[n].has,
                      !.inPre = @ /\ s.nodes[n].tag # "pre"]

\* The start hook.
Start(s, tag, raw, unary) ==
    LET n == Len(s.nodes) + 1
        pre == ~ s.inVPre /\ "pre" \in raw
        has == IF pre THEN {"pre"} ELSE IF s.inVPre THEN {} ELSE Structural(raw)
        made == [s EXCEPT !.nodes = Append(@, Element(s, tag, raw, has)),
                          !.inVPre = @ \/ pre, !.inPre = @ \/ tag = "pre",
                          !.root = IF @ = 0 THEN n ELSE @]
    IN IF unary THEN CloseElement(made, n) ELSE [made EXCEPT !.stack = Append(@, n)]

\* The end hook.
End(s) == CloseElement([s EXCEPT !.stack = Front(@)], Last(s.stack))

\* The chars hook.
Chars(s, text) ==
    LET parent == CurrentParent(s)
        children == s.nodes[parent].children
        type == IF text \in {"msg", "item"} /\ ~ s.inVPre THEN "expression" ELSE "text"
        again == text = "blank" /\ children # <<>> /\ Blank(s, Last(children))
        added == [s EXCEPT !.nodes = Append(@, Text(s, text, type))]
    IN IF parent = 0 \/ (text = "blank" /\ ~ s.inPre /\ children = <<>>) \/ again THEN s
       ELSE [added EXCEPT !.nodes[parent].children = Append(@, Len(added.nodes))]

-----------------------------------------------------------------------------
(* parseHTML *)

\* The end hook, for the k innermost elements.
Ends(s, k) ==
    LET ended[i \in 0 .. k] == IF i = 0 THEN s ELSE End(ended[i - 1])
    IN ended[k]

\* Fault: what was innermost before stays so.
CloseFromStale(s, pos) ==
    [Ends(s, Len(s.open) - pos + 1) EXCEPT !.open = SubSeq(s.open, 1, pos - 1)]

\* Closes the elements from the top of the stack down to pos.
CloseFrom(s, pos) ==
    LET left == SubSeq(s.open, 1, pos - 1)
    IN [Ends(s, Len(s.open) - pos + 1) EXCEPT !.open = left, !.lastTag = Top(left, "")]

\* parseEndTag: the closest open tag of the name; </br> and </p> stand for an
\* element where there is none.
ParseEndTag(s, tag) ==
    LET same == {i \in DOMAIN s.open : s.open[i] = tag}
    IN IF same # {} THEN CloseFrom(s, CHOOSE i \in same : \A j \in same : j <= i)
       ELSE IF tag = "br" THEN Start(s, tag, {}, TRUE)
       ELSE IF tag = "p" THEN End(Start(s, tag, {}, FALSE))
       ELSE s

\* handleStartTag: a paragraph ends before a block, and what may be left open
\* before another of its kind.
HandleStartTag(s, t) ==
    LET phrased == IF s.lastTag = "p" /\ t.tag \in NonPhrasingTags
                   THEN ParseEndTag(s, "p") ELSE s
        ready == IF t.tag \in LeftOpenTags /\ phrased.lastTag = t.tag
                 THEN ParseEndTag(phrased, t.tag) ELSE phrased
        unary == t.tag \in UnaryTags \/ t.slash
    IN Start(IF unary THEN ready
             ELSE [ready EXCEPT !.open = Append(@, t.tag), !.lastTag = t.tag],
             t.tag, t.has, unary)

\* One turn of the loop.
Read(t) ==
    /\ mode = "parse"
    /\ Len(template) < Len(vocabulary.opening) + MaxTokens
    /\ template' = Append(template, t)
    /\ \/ t.kind = "start" /\ Becomes(HandleStartTag(State, t))
       \/ t.kind = "end" /\ Becomes(ParseEndTag(State, t.tag))
       \/ t.kind = "text" /\ Becomes(IF stack = <<>> THEN State ELSE Chars(State, t.tag))
    /\ UNCHANGED <<vocabulary, mode>>

\* The template ends: what is open is closed.
Finish ==
    /\ mode = "parse"
    /\ mode' = "parsed"
    /\ Becomes(CloseFrom(State, 1))
    /\ UNCHANGED <<vocabulary, template>>

ParserInit ==
    /\ vocabulary \in Vocabularies
    /\ template = <<>>
    /\ mode = "parse"
    /\ open = <<>> /\ lastTag = "" /\ nodes = <<>> /\ stack = <<>>
    /\ inVPre = FALSE /\ inPre = FALSE /\ root = 0

Tokens ==
    IF Len(template) < Len(vocabulary.opening) THEN {vocabulary.opening[Len(template) + 1]}
    ELSE vocabulary.tokens

ParserNext == Finish \/ \E t \in Tokens : Read(t)

ParserSpec == ParserInit /\ [][ParserNext]_<<vocabulary, template, mode, parser>>

-----------------------------------------------------------------------------
(* Properties of the parser *)

\* The two stacks, parseHTML's and parse's, hold the same open tags, whatever is
\* left open, closed twice or closed by another tag.
StacksAgree ==
    /\ open = [i \in DOMAIN stack |-> nodes[stack[i]].tag]
    /\ lastTag = Top(open, "")

\* Directives are taken literally exactly below an element with v-pre: closing
\* the elements inside it does not end it, and however it is closed it ends.
VPreIsOpen == inVPre <=> \E i \in DOMAIN stack : "pre" \in nodes[stack[i]].has

=============================================================================
