---------------------------- MODULE MCVueTemplate ----------------------------
\* Templates in six vocabularies: tags that are left open or closed twice,
\* chains of v-if, loops with v-once, and v-pre.
EXTENDS VueCodegen

Tag(tag) == StartToken(tag, {}, FALSE)
With(tag, has) == StartToken(tag, has, FALSE)
Closed(tag, has) == StartToken(tag, has, TRUE)

Tags ==
    [opening |-> <<>>,
     tokens |-> {Tag("div"), Tag("p"), Tag("li"), Tag("br"), EndToken("div"),
                 EndToken("p"), TextToken("blank"), TextToken("words")}]

Conditions ==
    [opening |-> <<Tag("div")>>,
     tokens |-> {With("b", {"if"}), Closed("b", {"elseif", "bind"}),
                 Closed("i", {"else", "for", "bind"}), Closed("b", {"else", "once", "bind"}),
                 EndToken("b"), EndToken("div"), TextToken("blank"), TextToken("msg")}]

Loops(loop) ==
    [opening |-> <<Tag("div"), loop>>,
     tokens |-> {Tag("div"), Closed("b", {"for", "if", "bind"}), With("i", {"once"}),
                 EndToken("i"), EndToken(loop.tag), TextToken("item"), TextToken("words")}]

Literal ==
    [opening |-> <<Tag("div")>>,
     tokens |-> {With("div", {"pre", "if"}), With("b", {"bind"}), Closed("i", {"once", "if", "bind"}),
                 Tag("pre"), EndToken("div"), EndToken("b"), TextToken("blank"), TextToken("msg")}]

AllVocabularies ==
    {Tags, Conditions, Loops(With("li", {"for", "key"})), Loops(With("li", {"for"})),
     Loops(With("template", {"for"})), Literal}

DataOf(ok, also, count, msg) == [ok |-> ok, also |-> also, count |-> count, msg |-> msg]

TwoDatas == {DataOf(TRUE, FALSE, 2, "m1"), DataOf(FALSE, TRUE, 1, "m2")}

TwoItems == <<"x", "y">>
==============================================================================
