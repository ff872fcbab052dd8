------------------------------ MODULE VueCodegen ------------------------------
(***************************************************************************)
(* From the tree of a template to what it shows: vue.js's optimize, which  *)
(* looks for what never changes, generate, which turns the tree into the   *)
(* code of a render function and hoists what is static out of it, and the  *)
(* helpers that code calls, renderList, renderStatic, markOnce and the     *)
(* normalization of children.                                              *)
(*                                                                         *)
(* What is rendered takes the place of what the same element rendered      *)
(* before (VuePatch has how they are matched).  All tags are reserved      *)
(* ones: there are no components.                                          *)
(***************************************************************************)
EXTENDS VueParser

CONSTANTS
    Datas,       \* what the data can be: [ok, also, count, msg]
    Items,       \* the items of the list v-for goes through, count of them
    MaxRenders   \* bound: renders of a template

ASSUME CodegenAssumption ==
    /\ \A d \in Datas : d.count <= Len(Items)
    /\ MaxRenders \in Nat

VARIABLES
    code,    \* the render function, the static ones inside it
    trees,   \* _staticTrees: what each static function has rendered
    seen,    \* the data of each render
    shown    \* what is shown: the root, or nothing

render == <<code, trees, seen, shown>>
vars == <<vocabulary, template, mode, parser, render>>

-----------------------------------------------------------------------------
(* The tree *)

Node(n) == nodes[n]
IsElement(n) == Node(n).type = "element"
Has(n, directive) == directive \in Node(n).has
Parent(n) == Node(n).parent

RECURSIVE Above(_)
Above(n) == IF Parent(n) = 0 THEN {} ELSE {Parent(n)} \cup Above(Parent(n))

InPre(n) == \E m \in Above(n) \cup {n} : Has(m, "pre")

\* The nearest element around it with v-for.
RECURSIVE Loop(_)
Loop(n) == IF Parent(n) = 0 THEN 0
           ELSE IF Has(Parent(n), "for") THEN Parent(n) ELSE Loop(Parent(n))

-----------------------------------------------------------------------------
(* optimize *)

RECURSIVE IsDirectChildOfTemplateFor(_)
IsDirectChildOfTemplateFor(n) ==
    /\ Parent(n) # 0
    /\ Node(Parent(n)).tag = "template"
    /\ Has(Parent(n), "for") \/ IsDirectChildOfTemplateFor(Parent(n))

\* Fault: bindings are not looked at.
IsStaticBound(n) ==
    \/ Node(n).type = "text"
    \/ /\ IsElement(n)
       /\ Has(n, "pre") \/ (Node(n).has \subseteq {"bind"} /\ ~ IsDirectChildOfTemplateFor(n))

IsStatic(n) ==
    \/ Node(n).type = "text"
    \/ /\ IsElement(n)
       /\ Has(n, "pre") \/ (Node(n).has = {} /\ ~ IsDirectChildOfTemplateFor(n))

\* markStatic.
RECURSIVE Static(_)
Static(n) ==
    /\ IsStatic(n)
    /\ \A i \in DOMAIN Node(n).children : Static(Node(n).children[i])
    /\ \A i \in 2 .. Len(Node(n).conds) : Static(Node(n).conds[i])

\* markStaticRoots: hoisting a lone text is not worth it.
StaticRoot(n) ==
    /\ IsElement(n)
    /\ Static(n)
    /\ Node(n).children # <<>>
    /\ ~ (Len(Node(n).children) = 1 /\ Node(Node(n).children[1]).type = "text")

StaticInFor(n) == Loop(n) # 0

-----------------------------------------------------------------------------
(* generate *)

NeedsNormalization(n) == Has(n, "for") \/ Node(n).tag = "template"

Branches(n) == {Node(n).conds[i] : i \in DOMAIN Node(n).conds}

\* Fault: only the first branch is looked at.
NormalizationTypeOfFirst(children) ==
    IF \E i \in DOMAIN children :
          IsElement(children[i]) /\ NeedsNormalization(children[i])
    THEN "full" ELSE "none"

NormalizationType(children) ==
    IF \E i \in DOMAIN children :
          /\ IsElement(children[i])
          /\ \E m \in {children[i]} \cup Branches(children[i]) : NeedsNormalization(m)
    THEN "full" ELSE "none"

RECURSIVE GenElement(_, _, _), GenOnce(_, _, _), GenIf(_, _, _)

\* done is what has been processed of n, pre what v-pre makes of templates.
GenStatic(n, pre, done) ==
    [op |-> "static", n |-> n, fresh |-> StaticInFor(n),
     body |-> GenElement(n, pre \/ InPre(n), done \cup {"static"})]

\* v-once below a v-for without a key is only warned about.
GenOnce(n, pre, done) ==
    IF Has(n, "if") /\ "if" \notin done THEN GenIf(n, pre, done \cup {"once"})
    ELSE IF ~ StaticInFor(n) THEN GenStatic(n, pre, done \cup {"once"})
    ELSE IF ~ Has(Loop(n), "key") THEN GenElement(n, pre, done \cup {"once"})
    ELSE [op |-> "once", n |-> n, body |-> GenElement(n, pre, done \cup {"once"})]

GenTernary(block, pre, done) ==
    IF Has(block, "once") THEN GenOnce(block, pre, done) ELSE GenElement(block, pre, done)

\* The test of a branch, "" for the last.
Exp(block) == IF Has(block, "if") THEN "ok" ELSE IF Has(block, "elseif") THEN "also" ELSE ""

GenIf(n, pre, done) ==
    [op |-> "if",
     branches |-> [i \in DOMAIN Node(n).conds |->
        LET block == Node(n).conds[i] IN
        [exp |-> Exp(block),
         code |-> GenTernary(block, pre, IF i = 1 THEN done \cup {"if"} ELSE {})]]]

GenNode(n, pre) ==
    IF IsElement(n) THEN GenElement(n, pre, {}) ELSE [op |-> "text", n |-> n]

\* A lone v-for stands for the array of children.
GenChildren(n, pre, check) ==
    LET children == Node(n).children
    IN IF /\ Len(children) = 1
          /\ Has(children[1], "for")
          /\ Node(children[1]).tag # "template"
       THEN [op |-> "children", list |-> GenElement(children[1], pre, {}), norm |-> "none"]
       ELSE [op |-> "children",
             list |-> [op |-> "array",
                       codes |-> [i \in DOMAIN children |-> GenNode(children[i], pre)]],
             norm |-> IF check THEN NormalizationType(children) ELSE "none"]

GenElement(n, pre, done) ==
    IF StaticRoot(n) /\ "static" \notin done THEN GenStatic(n, pre, done)
    ELSE IF Has(n, "once") /\ "once" \notin done THEN GenOnce(n, pre, done)
    ELSE IF Has(n, "for") /\ "for" \notin done
    THEN [op |-> "for", body |-> GenElement(n, pre, done \cup {"for"})]
    ELSE IF Has(n, "if") /\ "if" \notin done THEN GenIf(n, pre, done)
    ELSE IF Node(n).tag = "template" /\ ~ pre THEN GenChildren(n, pre, FALSE)
    ELSE [op |-> "element", n |-> n, kids |-> GenChildren(n, pre, TRUE)]

Nothing == [op |-> "nothing"]

-----------------------------------------------------------------------------
(* What the code renders *)

\* v-once counts outside of loops and in keyed ones.
HonoursOnce(n) == Has(n, "once") /\ (~ StaticInFor(n) \/ Has(Loop(n), "key"))

One(item) == [kind |-> "one", item |-> item]
Many(values) == [kind |-> "many", values |-> values]
Empty == [kind |-> "empty"]

ValueOf(text, data, scope) ==
    CASE text = "msg" -> data.msg
      [] text = "item" -> IF scope = <<>> THEN "undefined" ELSE Items[Last(scope)]
      [] OTHER -> text

TextItem(n, data, scope) ==
    [of |-> n, turn |-> <<>>, tag |-> "", kids |-> <<>>,
     text |-> IF Node(n).type = "text" THEN <<Node(n).tag>>
              ELSE <<"=", ValueOf(Node(n).tag, data, scope)>>]

ElementItem(n, data, scope, kids) ==
    [of |-> n, turn |-> IF HonoursOnce(n) THEN scope ELSE <<>>, tag |-> Node(n).tag,
     kids |-> kids, text |-> IF Has(n, "bind") THEN <<"=", data.msg>> ELSE <<>>]

RECURSIVE ItemsIn(_)
ItemsIn(tree) == Range(tree) \cup UNION {ItemsIn(i.kids) : i \in Range(tree)}

OnceItems(tree) == {i \in ItemsIn(tree) : i.of # 0 /\ HonoursOnce(i.of)}

\* Children that are lists of lists are flattened where generate has asked for
\* it; elsewhere what is a list in a list is no node.
RECURSIVE Flatten(_)
Flatten(value) ==
    CASE value.kind = "one" -> <<value.item>>
      [] value.kind = "empty" -> <<>>
      [] value.kind = "many" ->
            FlattenSeq([i \in DOMAIN value.values |-> Flatten(value.values[i])])

Broken == [of |-> 0, turn |-> <<>>, tag |-> "", kids |-> <<>>, text |-> <<"broken">>]

Normalize(value, norm) ==
    FlattenSeq([i \in DOMAIN value.values |->
        LET v == value.values[i]
        IN IF norm = "full" \/ v.kind # "many" THEN Flatten(v) ELSE <<Broken>>])

\* markOnce: patching keeps the node that is shown for the same v-once and key.
MarkOnce(value) ==
    IF value.kind # "one" THEN value
    ELSE LET old == {i \in OnceItems(shown) : i.of = value.item.of /\ i.turn = value.item.turn}
         IN IF old = {} THEN value ELSE One(CHOOSE i \in old : TRUE)

Holds(exp, data) == CASE exp = "ok" -> data.ok [] exp = "also" -> data.also [] OTHER -> TRUE

\* What the code c renders, and the static trees it renders for the first time.
RECURSIVE Eval(_, _, _)
EvalEach(codes, data, scope) ==
    LET done == [i \in DOMAIN codes |-> Eval(codes[i], data, scope)]
    IN [value |-> Many([i \in DOMAIN codes |-> done[i].value]),
        trees |-> UNION {done[i].trees : i \in DOMAIN codes}]

\* Fault: the tree is rendered again for every render.
RenderStaticAlways(c, data) == Eval(c.body, data, <<>>)

\* renderStatic: rendered once, but in a loop every time.
RenderStatic(c, data) ==
    IF ~ c.fresh /\ c.n \in DOMAIN trees THEN [value |-> trees[c.n], trees |-> {}]
    ELSE LET new == Eval(c.body, data, <<>>)
         IN [new EXCEPT !.trees = @ \cup {<<c.n, new.value>>}]

Eval(c, data, scope) ==
    CASE c.op = "nothing" -> [value |-> Empty, trees |-> {}]
      [] c.op = "text" -> [value |-> One(TextItem(c.n, data, scope)), trees |-> {}]
      [] c.op = "array" -> EvalEach(c.codes, data, scope)
      [] c.op = "children" -> Eval(c.list, data, scope)
      [] c.op = "element" ->
            LET list == Eval(c.kids.list, data, scope)
            IN [list EXCEPT !.value =
                   One(ElementItem(c.n, data, scope, Normalize(list.value, c.kids.norm)))]
      [] c.op = "for" ->
            LET done == [i \in 1 .. data.count |-> Eval(c.body, data, Append(scope, i))]
            IN [value |-> Many([i \in DOMAIN done |-> done[i].value]),
                trees |-> UNION {done[i].trees : i \in DOMAIN done}]
      [] c.op = "if" ->
            LET true == {i \in DOMAIN c.branches : Holds(c.branches[i].exp, data)}
            IN IF true = {} THEN [value |-> Empty, trees |-> {}]
               ELSE Eval(c.branches[Min(true)].code, data, scope)
      [] c.op = "once" ->
            LET new == Eval(c.body, data, scope)
            IN [new EXCEPT !.value = MarkOnce(@)]
      [] c.op = "static" -> RenderStatic(c, data)

\* _render: one root; a list of one is taken for it.
Root(value) ==
    IF value.kind = "one" THEN <<value.item>>
    ELSE IF value.kind = "many" /\ Len(value.values) = 1 /\ value.values[1].kind = "one"
    THEN <<value.values[1].item>>
    ELSE <<>>

-----------------------------------------------------------------------------
\* baseCompile, once the template is parsed.
Compile ==
    /\ mode = "parsed"
    /\ mode' = "ready"
    /\ code' = IF root = 0 THEN Nothing ELSE GenElement(root, FALSE, {})
    /\ UNCHANGED <<vocabulary, template, parser, trees, seen, shown>>

Render(data) ==
    /\ mode = "ready"
    /\ Len(seen) < MaxRenders
    /\ LET new == Eval(code, data, <<>>)
           first == {t \in new.trees : t[1] \notin DOMAIN trees}
       IN /\ shown' = Root(new.value)
          /\ trees' = [n \in DOMAIN trees \cup {t[1] : t \in first} |->
                         IF n \in DOMAIN trees THEN trees[n]
                         ELSE (CHOOSE t \in first : t[1] = n)[2]]
    /\ seen' = Append(seen, data)
    /\ UNCHANGED <<vocabulary, template, mode, parser, code>>

Init ==
    /\ ParserInit
    /\ code = Nothing
    /\ trees = <<>>
    /\ seen = <<>>
    /\ shown = <<>>

Parse == ParserNext /\ UNCHANGED render

Next == Parse \/ Compile \/ \E d \in Datas : Render(d)

Spec == Init /\ [][Next]_vars

-----------------------------------------------------------------------------
(* What a template means, read off its tree: v-for goes through the items,  *)
(* each time with its v-if; v-once shows a part as some render found it.    *)

RECURSIVE Means(_, _, _, _)

KidsOf(n, data, scope, pick) ==
    LET kids == Node(n).children
    IN FlattenSeq([i \in DOMAIN kids |-> Means(kids[i], data, scope, pick)])

Body(n, data, scope, pick) ==
    LET once == HonoursOnce(n) /\ <<n, scope>> \in DOMAIN pick
        then == IF once THEN pick[<<n, scope>>] ELSE data
        kids == KidsOf(n, then, scope, IF once THEN <<>> ELSE pick)
    IN IF Node(n).tag = "template" /\ ~ InPre(n) THEN kids
       ELSE <<ElementItem(n, then, scope, kids)>>

Chosen(n, data, scope, pick) ==
    LET true == {i \in DOMAIN Node(n).conds : Holds(Exp(Node(n).conds[i]), data)}
        block == Node(n).conds[Min(true)]
    IN IF ~ Has(n, "if") THEN Body(n, data, scope, pick)
       ELSE IF true = {} THEN <<>>
       ELSE IF block = n THEN Body(n, data, scope, pick)
       ELSE Means(block, data, scope, pick)

Means(n, data, scope, pick) ==
    IF ~ IsElement(n) THEN <<TextItem(n, data, scope)>>
    ELSE IF ~ Has(n, "for") THEN Chosen(n, data, scope, pick)
    ELSE FlattenSeq([i \in 1 .. data.count |-> Chosen(n, data, Append(scope, i), pick)])

\* What checkRootConstraints asks of the root.
ProperRoot ==
    /\ root # 0
    /\ \A m \in {root} \cup Branches(root) : ~ NeedsNormalization(m)

-----------------------------------------------------------------------------
(* Properties *)

\* Whatever optimize hoists, generate rearranges and the helpers cache, every
\* render shows what the template means for the data of that render, but for
\* what v-once keeps of an earlier one.
RenderMeans ==
    (seen # <<>> /\ ProperRoot) =>
        \E pick \in [{<<i.of, i.turn>> : i \in OnceItems(shown)} -> Range(seen)] :
            shown = Means(root, Last(seen), <<>>, pick)

\* What v-once shows does not change while it is shown, whatever the data
\* becomes and whether it is hoisted, in a keyed loop or a branch of a v-if.
OnceFixed ==
    [][\A i \in OnceItems(shown), j \in OnceItems(shown') :
          (i.of = j.of /\ i.turn = j.turn) => i = j]_shown
=============================================================================
