------------------------------ MODULE VuePatch ------------------------------
(***************************************************************************)
(* How a list on a page is brought up to date (vue.js, updateChildren): the*)
(* children of one element as the last render described them, the children *)
(* the new render describes, and the elements in the document, which the   *)
(* patch reuses, moves, makes and removes one vnode at a time.             *)
(*                                                                         *)
(* A patch runs to its end before anything else does; an element whose     *)
(* removal is animated stays in the document until its transition ends,    *)
(* which is between two patches.  A render inside <transition-group>       *)
(* patches twice: what went away first, then the rest.                     *)
(***************************************************************************)
EXTENDS Naturals, Sequences, FiniteSets, SequencesExt

CONSTANTS
    Descriptions,  \* what a render may say of a child: [key, tag, text, ref]
    Text,          \* the tag of a text node, which has none
    NoKey, NoRef,
    NoElm,
    MaxChildren,   \* bound: children of the element
    MaxLeaving     \* bound: elements whose removal is being animated

\* The nodes of the document: in a patch, those of the old children, of the new
\* ones and of those that are leaving.
Elms == 1 .. 2 * MaxChildren + MaxLeaving

ASSUME DescriptionAssumption ==
    \A d \in Descriptions : DOMAIN d = {"key", "tag", "text", "ref"}
ASSUME ElmAssumption ==
    /\ MaxChildren \in Nat /\ MaxLeaving \in Nat
    /\ NoElm \notin Elms

Refs == {d.ref : d \in Descriptions} \ {NoRef}

VARIABLES
    dom,         \* the child nodes of the element, in order
    shown,       \* of each node: its tag and text
    leaving,     \* the nodes with a callback of the removal still to come
    refs,        \* vm.$refs
    old,         \* oldCh; Moved where the vnode has been moved
    new,         \* newCh
    goal,        \* of <transition-group>, the children of its second pass
    oldStart, oldEnd, newStart, newEnd,
    keyToOld,    \* oldKeyToIdx, empty until it is made
    removeOnly,
    mode,        \* "idle", "loop", "rest"
    prev         \* the children before the render

vars == <<dom, shown, leaving, refs, old, new, goal, oldStart, oldEnd, newStart,
          newEnd, keyToOld, removeOnly, mode, prev>>

Moved == [key |-> NoKey, tag |-> Text, text |-> "moved", ref |-> NoRef, elm |-> NoElm]

Vnode(d, e) == [key |-> d.key, tag |-> d.tag, text |-> d.text, ref |-> d.ref, elm |-> e]

Vnodes == {Vnode(d, e) : d \in Descriptions, e \in Elms \cup {NoElm}}

NoNode == [tag |-> Text, text |-> ""]

Has(v) == v # Moved

-----------------------------------------------------------------------------
(* Vnodes *)

\* A vnode without key, ref and text of its own has no data.
HasData(v) == v.key # NoKey \/ v.ref # NoRef

\* Fault: a child that gains or loses its reference is another child.
SameVnodeAndRef(u, v) ==
    /\ u.key = v.key
    /\ u.tag = v.tag
    /\ u.ref = v.ref

SameVnode(u, v) ==
    /\ u.key = v.key
    /\ u.tag = v.tag
    /\ HasData(u) = HasData(v)

\* The last of the positions that hold the key wins.
CreateKeyToOldIdx ==
    LET held == {old[i].key : i \in oldStart .. oldEnd} \ {NoKey}
    IN  [k \in held |-> CHOOSE i \in oldStart .. oldEnd :
            old[i].key = k /\ \A j \in i + 1 .. oldEnd : old[j].key # k]

\* The search stops before the end, which has been compared already.
FindIdxInOld(v) ==
    LET found == {i \in oldStart .. oldEnd - 1 : Has(old[i]) /\ SameVnode(v, old[i])}
    IN  IF found = {} THEN 0 ELSE CHOOSE i \in found : \A j \in found : i <= j

-----------------------------------------------------------------------------
(* The document *)

IndexIn(s, e) == CHOOSE i \in DOMAIN s : s[i] = e

\* removeChild
Without(s, e) == IF Contains(s, e) THEN RemoveAt(s, IndexIn(s, e)) ELSE s

\* insertBefore takes the node from where it is; without a reference node it
\* goes to the end.
InsertBefore(s, e, ref) ==
    LET rest == Without(s, e)
    IN  IF ref = e THEN s
        ELSE IF ref = NoElm THEN Append(rest, e)
        ELSE InsertAt(rest, IndexIn(rest, ref), e)

NextSibling(s, e) ==
    LET i == IndexIn(s, e) IN IF i = Len(s) THEN NoElm ELSE s[i + 1]

\* insert() does nothing when the reference node is not in the parent.
Insert(s, e, ref) ==
    IF ref = NoElm \/ Contains(s, ref) THEN InsertBefore(s, e, ref) ELSE s

Used == Range(dom) \cup {old[i].elm : i \in DOMAIN old}
                   \cup {new[i].elm : i \in DOMAIN new}

\* A node that is new to the document.
Fresh(used) == CHOOSE e \in Elms \ used : \A f \in Elms \ used : e <= f

-----------------------------------------------------------------------------
(* References *)

\* Fault: a removal does not look at what the reference names now.
UnregisterAny(r, v) == IF v.ref = NoRef THEN r ELSE [r EXCEPT ![v.ref] = NoElm]

Unregister(r, v) ==
    IF v.ref # NoRef /\ r[v.ref] = v.elm THEN [r EXCEPT ![v.ref] = NoElm] ELSE r

Register(r, v) == IF v.ref = NoRef THEN r ELSE [r EXCEPT ![v.ref] = v.elm]

UpdateRef(r, u, v) == IF u.ref = v.ref THEN r ELSE Register(Unregister(r, u), v)

-----------------------------------------------------------------------------
(* Patching one vnode *)

\* patchVnode: the element of the old vnode becomes the new one's.
PatchVnode(i, j) ==
    LET v == [new[j] EXCEPT !.elm = old[i].elm] IN
    /\ new' = [new EXCEPT ![j] = v]
    /\ shown' = [shown EXCEPT ![v.elm] = [tag |-> @.tag, text |-> v.text]]
    /\ refs' = UpdateRef(refs, old[i], v)

\* createElm: a new element before ref.
CreateElm(j, ref) ==
    LET e == Fresh(Used)
        v == [new[j] EXCEPT !.elm = e]
    IN  /\ new' = [new EXCEPT ![j] = v]
        /\ shown' = [shown EXCEPT ![e] = [tag |-> v.tag, text |-> v.text]]
        /\ refs' = Register(refs, v)
        /\ dom' = Insert(dom, e, ref)

-----------------------------------------------------------------------------
(* updateChildren, one turn of its loop per step *)

OldStart == old[oldStart]
OldEnd == old[oldEnd]
NewStart == new[newStart]
NewEnd == new[newEnd]

Turn ==
    /\ mode = "loop"
    /\ oldStart <= oldEnd
    /\ newStart <= newEnd
    /\ UNCHANGED <<leaving, goal, removeOnly, mode, prev>>

SkipMoved ==
    /\ Turn
    /\ \/ /\ ~ Has(OldStart)
          /\ oldStart' = oldStart + 1
          /\ UNCHANGED oldEnd
       \/ /\ Has(OldStart)
          /\ ~ Has(OldEnd)
          /\ oldEnd' = oldEnd - 1
          /\ UNCHANGED oldStart
    /\ UNCHANGED <<dom, shown, refs, old, new, newStart, newEnd, keyToOld>>

Ends == Has(OldStart) /\ Has(OldEnd)

StartsMatch == Ends /\ SameVnode(OldStart, NewStart)
EndsMatch == Ends /\ SameVnode(OldEnd, NewEnd)
StartMatchesEnd == Ends /\ SameVnode(OldStart, NewEnd)
EndMatchesStart == Ends /\ SameVnode(OldEnd, NewStart)

MatchStarts ==
    /\ Turn
    /\ StartsMatch
    /\ PatchVnode(oldStart, newStart)
    /\ oldStart' = oldStart + 1
    /\ newStart' = newStart + 1
    /\ UNCHANGED <<dom, old, oldEnd, newEnd, keyToOld>>

MatchEnds ==
    /\ Turn
    /\ ~ StartsMatch
    /\ EndsMatch
    /\ PatchVnode(oldEnd, newEnd)
    /\ oldEnd' = oldEnd - 1
    /\ newEnd' = newEnd - 1
    /\ UNCHANGED <<dom, old, oldStart, newStart, keyToOld>>

\* Fault: the element is put behind the last old one without regard to the
\* elements that are leaving there.
MoveRightToEnd ==
    /\ Turn
    /\ ~ StartsMatch /\ ~ EndsMatch
    /\ StartMatchesEnd
    /\ PatchVnode(oldStart, newEnd)
    /\ dom' = IF removeOnly THEN dom ELSE InsertBefore(dom, OldStart.elm, NoElm)
    /\ oldStart' = oldStart + 1
    /\ newEnd' = newEnd - 1
    /\ UNCHANGED <<old, oldEnd, newStart, keyToOld>>

MoveRight ==
    /\ Turn
    /\ ~ StartsMatch /\ ~ EndsMatch
    /\ StartMatchesEnd
    /\ PatchVnode(oldStart, newEnd)
    /\ dom' = IF removeOnly THEN dom
              ELSE InsertBefore(dom, OldStart.elm, NextSibling(dom, OldEnd.elm))
    /\ oldStart' = oldStart + 1
    /\ newEnd' = newEnd - 1
    /\ UNCHANGED <<old, oldEnd, newStart, keyToOld>>

MoveLeft ==
    /\ Turn
    /\ ~ StartsMatch /\ ~ EndsMatch /\ ~ StartMatchesEnd
    /\ EndMatchesStart
    /\ PatchVnode(oldEnd, newStart)
    /\ dom' = IF removeOnly THEN dom ELSE InsertBefore(dom, OldEnd.elm, OldStart.elm)
    /\ oldEnd' = oldEnd - 1
    /\ newStart' = newStart + 1
    /\ UNCHANGED <<old, oldStart, newEnd, keyToOld>>

NoEndsMatch ==
    Ends /\ ~ StartsMatch /\ ~ EndsMatch /\ ~ StartMatchesEnd /\ ~ EndMatchesStart

\* The map of keys is made once, of the old vnodes left when it is first needed.
KeyMap == IF keyToOld = <<>> THEN CreateKeyToOldIdx ELSE keyToOld

IdxInOld ==
    IF NewStart.key = NoKey THEN FindIdxInOld(NewStart)
    ELSE IF NewStart.key \in DOMAIN KeyMap THEN KeyMap[NewStart.key] ELSE 0

Found == IF IdxInOld = 0 THEN FALSE ELSE SameVnode(old[IdxInOld], NewStart)

\* Fault: the pass that only removes moves too.
MoveFoundAlways ==
    /\ Turn
    /\ NoEndsMatch
    /\ Found
    /\ PatchVnode(IdxInOld, newStart)
    /\ old' = [old EXCEPT ![IdxInOld] = Moved]
    /\ dom' = InsertBefore(dom, old[IdxInOld].elm, OldStart.elm)
    /\ keyToOld' = KeyMap
    /\ newStart' = newStart + 1
    /\ UNCHANGED <<oldStart, oldEnd, newEnd>>

MoveFound ==
    /\ Turn
    /\ NoEndsMatch
    /\ Found
    /\ PatchVnode(IdxInOld, newStart)
    /\ old' = [old EXCEPT ![IdxInOld] = Moved]
    /\ dom' = IF removeOnly THEN dom
              ELSE InsertBefore(dom, old[IdxInOld].elm, OldStart.elm)
    /\ keyToOld' = KeyMap
    /\ newStart' = newStart + 1
    /\ UNCHANGED <<oldStart, oldEnd, newEnd>>

\* No old vnode is found, or the one with the key is another element.
CreateNew ==
    /\ Turn
    /\ NoEndsMatch
    /\ ~ Found
    /\ CreateElm(newStart, OldStart.elm)
    /\ keyToOld' = KeyMap
    /\ newStart' = newStart + 1
    /\ UNCHANGED <<old, oldStart, oldEnd, newEnd>>

\* The loop is over: what is left of one of the lists remains to be done.
EndLoop ==
    /\ mode = "loop"
    /\ oldStart > oldEnd \/ newStart > newEnd
    /\ mode' = "rest"
    /\ UNCHANGED <<dom, shown, leaving, refs, old, new, goal, oldStart, oldEnd,
                   newStart, newEnd, keyToOld, removeOnly, prev>>

AddVnode ==
    /\ mode = "rest"
    /\ oldStart > oldEnd
    /\ newStart <= newEnd
    /\ CreateElm(newStart, IF newEnd = Len(new) THEN NoElm ELSE new[newEnd + 1].elm)
    /\ newStart' = newStart + 1
    /\ UNCHANGED <<leaving, old, goal, oldStart, oldEnd, newEnd, keyToOld,
                   removeOnly, mode, prev>>

\* removeVnodes: the destroy hooks run at once; the node goes at once, or when
\* the transition of an element has ended.  A text node has neither.
RemoveVnode ==
    /\ mode = "rest"
    /\ oldStart <= oldEnd
    /\ newStart > newEnd
    /\ oldStart' = oldStart + 1
    /\ \/ /\ ~ Has(OldStart)
          /\ UNCHANGED <<dom, leaving, refs>>
       \/ /\ Has(OldStart)
          /\ refs' = Unregister(refs, OldStart)
          /\ \/ /\ dom' = Without(dom, OldStart.elm)
                /\ UNCHANGED leaving
             \/ /\ OldStart.tag # Text /\ HasData(OldStart)
                /\ Cardinality(leaving) < MaxLeaving
                /\ leaving' = leaving \cup {OldStart.elm}
                /\ UNCHANGED dom
    /\ UNCHANGED <<shown, old, new, goal, oldEnd, newStart, newEnd, keyToOld,
                   removeOnly, mode, prev>>

Begin(from, to, only) ==
    /\ old' = from
    /\ new' = to
    /\ oldStart' = 1 /\ oldEnd' = Len(from)
    /\ newStart' = 1 /\ newEnd' = Len(to)
    /\ keyToOld' = <<>>
    /\ removeOnly' = only
    /\ mode' = "loop"

RestDone ==
    mode = "rest" /\ ((oldStart > oldEnd /\ newStart > newEnd) \/ Len(old) + Len(new) = 0)

Patched == RestDone /\ ~ removeOnly

\* Between two patches the nodes d of the document are numbered by their place:
\* nothing but their identity tells them apart, and what the patch has worked
\* with is gone.
Number(d, e) == IF Contains(d, e) THEN IndexIn(d, e) ELSE NoElm

Renumber(d) ==
    /\ dom' = [i \in DOMAIN d |-> i]
    /\ shown' = [e \in Elms |-> IF e \in DOMAIN d THEN shown[d[e]] ELSE NoNode]
    /\ leaving' = {i \in DOMAIN d : d[i] \in leaving}
    /\ refs' = [k \in Refs |-> Number(d, refs[k])]
    /\ new' = [i \in DOMAIN new |-> [new[i] EXCEPT !.elm = Number(d, @)]]
    /\ old' = <<>> /\ goal' = <<>> /\ prev' = <<>> /\ keyToOld' = <<>>
    /\ oldStart' = 1 /\ oldEnd' = 0 /\ newStart' = 1 /\ newEnd' = 0
    /\ removeOnly' = FALSE
    /\ mode' = "idle"

\* The first pass of <transition-group> is followed by the second.
SecondPass ==
    /\ RestDone
    /\ removeOnly
    /\ Begin(new, goal, FALSE)
    /\ goal' = <<>>
    /\ UNCHANGED <<dom, shown, leaving, refs, prev>>

EndPatch ==
    /\ Patched
    /\ Renumber(dom)

-----------------------------------------------------------------------------
(* Between the patches *)

\* Two children of one render have neither the same key nor the same reference
\* (checkDuplicateKeys warns of the first).
Distinct(ds) ==
    \A i, j \in DOMAIN ds : i # j =>
        /\ ds[i].key = ds[j].key => ds[i].key = NoKey
        /\ ds[i].ref = ds[j].ref => ds[i].ref = NoRef

Renders == {ds \in UNION {[1 .. n -> Descriptions] : n \in 0 .. MaxChildren} : Distinct(ds)}

Blank(ds) == [i \in DOMAIN ds |-> Vnode(ds[i], NoElm)]

\* The component renders and its element is patched.
Render(ds) ==
    /\ mode = "idle"
    /\ prev' = new
    /\ Begin(new, Blank(ds), FALSE)
    /\ UNCHANGED <<dom, shown, leaving, refs, goal>>

Keyed(vs) == \A i \in DOMAIN vs : vs[i].key # NoKey /\ vs[i].tag # Text

\* The positions of a set, from the first to the last.
InOrder(positions) ==
    {f \in [1 .. Cardinality(positions) -> positions] :
        /\ Range(f) = positions
        /\ \A i, j \in DOMAIN f : i < j => f[i] < f[j]}

\* <transition-group> renders: the children whose key is gone are removed
\* first, so that those which stay are not moved around them.
RenderGroup(ds) ==
    /\ mode = "idle"
    /\ Keyed(new) /\ Keyed(ds)
    /\ prev' = new
    /\ \E kept \in InOrder({i \in DOMAIN new : \E j \in DOMAIN ds : ds[j].key = new[i].key}) :
          Begin(new, [i \in DOMAIN kept |-> new[kept[i]]], TRUE)
    /\ goal' = Blank(ds)
    /\ UNCHANGED <<dom, shown, leaving, refs>>

\* The transition of a leaving element ends and the last callback removes it.
LeaveEnds(e) ==
    /\ mode = "idle"
    /\ e \in leaving
    /\ Renumber(Without(dom, e))

Init ==
    /\ dom = <<>>
    /\ shown = [e \in Elms |-> NoNode]
    /\ leaving = {}
    /\ refs = [r \in Refs |-> NoElm]
    /\ old = <<>> /\ new = <<>> /\ goal = <<>> /\ prev = <<>>
    /\ oldStart = 1 /\ oldEnd = 0 /\ newStart = 1 /\ newEnd = 0
    /\ keyToOld = <<>>
    /\ removeOnly = FALSE
    /\ mode = "idle"

\* What the patch does by itself.
Patch ==
    \/ SkipMoved \/ MatchStarts \/ MatchEnds \/ MoveRight \/ MoveLeft
    \/ MoveFound \/ CreateNew \/ EndLoop \/ AddVnode \/ RemoveVnode
    \/ SecondPass \/ EndPatch

Next ==
    \/ Patch
    \/ \E ds \in Renders : Render(ds) \/ RenderGroup(ds)
    \/ \E e \in leaving : LeaveEnds(e)

Spec == Init /\ [][Next]_vars

-----------------------------------------------------------------------------
(* Properties *)

Before(s, x, y) == \E i, j \in DOMAIN s : i < j /\ s[i] = x /\ s[j] = y

\* After a patch the document shows what was rendered, in its order, and beside
\* it only elements that are leaving.
ShowsRender ==
    mode = "idle" =>
        /\ IsInjective(dom)
        /\ Range(dom) = {new[i].elm : i \in DOMAIN new} \cup leaving
        /\ \A i, j \in DOMAIN new : i < j => Before(dom, new[i].elm, new[j].elm)
        /\ \A i \in DOMAIN new :
              /\ new[i].elm \notin leaving
              /\ shown[new[i].elm] = [tag |-> new[i].tag, text |-> new[i].text]

\* A child with a key keeps its element, and with it what the user has typed
\* into it, wherever it moves.
KeyedReused ==
    Patched =>
        \A i \in DOMAIN prev, j \in DOMAIN new :
            prev[i].key # NoKey /\ prev[i].key = new[j].key /\ prev[i].tag = new[j].tag
                => prev[i].elm = new[j].elm

\* Every reference of the page names the element that bears it, and none when
\* no child does: not one that has been replaced or is leaving.
RefsNameElements ==
    mode = "idle" =>
        \A r \in Refs :
            refs[r] = IF \E i \in DOMAIN new : new[i].ref = r
                      THEN new[CHOOSE i \in DOMAIN new : new[i].ref = r].elm
                      ELSE NoElm

\* The first pass of <transition-group> moves nothing: the elements that stay
\* and those that leave keep their order.
FirstPassKeepsOrder ==
    [][removeOnly =>
          \A i, j \in DOMAIN dom' : i < j => Before(dom, dom'[i], dom'[j])]_dom
=============================================================================
