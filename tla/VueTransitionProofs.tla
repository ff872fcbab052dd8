------------------------- MODULE VueTransitionProofs -------------------------
(***************************************************************************)
(* What holds of a <transition> for every value of the constants.  The     *)
(* functions of the transition module work on the state they share, s: the *)
(* invariant is one of s, and each function keeps it or moves it from one  *)
(* phase to the next.                                                      *)
(***************************************************************************)
EXTENDS VueTransition, SequenceTheorems, FiniteSetTheorems, TLAPS

-----------------------------------------------------------------------------
(* The invariant *)

Elem == [key : Keys, dom : BOOLEAN, display : BOOLEAN, classes : SUBSET Classes,
         enter : Nat, leave : Nat]
Cb == [el : Nat, side : {"enter", "leave"}, cancelled : BOOLEAN, called : BOOLEAN,
       old : Nat, resume : BOOLEAN, delayed : BOOLEAN]
States == [leaving : BOOLEAN, dirty : BOOLEAN, els : Seq(Elem), cbs : Seq(Cb),
           pending : [Keys -> Nat], frames : Seq(Nat), waits : SUBSET Nat]

ElsOf(s) == 1 .. Len(s.els)
CbsOf(s) == 1 .. Len(s.cbs)
Framed(s) == {s.frames[i] : i \in 1 .. Len(s.frames)}

\* The callback c of the element e is still to be called.
IsOpen(s, c, e, side) ==
    c \in CbsOf(s) /\ s.cbs[c].el = e /\ s.cbs[c].side = side /\ ~ s.cbs[c].called

\* An element knows its callbacks that are still to be called, and is in one
\* transition at most; what waits for the end of one waits for such a callback.
Linked(s) ==
    /\ \A e \in ElsOf(s) :
          /\ s.els[e].enter # 0 => IsOpen(s, s.els[e].enter, e, "enter")
          /\ s.els[e].leave # 0 => IsOpen(s, s.els[e].leave, e, "leave")
          /\ s.els[e].enter = 0 \/ s.els[e].leave = 0
    /\ \A c \in CbsOf(s) :
          /\ s.cbs[c].el \in ElsOf(s)
          /\ s.cbs[c].old < s.cbs[c].el
          /\ s.cbs[c].resume \/ s.cbs[c].delayed => s.cbs[c].side = "leave"
          /\ ~ s.cbs[c].called /\ s.cbs[c].side = "enter" => s.els[s.cbs[c].el].enter = c
          /\ ~ s.cbs[c].called /\ s.cbs[c].side = "leave" => s.els[s.cbs[c].el].leave = c
    /\ \A k \in Keys : s.pending[k] \in 0 .. Len(s.els)
    /\ Framed(s) \subseteq CbsOf(s)
    /\ \A c \in s.waits : c \in CbsOf(s) /\ ~ s.cbs[c].called

EnterClasses == {"enter", "enter-active", "enter-to"}
LeaveClasses == {"leave", "leave-active", "leave-to"}

\* An element wears the classes of the transition it is in, the first of them
\* until its frame comes.
Wears(s, e) ==
    LET x == s.els[e] IN
    /\ x.classes \subseteq IF x.enter # 0 THEN EnterClasses
                           ELSE IF x.leave # 0 THEN LeaveClasses ELSE {}
    /\ "enter" \in x.classes => x.enter \in Framed(s)
    /\ "leave" \in x.classes => x.leave \in Framed(s)

\* So do all that are in the page, and y, which is about to be.  The frame of a
\* callback that was called finds it cancelled or the element gone.
Dressed(u, s, y) ==
    /\ \A i, j \in 1 .. Len(s.frames) : s.frames[i] = s.frames[j] => i = j
    /\ ~ u.css => Framed(s) = {} /\ \A e \in ElsOf(s) : s.els[e].classes = {}
    /\ \A e \in ElsOf(s) : s.els[e].dom \/ e = y => Wears(s, e)
    /\ \A c \in CbsOf(s) : c \in Framed(s) =>
          /\ ~ s.cbs[c].delayed
          /\ s.cbs[c].called /\ ~ s.cbs[c].cancelled =>
                ~ s.els[s.cbs[c].el].dom /\ s.cbs[c].el # y

\* But for the elements in A, what is in the page leaves, and no leave is cancelled.
\* In mode "out-in" the component waits for a callback that is still to be called.
Placed(s, A, phase) ==
    /\ \A c \in CbsOf(s) : s.cbs[c].side = "leave" => ~ s.cbs[c].cancelled
    /\ \A e \in A : e \in ElsOf(s) /\ s.els[e].dom /\ s.els[e].leave = 0
    /\ \A e \in ElsOf(s) : s.els[e].dom => e \in A \/ s.els[e].leave # 0
    /\ s.leaving /\ phase # "resume" =>
          A = {} /\ \E c \in CbsOf(s) : ~ s.cbs[c].called /\ s.cbs[c].resume

\* With v-show there is one element, which is displayed, or hidden when it does
\* not leave.
Displayed(s, phase) ==
    /\ ElsOf(s) \subseteq {1}
    /\ \A e \in ElsOf(s) :
          /\ s.els[e].dom
          /\ phase = "shown" => s.els[e].leave = 0 /\ s.els[e].display
          /\ phase = "hidden" =>
                s.els[e].enter = 0 /\ (s.els[e].leave = 0 => ~ s.els[e].display)
    /\ \A c \in CbsOf(s) :
          /\ s.cbs[c].old = 0 /\ ~ s.cbs[c].delayed /\ ~ s.cbs[c].resume
          /\ phase = "hidden" /\ s.cbs[c].side = "leave" /\ ~ s.cbs[c].called =>
                ~ s.cbs[c].cancelled
    /\ ~ s.leaving

\* u is the setup, A the elements that do not leave, y the one that is being made.
Good(u, s, y, A, phase) ==
    /\ s \in States
    /\ Linked(s)
    /\ EarlyDone \/ Dressed(u, s, y)
    /\ IF u.show THEN Displayed(s, phase) ELSE Placed(s, A, phase)

\* Elements keep their keys; the component leaves off leaving only to render again.
Onward(s, t) ==
    /\ Len(s.els) <= Len(t.els)
    /\ \A e \in ElsOf(s) : t.els[e].key = s.els[e].key
    /\ s.dirty => t.dirty
    /\ s.leaving /\ ~ t.leaving => t.dirty
    /\ t.leaving => s.leaving

-----------------------------------------------------------------------------
(* Changes of one element or one callback *)

LEMMA Members ==
    ASSUME NEW s \in States
    PROVE  /\ Len(s.els) \in Nat /\ Len(s.cbs) \in Nat /\ Len(s.frames) \in Nat
           /\ \A e \in ElsOf(s) : s.els[e] \in Elem
           /\ \A c \in CbsOf(s) : s.cbs[c] \in Cb
           /\ \A i \in 1 .. Len(s.frames) : s.frames[i] \in Nat
BY DEF States, ElsOf, CbsOf

\* t is s but for the element e, which is x.
ElemIs(s, t, e, x) ==
    /\ t \in States
    /\ Len(t.els) = Len(s.els) /\ ElsOf(t) = ElsOf(s) /\ CbsOf(t) = CbsOf(s)
    /\ t.els[e] = x
    /\ \A f \in ElsOf(s) : f # e => t.els[f] = s.els[f]
    /\ t.cbs = s.cbs /\ t.frames = s.frames /\ Framed(t) = Framed(s) /\ t.waits = s.waits
    /\ t.leaving = s.leaving /\ t.dirty = s.dirty /\ t.pending = s.pending

LEMMA PutElem ==
    ASSUME NEW s \in States, NEW e \in ElsOf(s), NEW x \in Elem
    PROVE  ElemIs(s, [s EXCEPT !.els = [@ EXCEPT ![e] = x]], e, x)
<1> DEFINE q == [s.els EXCEPT ![e] = x]
           t == [s EXCEPT !.els = q]
<1>1. s.els \in Seq(Elem) /\ e \in 1 .. Len(s.els)
  BY DEF States, ElsOf
<1>2. /\ q \in Seq(Elem) /\ Len(q) = Len(s.els)
      /\ \A i \in 1 .. Len(s.els) : q[i] = IF i = e THEN x ELSE s.els[i]
  BY <1>1, ExceptSeq
<1> HIDE DEF q
<1>3. /\ t.els = q /\ t.cbs = s.cbs /\ t.frames = s.frames /\ t.waits = s.waits
      /\ t.leaving = s.leaving /\ t.dirty = s.dirty /\ t.pending = s.pending
  BY DEF States
<1>4. t \in States
  BY <1>2 DEF States
<1>5. ElemIs(s, t, e, x)
  BY <1>1, <1>2, <1>3, <1>4 DEF ElemIs, ElsOf, CbsOf, Framed
<1> QED
  BY <1>5 DEF q

\* t is s but for the callback c, which is x.
CbIs(s, t, c, x) ==
    /\ t \in States
    /\ Len(t.cbs) = Len(s.cbs) /\ ElsOf(t) = ElsOf(s) /\ CbsOf(t) = CbsOf(s)
    /\ t.cbs[c] = x
    /\ \A d \in CbsOf(s) : d # c => t.cbs[d] = s.cbs[d]
    /\ t.els = s.els /\ t.frames = s.frames /\ Framed(t) = Framed(s) /\ t.waits = s.waits
    /\ t.leaving = s.leaving /\ t.dirty = s.dirty /\ t.pending = s.pending

LEMMA PutCb ==
    ASSUME NEW s \in States, NEW c \in CbsOf(s), NEW x \in Cb
    PROVE  CbIs(s, [s EXCEPT !.cbs = [@ EXCEPT ![c] = x]], c, x)
<1> DEFINE q == [s.cbs EXCEPT ![c] = x]
           t == [s EXCEPT !.cbs = q]
<1>1. s.cbs \in Seq(Cb) /\ c \in 1 .. Len(s.cbs)
  BY DEF States, CbsOf
<1>2. /\ q \in Seq(Cb) /\ Len(q) = Len(s.cbs)
      /\ \A i \in 1 .. Len(s.cbs) : q[i] = IF i = c THEN x ELSE s.cbs[i]
  BY <1>1, ExceptSeq
<1> HIDE DEF q
<1>3. /\ t.els = s.els /\ t.cbs = q /\ t.frames = s.frames /\ t.waits = s.waits
      /\ t.leaving = s.leaving /\ t.dirty = s.dirty /\ t.pending = s.pending
  BY DEF States
<1>4. t \in States
  BY <1>2 DEF States
<1>5. CbIs(s, t, c, x)
  BY <1>1, <1>2, <1>3, <1>4 DEF CbIs, ElsOf, CbsOf, Framed
<1> QED
  BY <1>5 DEF q

\* The element e of t is that of s but for its classes, dom, display, enter and leave.
ElemHas(s, t, e, classes, dom, display, enter, leave) ==
    /\ ElemIs(s, t, e, t.els[e])
    /\ t.els[e].key = s.els[e].key /\ t.els[e].classes = classes
    /\ t.els[e].dom = dom /\ t.els[e].display = display
    /\ t.els[e].enter = enter /\ t.els[e].leave = leave

LEMMA ElemPut ==
    ASSUME NEW s \in States, NEW e \in ElsOf(s), NEW y \in Elem, y.key = s.els[e].key
    PROVE  ElemHas(s, [s EXCEPT !.els = [@ EXCEPT ![e] = y]], e,
                   y.classes, y.dom, y.display, y.enter, y.leave)
<1>1. ElemIs(s, [s EXCEPT !.els = [@ EXCEPT ![e] = y]], e, y)
  BY PutElem
<1> QED
  BY <1>1 DEF ElemHas, ElemIs

LEMMA ClassesAdded ==
    ASSUME NEW s \in States, NEW e \in ElsOf(s), NEW cs \in SUBSET Classes
    PROVE  LET x == s.els[e] IN
           ElemHas(s, AddClasses(s, e, cs), e,
                   IF setup.css THEN x.classes \cup cs ELSE x.classes,
                   x.dom, x.display, x.enter, x.leave)
<1> DEFINE x == s.els[e]
           y == [x EXCEPT !.classes = @ \cup cs]
<1>1. x \in Elem
  BY Members
<1>2. /\ y \in Elem /\ y.key = x.key /\ y.classes = x.classes \cup cs
      /\ y.dom = x.dom /\ y.display = x.display
      /\ y.enter = x.enter /\ y.leave = x.leave
  BY <1>1 DEF Elem
<1>3. CASE setup.css
  <2>1. AddClasses(s, e, cs) = [s EXCEPT !.els = [@ EXCEPT ![e] = y]]
    BY <1>3 DEF AddClasses
  <2> HIDE DEF y
  <2>2. ElemHas(s, AddClasses(s, e, cs), e, y.classes, y.dom, y.display, y.enter, y.leave)
    BY <1>2, <2>1, ElemPut
  <2> QED
    BY <1>2, <1>3, <2>2
<1>4. CASE ~ setup.css
  <2>1. AddClasses(s, e, cs) = s
    BY <1>4 DEF AddClasses
  <2> QED
    BY <1>4, <2>1 DEF ElemHas, ElemIs
<1> QED
  BY <1>3, <1>4

LEMMA ClassesRemoved ==
    ASSUME NEW s \in States, NEW e \in ElsOf(s), NEW cs \in SUBSET Classes
    PROVE  LET x == s.els[e] IN
           ElemHas(s, RemoveClasses(s, e, cs), e,
                   IF setup.css THEN x.classes \ cs ELSE x.classes,
                   x.dom, x.display, x.enter, x.leave)
<1> DEFINE x == s.els[e]
           y == [x EXCEPT !.classes = @ \ cs]
<1>1. x \in Elem
  BY Members
<1>2. /\ y \in Elem /\ y.key = x.key /\ y.classes = x.classes \ cs
      /\ y.dom = x.dom /\ y.display = x.display
      /\ y.enter = x.enter /\ y.leave = x.leave
  BY <1>1 DEF Elem
<1>3. CASE setup.css
  <2>1. RemoveClasses(s, e, cs) = [s EXCEPT !.els = [@ EXCEPT ![e] = y]]
    BY <1>3 DEF RemoveClasses
  <2> HIDE DEF y
  <2>2. ElemHas(s, RemoveClasses(s, e, cs), e, y.classes, y.dom, y.display, y.enter, y.leave)
    BY <1>2, <2>1, ElemPut
  <2> QED
    BY <1>2, <1>3, <2>2
<1>4. CASE ~ setup.css
  <2>1. RemoveClasses(s, e, cs) = s
    BY <1>4 DEF RemoveClasses
  <2> QED
    BY <1>4, <2>1 DEF ElemHas, ElemIs
<1> QED
  BY <1>3, <1>4

LEMMA FieldSet ==
    ASSUME NEW s \in States, NEW e \in ElsOf(s), NEW c \in Nat, NEW b \in BOOLEAN
    PROVE  LET x == s.els[e] IN
           /\ ElemHas(s, [s EXCEPT !.els[e].leave = c], e,
                      x.classes, x.dom, x.display, x.enter, c)
           /\ ElemHas(s, [s EXCEPT !.els[e].enter = c], e,
                      x.classes, x.dom, x.display, c, x.leave)
           /\ ElemHas(s, [s EXCEPT !.els[e].dom = b], e,
                      x.classes, b, x.display, x.enter, x.leave)
           /\ ElemHas(s, [s EXCEPT !.els[e].display = b], e,
                      x.classes, x.dom, b, x.enter, x.leave)
<1> DEFINE x == s.els[e]
           y1 == [x EXCEPT !.leave = c]
           y2 == [x EXCEPT !.enter = c]
           y3 == [x EXCEPT !.dom = b]
           y4 == [x EXCEPT !.display = b]
           t(y) == [s EXCEPT !.els = [@ EXCEPT ![e] = y]]
<1>1. x \in Elem
  BY Members
<1>2. /\ y1 \in Elem /\ y1.key = x.key /\ y1.classes = x.classes
      /\ y1.dom = x.dom /\ y1.display = x.display
      /\ y1.enter = x.enter /\ y1.leave = c
  BY <1>1 DEF Elem
<1>3. /\ y2 \in Elem /\ y2.key = x.key /\ y2.classes = x.classes
      /\ y2.dom = x.dom /\ y2.display = x.display
      /\ y2.enter = c /\ y2.leave = x.leave
  BY <1>1 DEF Elem
<1>4. /\ y3 \in Elem /\ y3.key = x.key /\ y3.classes = x.classes
      /\ y3.dom = b /\ y3.display = x.display
      /\ y3.enter = x.enter /\ y3.leave = x.leave
  BY <1>1 DEF Elem
<1>5. /\ y4 \in Elem /\ y4.key = x.key /\ y4.classes = x.classes
      /\ y4.dom = x.dom /\ y4.display = b
      /\ y4.enter = x.enter /\ y4.leave = x.leave
  BY <1>1 DEF Elem
<1> HIDE DEF y1, y2, y3, y4
<1>6. ASSUME NEW y \in Elem, y.key = x.key
      PROVE  ElemHas(s, t(y), e, y.classes, y.dom, y.display, y.enter, y.leave)
  BY <1>6, ElemPut
<1> HIDE DEF t
<1>7. /\ ElemHas(s, t(y1), e, x.classes, x.dom, x.display, x.enter, c)
      /\ ElemHas(s, t(y2), e, x.classes, x.dom, x.display, c, x.leave)
      /\ ElemHas(s, t(y3), e, x.classes, b, x.display, x.enter, x.leave)
      /\ ElemHas(s, t(y4), e, x.classes, x.dom, b, x.enter, x.leave)
  BY <1>2, <1>3, <1>4, <1>5, <1>6
<1> QED
  BY <1>7 DEF t, y1, y2, y3, y4

LEMMA Removed ==
    ASSUME NEW s \in States, NEW e \in ElsOf(s)
    PROVE  LET x == s.els[e] IN
           ElemHas(s, Rm(s, e), e, x.classes, setup.show /\ x.dom,
                   ~ setup.show /\ x.display, x.enter, x.leave)
<1>1. s.els[e].dom \in BOOLEAN /\ s.els[e].display \in BOOLEAN
  BY Members DEF Elem
<1> QED
  BY <1>1, FieldSet DEF Rm

\* The callback c of t is that of s but for cancelled, called and delayed.
CbHas(s, t, c, cancelled, called, delayed) ==
    LET x == s.cbs[c] IN
    CbIs(s, t, c, [el |-> x.el, side |-> x.side, cancelled |-> cancelled, called |-> called,
                   old |-> x.old, resume |-> x.resume, delayed |-> delayed])

LEMMA FlagPut ==
    ASSUME NEW s \in States, NEW c \in CbsOf(s), NEW b \in BOOLEAN
    PROVE  LET x == s.cbs[c] IN
           /\ CbHas(s, [s EXCEPT !.cbs[c].cancelled = b], c, b, x.called, x.delayed)
           /\ CbHas(s, [s EXCEPT !.cbs[c].called = b], c, x.cancelled, b, x.delayed)
           /\ CbHas(s, [s EXCEPT !.cbs[c].delayed = b], c, x.cancelled, x.called, b)
<1> DEFINE x == s.cbs[c]
           y1 == [x EXCEPT !.cancelled = b]
           y2 == [x EXCEPT !.called = b]
           y3 == [x EXCEPT !.delayed = b]
<1>1. x \in Cb
  BY Members
<1>2. /\ y1 \in Cb
      /\ y1 = [el |-> x.el, side |-> x.side, cancelled |-> b, called |-> x.called,
               old |-> x.old, resume |-> x.resume, delayed |-> x.delayed]
  BY <1>1 DEF Cb
<1>3. /\ y2 \in Cb
      /\ y2 = [el |-> x.el, side |-> x.side, cancelled |-> x.cancelled, called |-> b,
               old |-> x.old, resume |-> x.resume, delayed |-> x.delayed]
  BY <1>1 DEF Cb
<1>4. /\ y3 \in Cb
      /\ y3 = [el |-> x.el, side |-> x.side, cancelled |-> x.cancelled, called |-> x.called,
               old |-> x.old, resume |-> x.resume, delayed |-> b]
  BY <1>1 DEF Cb
<1>5. /\ CbIs(s, [s EXCEPT !.cbs[c].cancelled = b], c, y1)
      /\ CbIs(s, [s EXCEPT !.cbs[c].called = b], c, y2)
      /\ CbIs(s, [s EXCEPT !.cbs[c].delayed = b], c, y3)
  BY <1>2, <1>3, <1>4, PutCb
<1> HIDE DEF y1, y2, y3
<1> QED
  BY <1>2, <1>3, <1>4, <1>5 DEF CbHas

LEMMA FlagSet ==
    ASSUME NEW s \in States, NEW c \in CbsOf(s)
    PROVE  LET x == s.cbs[c] IN
           /\ CbHas(s, [s EXCEPT !.cbs[c].cancelled = TRUE], c, TRUE, x.called, x.delayed)
           /\ CbHas(s, [s EXCEPT !.cbs[c].called = TRUE], c, x.cancelled, TRUE, x.delayed)
           /\ CbHas(s, [s EXCEPT !.cbs[c].delayed = FALSE], c, x.cancelled, x.called, FALSE)
BY FlagPut

\* Nothing but what t waits for, and what is pending, is different.
Beside(s, t) ==
    /\ t \in States
    /\ t.els = s.els /\ ElsOf(t) = ElsOf(s) /\ t.cbs = s.cbs /\ CbsOf(t) = CbsOf(s)
    /\ t.frames = s.frames /\ Framed(t) = Framed(s)
    /\ t.leaving = s.leaving /\ t.dirty = s.dirty

LEMMA WaitsSet ==
    ASSUME NEW s \in States, NEW c \in Nat
    PROVE  /\ LET t == [s EXCEPT !.waits = @ \cup {c}]
              IN Beside(s, t) /\ t.waits = s.waits \cup {c} /\ t.pending = s.pending
           /\ LET t == [s EXCEPT !.waits = @ \ {c}]
              IN Beside(s, t) /\ t.waits = s.waits \ {c} /\ t.pending = s.pending
BY DEF States, Beside, ElsOf, CbsOf, Framed

LEMMA PendingSet ==
    ASSUME NEW s \in States, NEW k \in Keys, NEW e \in Nat
    PROVE  LET t == [s EXCEPT !.pending[k] = e]
           IN Beside(s, t) /\ t.waits = s.waits /\ t.pending = [s.pending EXCEPT ![k] = e]
BY DEF States, Beside, ElsOf, CbsOf, Framed

-----------------------------------------------------------------------------
(* The end of a leave *)

\* once: the callback c is called, and nothing waits to call it.
LEMMA DoneFacts ==
    ASSUME NEW s \in States, NEW c \in CbsOf(s)
    PROVE  LET t == Done(s, c)
               x == s.cbs[c]
           IN  /\ t \in States
               /\ t.els = s.els /\ ElsOf(t) = ElsOf(s) /\ CbsOf(t) = CbsOf(s)
               /\ t.cbs[c] = [el |-> x.el, side |-> x.side, cancelled |-> x.cancelled,
                              called |-> TRUE, old |-> x.old, resume |-> x.resume,
                              delayed |-> x.delayed]
               /\ \A d \in CbsOf(s) : d # c => t.cbs[d] = s.cbs[d]
               /\ t.frames = s.frames /\ Framed(t) = Framed(s) /\ t.waits = s.waits \ {c}
               /\ t.leaving = s.leaving /\ t.dirty = s.dirty /\ t.pending = s.pending
<1> DEFINE u == [s EXCEPT !.cbs[c].called = TRUE]
           t == [u EXCEPT !.waits = @ \ {c}]
           x == s.cbs[c]
<1>1. CbHas(s, u, c, x.cancelled, TRUE, x.delayed)
  BY FlagSet
<1>2. Done(s, c) = t
  BY DEF Done, States
<1>3. u \in States /\ c \in Nat
  BY <1>1, Members DEF CbHas, CbIs, CbsOf
<1>4. Beside(u, t) /\ t.waits = u.waits \ {c} /\ t.pending = u.pending
  <2> HIDE DEF u
  <2> QED
    BY <1>3, WaitsSet
<1> HIDE DEF u, t
<1> QED
  BY <1>1, <1>2, <1>4 DEF CbHas, CbIs, Beside

\* What el._leaveCb, which is the callback c of the element e, does to e ...
LeaveEndsElem(s, t, c, e) ==
    /\ t.els[e].key = s.els[e].key
    /\ t.els[e].enter = s.els[e].enter
    /\ t.els[e].leave = 0
    /\ t.els[e].classes =
          IF ~ setup.css THEN s.els[e].classes
          ELSE IF s.cbs[c].cancelled THEN s.els[e].classes \ LeaveClasses
          ELSE s.els[e].classes \ {"leave-to", "leave-active"}
    /\ t.els[e].dom <=> s.els[e].dom /\ (s.cbs[c].cancelled \/ setup.show)
    /\ t.els[e].display <=> s.els[e].display /\ (s.cbs[c].cancelled \/ ~ setup.show)

\* ... and to the rest.
LeaveEndsRest(s, t, c, e) ==
    /\ t \in States
    /\ Len(t.els) = Len(s.els) /\ ElsOf(t) = ElsOf(s) /\ CbsOf(t) = CbsOf(s)
    /\ \A f \in ElsOf(s) : f # e => t.els[f] = s.els[f]
    /\ \A d \in CbsOf(s) : d # c => t.cbs[d] = s.cbs[d]
    /\ t.cbs[c].el = e /\ t.cbs[c].side = s.cbs[c].side /\ t.cbs[c].called
    /\ t.cbs[c].cancelled = s.cbs[c].cancelled /\ t.cbs[c].old = s.cbs[c].old
    /\ t.cbs[c].resume = s.cbs[c].resume /\ t.cbs[c].delayed = s.cbs[c].delayed
    /\ t.frames = s.frames /\ Framed(t) = Framed(s) /\ t.waits = s.waits \ {c}
    /\ \A k \in Keys : t.pending[k] \in {0, s.pending[k]}
    /\ t.leaving <=> s.leaving /\ (s.cbs[c].cancelled \/ ~ s.cbs[c].resume)
    /\ t.dirty <=> s.dirty \/ (~ s.cbs[c].cancelled /\ s.cbs[c].resume)

LEMMA LeaveCbFacts ==
    ASSUME NEW s \in States, NEW c \in CbsOf(s), s.cbs[c].el \in ElsOf(s), ~ s.cbs[c].called
    PROVE  LET e == s.cbs[c].el
           IN  LeaveEndsElem(s, LeaveCb(s, c), c, e) /\ LeaveEndsRest(s, LeaveCb(s, c), c, e)
<1> DEFINE b == s.cbs[c]
           e == b.el
           s1 == IF s.els[e].dom THEN [s EXCEPT !.pending[s.els[e].key] = 0] ELSE s
           s2 == [s1 EXCEPT !.els[e].leave = 0]
           s3 == Done(s2, c)
           s4 == RemoveClasses(s3, e, {"leave-to", "leave-active"})
           s5 == RemoveClasses(s4, e, {"leave"})
           s6 == Rm(s4, e)
           s7 == AfterLeave(s6, b)
<1>0. /\ e \in ElsOf(s) /\ b \in Cb /\ s.els[e] \in Elem /\ s.els[e].key \in Keys
      /\ LeaveCb(s, c) = IF b.cancelled THEN s5 ELSE s7
  BY Members DEF LeaveCb, Elem
<1>1. /\ Beside(s, s1) /\ s1.waits = s.waits
      /\ \A k \in Keys : s1.pending[k] \in {0, s.pending[k]}
  <2>1. CASE s.els[e].dom
    <3> DEFINE k == s.els[e].key
    <3>1. s1 = [s EXCEPT !.pending[k] = 0]
      BY <2>1
    <3>2. k \in Keys
      BY <1>0
    <3> HIDE DEF s1, k
    <3>3. LET u == [s EXCEPT !.pending[k] = 0]
          IN Beside(s, u) /\ u.waits = s.waits /\ u.pending = [s.pending EXCEPT ![k] = 0]
      BY <3>2, PendingSet
    <3>4. s.pending \in [Keys -> Nat]
      BY DEF States
    <3> QED
      BY <3>1, <3>2, <3>3, <3>4
  <2>2. CASE ~ s.els[e].dom
    BY <2>2 DEF Beside
  <2> QED
    BY <2>1, <2>2
<1> HIDE DEF s1
<1>2. ElemHas(s1, s2, e, s1.els[e].classes, s1.els[e].dom, s1.els[e].display, s1.els[e].enter, 0)
  BY <1>0, <1>1, FieldSet DEF Beside
<1> HIDE DEF s2
<1>3. /\ s2 \in States /\ c \in CbsOf(s2) /\ s2.cbs[c] = b
  BY <1>1, <1>2 DEF Beside, ElemHas, ElemIs
<1>4. /\ s3 \in States
      /\ s3.els = s2.els /\ ElsOf(s3) = ElsOf(s2) /\ CbsOf(s3) = CbsOf(s2)
      /\ s3.cbs[c] = [el |-> b.el, side |-> b.side, cancelled |-> b.cancelled,
                      called |-> TRUE, old |-> b.old, resume |-> b.resume,
                      delayed |-> b.delayed]
      /\ \A d \in CbsOf(s2) : d # c => s3.cbs[d] = s2.cbs[d]
      /\ s3.frames = s2.frames /\ Framed(s3) = Framed(s2) /\ s3.waits = s2.waits \ {c}
      /\ s3.leaving = s2.leaving /\ s3.dirty = s2.dirty /\ s3.pending = s2.pending
  <2> HIDE DEF b
  <2> QED
    BY <1>3, DoneFacts
<1> HIDE DEF s3
<1>5. /\ e \in ElsOf(s3)
      /\ ElemHas(s3, s4, e,
            IF setup.css THEN s3.els[e].classes \ {"leave-to", "leave-active"}
            ELSE s3.els[e].classes,
            s3.els[e].dom, s3.els[e].display, s3.els[e].enter, s3.els[e].leave)
  <2>1. {"leave-to", "leave-active"} \in SUBSET Classes
    BY DEF Classes
  <2>2. e \in ElsOf(s3)
    BY <1>0, <1>1, <1>2, <1>4 DEF Beside, ElemHas, ElemIs
  <2> QED
    BY <1>4, <2>1, <2>2, ClassesRemoved
<1> HIDE DEF s4
<1>6. s4 \in States /\ e \in ElsOf(s4)
  BY <1>5 DEF ElemHas, ElemIs
<1>7. ElemHas(s4, s5, e, IF setup.css THEN s4.els[e].classes \ {"leave"} ELSE s4.els[e].classes,
              s4.els[e].dom, s4.els[e].display, s4.els[e].enter, s4.els[e].leave)
  <2>1. {"leave"} \in SUBSET Classes
    BY DEF Classes
  <2> QED
    BY <1>6, <2>1, ClassesRemoved
<1>8. ElemHas(s4, s6, e, s4.els[e].classes, setup.show /\ s4.els[e].dom,
              ~ setup.show /\ s4.els[e].display, s4.els[e].enter, s4.els[e].leave)
  BY <1>6, Removed
<1> HIDE DEF s5, s6
<1>9. s6 \in States
  BY <1>8 DEF ElemHas, ElemIs
<1>10. /\ s7 \in States /\ s7.els = s6.els /\ s7.cbs = s6.cbs /\ s7.frames = s6.frames
       /\ s7.waits = s6.waits /\ s7.pending = s6.pending
       /\ s7.leaving <=> s6.leaving /\ ~ b.resume
       /\ s7.dirty <=> s6.dirty \/ b.resume
  <2> HIDE DEF b
  <2> QED
    BY <1>9 DEF AfterLeave, States
<1>11. ElsOf(s7) = ElsOf(s6) /\ CbsOf(s7) = CbsOf(s6) /\ Framed(s7) = Framed(s6)
  BY <1>10 DEF ElsOf, CbsOf, Framed
<1> HIDE DEF s7
<1>12. /\ Len(s4.els) = Len(s.els) /\ ElsOf(s4) = ElsOf(s) /\ CbsOf(s4) = CbsOf(s)
       /\ s4.els[e].key = s.els[e].key /\ s4.els[e].enter = s.els[e].enter
       /\ s4.els[e].leave = 0
       /\ s4.els[e].classes = IF setup.css THEN s.els[e].classes \ {"leave-to", "leave-active"}
                              ELSE s.els[e].classes
       /\ s4.els[e].dom = s.els[e].dom /\ s4.els[e].display = s.els[e].display
       /\ \A f \in ElsOf(s) : f # e => s4.els[f] = s.els[f]
  <2>1. /\ s3.els = s2.els /\ ElsOf(s3) = ElsOf(s) /\ CbsOf(s3) = CbsOf(s)
        /\ s1.els = s.els /\ ElsOf(s1) = ElsOf(s)
    BY <1>1, <1>2, <1>4 DEF Beside, ElemHas, ElemIs
  <2>2. /\ Len(s4.els) = Len(s3.els) /\ ElsOf(s4) = ElsOf(s3) /\ CbsOf(s4) = CbsOf(s3)
        /\ \A f \in ElsOf(s3) : f # e => s4.els[f] = s3.els[f]
    BY <1>5 DEF ElemHas, ElemIs
  <2>3. /\ Len(s2.els) = Len(s.els)
        /\ \A f \in ElsOf(s) : f # e => s2.els[f] = s.els[f]
    BY <1>1, <1>2, <2>1 DEF ElemHas, ElemIs
  <2>4. /\ s4.els[e].key = s3.els[e].key /\ s4.els[e].enter = s3.els[e].enter
        /\ s4.els[e].leave = s3.els[e].leave
        /\ s4.els[e].classes = IF setup.css THEN s3.els[e].classes \ {"leave-to", "leave-active"}
                               ELSE s3.els[e].classes
        /\ s4.els[e].dom = s3.els[e].dom /\ s4.els[e].display = s3.els[e].display
    BY <1>5 DEF ElemHas
  <2>5. /\ s2.els[e].key = s1.els[e].key /\ s2.els[e].enter = s1.els[e].enter
        /\ s2.els[e].leave = 0 /\ s2.els[e].classes = s1.els[e].classes
        /\ s2.els[e].dom = s1.els[e].dom /\ s2.els[e].display = s1.els[e].display
    BY <1>2 DEF ElemHas
  <2>6. /\ s4.els[e].key = s.els[e].key /\ s4.els[e].enter = s.els[e].enter
        /\ s4.els[e].leave = 0
        /\ s4.els[e].classes = IF setup.css THEN s.els[e].classes \ {"leave-to", "leave-active"}
                               ELSE s.els[e].classes
        /\ s4.els[e].dom = s.els[e].dom /\ s4.els[e].display = s.els[e].display
    BY <2>1, <2>4, <2>5
  <2>7. /\ Len(s4.els) = Len(s.els) /\ ElsOf(s4) = ElsOf(s) /\ CbsOf(s4) = CbsOf(s)
        /\ \A f \in ElsOf(s) : f # e => s4.els[f] = s.els[f]
    BY <2>1, <2>2, <2>3
  <2> QED
    BY <2>6, <2>7
<1>13. /\ s4.cbs[c] = [el |-> b.el, side |-> b.side, cancelled |-> b.cancelled,
                       called |-> TRUE, old |-> b.old, resume |-> b.resume,
                       delayed |-> b.delayed]
       /\ \A d \in CbsOf(s) : d # c => s4.cbs[d] = s.cbs[d]
       /\ s4.frames = s.frames /\ Framed(s4) = Framed(s) /\ s4.waits = s.waits \ {c}
       /\ \A k \in Keys : s4.pending[k] \in {0, s.pending[k]}
       /\ s4.leaving = s.leaving /\ s4.dirty = s.dirty
  <2>1. /\ s4.cbs = s3.cbs /\ s4.frames = s3.frames /\ Framed(s4) = Framed(s3)
        /\ s4.waits = s3.waits /\ s4.pending = s3.pending
        /\ s4.leaving = s3.leaving /\ s4.dirty = s3.dirty
    BY <1>5 DEF ElemHas, ElemIs
  <2>2. /\ s2.cbs = s.cbs /\ CbsOf(s2) = CbsOf(s)
        /\ s2.frames = s.frames /\ Framed(s2) = Framed(s) /\ s2.waits = s.waits
        /\ s2.leaving = s.leaving /\ s2.dirty = s.dirty
    BY <1>1, <1>2 DEF Beside, ElemHas, ElemIs
  <2>3. \A k \in Keys : s2.pending[k] \in {0, s.pending[k]}
    BY <1>1, <1>2 DEF ElemHas, ElemIs
  <2> HIDE DEF b
  <2>4. /\ \A d \in CbsOf(s) : d # c => s4.cbs[d] = s.cbs[d]
        /\ s4.frames = s.frames /\ Framed(s4) = Framed(s) /\ s4.waits = s.waits \ {c}
        /\ s4.leaving = s.leaving /\ s4.dirty = s.dirty
    BY <1>4, <2>1, <2>2
  <2>5. \A k \in Keys : s4.pending[k] \in {0, s.pending[k]}
    BY <1>4, <2>1, <2>3
  <2>6. s4.cbs[c] = s3.cbs[c]
    BY <2>1
  <2> QED
    BY <1>4, <2>4, <2>5, <2>6
<1>14. /\ s.els[e].dom \in BOOLEAN /\ s.els[e].display \in BOOLEAN
       /\ s.leaving \in BOOLEAN /\ s.dirty \in BOOLEAN
  BY <1>0 DEF Elem, States
<1>15. CASE b.cancelled
  <2>1. /\ s5.els[e].key = s.els[e].key /\ s5.els[e].enter = s.els[e].enter
        /\ s5.els[e].leave = 0
        /\ s5.els[e].classes = IF ~ setup.css THEN s.els[e].classes
                               ELSE s.els[e].classes \ LeaveClasses
        /\ s5.els[e].dom = s.els[e].dom /\ s5.els[e].display = s.els[e].display
    <3>1. /\ s5.els[e].key = s4.els[e].key
          /\ s5.els[e].classes = IF setup.css THEN s4.els[e].classes \ {"leave"}
                                 ELSE s4.els[e].classes
          /\ s5.els[e].dom = s4.els[e].dom /\ s5.els[e].display = s4.els[e].display
          /\ s5.els[e].enter = s4.els[e].enter /\ s5.els[e].leave = s4.els[e].leave
      BY <1>7 DEF ElemHas
    <3>2. (s.els[e].classes \ {"leave-to", "leave-active"}) \ {"leave"}
             = s.els[e].classes \ LeaveClasses
      BY DEF LeaveClasses
    <3> QED
      BY <1>12, <3>1, <3>2
  <2>2. /\ s5 \in States /\ Len(s5.els) = Len(s.els)
        /\ ElsOf(s5) = ElsOf(s) /\ CbsOf(s5) = CbsOf(s) /\ s5.cbs = s4.cbs
        /\ \A f \in ElsOf(s) : f # e => s5.els[f] = s.els[f]
        /\ s5.frames = s4.frames /\ Framed(s5) = Framed(s4) /\ s5.waits = s4.waits
        /\ s5.leaving = s4.leaving /\ s5.dirty = s4.dirty /\ s5.pending = s4.pending
    BY <1>7, <1>12 DEF ElemHas, ElemIs
  <2>3. LeaveEndsElem(s, s5, c, e)
    BY <1>14, <1>15, <2>1 DEF LeaveEndsElem
  <2>4. LeaveEndsRest(s, s5, c, e)
    <3>1. /\ s5.leaving <=> s.leaving /\ (b.cancelled \/ ~ b.resume)
          /\ s5.dirty <=> s.dirty \/ (~ b.cancelled /\ b.resume)
      BY <1>13, <1>15, <2>2
    <3>2. /\ s5.cbs[c].el = e /\ s5.cbs[c].side = b.side /\ s5.cbs[c].called
          /\ s5.cbs[c].cancelled = b.cancelled /\ s5.cbs[c].old = b.old
          /\ s5.cbs[c].resume = b.resume /\ s5.cbs[c].delayed = b.delayed
      BY <1>13, <2>2
    <3> QED
      BY <1>13, <2>2, <3>1, <3>2 DEF LeaveEndsRest
  <2> QED
    BY <1>0, <1>15, <2>3, <2>4
<1>16. CASE ~ b.cancelled
  <2>1. /\ s7.els[e].key = s.els[e].key /\ s7.els[e].enter = s.els[e].enter
        /\ s7.els[e].leave = 0
        /\ s7.els[e].classes = IF ~ setup.css THEN s.els[e].classes
                               ELSE s.els[e].classes \ {"leave-to", "leave-active"}
        /\ s7.els[e].dom = (setup.show /\ s.els[e].dom)
        /\ s7.els[e].display = (~ setup.show /\ s.els[e].display)
    <3>1. /\ s6.els[e].key = s4.els[e].key /\ s6.els[e].classes = s4.els[e].classes
          /\ s6.els[e].dom = (setup.show /\ s4.els[e].dom)
          /\ s6.els[e].display = (~ setup.show /\ s4.els[e].display)
          /\ s6.els[e].enter = s4.els[e].enter /\ s6.els[e].leave = s4.els[e].leave
      BY <1>8 DEF ElemHas
    <3> QED
      BY <1>10, <1>12, <3>1
  <2>2. /\ s7 \in States /\ Len(s7.els) = Len(s.els)
        /\ ElsOf(s7) = ElsOf(s) /\ CbsOf(s7) = CbsOf(s) /\ s7.cbs = s4.cbs
        /\ \A f \in ElsOf(s) : f # e => s7.els[f] = s.els[f]
        /\ s7.frames = s4.frames /\ Framed(s7) = Framed(s4) /\ s7.waits = s4.waits
        /\ s7.pending = s4.pending
        /\ s7.leaving <=> s4.leaving /\ ~ b.resume
        /\ s7.dirty <=> s4.dirty \/ b.resume
    BY <1>8, <1>10, <1>11, <1>12 DEF ElemHas, ElemIs
  <2>3. LeaveEndsElem(s, s7, c, e)
    BY <1>14, <1>16, <2>1 DEF LeaveEndsElem
  <2>4. LeaveEndsRest(s, s7, c, e)
    BY <1>13, <1>14, <1>16, <2>2 DEF LeaveEndsRest
  <2> QED
    BY <1>0, <1>16, <2>3, <2>4
<1> QED
  BY <1>15, <1>16

\* All but the element e is as it was.
Only(s, t, e) ==
    /\ Len(t.els) = Len(s.els)
    /\ \A f \in ElsOf(s) : f # e => t.els[f] = s.els[f]

LEMMA EndLeave ==
    ASSUME NEW s, NEW y, NEW A, NEW phase, Good(setup, s, y, A, phase),
           NEW c \in CbsOf(s), s.cbs[c].side = "leave", ~ s.cbs[c].called,
           NEW e, e = s.cbs[c].el,
           EarlyDone \/ s.cbs[c].cancelled \/ c \notin Framed(s) \/ (~ setup.show /\ e # y)
    PROVE  LET t == LeaveCb(s, c)
           IN  /\ Good(setup, t, y, A,
                       IF setup.show /\ s.cbs[c].cancelled THEN "between" ELSE phase)
               /\ Onward(s, t) /\ Only(s, t, e)
               /\ t.els[e].leave = 0 /\ t.els[e].enter = s.els[e].enter
<1> DEFINE t == LeaveCb(s, c)
<1>1. s \in States /\ Linked(s)
  BY DEF Good
<1>2. /\ e \in ElsOf(s) /\ c \in Nat \ {0}
      /\ s.els[e].leave = c /\ s.els[e].enter = 0
  BY <1>1, Members DEF Linked, CbsOf
<1>3. LeaveEndsElem(s, t, c, e) /\ LeaveEndsRest(s, t, c, e)
  BY <1>1, <1>2, LeaveCbFacts
<1> HIDE DEF t
<1>4. /\ t \in States
      /\ Len(t.els) = Len(s.els) /\ ElsOf(t) = ElsOf(s) /\ CbsOf(t) = CbsOf(s)
      /\ \A f \in ElsOf(s) : f # e => t.els[f] = s.els[f]
      /\ \A d \in CbsOf(s) : d # c => t.cbs[d] = s.cbs[d]
      /\ Framed(t) = Framed(s)
      /\ t.els[e].key = s.els[e].key /\ t.els[e].enter = 0 /\ t.els[e].leave = 0
      /\ t.cbs[c].el = e /\ t.cbs[c].side = "leave" /\ t.cbs[c].called
  BY <1>2, <1>3 DEF LeaveEndsElem, LeaveEndsRest
<1>5. Linked(t)
  <2>1. ASSUME NEW f \in ElsOf(t)
        PROVE  /\ t.els[f].enter # 0 => IsOpen(t, t.els[f].enter, f, "enter")
               /\ t.els[f].leave # 0 => IsOpen(t, t.els[f].leave, f, "leave")
               /\ t.els[f].enter = 0 \/ t.els[f].leave = 0
    <3>1. CASE f = e
      BY <1>4, <3>1
    <3>2. CASE f # e
      <4>1. /\ t.els[f] = s.els[f]
            /\ s.els[f].enter # 0 => IsOpen(s, s.els[f].enter, f, "enter")
            /\ s.els[f].leave # 0 => IsOpen(s, s.els[f].leave, f, "leave")
            /\ s.els[f].enter = 0 \/ s.els[f].leave = 0
        BY <1>1, <1>4, <3>2 DEF Linked
      <4>2. ASSUME NEW d, NEW side, IsOpen(s, d, f, side)
            PROVE  IsOpen(t, d, f, side)
        BY <1>4, <3>2, <4>2 DEF IsOpen
      <4> QED
        BY <4>1, <4>2
    <3> QED
      BY <3>1, <3>2
  <2>2. ASSUME NEW d \in CbsOf(t)
        PROVE  /\ t.cbs[d].el \in ElsOf(t)
               /\ t.cbs[d].old < t.cbs[d].el
               /\ t.cbs[d].resume \/ t.cbs[d].delayed => t.cbs[d].side = "leave"
    BY <1>1, <1>4, <1>3 DEF Linked, LeaveEndsRest
  <2>3. ASSUME NEW d \in CbsOf(t), ~ t.cbs[d].called
        PROVE  /\ t.cbs[d].side = "enter" => t.els[t.cbs[d].el].enter = d
               /\ t.cbs[d].side = "leave" => t.els[t.cbs[d].el].leave = d
    <3>1. d # c /\ t.cbs[d] = s.cbs[d] /\ d \in CbsOf(s)
      BY <1>4, <2>3
    <3>2. /\ s.cbs[d].side = "enter" => s.els[s.cbs[d].el].enter = d
          /\ s.cbs[d].side = "leave" => s.els[s.cbs[d].el].leave = d
          /\ s.cbs[d].el \in ElsOf(s)
      BY <1>1, <2>3, <3>1 DEF Linked
    <3>3. CASE s.cbs[d].el = e
      BY <1>2, <3>1, <3>2, <3>3, Members DEF CbsOf
    <3>4. CASE s.cbs[d].el # e
      BY <1>4, <3>1, <3>2, <3>4
    <3> QED
      BY <3>3, <3>4
  <2>4. \A k \in Keys : t.pending[k] \in 0 .. Len(t.els)
    BY <1>1, <1>4, <1>3, Members DEF Linked, LeaveEndsRest
  <2>5. Framed(t) \subseteq CbsOf(t)
    BY <1>1, <1>4 DEF Linked
  <2>6. \A d \in t.waits : d \in CbsOf(t) /\ ~ t.cbs[d].called
    BY <1>1, <1>4, <1>3 DEF Linked, LeaveEndsRest
  <2> QED
    BY <2>1, <2>2, <2>3, <2>4, <2>5, <2>6 DEF Linked
<1>6. ASSUME ~ EarlyDone
      PROVE  Dressed(setup, t, y)
  <2>1. Dressed(setup, s, y)
    BY <1>6 DEF Good
  <2>2. ASSUME NEW f \in ElsOf(t), t.els[f].dom \/ f = y
        PROVE  Wears(t, f)
    <3>1. CASE f # e
      BY <1>4, <2>1, <2>2, <3>1 DEF Dressed, Wears
    <3>2. CASE f = e
      <4>1. s.els[e].dom \/ e = y
        BY <1>3, <2>2, <3>2 DEF LeaveEndsElem
      <4>2. Wears(s, e)
        BY <1>2, <2>1, <4>1 DEF Dressed
      <4>3. /\ s.els[e].classes \subseteq LeaveClasses
            /\ "leave" \in s.els[e].classes => c \in Framed(s)
        BY <1>2, <4>2 DEF Wears
      <4>4. s.cbs[c].cancelled \/ c \notin Framed(s)
        BY <1>3, <1>6, <2>2, <3>2 DEF LeaveEndsElem
      <4>5. ~ setup.css => s.els[e].classes = {}
        BY <1>2, <2>1 DEF Dressed
      <4>6. t.els[e].classes = {}
        BY <1>3, <4>3, <4>4, <4>5 DEF LeaveClasses, LeaveEndsElem
      <4> QED
        BY <3>2, <4>6 DEF Wears
    <3> QED
      BY <3>1, <3>2
  <2>3. ASSUME NEW d \in CbsOf(t), d \in Framed(t)
        PROVE  /\ ~ t.cbs[d].delayed
               /\ t.cbs[d].called /\ ~ t.cbs[d].cancelled =>
                     ~ t.els[t.cbs[d].el].dom /\ t.cbs[d].el # y
    <3>1. CASE d # c
      <4>1. /\ ~ s.cbs[d].delayed
            /\ s.cbs[d].called /\ ~ s.cbs[d].cancelled =>
                  ~ s.els[s.cbs[d].el].dom /\ s.cbs[d].el # y
        BY <1>4, <2>1, <2>3 DEF Dressed
      <4>2. t.cbs[d] = s.cbs[d] /\ s.cbs[d].el \in ElsOf(s)
        BY <1>1, <1>4, <3>1 DEF Linked
      <4>3. t.els[s.cbs[d].el].dom => s.els[s.cbs[d].el].dom
        BY <1>3, <1>4, <4>2 DEF LeaveEndsElem
      <4> QED
        BY <4>1, <4>2, <4>3
    <3>2. CASE d = c
      <4>1. ~ s.cbs[c].delayed
        BY <1>4, <2>1, <2>3, <3>2 DEF Dressed
      <4>2. t.cbs[c].delayed = s.cbs[c].delayed /\ t.cbs[c].cancelled = s.cbs[c].cancelled
        BY <1>3 DEF LeaveEndsRest
      <4>3. ASSUME ~ s.cbs[c].cancelled
            PROVE  ~ t.els[e].dom /\ e # y
        BY <1>3, <1>4, <1>6, <2>3, <3>2, <4>3 DEF LeaveEndsElem
      <4> QED
        BY <1>4, <3>2, <4>1, <4>2, <4>3
    <3> QED
      BY <3>1, <3>2
  <2>4. ASSUME ~ setup.css
        PROVE  Framed(t) = {} /\ \A f \in ElsOf(t) : t.els[f].classes = {}
    <3>1. /\ Framed(t) = {} /\ ElsOf(t) = ElsOf(s)
          /\ \A f \in ElsOf(s) : s.els[f].classes = {}
      BY <1>3, <1>4, <2>1, <2>4 DEF Dressed
    <3>2. t.els[e].classes = {}
      BY <1>2, <1>3, <2>4, <3>1 DEF LeaveEndsElem
    <3> QED
      BY <1>4, <3>1, <3>2
  <2>5. \A i, j \in 1 .. Len(t.frames) : t.frames[i] = t.frames[j] => i = j
    BY <1>3, <2>1 DEF Dressed, LeaveEndsRest
  <2> QED
    BY <2>2, <2>3, <2>4, <2>5 DEF Dressed
<1>7. /\ s.dirty => t.dirty
      /\ s.leaving /\ ~ t.leaving => t.dirty
      /\ t.leaving => s.leaving
  BY <1>3 DEF LeaveEndsRest
<1>8. Onward(s, t) /\ Only(s, t, e)
  BY <1>1, <1>4, <1>7, Members DEF Onward, Only
<1>9. ASSUME setup.show
      PROVE  Displayed(t, IF s.cbs[c].cancelled THEN "between" ELSE phase)
  <2>1. Displayed(s, phase)
    BY <1>9 DEF Good
  <2>2. e = 1 /\ ElsOf(t) \subseteq {1} /\ t.els[1].dom /\ ~ t.leaving
    BY <1>2, <1>3, <1>4, <1>7, <1>9, <2>1 DEF Displayed, LeaveEndsElem
  <2>3. \A d \in CbsOf(t) : t.cbs[d].old = 0 /\ ~ t.cbs[d].delayed /\ ~ t.cbs[d].resume
    BY <1>3, <1>4, <2>1 DEF Displayed, LeaveEndsRest
  <2>4. phase # "shown"
    BY <1>2, <2>1 DEF Displayed
  <2>5. CASE s.cbs[c].cancelled
    BY <2>2, <2>3, <2>5 DEF Displayed
  <2>6. CASE ~ s.cbs[c].cancelled
    <3>1. ~ t.els[1].display
      BY <1>3, <1>9, <2>2, <2>6 DEF LeaveEndsElem
    <3>2. ASSUME NEW d \in CbsOf(t), phase = "hidden", t.cbs[d].side = "leave",
                 ~ t.cbs[d].called
          PROVE  ~ t.cbs[d].cancelled
      BY <1>4, <2>1, <3>2 DEF Displayed
    <3> QED
      BY <1>4, <2>2, <2>3, <2>4, <2>6, <3>1, <3>2 DEF Displayed
  <2> QED
    BY <2>5, <2>6
<1>10. ASSUME ~ setup.show
       PROVE  Placed(t, A, phase)
  <2>1. Placed(s, A, phase)
    BY <1>10 DEF Good
  <2>2. ~ s.cbs[c].cancelled
    BY <2>1 DEF Placed
  <2>3. \A d \in CbsOf(t) : t.cbs[d].side = "leave" => ~ t.cbs[d].cancelled
    BY <1>3, <1>4, <2>1 DEF Placed, LeaveEndsRest
  <2>4. \A f \in A : f \in ElsOf(t) /\ t.els[f].dom /\ t.els[f].leave = 0
    BY <1>2, <1>4, <2>1 DEF Placed
  <2>5. ~ t.els[e].dom
    BY <1>3, <1>10, <2>2 DEF LeaveEndsElem
  <2>6. \A f \in ElsOf(t) : t.els[f].dom => f \in A \/ t.els[f].leave # 0
    BY <1>4, <2>1, <2>5 DEF Placed
  <2>7. ASSUME t.leaving, phase # "resume"
        PROVE  A = {} /\ \E d \in CbsOf(t) : ~ t.cbs[d].called /\ t.cbs[d].resume
    <3>1. s.leaving /\ ~ s.cbs[c].resume
      BY <1>3, <2>2, <2>7 DEF LeaveEndsRest
    <3>2. PICK d \in CbsOf(s) : ~ s.cbs[d].called /\ s.cbs[d].resume
      BY <2>1, <2>7, <3>1 DEF Placed
    <3> QED
      BY <1>4, <2>1, <2>7, <3>1, <3>2 DEF Placed
  <2> QED
    BY <2>3, <2>4, <2>6, <2>7 DEF Placed
<1>11. Good(setup, t, y, A, IF setup.show /\ s.cbs[c].cancelled THEN "between" ELSE phase)
  <2>1. CASE setup.show
    BY <1>4, <1>5, <1>6, <1>9, <2>1 DEF Good
  <2>2. CASE ~ setup.show
    BY <1>4, <1>5, <1>6, <1>10, <2>2 DEF Good
  <2> QED
    BY <2>1, <2>2
<1> QED
  BY <1>2, <1>4, <1>8, <1>11 DEF t

-----------------------------------------------------------------------------
(* Changes that begin and end nothing *)

\* The elements of t are in the transitions they are in in s.
Alike(s, t) ==
    /\ Len(t.els) = Len(s.els) /\ ElsOf(t) = ElsOf(s) /\ CbsOf(t) = CbsOf(s)
    /\ \A f \in ElsOf(s) :
          /\ t.els[f].key = s.els[f].key
          /\ t.els[f].enter = s.els[f].enter /\ t.els[f].leave = s.els[f].leave
    /\ \A d \in CbsOf(s) :
          /\ t.cbs[d].el = s.cbs[d].el /\ t.cbs[d].side = s.cbs[d].side
          /\ t.cbs[d].called = s.cbs[d].called /\ t.cbs[d].old = s.cbs[d].old
          /\ t.cbs[d].resume = s.cbs[d].resume
          /\ t.cbs[d].delayed => s.cbs[d].delayed

LEMMA LinkedKept ==
    ASSUME NEW s, NEW t, Linked(s), Alike(s, t),
           Framed(t) \subseteq CbsOf(s),
           \A k \in Keys : t.pending[k] \in 0 .. Len(s.els),
           \A c \in t.waits : c \in CbsOf(s) /\ ~ s.cbs[c].called
    PROVE  Linked(t)
<1>1. ASSUME NEW f \in ElsOf(t)
      PROVE  /\ t.els[f].enter # 0 => IsOpen(t, t.els[f].enter, f, "enter")
             /\ t.els[f].leave # 0 => IsOpen(t, t.els[f].leave, f, "leave")
             /\ t.els[f].enter = 0 \/ t.els[f].leave = 0
  <2>1. /\ t.els[f].enter = s.els[f].enter /\ t.els[f].leave = s.els[f].leave
        /\ f \in ElsOf(s)
    BY DEF Alike
  <2>2. /\ s.els[f].enter # 0 => IsOpen(s, s.els[f].enter, f, "enter")
        /\ s.els[f].leave # 0 => IsOpen(s, s.els[f].leave, f, "leave")
        /\ s.els[f].enter = 0 \/ s.els[f].leave = 0
    BY <2>1 DEF Linked
  <2>3. ASSUME NEW d, NEW side, IsOpen(s, d, f, side)
        PROVE  IsOpen(t, d, f, side)
    BY <2>3 DEF IsOpen, Alike
  <2> QED
    BY <2>1, <2>2, <2>3
<1>2. ASSUME NEW d \in CbsOf(t)
      PROVE  /\ t.cbs[d].el \in ElsOf(t)
             /\ t.cbs[d].old < t.cbs[d].el
             /\ t.cbs[d].resume \/ t.cbs[d].delayed => t.cbs[d].side = "leave"
             /\ ~ t.cbs[d].called /\ t.cbs[d].side = "enter" => t.els[t.cbs[d].el].enter = d
             /\ ~ t.cbs[d].called /\ t.cbs[d].side = "leave" => t.els[t.cbs[d].el].leave = d
  BY DEF Linked, Alike
<1> QED
  BY <1>1, <1>2 DEF Linked, Alike

\* Where the page shows what it showed, and the component leaves as it did.
LEMMA PlacedKept ==
    ASSUME NEW s, NEW t, NEW A, NEW phase, Placed(s, A, phase), Alike(s, t),
           \A f \in ElsOf(s) : t.els[f].dom = s.els[f].dom,
           \A d \in CbsOf(s) :
               s.cbs[d].side = "leave" => t.cbs[d].cancelled = s.cbs[d].cancelled,
           t.leaving = s.leaving
    PROVE  Placed(t, A, phase)
<1>1. \A d \in CbsOf(t) : t.cbs[d].side = "leave" => ~ t.cbs[d].cancelled
  BY DEF Placed, Alike
<1>2. \A f \in A : f \in ElsOf(t) /\ t.els[f].dom /\ t.els[f].leave = 0
  BY DEF Placed, Alike
<1>3. \A f \in ElsOf(t) : t.els[f].dom => f \in A \/ t.els[f].leave # 0
  BY DEF Placed, Alike
<1>4. t.leaving /\ phase # "resume" =>
         A = {} /\ \E d \in CbsOf(t) : ~ t.cbs[d].called /\ t.cbs[d].resume
  BY DEF Placed, Alike
<1> QED
  BY <1>1, <1>2, <1>3, <1>4 DEF Placed

LEMMA DisplayedKept ==
    ASSUME NEW s, NEW t, NEW phase, Displayed(s, phase), Alike(s, t),
           \A f \in ElsOf(s) : t.els[f].dom = s.els[f].dom
                               /\ t.els[f].display = s.els[f].display,
           phase # "between" =>
               \A d \in CbsOf(s) :
                   s.cbs[d].side = "leave" => t.cbs[d].cancelled = s.cbs[d].cancelled,
           t.leaving = s.leaving
    PROVE  Displayed(t, phase)
<1>1. ASSUME NEW f \in ElsOf(t)
      PROVE  /\ t.els[f].dom
             /\ phase = "shown" => t.els[f].leave = 0 /\ t.els[f].display
             /\ phase = "hidden" =>
                   t.els[f].enter = 0 /\ (t.els[f].leave = 0 => ~ t.els[f].display)
  BY DEF Displayed, Alike
<1>2. ASSUME NEW d \in CbsOf(t)
      PROVE  /\ t.cbs[d].old = 0 /\ ~ t.cbs[d].delayed /\ ~ t.cbs[d].resume
             /\ phase = "hidden" /\ t.cbs[d].side = "leave" /\ ~ t.cbs[d].called =>
                   ~ t.cbs[d].cancelled
  BY DEF Displayed, Alike
<1> QED
  BY <1>1, <1>2 DEF Displayed, Alike

\* A transition is cancelled, or need not wait any longer.
LEMMA Flagged ==
    ASSUME NEW s, NEW y, NEW A, NEW phase, Good(setup, s, y, A, phase), NEW c \in CbsOf(s)
    PROVE  /\ LET t == [s EXCEPT !.cbs[c].cancelled = TRUE]
              IN  /\ s.cbs[c].side = "enter" => Good(setup, t, y, A, phase)
                  /\ setup.show => Good(setup, t, y, A, "between")
                  /\ Alike(s, t) /\ Onward(s, t) /\ t.els = s.els /\ Framed(t) = Framed(s)
                  /\ t.cbs[c].cancelled
           /\ LET t == [s EXCEPT !.cbs[c].delayed = FALSE]
              IN  /\ Good(setup, t, y, A, phase)
                  /\ Alike(s, t) /\ Onward(s, t) /\ t.els = s.els /\ Framed(t) = Framed(s)
                  /\ ~ t.cbs[c].delayed /\ t.cbs[c].cancelled = s.cbs[c].cancelled
<1>1. s \in States /\ Linked(s)
  BY DEF Good
<1> DEFINE t1 == [s EXCEPT !.cbs[c].cancelled = TRUE]
           t2 == [s EXCEPT !.cbs[c].delayed = FALSE]
<1>2. /\ CbHas(s, t1, c, TRUE, s.cbs[c].called, s.cbs[c].delayed)
      /\ CbHas(s, t2, c, s.cbs[c].cancelled, s.cbs[c].called, FALSE)
  BY <1>1, FlagSet
<1> HIDE DEF t1, t2
<1> DEFINE Flag(t) ==
      /\ t \in States /\ t.els = s.els /\ t.frames = s.frames /\ Framed(t) = Framed(s)
      /\ t.waits = s.waits /\ t.pending = s.pending
      /\ t.leaving = s.leaving /\ t.dirty = s.dirty
      /\ \A d \in CbsOf(s) : s.cbs[d].cancelled => t.cbs[d].cancelled
      /\ Alike(s, t)
<1>3. Flag(t1) /\ t1.cbs[c].cancelled /\ \A d \in CbsOf(s) : d # c => t1.cbs[d] = s.cbs[d]
  BY <1>2 DEF CbHas, CbIs, Alike, ElsOf
<1>4. /\ Flag(t2) /\ ~ t2.cbs[c].delayed
      /\ \A d \in CbsOf(s) : t2.cbs[d].cancelled = s.cbs[d].cancelled
  BY <1>2 DEF CbHas, CbIs, Alike, ElsOf
<1>5. ASSUME NEW t, Flag(t)
      PROVE  /\ Linked(t) /\ (EarlyDone \/ Dressed(setup, t, y)) /\ Onward(s, t)
             /\ ~ setup.show /\ (\A d \in CbsOf(s) :
                   s.cbs[d].side = "leave" => t.cbs[d].cancelled = s.cbs[d].cancelled)
                   => Placed(t, A, phase)
             /\ setup.show => Displayed(t, "between")
             /\ setup.show /\ (\A d \in CbsOf(s) :
                   s.cbs[d].side = "leave" => t.cbs[d].cancelled = s.cbs[d].cancelled)
                   => Displayed(t, phase)
  <2>1. Linked(t)
    BY <1>1, <1>5, LinkedKept DEF Linked
  <2>2. ASSUME ~ EarlyDone
        PROVE  Dressed(setup, t, y)
    <3>1. Dressed(setup, s, y)
      BY <2>2 DEF Good
    <3>2. \A f \in ElsOf(t) : t.els[f].dom \/ f = y => Wears(t, f)
      BY <1>5, <3>1 DEF Dressed, Wears, Alike
    <3>3. \A d \in CbsOf(t) : d \in Framed(t) =>
            /\ ~ t.cbs[d].delayed
            /\ t.cbs[d].called /\ ~ t.cbs[d].cancelled =>
                  ~ t.els[t.cbs[d].el].dom /\ t.cbs[d].el # y
      BY <1>5, <3>1 DEF Dressed, Alike
    <3> QED
      BY <1>5, <3>1, <3>2, <3>3 DEF Dressed, Alike
  <2>3. Onward(s, t)
    BY <1>1, <1>5, Members DEF Onward
  <2>4. ASSUME ~ setup.show, \A d \in CbsOf(s) :
               s.cbs[d].side = "leave" => t.cbs[d].cancelled = s.cbs[d].cancelled
        PROVE  Placed(t, A, phase)
    <3>1. Placed(s, A, phase)
      BY <2>4 DEF Good
    <3> QED
      BY <1>5, <2>4, <3>1, PlacedKept
  <2>5. ASSUME setup.show
        PROVE  Displayed(t, "between")
    <3>1. Displayed(s, "between")
      BY <2>5 DEF Good, Displayed
    <3> QED
      BY <1>5, <3>1, DisplayedKept
  <2>6. ASSUME setup.show, \A d \in CbsOf(s) :
               s.cbs[d].side = "leave" => t.cbs[d].cancelled = s.cbs[d].cancelled
        PROVE  Displayed(t, phase)
    <3>1. Displayed(s, phase)
      BY <2>6 DEF Good
    <3> QED
      BY <1>5, <2>6, <3>1, DisplayedKept
  <2> QED
    BY <2>1, <2>2, <2>3, <2>4, <2>5, <2>6
<1>6. ASSUME s.cbs[c].side = "enter"
      PROVE  Good(setup, t1, y, A, phase)
  <2>1. \A d \in CbsOf(s) : s.cbs[d].side = "leave" => t1.cbs[d].cancelled = s.cbs[d].cancelled
    BY <1>3, <1>6
  <2> QED
    BY <1>3, <1>5, <2>1 DEF Good
<1>7. setup.show => Good(setup, t1, y, A, "between")
  BY <1>3, <1>5 DEF Good
<1>8. Good(setup, t2, y, A, phase)
  BY <1>4, <1>5 DEF Good
<1> HIDE DEF Flag
<1>9. Onward(s, t1) /\ Onward(s, t2)
  BY <1>3, <1>4, <1>5
<1> QED
  BY <1>3, <1>4, <1>6, <1>7, <1>8, <1>9 DEF Flag, t1, t2

-----------------------------------------------------------------------------
(* The begin of a transition *)

\* t has one more callback than s, r, which is the one of the element e.
Begun(s, t, e, r) ==
    LET c == Len(s.cbs) + 1 IN
    /\ t \in States
    /\ Len(t.els) = Len(s.els) /\ ElsOf(t) = ElsOf(s)
    /\ Len(t.cbs) = c /\ CbsOf(t) = CbsOf(s) \cup {c} /\ c \notin CbsOf(s) /\ c \in Nat \ {0}
    /\ t.cbs[c] = r
    /\ \A d \in CbsOf(s) : t.cbs[d] = s.cbs[d]
    /\ \A f \in ElsOf(s) : f # e => t.els[f] = s.els[f]
    /\ t.els[e].key = s.els[e].key /\ t.els[e].classes = s.els[e].classes
    /\ t.els[e].dom = s.els[e].dom /\ t.els[e].display = s.els[e].display
    /\ t.els[e].enter = IF r.side = "enter" THEN c ELSE s.els[e].enter
    /\ t.els[e].leave = IF r.side = "leave" THEN c ELSE s.els[e].leave
    /\ t.frames = s.frames /\ Framed(t) = Framed(s) /\ t.waits = s.waits
    /\ t.leaving = s.leaving /\ t.dirty = s.dirty /\ t.pending = s.pending

LEMMA CbAppended ==
    ASSUME NEW s \in States, NEW r \in Cb
    PROVE  LET t == [s EXCEPT !.cbs = Append(@, r)]
               c == Len(s.cbs) + 1
           IN  /\ t \in States
               /\ Len(t.cbs) = c /\ CbsOf(t) = CbsOf(s) \cup {c} /\ c \notin CbsOf(s)
               /\ c \in Nat \ {0}
               /\ t.cbs[c] = r /\ \A d \in CbsOf(s) : t.cbs[d] = s.cbs[d]
               /\ t.els = s.els /\ ElsOf(t) = ElsOf(s)
               /\ t.frames = s.frames /\ Framed(t) = Framed(s) /\ t.waits = s.waits
               /\ t.leaving = s.leaving /\ t.dirty = s.dirty /\ t.pending = s.pending
<1> DEFINE q == Append(s.cbs, r)
           t == [s EXCEPT !.cbs = q]
<1>1. s.cbs \in Seq(Cb)
  BY DEF States
<1>2. /\ q \in Seq(Cb) /\ Len(q) = Len(s.cbs) + 1 /\ q[Len(s.cbs) + 1] = r
      /\ \A d \in 1 .. Len(s.cbs) : q[d] = s.cbs[d]
      /\ Len(s.cbs) \in Nat
  BY <1>1, AppendProperties
<1> HIDE DEF q
<1>3. /\ t.els = s.els /\ t.cbs = q /\ t.frames = s.frames /\ t.waits = s.waits
      /\ t.leaving = s.leaving /\ t.dirty = s.dirty /\ t.pending = s.pending
      /\ t \in States
  BY <1>2 DEF States
<1> HIDE DEF t
<1>4. /\ CbsOf(t) = CbsOf(s) \cup {Len(s.cbs) + 1} /\ Len(s.cbs) + 1 \notin CbsOf(s)
      /\ ElsOf(t) = ElsOf(s) /\ Framed(t) = Framed(s)
  BY <1>2, <1>3 DEF CbsOf, ElsOf, Framed
<1> QED
  BY <1>2, <1>3, <1>4 DEF t, q, CbsOf

LEMMA CbBegun ==
    ASSUME NEW s \in States, NEW e \in ElsOf(s), NEW r \in Cb
    PROVE  LET c == Len(s.cbs) + 1 IN
           /\ r.side = "enter" =>
                 Begun(s, [s EXCEPT !.cbs = Append(@, r), !.els[e].enter = c], e, r)
           /\ r.side = "leave" =>
                 Begun(s, [s EXCEPT !.cbs = Append(@, r), !.els[e].leave = c], e, r)
<1> DEFINE c == Len(s.cbs) + 1
           u == [s EXCEPT !.cbs = Append(@, r)]
           t1 == [u EXCEPT !.els[e].enter = c]
           t2 == [u EXCEPT !.els[e].leave = c]
<1>1. /\ u \in States
      /\ Len(u.cbs) = c /\ CbsOf(u) = CbsOf(s) \cup {c} /\ c \notin CbsOf(s)
      /\ c \in Nat \ {0}
      /\ u.cbs[c] = r /\ \A d \in CbsOf(s) : u.cbs[d] = s.cbs[d]
      /\ u.els = s.els /\ ElsOf(u) = ElsOf(s)
      /\ u.frames = s.frames /\ Framed(u) = Framed(s) /\ u.waits = s.waits
      /\ u.leaving = s.leaving /\ u.dirty = s.dirty /\ u.pending = s.pending
  BY CbAppended
<1>2. /\ [s EXCEPT !.cbs = Append(@, r), !.els[e].enter = c] = t1
      /\ [s EXCEPT !.cbs = Append(@, r), !.els[e].leave = c] = t2
  BY DEF States
<1> HIDE DEF u, c
<1>3. /\ ElemHas(u, t1, e, u.els[e].classes, u.els[e].dom, u.els[e].display, c, u.els[e].leave)
      /\ ElemHas(u, t2, e, u.els[e].classes, u.els[e].dom, u.els[e].display, u.els[e].enter, c)
  BY <1>1, FieldSet
<1> HIDE DEF t1, t2
<1>4. r.side = "enter" => Begun(s, t1, e, r)
  BY <1>1, <1>3 DEF Begun, ElemHas, ElemIs, c
<1>5. r.side = "leave" => Begun(s, t2, e, r)
  BY <1>1, <1>3 DEF Begun, ElemHas, ElemIs, c
<1> QED
  BY <1>2, <1>4, <1>5 DEF c

\* What one transition begun on an element that is in none leaves as it was.
LEMMA BegunLinked ==
    ASSUME NEW s \in States, NEW t, NEW e \in ElsOf(s), NEW r \in Cb, Begun(s, t, e, r),
           Linked(s), s.els[e].enter = 0, s.els[e].leave = 0,
           r.el = e, ~ r.called, r.old < e, r.resume \/ r.delayed => r.side = "leave"
    PROVE  Linked(t)
<1> DEFINE c == Len(s.cbs) + 1
<1>0. /\ ElsOf(t) = ElsOf(s) /\ CbsOf(t) = CbsOf(s) \cup {c} /\ c \notin CbsOf(s)
      /\ c # 0 /\ t.cbs[c] = r /\ \A d \in CbsOf(s) : t.cbs[d] = s.cbs[d]
      /\ \A f \in ElsOf(s) : f # e => t.els[f] = s.els[f]
      /\ t.els[e].enter = IF r.side = "enter" THEN c ELSE 0
      /\ t.els[e].leave = IF r.side = "leave" THEN c ELSE 0
  BY DEF Begun
<1> HIDE DEF c
<1>1. ASSUME NEW f \in ElsOf(t)
      PROVE  /\ t.els[f].enter # 0 => IsOpen(t, t.els[f].enter, f, "enter")
             /\ t.els[f].leave # 0 => IsOpen(t, t.els[f].leave, f, "leave")
             /\ t.els[f].enter = 0 \/ t.els[f].leave = 0
  <2>1. CASE f = e
    BY <1>0, <2>1 DEF IsOpen
  <2>2. CASE f # e
    <3>1. /\ t.els[f] = s.els[f]
          /\ s.els[f].enter # 0 => IsOpen(s, s.els[f].enter, f, "enter")
          /\ s.els[f].leave # 0 => IsOpen(s, s.els[f].leave, f, "leave")
          /\ s.els[f].enter = 0 \/ s.els[f].leave = 0
      BY <1>0, <2>2 DEF Linked
    <3>2. ASSUME NEW d, NEW side, IsOpen(s, d, f, side)
          PROVE  IsOpen(t, d, f, side)
      BY <1>0, <3>2 DEF IsOpen
    <3> QED
      BY <3>1, <3>2
  <2> QED
    BY <2>1, <2>2
<1>2. ASSUME NEW d \in CbsOf(t)
      PROVE  /\ t.cbs[d].el \in ElsOf(t)
             /\ t.cbs[d].old < t.cbs[d].el
             /\ t.cbs[d].resume \/ t.cbs[d].delayed => t.cbs[d].side = "leave"
             /\ ~ t.cbs[d].called /\ t.cbs[d].side = "enter" => t.els[t.cbs[d].el].enter = d
             /\ ~ t.cbs[d].called /\ t.cbs[d].side = "leave" => t.els[t.cbs[d].el].leave = d
  <2>1. CASE d = c
    BY <1>0, <2>1
  <2>2. CASE d # c
    <3>1. /\ d \in CbsOf(s) /\ t.cbs[d] = s.cbs[d] /\ s.cbs[d].el \in ElsOf(s)
          /\ s.cbs[d].old < s.cbs[d].el
          /\ s.cbs[d].resume \/ s.cbs[d].delayed => s.cbs[d].side = "leave"
          /\ ~ s.cbs[d].called /\ s.cbs[d].side = "enter" => s.els[s.cbs[d].el].enter = d
          /\ ~ s.cbs[d].called /\ s.cbs[d].side = "leave" => s.els[s.cbs[d].el].leave = d
          /\ d # 0
      <4>1. d \in CbsOf(s) /\ t.cbs[d] = s.cbs[d] /\ d # 0
        BY <1>0, <2>2 DEF CbsOf
      <4> QED
        BY <1>0, <4>1 DEF Linked
    <3>2. s.cbs[d].el # e \/ s.cbs[d].called \/ s.cbs[d].side \notin {"enter", "leave"}
      BY <3>1
    <3>3. s.cbs[d].side \in {"enter", "leave"}
      BY <3>1, Members DEF Cb
    <3> QED
      BY <1>0, <3>1, <3>2, <3>3
  <2> QED
    BY <2>1, <2>2
<1>3. /\ \A k \in Keys : t.pending[k] \in 0 .. Len(t.els)
      /\ Framed(t) \subseteq CbsOf(t)
      /\ \A d \in t.waits : d \in CbsOf(t) /\ ~ t.cbs[d].called
  BY <1>0 DEF Begun, Linked
<1> QED
  BY <1>1, <1>2, <1>3 DEF Linked

LEMMA BegunDressed ==
    ASSUME NEW s \in States, NEW t, NEW y, NEW e \in ElsOf(s), NEW r \in Cb, Begun(s, t, e, r),
           Linked(s), Dressed(setup, s, y), s.els[e].enter = 0, s.els[e].leave = 0
    PROVE  Dressed(setup, t, y)
<1> DEFINE c == Len(s.cbs) + 1
<1>1. /\ ElsOf(t) = ElsOf(s) /\ CbsOf(t) = CbsOf(s) \cup {c} /\ c \notin CbsOf(s)
      /\ \A d \in CbsOf(s) : t.cbs[d] = s.cbs[d]
      /\ \A f \in ElsOf(s) : f # e => t.els[f] = s.els[f]
      /\ t.els[e].classes = s.els[e].classes /\ t.els[e].dom = s.els[e].dom
      /\ Framed(t) = Framed(s) /\ t.frames = s.frames
  BY DEF Begun
<1>2. c \notin Framed(s)
  BY <1>1 DEF Linked
<1> HIDE DEF c
<1>3. ASSUME NEW f \in ElsOf(t), t.els[f].dom \/ f = y
      PROVE  Wears(t, f)
  <2>1. Wears(s, f)
    BY <1>1, <1>3 DEF Dressed
  <2>2. CASE f # e
    BY <1>1, <2>1, <2>2 DEF Wears
  <2>3. CASE f = e
    <3>1. s.els[e].classes = {}
      BY <2>1, <2>3 DEF Wears
    <3> QED
      BY <1>1, <2>3, <3>1 DEF Wears
  <2> QED
    BY <2>2, <2>3
<1>4. ASSUME NEW d \in CbsOf(t), d \in Framed(t)
      PROVE  /\ ~ t.cbs[d].delayed
             /\ t.cbs[d].called /\ ~ t.cbs[d].cancelled =>
                   ~ t.els[t.cbs[d].el].dom /\ t.cbs[d].el # y
  <2>1. d \in CbsOf(s) /\ d \in Framed(s) /\ t.cbs[d] = s.cbs[d] /\ s.cbs[d].el \in ElsOf(s)
    BY <1>1, <1>2, <1>4 DEF Linked
  <2>2. t.els[s.cbs[d].el].dom = s.els[s.cbs[d].el].dom
    BY <1>1, <2>1
  <2> QED
    BY <2>1, <2>2 DEF Dressed
<1>5. ~ setup.css => Framed(t) = {} /\ \A f \in ElsOf(t) : t.els[f].classes = {}
  BY <1>1 DEF Dressed
<1> QED
  BY <1>1, <1>3, <1>4, <1>5 DEF Dressed

LEMMA BegunLeave ==
    ASSUME NEW s, NEW y, NEW A, NEW phase, Good(setup, s, y, A, phase),
           NEW e \in ElsOf(s), s.els[e].enter = 0, s.els[e].leave = 0,
           NEW r \in Cb, r.el = e, r.side = "leave", ~ r.called, ~ r.cancelled, r.old = 0,
           setup.show => ~ r.resume /\ ~ r.delayed,
           NEW next,
           next = IF setup.show THEN "hidden" ELSE IF r.resume THEN "steady" ELSE phase,
           ~ setup.show /\ r.resume => A \subseteq {e},
           NEW t, Begun(s, t, e, r)
    PROVE  Good(setup, t, y, A \ {e}, next) /\ Onward(s, t)
<1> DEFINE c == Len(s.cbs) + 1
<1>1. s \in States /\ Linked(s) /\ e \in Nat /\ e > 0
  BY Members DEF Good, ElsOf
<1>3. Linked(t)
  BY <1>1, BegunLinked
<1>4. EarlyDone \/ Dressed(setup, t, y)
  BY <1>1, BegunDressed DEF Good
<1>5. /\ t \in States /\ ElsOf(t) = ElsOf(s)
      /\ CbsOf(t) = CbsOf(s) \cup {c} /\ c \notin CbsOf(s) /\ c # 0
      /\ t.cbs[c] = r /\ \A d \in CbsOf(s) : t.cbs[d] = s.cbs[d]
      /\ \A f \in ElsOf(s) : f # e => t.els[f] = s.els[f]
      /\ t.els[e].dom = s.els[e].dom /\ t.els[e].display = s.els[e].display
      /\ t.els[e].enter = 0 /\ t.els[e].leave = c /\ t.leaving = s.leaving
      /\ Len(t.els) = Len(s.els) /\ t.els[e].key = s.els[e].key /\ t.dirty = s.dirty
  BY DEF Begun
<1> HIDE DEF c
<1>6. Onward(s, t)
  <2>1. \A f \in ElsOf(s) : t.els[f].key = s.els[f].key
    BY <1>5
  <2>2. Len(s.els) \in Nat
    BY <1>1, Members
  <2> QED
    BY <1>5, <2>1, <2>2 DEF Onward
<1>7. ASSUME setup.show
      PROVE  Displayed(t, "hidden")
  <2>1. Displayed(s, phase)
    BY <1>7 DEF Good
  <2>2. ASSUME NEW d \in CbsOf(t)
        PROVE  /\ t.cbs[d].old = 0 /\ ~ t.cbs[d].delayed /\ ~ t.cbs[d].resume
               /\ t.cbs[d].side = "leave" /\ ~ t.cbs[d].called => ~ t.cbs[d].cancelled
    <3>1. CASE d = c
      BY <1>5, <1>7, <3>1
    <3>2. CASE d # c
      <4>1. /\ d \in CbsOf(s) /\ t.cbs[d] = s.cbs[d] /\ d # 0
            /\ s.cbs[d].el \in ElsOf(s)
            /\ s.cbs[d].side = "leave" /\ ~ s.cbs[d].called => s.els[s.cbs[d].el].leave = d
        BY <1>1, <1>5, <3>2, Members DEF Linked, CbsOf
      <4>2. s.cbs[d].el = e
        BY <2>1, <4>1 DEF Displayed
      <4> QED
        BY <2>1, <4>1, <4>2 DEF Displayed
    <3> QED
      BY <3>1, <3>2
  <2>3. ElsOf(t) \subseteq {1} /\ e = 1 /\ t.els[1].dom /\ ~ t.leaving
    BY <1>5, <2>1 DEF Displayed
  <2> QED
    BY <1>5, <2>2, <2>3 DEF Displayed
<1>8. ASSUME ~ setup.show
      PROVE  Placed(t, A \ {e}, next)
  <2>1. Placed(s, A, phase)
    BY <1>8 DEF Good
  <2>2. \A d \in CbsOf(t) : t.cbs[d].side = "leave" => ~ t.cbs[d].cancelled
    BY <1>5, <2>1 DEF Placed
  <2>3. \A f \in A \ {e} : f \in ElsOf(t) /\ t.els[f].dom /\ t.els[f].leave = 0
    BY <1>5, <2>1 DEF Placed
  <2>4. \A f \in ElsOf(t) : t.els[f].dom => f \in A \ {e} \/ t.els[f].leave # 0
    BY <1>5, <2>1 DEF Placed
  <2>5. t.leaving /\ next # "resume" =>
           A \ {e} = {} /\ \E d \in CbsOf(t) : ~ t.cbs[d].called /\ t.cbs[d].resume
    <3>1. CASE r.resume
      BY <1>5, <1>8, <3>1
    <3>2. CASE ~ r.resume
      BY <1>5, <1>8, <2>1, <3>2 DEF Placed
    <3> QED
      BY <3>1, <3>2
  <2> QED
    BY <2>2, <2>3, <2>4, <2>5 DEF Placed
<1>9. Good(setup, t, y, A \ {e}, next)
  <2>1. CASE setup.show
    BY <1>3, <1>4, <1>5, <1>7, <2>1 DEF Good
  <2>2. CASE ~ setup.show
    BY <1>3, <1>4, <1>5, <1>8, <2>2 DEF Good
  <2> QED
    BY <2>1, <2>2
<1> QED
  BY <1>6, <1>9

LEMMA BegunEnter ==
    ASSUME NEW s, NEW y, NEW A, NEW phase, Good(setup, s, y, A, phase),
           NEW e \in ElsOf(s), s.els[e].enter = 0, s.els[e].leave = 0,
           NEW r \in Cb, r.el = e, r.side = "enter", ~ r.called, r.old < e,
           ~ r.resume, ~ r.delayed, setup.show => r.old = 0,
           NEW t, Begun(s, t, e, r)
    PROVE  /\ Good(setup, t, y, A, IF setup.show THEN "between" ELSE phase)
           /\ Onward(s, t)
<1> DEFINE c == Len(s.cbs) + 1
<1>1. s \in States /\ Linked(s)
  BY DEF Good
<1>3. Linked(t)
  BY <1>1, BegunLinked
<1>4. EarlyDone \/ Dressed(setup, t, y)
  BY <1>1, BegunDressed DEF Good
<1>5. /\ t \in States /\ ElsOf(t) = ElsOf(s)
      /\ CbsOf(t) = CbsOf(s) \cup {c} /\ c \notin CbsOf(s) /\ c # 0
      /\ t.cbs[c] = r /\ \A d \in CbsOf(s) : t.cbs[d] = s.cbs[d]
      /\ \A f \in ElsOf(s) : f # e => t.els[f] = s.els[f]
      /\ t.els[e].dom = s.els[e].dom
      /\ t.els[e].leave = 0 /\ t.leaving = s.leaving
      /\ Len(t.els) = Len(s.els) /\ t.els[e].key = s.els[e].key /\ t.dirty = s.dirty
  BY DEF Begun
<1> HIDE DEF c
<1>6. Onward(s, t)
  <2>1. \A f \in ElsOf(s) : t.els[f].key = s.els[f].key
    BY <1>5
  <2>2. Len(s.els) \in Nat
    BY <1>1, Members
  <2> QED
    BY <1>5, <2>1, <2>2 DEF Onward
<1>7. ASSUME setup.show
      PROVE  Displayed(t, "between")
  <2>1. Displayed(s, phase)
    BY <1>7 DEF Good
  <2>2. \A d \in CbsOf(t) : t.cbs[d].old = 0 /\ ~ t.cbs[d].delayed /\ ~ t.cbs[d].resume
    BY <1>5, <1>7, <2>1 DEF Displayed
  <2>3. \A f \in ElsOf(t) : t.els[f].dom
    BY <1>5, <2>1 DEF Displayed
  <2> QED
    BY <1>5, <2>1, <2>2, <2>3 DEF Displayed
<1>8. ASSUME ~ setup.show
      PROVE  Placed(t, A, phase)
  <2>1. Placed(s, A, phase)
    BY <1>8 DEF Good
  <2>2. \A d \in CbsOf(t) : t.cbs[d].side = "leave" => ~ t.cbs[d].cancelled
    BY <1>5, <2>1 DEF Placed
  <2>3. \A f \in A : f \in ElsOf(t) /\ t.els[f].dom /\ t.els[f].leave = 0
    BY <1>5, <2>1 DEF Placed
  <2>4. \A f \in ElsOf(t) : t.els[f].dom => f \in A \/ t.els[f].leave # 0
    BY <1>5, <2>1 DEF Placed
  <2>5. t.leaving /\ phase # "resume" =>
           A = {} /\ \E d \in CbsOf(t) : ~ t.cbs[d].called /\ t.cbs[d].resume
    BY <1>5, <2>1 DEF Placed
  <2> QED
    BY <2>2, <2>3, <2>4, <2>5 DEF Placed
<1>9. Good(setup, t, y, A, IF setup.show THEN "between" ELSE phase)
  <2>1. CASE setup.show
    BY <1>3, <1>4, <1>5, <1>7, <2>1 DEF Good
  <2>2. CASE ~ setup.show
    BY <1>3, <1>4, <1>5, <1>8, <2>2 DEF Good
  <2> QED
    BY <2>1, <2>2
<1> QED
  BY <1>6, <1>9

\* No callback is for two frames.
Once(s) == \A i, j \in 1 .. Len(s.frames) : s.frames[i] = s.frames[j] => i = j

LEMMA FrameAppended ==
    ASSUME NEW s \in States, NEW c \in Nat
    PROVE  LET t == [s EXCEPT !.frames = Append(@, c)]
           IN  /\ t \in States /\ t.els = s.els /\ t.cbs = s.cbs
               /\ ElsOf(t) = ElsOf(s) /\ CbsOf(t) = CbsOf(s)
               /\ Framed(t) = Framed(s) \cup {c}
               /\ Once(s) /\ c \notin Framed(s) => Once(t)
               /\ t.waits = s.waits /\ t.pending = s.pending
               /\ t.leaving = s.leaving /\ t.dirty = s.dirty
<1> DEFINE q == Append(s.frames, c)
           t == [s EXCEPT !.frames = q]
<1>1. s.frames \in Seq(Nat)
  BY DEF States
<1>2. /\ q \in Seq(Nat) /\ Len(q) = Len(s.frames) + 1 /\ q[Len(s.frames) + 1] = c
      /\ \A i \in 1 .. Len(s.frames) : q[i] = s.frames[i]
      /\ Len(s.frames) \in Nat
  BY <1>1, AppendProperties
<1> HIDE DEF q
<1>3. /\ t.els = s.els /\ t.cbs = s.cbs /\ t.frames = q /\ t.waits = s.waits
      /\ t.leaving = s.leaving /\ t.dirty = s.dirty /\ t.pending = s.pending
      /\ t \in States
  BY <1>2 DEF States
<1> HIDE DEF t
<1>4. Framed(t) = Framed(s) \cup {c}
  <2>1. ASSUME NEW d \in Framed(t) PROVE d \in Framed(s) \cup {c}
    <3>1. PICK i \in 1 .. Len(s.frames) + 1 : d = q[i]
      BY <1>2, <1>3, <2>1 DEF Framed
    <3>2. CASE i = Len(s.frames) + 1
      BY <1>2, <3>1, <3>2
    <3>3. CASE i \in 1 .. Len(s.frames)
      BY <1>2, <3>1, <3>3 DEF Framed
    <3> QED
      BY <1>2, <3>2, <3>3
  <2>2. c \in Framed(t)
    BY <1>2, <1>3 DEF Framed
  <2>3. ASSUME NEW d \in Framed(s) PROVE d \in Framed(t)
    <3>1. PICK i \in 1 .. Len(s.frames) : d = s.frames[i]
      BY DEF Framed
    <3>2. i \in 1 .. Len(t.frames) /\ t.frames[i] = d
      BY <1>2, <1>3, <3>1
    <3> QED
      BY <3>2 DEF Framed
  <2> QED
    BY <2>1, <2>2, <2>3
<1>5. ASSUME Once(s), c \notin Framed(s)
      PROVE  Once(t)
  <2> SUFFICES ASSUME NEW i \in 1 .. Len(q), NEW j \in 1 .. Len(q), q[i] = q[j]
               PROVE  i = j
    BY <1>3 DEF Once
  <2>1. \A k \in 1 .. Len(s.frames) : q[k] # c
    BY <1>2, <1>5 DEF Framed
  <2>2. CASE i \in 1 .. Len(s.frames) /\ j \in 1 .. Len(s.frames)
    BY <1>2, <1>5, <2>2 DEF Once
  <2>3. CASE i = Len(s.frames) + 1 \/ j = Len(s.frames) + 1
    BY <1>2, <2>1, <2>3
  <2> QED
    BY <1>2, <2>2, <2>3
<1> QED
  BY <1>3, <1>4, <1>5 DEF t, q, ElsOf, CbsOf

LEMMA Starts ==
    ASSUME NEW s, NEW y, NEW A, NEW phase, Good(setup, s, y, A, phase),
           NEW c \in CbsOf(s), ~ s.cbs[c].called, ~ s.cbs[c].delayed,
           EarlyDone \/ c \notin Framed(s),
           NEW e, e = s.cbs[c].el, NEW cs,
           cs = IF s.cbs[c].side = "enter" THEN {"enter", "enter-active"}
                                           ELSE {"leave", "leave-active"}
    PROVE  LET t == TakesOver(Start(s, c, cs), c)
           IN  /\ Good(setup, t, y, A, phase) /\ Alike(s, t) /\ Onward(s, t) /\ Only(s, t, e)
               /\ t.cbs = s.cbs /\ t.els[e].display = s.els[e].display
               /\ ~ setup.css => Framed(t) = Framed(s)
<1> DEFINE v == AddClasses(s, e, cs)
           w == IF setup.css THEN [v EXCEPT !.frames = Append(@, c)] ELSE v
           t == TakesOver(w, c)
<1>1. /\ s \in States /\ Linked(s) /\ e \in ElsOf(s) /\ c \in Nat \ {0}
      /\ cs \in SUBSET Classes /\ s.cbs[c].side \in {"enter", "leave"}
  BY Members DEF Good, Linked, CbsOf, Classes, Cb
<1>2. Start(s, c, cs) = w
  BY DEF Start
<1> HIDE DEF w
<1>3. /\ v \in States /\ Len(v.els) = Len(s.els) /\ ElsOf(v) = ElsOf(s) /\ CbsOf(v) = CbsOf(s)
      /\ \A f \in ElsOf(s) : f # e => v.els[f] = s.els[f]
      /\ v.els[e].key = s.els[e].key /\ v.els[e].dom = s.els[e].dom
      /\ v.els[e].display = s.els[e].display
      /\ v.els[e].enter = s.els[e].enter /\ v.els[e].leave = s.els[e].leave
      /\ v.els[e].classes = IF setup.css THEN s.els[e].classes \cup cs ELSE s.els[e].classes
      /\ v.cbs = s.cbs /\ v.frames = s.frames /\ Framed(v) = Framed(s) /\ v.waits = s.waits
      /\ v.leaving = s.leaving /\ v.dirty = s.dirty /\ v.pending = s.pending
  <2>1. ElemHas(s, v, e, IF setup.css THEN s.els[e].classes \cup cs ELSE s.els[e].classes,
                s.els[e].dom, s.els[e].display, s.els[e].enter, s.els[e].leave)
    BY <1>1, ClassesAdded
  <2> HIDE DEF v
  <2> QED
    BY <2>1 DEF ElemHas, ElemIs
<1> HIDE DEF v
<1>4. /\ w \in States /\ w.els = v.els /\ w.cbs = v.cbs
      /\ ElsOf(w) = ElsOf(v) /\ CbsOf(w) = CbsOf(v)
      /\ Framed(w) = IF setup.css THEN Framed(v) \cup {c} ELSE Framed(v)
      /\ Once(v) /\ c \notin Framed(v) => Once(w)
      /\ w.waits = v.waits /\ w.pending = v.pending
      /\ w.leaving = v.leaving /\ w.dirty = v.dirty
  <2>1. CASE setup.css
    <3>1. w = [v EXCEPT !.frames = Append(@, c)]
      BY <2>1 DEF w
    <3>2. v \in States /\ c \in Nat
      BY <1>1, <1>3
    <3> QED
      BY ONLY <2>1, <3>1, <3>2, FrameAppended
  <2>2. CASE ~ setup.css
    BY <1>3, <2>2 DEF w
  <2> QED
    BY <2>1, <2>2
<1>5. /\ t \in States /\ t.els = w.els /\ t.cbs = w.cbs
      /\ ElsOf(t) = ElsOf(w) /\ CbsOf(t) = CbsOf(w)
      /\ t.frames = w.frames /\ Framed(t) = Framed(w)
      /\ t.leaving = w.leaving /\ t.dirty = w.dirty /\ t.pending = w.pending
      /\ t.waits \subseteq w.waits \cup {c}
  <2>1. CASE setup.control
    <3>1. t = [w EXCEPT !.waits = @ \cup {c}]
      BY <2>1 DEF TakesOver
    <3>2. LET u == [w EXCEPT !.waits = @ \cup {c}]
          IN Beside(w, u) /\ u.waits = w.waits \cup {c} /\ u.pending = w.pending
      BY <1>1, <1>4, WaitsSet
    <3> HIDE DEF t
    <3> QED
      BY <3>1, <3>2 DEF Beside
  <2>2. CASE ~ setup.control
    BY <1>4, <2>2 DEF TakesOver
  <2> QED
    BY <2>1, <2>2
<1> HIDE DEF t
<1>6. /\ t \in States /\ Len(t.els) = Len(s.els) /\ ElsOf(t) = ElsOf(s) /\ CbsOf(t) = CbsOf(s)
      /\ \A f \in ElsOf(s) : f # e => t.els[f] = s.els[f]
      /\ t.els[e].key = s.els[e].key /\ t.els[e].dom = s.els[e].dom
      /\ t.els[e].display = s.els[e].display
      /\ t.els[e].enter = s.els[e].enter /\ t.els[e].leave = s.els[e].leave
      /\ t.els[e].classes = IF setup.css THEN s.els[e].classes \cup cs ELSE s.els[e].classes
      /\ t.cbs = s.cbs /\ t.leaving = s.leaving /\ t.dirty = s.dirty /\ t.pending = s.pending
      /\ Framed(t) = IF setup.css THEN Framed(s) \cup {c} ELSE Framed(s)
      /\ t.waits \subseteq s.waits \cup {c}
  BY <1>3, <1>4, <1>5
<1>7. Alike(s, t)
  BY <1>6 DEF Alike
<1>8. Linked(t)
  <2>1. /\ Framed(t) \subseteq CbsOf(s)
        /\ \A k \in Keys : t.pending[k] \in 0 .. Len(s.els)
        /\ \A d \in t.waits : d \in CbsOf(s) /\ ~ s.cbs[d].called
    <3>1. /\ Framed(s) \subseteq CbsOf(s)
          /\ \A k \in Keys : s.pending[k] \in 0 .. Len(s.els)
          /\ \A d \in s.waits : d \in CbsOf(s) /\ ~ s.cbs[d].called
      BY <1>1 DEF Linked
    <3>2. Framed(t) \subseteq CbsOf(s)
      BY <1>6, <3>1
    <3> QED
      BY <1>6, <3>1, <3>2
  <2> QED
    BY <1>1, <1>7, <2>1, LinkedKept
<1>9. ASSUME ~ EarlyDone
      PROVE  Dressed(setup, t, y)
  <2>1. Dressed(setup, s, y) /\ c \notin Framed(s)
    BY <1>9 DEF Good
  <2>2. Once(t)
    <3>1. Once(v)
      BY <1>3, <2>1 DEF Once, Dressed
    <3>2. Once(w)
      BY <1>3, <1>4, <2>1, <3>1
    <3> QED
      BY <1>5, <3>2 DEF Once
  <2>3. ASSUME NEW f \in ElsOf(t), t.els[f].dom \/ f = y
        PROVE  Wears(t, f)
    <3>1. CASE f # e
      <4>1. f \in ElsOf(s) /\ t.els[f] = s.els[f]
        BY <1>6, <2>3, <3>1
      <4>2. Wears(s, f)
        BY <2>1, <2>3, <4>1 DEF Dressed
      <4>3. Framed(s) \subseteq Framed(t)
        BY <1>6
      <4> QED
        BY <4>1, <4>2, <4>3 DEF Wears
    <3>2. CASE f = e
      <4>1. Wears(s, e)
        BY <1>6, <2>1, <2>3, <3>2 DEF Dressed
      <4>2. CASE ~ setup.css
        BY <1>6, <3>2, <4>1, <4>2 DEF Wears
      <4>3. CASE setup.css /\ s.cbs[c].side = "enter"
        <5>1. s.els[e].enter = c
          BY <1>1, <4>3 DEF Linked
        <5>2. s.els[e].classes \subseteq EnterClasses
          BY <1>1, <4>1, <5>1 DEF Wears
        <5>3. t.els[e].classes \subseteq EnterClasses /\ c \in Framed(t)
          BY <1>6, <4>3, <5>2 DEF EnterClasses
        <5> QED
          BY <1>1, <1>6, <3>2, <5>1, <5>3 DEF Wears, EnterClasses
      <4>4. CASE setup.css /\ s.cbs[c].side = "leave"
        <5>1. s.els[e].leave = c /\ s.els[e].enter = 0
          BY <1>1, <4>4 DEF Linked
        <5>2. s.els[e].classes \subseteq LeaveClasses
          BY <1>1, <4>1, <5>1 DEF Wears
        <5>3. t.els[e].classes \subseteq LeaveClasses /\ c \in Framed(t)
          BY <1>6, <4>4, <5>2 DEF LeaveClasses
        <5>4. "enter" \notin t.els[e].classes
          BY <5>3 DEF LeaveClasses
        <5>5. t.els[e].enter = 0 /\ t.els[e].leave = c /\ c # 0
          BY <1>1, <1>6, <5>1
        <5> QED
          BY <3>2, <5>3, <5>4, <5>5 DEF Wears
      <4> QED
        BY <1>1, <4>2, <4>3, <4>4
    <3> QED
      BY <3>1, <3>2
  <2>4. ASSUME NEW d \in CbsOf(t), d \in Framed(t)
        PROVE  /\ ~ t.cbs[d].delayed
               /\ t.cbs[d].called /\ ~ t.cbs[d].cancelled =>
                     ~ t.els[t.cbs[d].el].dom /\ t.cbs[d].el # y
    <3>1. CASE d = c
      BY <1>6, <3>1
    <3>2. CASE d # c
      <4>1. d \in Framed(s) /\ d \in CbsOf(s) /\ t.cbs[d] = s.cbs[d]
            /\ s.cbs[d].el \in ElsOf(s)
        <5>1. d \in Framed(s) /\ d \in CbsOf(s) /\ t.cbs[d] = s.cbs[d]
          BY <1>6, <2>4, <3>2
        <5> QED
          BY <1>1, <5>1 DEF Linked
      <4>2. t.els[s.cbs[d].el].dom = s.els[s.cbs[d].el].dom
        BY <1>6, <4>1
      <4> QED
        BY <2>1, <4>1, <4>2 DEF Dressed
    <3> QED
      BY <3>1, <3>2
  <2>5. ~ setup.css => Framed(t) = {} /\ \A f \in ElsOf(t) : t.els[f].classes = {}
    BY <1>6, <2>1 DEF Dressed
  <2> QED
    BY <2>2, <2>3, <2>4, <2>5 DEF Dressed, Once
<1>10. \A f \in ElsOf(s) : t.els[f].dom = s.els[f].dom /\ t.els[f].display = s.els[f].display
  BY <1>6
<1>11. Good(setup, t, y, A, phase)
  <2>1. CASE setup.show
    <3>1. Displayed(s, phase)
      BY <2>1 DEF Good
    <3>2. Displayed(t, phase)
      BY <1>6, <1>7, <1>10, <3>1, DisplayedKept
    <3> QED
      BY <1>6, <1>8, <1>9, <2>1, <3>2 DEF Good
  <2>2. CASE ~ setup.show
    <3>1. Placed(s, A, phase)
      BY <2>2 DEF Good
    <3>2. Placed(t, A, phase)
      BY <1>6, <1>7, <1>10, <3>1, PlacedKept
    <3> QED
      BY <1>6, <1>8, <1>9, <2>2, <3>2 DEF Good
  <2> QED
    BY <2>1, <2>2
<1>12. Onward(s, t) /\ Only(s, t, e)
  BY <1>1, <1>6, Members DEF Onward, Only
<1>13. t = TakesOver(Start(s, c, cs), c)
  BY <1>2 DEF t
<1> QED
  BY <1>6, <1>7, <1>11, <1>12, <1>13

LEMMA Further ==
    ASSUME NEW s \in States, NEW t \in States, NEW u \in States
    PROVE  /\ Onward(s, s)
           /\ Onward(s, t) /\ Onward(t, u) => Onward(s, u)
           /\ \A e : Only(s, t, e) /\ Only(t, u, e) => Only(s, u, e)
<1>1. Len(s.els) \in Nat /\ Len(t.els) \in Nat /\ Len(u.els) \in Nat
  BY Members
<1>2. Onward(s, s)
  BY <1>1 DEF Onward
<1>3. ASSUME Onward(s, t), Onward(t, u)
      PROVE  Onward(s, u)
  <2>1. Len(s.els) <= Len(u.els) /\ ElsOf(s) \subseteq ElsOf(t)
    BY <1>1, <1>3 DEF Onward, ElsOf
  <2>2. \A e \in ElsOf(s) : u.els[e].key = s.els[e].key
    BY <1>3, <2>1 DEF Onward
  <2> QED
    BY <1>3, <2>1, <2>2 DEF Onward
<1>4. ASSUME NEW e, Only(s, t, e), Only(t, u, e)
      PROVE  Only(s, u, e)
  BY <1>4 DEF Only, ElsOf
<1> QED
  BY <1>2, <1>3, <1>4

\* What is pending is only of use to the insert hook.
LEMMA Recorded ==
    ASSUME NEW s, NEW y, NEW A, NEW phase, Good(setup, s, y, A, phase),
           NEW k \in Keys, NEW e \in 0 .. Len(s.els)
    PROVE  LET t == [s EXCEPT !.pending[k] = e]
           IN  /\ Good(setup, t, y, A, phase) /\ Onward(s, t)
               /\ t.els = s.els /\ t.cbs = s.cbs /\ CbsOf(t) = CbsOf(s) /\ Framed(t) = Framed(s)
<1> DEFINE t == [s EXCEPT !.pending[k] = e]
<1>1. s \in States /\ Linked(s) /\ e \in Nat
  BY Members DEF Good
<1>2. Beside(s, t) /\ t.waits = s.waits /\ t.pending = [s.pending EXCEPT ![k] = e]
  BY <1>1, PendingSet
<1> HIDE DEF t
<1>3. /\ t \in States /\ t.els = s.els /\ ElsOf(t) = ElsOf(s)
      /\ t.cbs = s.cbs /\ CbsOf(t) = CbsOf(s)
      /\ t.frames = s.frames /\ Framed(t) = Framed(s)
      /\ t.leaving = s.leaving /\ t.dirty = s.dirty
  BY <1>2 DEF Beside
<1>4. Alike(s, t)
  BY <1>3 DEF Alike
<1>5. s.pending \in [Keys -> Nat]
  BY <1>1 DEF States
<1>6. Linked(t)
  <2>1. \A j \in Keys : t.pending[j] \in 0 .. Len(s.els)
    BY <1>1, <1>2, <1>5 DEF Linked
  <2>2. /\ Framed(t) \subseteq CbsOf(s)
        /\ \A d \in t.waits : d \in CbsOf(s) /\ ~ s.cbs[d].called
    BY <1>1, <1>2, <1>3 DEF Linked
  <2> QED
    BY <1>1, <1>4, <2>1, <2>2, LinkedKept
<1>7. Dressed(setup, s, y) => Dressed(setup, t, y)
  BY <1>3 DEF Dressed, Wears
<1>8. Onward(s, t)
  BY <1>1, <1>3, Members DEF Onward
<1>9. Good(setup, t, y, A, phase)
  <2>1. CASE setup.show
    <3>1. Displayed(s, phase) => Displayed(t, phase)
      BY <1>3 DEF Displayed
    <3> QED
      BY <1>3, <1>6, <1>7, <2>1, <3>1 DEF Good
  <2>2. CASE ~ setup.show
    <3>1. Placed(s, A, phase) => Placed(t, A, phase)
      BY <1>3 DEF Placed
    <3> QED
      BY <1>3, <1>6, <1>7, <2>2, <3>1 DEF Good
  <2> QED
    BY <2>1, <2>2
<1> QED
  BY <1>3, <1>8, <1>9 DEF t

LEMMA Performs ==
    ASSUME NEW s, NEW y, NEW A, NEW phase, Good(setup, s, y, A, phase),
           NEW c \in CbsOf(s), s.cbs[c].side = "leave", ~ s.cbs[c].called, ~ s.cbs[c].delayed,
           EarlyDone \/ c \notin Framed(s), NEW e, e = s.cbs[c].el
    PROVE  LET t == PerformLeave(s, c)
           IN  Good(setup, t, y, A, phase) /\ Onward(s, t) /\ Only(s, t, e)
<1> DEFINE r == IF ~ setup.show /\ s.els[e].dom
                THEN [s EXCEPT !.pending[s.els[e].key] = e] ELSE s
           u == TakesOver(Start(r, c, {"leave", "leave-active"}), c)
<1>1. s \in States /\ Linked(s) /\ e \in ElsOf(s) /\ s.els[e].key \in Keys /\ e \in 0 .. Len(s.els)
  BY Members DEF Good, Linked, Elem, ElsOf
<1>2. PerformLeave(s, c) = IF s.cbs[c].cancelled THEN s
                           ELSE IF ~ setup.css /\ ~ setup.control THEN LeaveCb(u, c) ELSE u
  BY DEF PerformLeave
<1>3. /\ Good(setup, r, y, A, phase) /\ Onward(s, r)
      /\ r.els = s.els /\ r.cbs = s.cbs /\ CbsOf(r) = CbsOf(s) /\ Framed(r) = Framed(s)
  <2>1. CASE ~ setup.show /\ s.els[e].dom
    <3> DEFINE k == s.els[e].key
    <3>1. r = [s EXCEPT !.pending[k] = e] /\ k \in Keys
      BY <1>1, <2>1
    <3>2. e \in 0 .. Len(s.els)
      BY <1>1
    <3> HIDE DEF r, k
    <3> QED
      BY ONLY Good(setup, s, y, A, phase), <3>1, <3>2, Recorded
  <2>2. CASE ~ (~ setup.show /\ s.els[e].dom)
    BY <1>1, <2>2, Further
  <2> QED
    BY <2>1, <2>2
<1> HIDE DEF r
<1>4. /\ Good(setup, u, y, A, phase) /\ Alike(r, u) /\ Onward(r, u) /\ Only(r, u, e)
      /\ u.cbs = r.cbs
      /\ ~ setup.css => Framed(u) = Framed(r)
  BY <1>3, Starts
<1> HIDE DEF u
<1>5. r \in States /\ u \in States
  BY <1>3, <1>4 DEF Good
<1>6. Onward(s, u) /\ Only(s, u, e)
  BY <1>1, <1>3, <1>4, <1>5, Further DEF Only, ElsOf
<1>7. ASSUME ~ s.cbs[c].cancelled, ~ setup.css
      PROVE  /\ Good(setup, LeaveCb(u, c), y, A, phase)
             /\ Onward(s, LeaveCb(u, c)) /\ Only(s, LeaveCb(u, c), e)
  <2>1. c \in CbsOf(u) /\ u.cbs[c] = s.cbs[c] /\ (EarlyDone \/ c \notin Framed(u))
    BY <1>3, <1>4, <1>7 DEF Alike
  <2>2. /\ Good(setup, LeaveCb(u, c), y, A,
                IF setup.show /\ u.cbs[c].cancelled THEN "between" ELSE phase)
        /\ Onward(u, LeaveCb(u, c)) /\ Only(u, LeaveCb(u, c), e)
    BY <1>4, <2>1, EndLeave
  <2>3. Good(setup, LeaveCb(u, c), y, A, phase)
    BY <1>7, <2>1, <2>2
  <2>4. LeaveCb(u, c) \in States
    BY <2>3 DEF Good
  <2> QED
    BY <1>1, <1>5, <1>6, <2>2, <2>3, <2>4, Further
<1>8. Onward(s, s) /\ Only(s, s, e)
  BY <1>1, Further DEF Only
<1> QED
  BY <1>2, <1>4, <1>6, <1>7, <1>8

LEMMA Delays ==
    ASSUME NEW s, NEW y, NEW A, NEW phase, Good(setup, s, y, A, phase),
           NEW old \in 0 .. Len(s.els)
    PROVE  LET t == PerformDelayed(s, old)
           IN  Good(setup, t, y, A, phase) /\ Onward(s, t) /\ Only(s, t, old)
<1> DEFINE c == IF old = 0 THEN 0 ELSE s.els[old].leave
           u == [s EXCEPT !.cbs[c].delayed = FALSE]
<1>1. s \in States /\ Linked(s)
  BY DEF Good
<1>2. PerformDelayed(s, old) = IF c # 0 /\ s.cbs[c].delayed THEN PerformLeave(u, c) ELSE s
  BY DEF PerformDelayed
<1>3. Onward(s, s) /\ Only(s, s, old)
  BY <1>1, Further DEF Only
<1>4. ASSUME c # 0, s.cbs[c].delayed
      PROVE  LET t == PerformLeave(u, c)
             IN  Good(setup, t, y, A, phase) /\ Onward(s, t) /\ Only(s, t, old)
  <2>1. old \in ElsOf(s) /\ s.els[old].leave = c
    BY <1>1, <1>4, Members DEF ElsOf
  <2>2. /\ c \in CbsOf(s) /\ s.cbs[c].el = old /\ s.cbs[c].side = "leave"
        /\ ~ s.cbs[c].called
    BY <1>1, <1>4, <2>1 DEF Linked, IsOpen
  <2>3. EarlyDone \/ c \notin Framed(s)
    BY <1>4, <2>2 DEF Good, Dressed
  <2> HIDE DEF c
  <2>4. /\ Good(setup, u, y, A, phase) /\ Alike(s, u) /\ Onward(s, u)
        /\ u.els = s.els /\ Framed(u) = Framed(s) /\ ~ u.cbs[c].delayed
    BY <2>2, Flagged
  <2> HIDE DEF u
  <2>5. /\ c \in CbsOf(u) /\ u.cbs[c].el = old /\ u.cbs[c].side = "leave"
        /\ ~ u.cbs[c].called /\ (EarlyDone \/ c \notin Framed(u))
    BY <2>2, <2>3, <2>4 DEF Alike
  <2>6. LET t == PerformLeave(u, c)
        IN  Good(setup, t, y, A, phase) /\ Onward(u, t) /\ Only(u, t, old)
    BY <2>4, <2>5, Performs
  <2>7. u \in States /\ PerformLeave(u, c) \in States
    BY <2>4, <2>6 DEF Good
  <2>8. Only(s, u, old)
    BY <2>4 DEF Only
  <2> QED
    BY <1>1, <2>4, <2>6, <2>7, <2>8, Further
<1> QED
  <2>1. CASE c # 0 /\ s.cbs[c].delayed
    <3> HIDE DEF c, u
    <3> QED
      BY <1>2, <1>4, <2>1
  <2>2. CASE ~ (c # 0 /\ s.cbs[c].delayed)
    <3> HIDE DEF c, u
    <3> QED
      BY <1>2, <1>3, <2>2
  <2> QED
    BY <2>1, <2>2

-----------------------------------------------------------------------------
(* The end of an enter *)

\* What the end of the enter of e, whose callback is c, leaves of s.
EnterEnds(s, t, c, e) ==
    /\ t \in States
    /\ Len(t.els) = Len(s.els) /\ ElsOf(t) = ElsOf(s) /\ CbsOf(t) = CbsOf(s)
    /\ \A f \in ElsOf(s) : f # e => t.els[f] = s.els[f]
    /\ t.els[e].key = s.els[e].key /\ t.els[e].dom = s.els[e].dom
    /\ t.els[e].display = s.els[e].display
    /\ t.els[e].enter = 0 /\ t.els[e].leave = s.els[e].leave
    /\ t.els[e].classes =
          IF ~ setup.css THEN s.els[e].classes
          ELSE IF s.cbs[c].cancelled THEN s.els[e].classes \ EnterClasses
          ELSE s.els[e].classes \ {"enter-to", "enter-active"}
    /\ \A d \in CbsOf(s) : d # c => t.cbs[d] = s.cbs[d]
    /\ t.cbs[c].el = e /\ t.cbs[c].side = s.cbs[c].side /\ t.cbs[c].called
    /\ t.cbs[c].cancelled = s.cbs[c].cancelled /\ t.cbs[c].old = s.cbs[c].old
    /\ t.cbs[c].resume = s.cbs[c].resume /\ t.cbs[c].delayed = s.cbs[c].delayed
    /\ t.frames = s.frames /\ Framed(t) = Framed(s) /\ t.waits = s.waits \ {c}
    /\ t.leaving = s.leaving /\ t.dirty = s.dirty /\ t.pending = s.pending

LEMMA EnterEndsFacts ==
    ASSUME NEW s \in States, NEW c \in CbsOf(s), NEW e \in ElsOf(s), e = s.cbs[c].el,
           NEW classes,
           classes = {"enter-to", "enter-active"}
                       \cup (IF s.cbs[c].cancelled THEN {"enter"} ELSE {})
    PROVE  EnterEnds(s, RemoveClasses(Done([s EXCEPT !.els[e].enter = 0], c), e, classes), c, e)
<1> DEFINE b == s.cbs[c]
           s1 == [s EXCEPT !.els[e].enter = 0]
           s2 == Done(s1, c)
           s3 == RemoveClasses(s2, e, classes)
<1>1. ElemHas(s, s1, e, s.els[e].classes, s.els[e].dom, s.els[e].display, 0, s.els[e].leave)
  BY FieldSet
<1> HIDE DEF s1
<1>2. /\ s1 \in States /\ c \in CbsOf(s1) /\ s1.cbs = s.cbs
      /\ Len(s1.els) = Len(s.els) /\ ElsOf(s1) = ElsOf(s) /\ CbsOf(s1) = CbsOf(s)
      /\ \A f \in ElsOf(s) : f # e => s1.els[f] = s.els[f]
      /\ s1.els[e].key = s.els[e].key /\ s1.els[e].dom = s.els[e].dom
      /\ s1.els[e].display = s.els[e].display /\ s1.els[e].classes = s.els[e].classes
      /\ s1.els[e].enter = 0 /\ s1.els[e].leave = s.els[e].leave
      /\ s1.frames = s.frames /\ Framed(s1) = Framed(s) /\ s1.waits = s.waits
      /\ s1.leaving = s.leaving /\ s1.dirty = s.dirty /\ s1.pending = s.pending
  BY <1>1 DEF ElemHas, ElemIs
<1>3. /\ s2 \in States
      /\ s2.els = s1.els /\ ElsOf(s2) = ElsOf(s1) /\ CbsOf(s2) = CbsOf(s1)
      /\ s2.cbs[c] = [el |-> s1.cbs[c].el, side |-> s1.cbs[c].side,
                      cancelled |-> s1.cbs[c].cancelled, called |-> TRUE,
                      old |-> s1.cbs[c].old, resume |-> s1.cbs[c].resume,
                      delayed |-> s1.cbs[c].delayed]
      /\ \A d \in CbsOf(s1) : d # c => s2.cbs[d] = s1.cbs[d]
      /\ s2.frames = s1.frames /\ Framed(s2) = Framed(s1) /\ s2.waits = s1.waits \ {c}
      /\ s2.leaving = s1.leaving /\ s2.dirty = s1.dirty /\ s2.pending = s1.pending
  BY <1>2, DoneFacts
<1> HIDE DEF s2
<1>4. classes \in SUBSET Classes
  BY DEF Classes
<1>5. ElemHas(s2, s3, e, IF setup.css THEN s2.els[e].classes \ classes ELSE s2.els[e].classes,
              s2.els[e].dom, s2.els[e].display, s2.els[e].enter, s2.els[e].leave)
  BY <1>2, <1>3, <1>4, ClassesRemoved
<1> HIDE DEF s3
<1>6. /\ s3 \in States
      /\ Len(s3.els) = Len(s.els) /\ ElsOf(s3) = ElsOf(s) /\ CbsOf(s3) = CbsOf(s)
      /\ \A f \in ElsOf(s) : f # e => s3.els[f] = s.els[f]
      /\ s3.els[e].key = s.els[e].key /\ s3.els[e].dom = s.els[e].dom
      /\ s3.els[e].display = s.els[e].display
      /\ s3.els[e].enter = 0 /\ s3.els[e].leave = s.els[e].leave
      /\ s3.els[e].classes = IF setup.css THEN s.els[e].classes \ classes ELSE s.els[e].classes
      /\ s3.cbs = s2.cbs
      /\ s3.frames = s.frames /\ Framed(s3) = Framed(s) /\ s3.waits = s.waits \ {c}
      /\ s3.leaving = s.leaving /\ s3.dirty = s.dirty /\ s3.pending = s.pending
  <2>1. /\ s3 \in States
        /\ Len(s3.els) = Len(s2.els) /\ ElsOf(s3) = ElsOf(s2) /\ CbsOf(s3) = CbsOf(s2)
        /\ \A f \in ElsOf(s2) : f # e => s3.els[f] = s2.els[f]
        /\ s3.els[e].key = s2.els[e].key /\ s3.els[e].dom = s2.els[e].dom
        /\ s3.els[e].display = s2.els[e].display
        /\ s3.els[e].enter = s2.els[e].enter /\ s3.els[e].leave = s2.els[e].leave
        /\ s3.els[e].classes = IF setup.css THEN s2.els[e].classes \ classes
                               ELSE s2.els[e].classes
    BY <1>5 DEF ElemHas, ElemIs
  <2>2. /\ s3.cbs = s2.cbs
        /\ s3.frames = s2.frames /\ Framed(s3) = Framed(s2) /\ s3.waits = s2.waits
        /\ s3.leaving = s2.leaving /\ s3.dirty = s2.dirty /\ s3.pending = s2.pending
    BY <1>5 DEF ElemHas, ElemIs
  <2>3. /\ s2.els = s1.els /\ ElsOf(s2) = ElsOf(s) /\ CbsOf(s2) = CbsOf(s)
        /\ s2.frames = s.frames /\ Framed(s2) = Framed(s) /\ s2.waits = s.waits \ {c}
        /\ s2.leaving = s.leaving /\ s2.dirty = s.dirty /\ s2.pending = s.pending
    BY <1>2, <1>3
  <2>4. /\ Len(s3.els) = Len(s.els)
        /\ s3.els[e].key = s.els[e].key /\ s3.els[e].dom = s.els[e].dom
        /\ s3.els[e].display = s.els[e].display
        /\ s3.els[e].enter = 0 /\ s3.els[e].leave = s.els[e].leave
    BY <1>2, <2>1, <2>3
  <2>5. \A f \in ElsOf(s) : f # e => s3.els[f] = s.els[f]
    <3>1. ASSUME NEW f \in ElsOf(s), f # e
          PROVE  s3.els[f] = s.els[f]
      <4>1. s3.els[f] = s2.els[f]
        BY <2>1, <2>3, <3>1
      <4>2. s2.els = s1.els /\ s1.els[f] = s.els[f]
        BY <1>2, <2>3, <3>1
      <4> QED
        BY <4>1, <4>2
    <3> QED
      BY <3>1
  <2>6. s3.els[e].classes = IF setup.css THEN s.els[e].classes \ classes ELSE s.els[e].classes
    <3>1. s2.els[e].classes = s.els[e].classes
      BY <1>2, <2>3
    <3> QED
      BY <2>1, <3>1
  <2> QED
    BY <2>1, <2>2, <2>3, <2>4, <2>5, <2>6
<1>7. /\ \A d \in CbsOf(s) : d # c => s3.cbs[d] = s.cbs[d]
      /\ s3.cbs[c].el = e /\ s3.cbs[c].side = s.cbs[c].side /\ s3.cbs[c].called
      /\ s3.cbs[c].cancelled = s.cbs[c].cancelled /\ s3.cbs[c].old = s.cbs[c].old
      /\ s3.cbs[c].resume = s.cbs[c].resume /\ s3.cbs[c].delayed = s.cbs[c].delayed
  <2>1. s3.cbs = s2.cbs /\ s1.cbs = s.cbs /\ CbsOf(s1) = CbsOf(s)
    BY <1>2, <1>6
  <2>2. \A d \in CbsOf(s) : d # c => s3.cbs[d] = s.cbs[d]
    BY <1>3, <2>1
  <2>3. s3.cbs[c] = [el |-> s.cbs[c].el, side |-> s.cbs[c].side,
                     cancelled |-> s.cbs[c].cancelled, called |-> TRUE,
                     old |-> s.cbs[c].old, resume |-> s.cbs[c].resume,
                     delayed |-> s.cbs[c].delayed]
    BY <1>3, <2>1
  <2>4. /\ s3.cbs[c].el = e /\ s3.cbs[c].side = s.cbs[c].side /\ s3.cbs[c].called
        /\ s3.cbs[c].cancelled = s.cbs[c].cancelled /\ s3.cbs[c].old = s.cbs[c].old
        /\ s3.cbs[c].resume = s.cbs[c].resume /\ s3.cbs[c].delayed = s.cbs[c].delayed
    BY ONLY <2>3, e = s.cbs[c].el
  <2> QED
    BY <2>2, <2>4
<1>8. s3.els[e].classes =
          IF ~ setup.css THEN s.els[e].classes
          ELSE IF s.cbs[c].cancelled THEN s.els[e].classes \ EnterClasses
          ELSE s.els[e].classes \ {"enter-to", "enter-active"}
  <2>1. CASE s.cbs[c].cancelled
    <3>1. classes = EnterClasses
      BY <2>1 DEF EnterClasses
    <3> QED
      BY <1>6, <2>1, <3>1
  <2>2. CASE ~ s.cbs[c].cancelled
    <3>1. classes = {"enter-to", "enter-active"}
      BY <2>2
    <3> QED
      BY <1>6, <2>2, <3>1
  <2> QED
    BY <2>1, <2>2
<1>9. EnterEnds(s, s3, c, e)
  BY <1>6, <1>7, <1>8 DEF EnterEnds
<1> QED
  BY <1>9 DEF s1, s2, s3

LEMMA EnterOver ==
    ASSUME NEW s, NEW y, NEW A, NEW phase, Good(setup, s, y, A, phase),
           NEW c \in CbsOf(s), s.cbs[c].side = "enter", ~ s.cbs[c].called,
           EarlyDone \/ s.cbs[c].cancelled \/ c \notin Framed(s),
           NEW e, e = s.cbs[c].el, NEW t, EnterEnds(s, t, c, e)
    PROVE  Good(setup, t, y, A, phase) /\ Onward(s, t) /\ Only(s, t, e)
<1>1. s \in States /\ Linked(s)
  BY DEF Good
<1>2. /\ e \in ElsOf(s) /\ c \in Nat \ {0}
      /\ s.els[e].enter = c /\ s.els[e].leave = 0
  BY <1>1, Members DEF Linked, CbsOf
<1>4. /\ t \in States
      /\ Len(t.els) = Len(s.els) /\ ElsOf(t) = ElsOf(s) /\ CbsOf(t) = CbsOf(s)
      /\ \A f \in ElsOf(s) : f # e => t.els[f] = s.els[f]
      /\ \A d \in CbsOf(s) : d # c => t.cbs[d] = s.cbs[d]
      /\ t.frames = s.frames /\ Framed(t) = Framed(s)
      /\ t.els[e].key = s.els[e].key /\ t.els[e].enter = 0 /\ t.els[e].leave = 0
      /\ t.els[e].dom = s.els[e].dom /\ t.els[e].display = s.els[e].display
      /\ t.cbs[c].el = e /\ t.cbs[c].side = "enter" /\ t.cbs[c].called
      /\ t.leaving = s.leaving /\ t.dirty = s.dirty
  BY <1>2 DEF EnterEnds
<1>3. \A d \in CbsOf(s) : /\ t.cbs[d].side = s.cbs[d].side /\ t.cbs[d].old = s.cbs[d].old
                          /\ t.cbs[d].cancelled = s.cbs[d].cancelled
                          /\ t.cbs[d].resume = s.cbs[d].resume
                          /\ t.cbs[d].delayed = s.cbs[d].delayed
  BY <1>4 DEF EnterEnds
<1>5. Linked(t)
  <2>1. ASSUME NEW f \in ElsOf(t)
        PROVE  /\ t.els[f].enter # 0 => IsOpen(t, t.els[f].enter, f, "enter")
               /\ t.els[f].leave # 0 => IsOpen(t, t.els[f].leave, f, "leave")
               /\ t.els[f].enter = 0 \/ t.els[f].leave = 0
    <3>1. CASE f = e
      BY <1>4, <3>1
    <3>2. CASE f # e
      <4>1. /\ t.els[f] = s.els[f]
            /\ s.els[f].enter # 0 => IsOpen(s, s.els[f].enter, f, "enter")
            /\ s.els[f].leave # 0 => IsOpen(s, s.els[f].leave, f, "leave")
            /\ s.els[f].enter = 0 \/ s.els[f].leave = 0
        BY <1>1, <1>4, <3>2 DEF Linked
      <4>2. ASSUME NEW d, NEW side, IsOpen(s, d, f, side)
            PROVE  IsOpen(t, d, f, side)
        BY <1>4, <3>2, <4>2 DEF IsOpen
      <4> QED
        BY <4>1, <4>2
    <3> QED
      BY <3>1, <3>2
  <2>2. ASSUME NEW d \in CbsOf(t)
        PROVE  /\ t.cbs[d].el \in ElsOf(t)
               /\ t.cbs[d].old < t.cbs[d].el
               /\ t.cbs[d].resume \/ t.cbs[d].delayed => t.cbs[d].side = "leave"
    BY <1>1, <1>3, <1>4 DEF Linked
  <2>3. ASSUME NEW d \in CbsOf(t), ~ t.cbs[d].called
        PROVE  /\ t.cbs[d].side = "enter" => t.els[t.cbs[d].el].enter = d
               /\ t.cbs[d].side = "leave" => t.els[t.cbs[d].el].leave = d
    <3>1. d # c /\ t.cbs[d] = s.cbs[d] /\ d \in CbsOf(s)
      BY <1>4, <2>3
    <3>2. /\ s.cbs[d].side = "enter" => s.els[s.cbs[d].el].enter = d
          /\ s.cbs[d].side = "leave" => s.els[s.cbs[d].el].leave = d
          /\ s.cbs[d].el \in ElsOf(s)
      BY <1>1, <2>3, <3>1 DEF Linked
    <3>3. CASE s.cbs[d].el = e
      BY <1>2, <1>4, <3>1, <3>2, <3>3, Members DEF CbsOf
    <3>4. CASE s.cbs[d].el # e
      BY <1>4, <3>1, <3>2, <3>4
    <3> QED
      BY <3>3, <3>4
  <2>4. \A k \in Keys : t.pending[k] \in 0 .. Len(t.els)
    BY <1>1, <1>4 DEF Linked, EnterEnds
  <2>5. Framed(t) \subseteq CbsOf(t)
    BY <1>1, <1>4 DEF Linked
  <2>6. \A d \in t.waits : d \in CbsOf(t) /\ ~ t.cbs[d].called
    BY <1>1, <1>4 DEF Linked, EnterEnds
  <2> QED
    BY <2>1, <2>2, <2>3, <2>4, <2>5, <2>6 DEF Linked
<1>6. ASSUME ~ EarlyDone
      PROVE  Dressed(setup, t, y)
  <2>1. Dressed(setup, s, y)
    BY <1>6 DEF Good
  <2>2. ASSUME NEW f \in ElsOf(t), t.els[f].dom \/ f = y
        PROVE  Wears(t, f)
    <3>1. CASE f # e
      BY <1>4, <2>1, <2>2, <3>1 DEF Dressed, Wears
    <3>2. CASE f = e
      <4>1. Wears(s, e)
        BY <1>2, <1>4, <2>1, <2>2, <3>2 DEF Dressed
      <4>2. /\ s.els[e].classes \subseteq EnterClasses
            /\ "enter" \in s.els[e].classes => c \in Framed(s)
        BY <1>2, <4>1 DEF Wears
      <4>3. ~ setup.css => s.els[e].classes = {}
        BY <1>2, <2>1 DEF Dressed
      <4>4. t.els[e].classes = {}
        BY <1>6, <4>2, <4>3 DEF EnterClasses, EnterEnds
      <4> QED
        BY <3>2, <4>4 DEF Wears
    <3> QED
      BY <3>1, <3>2
  <2>3. ASSUME NEW d \in CbsOf(t), d \in Framed(t)
        PROVE  /\ ~ t.cbs[d].delayed
               /\ t.cbs[d].called /\ ~ t.cbs[d].cancelled =>
                     ~ t.els[t.cbs[d].el].dom /\ t.cbs[d].el # y
    <3>1. CASE d # c
      <4>1. /\ ~ s.cbs[d].delayed
            /\ s.cbs[d].called /\ ~ s.cbs[d].cancelled =>
                  ~ s.els[s.cbs[d].el].dom /\ s.cbs[d].el # y
        BY <1>4, <2>1, <2>3 DEF Dressed
      <4>2. t.cbs[d] = s.cbs[d] /\ s.cbs[d].el \in ElsOf(s)
        BY <1>1, <1>4, <3>1 DEF Linked
      <4>3. t.els[s.cbs[d].el].dom = s.els[s.cbs[d].el].dom
        BY <1>4, <4>2
      <4> QED
        BY <4>1, <4>2, <4>3
    <3>2. CASE d = c
      <4>1. ~ s.cbs[c].delayed /\ s.cbs[c].cancelled
        BY <1>4, <1>6, <2>1, <2>3, <3>2 DEF Dressed
      <4> QED
        BY <3>2, <4>1 DEF EnterEnds
    <3> QED
      BY <3>1, <3>2
  <2>4. ASSUME ~ setup.css
        PROVE  Framed(t) = {} /\ \A f \in ElsOf(t) : t.els[f].classes = {}
    <3>1. /\ Framed(t) = {} /\ ElsOf(t) = ElsOf(s)
          /\ \A f \in ElsOf(s) : s.els[f].classes = {}
      BY <1>4, <2>1, <2>4 DEF Dressed
    <3>2. t.els[e].classes = {}
      BY <1>2, <2>4, <3>1 DEF EnterEnds
    <3> QED
      BY <1>4, <3>1, <3>2
  <2>5. \A i, j \in 1 .. Len(t.frames) : t.frames[i] = t.frames[j] => i = j
    BY <1>4, <2>1 DEF Dressed
  <2> QED
    BY <2>2, <2>3, <2>4, <2>5 DEF Dressed
<1>7. Onward(s, t) /\ Only(s, t, e)
  <2>1. \A f \in ElsOf(s) : t.els[f].key = s.els[f].key
    BY <1>4
  <2>2. Len(s.els) \in Nat
    BY <1>1, Members
  <2> QED
    BY <1>4, <2>1, <2>2 DEF Onward, Only
<1>9. ASSUME setup.show
      PROVE  Displayed(t, phase)
  <2>1. Displayed(s, phase)
    BY <1>9 DEF Good
  <2>2. ASSUME NEW d \in CbsOf(t)
        PROVE  /\ t.cbs[d].old = 0 /\ ~ t.cbs[d].delayed /\ ~ t.cbs[d].resume
               /\ phase = "hidden" /\ t.cbs[d].side = "leave" /\ ~ t.cbs[d].called =>
                     ~ t.cbs[d].cancelled
    BY <1>3, <1>4, <2>1 DEF Displayed
  <2>3. ASSUME NEW f \in ElsOf(t)
        PROVE  /\ t.els[f].dom
               /\ phase = "shown" => t.els[f].leave = 0 /\ t.els[f].display
               /\ phase = "hidden" =>
                     t.els[f].enter = 0 /\ (t.els[f].leave = 0 => ~ t.els[f].display)
    BY <1>2, <1>4, <2>1 DEF Displayed
  <2> QED
    BY <1>4, <2>1, <2>2, <2>3 DEF Displayed
<1>10. ASSUME ~ setup.show
       PROVE  Placed(t, A, phase)
  <2>1. Placed(s, A, phase)
    BY <1>10 DEF Good
  <2>2. \A d \in CbsOf(t) : t.cbs[d].side = "leave" => ~ t.cbs[d].cancelled
    BY <1>3, <1>4, <2>1 DEF Placed
  <2>3. \A f \in A : f \in ElsOf(t) /\ t.els[f].dom /\ t.els[f].leave = 0
    BY <1>2, <1>4, <2>1 DEF Placed
  <2>4. \A f \in ElsOf(t) : t.els[f].dom => f \in A \/ t.els[f].leave # 0
    BY <1>2, <1>4, <2>1 DEF Placed
  <2>5. ASSUME t.leaving, phase # "resume"
        PROVE  A = {} /\ \E d \in CbsOf(t) : ~ t.cbs[d].called /\ t.cbs[d].resume
    <3>1. PICK d \in CbsOf(s) : ~ s.cbs[d].called /\ s.cbs[d].resume
      BY <1>4, <2>1, <2>5 DEF Placed
    <3>2. d # c
      BY <1>1, <3>1 DEF Linked
    <3> QED
      BY <1>4, <2>1, <2>5, <3>1, <3>2 DEF Placed
  <2> QED
    BY <2>2, <2>3, <2>4, <2>5 DEF Placed
<1>11. Good(setup, t, y, A, phase)
  <2>1. CASE setup.show
    BY <1>4, <1>5, <1>6, <1>9, <2>1 DEF Good
  <2>2. CASE ~ setup.show
    BY <1>4, <1>5, <1>6, <1>10, <2>2 DEF Good
  <2> QED
    BY <2>1, <2>2
<1> QED
  BY <1>7, <1>11

LEMMA EndEnter ==
    ASSUME NEW s, NEW y, NEW A, NEW phase, Good(setup, s, y, A, phase),
           NEW c \in CbsOf(s), s.cbs[c].side = "enter", ~ s.cbs[c].called,
           EarlyDone \/ s.cbs[c].cancelled \/ c \notin Framed(s),
           NEW e, e = s.cbs[c].el
    PROVE  LET t == EnterCb(s, c)
           IN  /\ Good(setup, t, y, A, phase) /\ Onward(s, t)
               /\ Len(t.els) = Len(s.els)
               /\ t.els[e].enter = 0 /\ t.els[e].leave = 0
<1> DEFINE classes == {"enter-to", "enter-active"}
                        \cup (IF s.cbs[c].cancelled THEN {"enter"} ELSE {})
           over == RemoveClasses(Done([s EXCEPT !.els[e].enter = 0], c), e, classes)
           old == s.cbs[c].old
           t == PerformDelayed(over, old)
<1>1. s \in States /\ Linked(s)
  BY DEF Good
<1>2. e \in ElsOf(s) /\ s.els[e].enter = c /\ c # 0 /\ s.els[e].leave = 0
  BY <1>1, Members DEF Linked, CbsOf
<1>3. EnterCb(s, c) = t
  BY DEF EnterCb
<1>4. EnterEnds(s, over, c, e)
  BY <1>1, <1>2, EnterEndsFacts
<1> HIDE DEF over
<1>5. Good(setup, over, y, A, phase) /\ Onward(s, over) /\ Only(s, over, e)
  BY <1>4, EnterOver
<1>6. old \in 0 .. Len(over.els) /\ old # e /\ e \in ElsOf(over)
  <2>1. old \in Nat /\ old < e /\ e \in 1 .. Len(s.els) /\ Len(over.els) = Len(s.els)
    <3>1. s.cbs[c] \in Cb /\ s.cbs[c].old < s.cbs[c].el
      BY <1>1, Members DEF Linked
    <3>2. old \in Nat
      BY <3>1 DEF Cb
    <3>3. Len(over.els) = Len(s.els)
      BY <1>4 DEF EnterEnds
    <3> QED
      BY <1>2, <3>1, <3>2, <3>3 DEF ElsOf
  <2> QED
    BY <1>1, <2>1, Members DEF ElsOf
<1> HIDE DEF old
<1>7. Good(setup, t, y, A, phase) /\ Onward(over, t) /\ Only(over, t, old)
  BY <1>5, <1>6, Delays
<1> HIDE DEF t
<1>8. over \in States /\ t \in States
  BY <1>5, <1>7 DEF Good
<1>9. Onward(s, t)
  BY <1>1, <1>5, <1>7, <1>8, Further
<1>10. Len(t.els) = Len(s.els) /\ t.els[e] = over.els[e]
  BY <1>4, <1>6, <1>7 DEF Only, EnterEnds
<1> QED
  BY <1>2, <1>3, <1>4, <1>7, <1>9, <1>10 DEF EnterEnds

-----------------------------------------------------------------------------
(* The functions enter and leave *)

LEMMA CancelsEnter ==
    ASSUME NEW s, NEW y, NEW A, NEW phase, Good(setup, s, y, A, phase), NEW e \in ElsOf(s)
    PROVE  LET t == CancelEnter(s, e)
           IN  /\ Good(setup, t, y, A, phase) /\ Onward(s, t)
               /\ Len(t.els) = Len(s.els)
               /\ t.els[e].enter = 0
               /\ s.els[e].leave = 0 => t.els[e].leave = 0
<1> DEFINE c == s.els[e].enter
           u == [s EXCEPT !.cbs[c].cancelled = TRUE]
<1>1. s \in States /\ Linked(s)
  BY DEF Good
<1>2. CASE c = 0
  BY <1>1, <1>2, Further DEF CancelEnter
<1>3. CASE c # 0
  <2>1. CancelEnter(s, e) = EnterCb(u, c)
    BY <1>3 DEF CancelEnter
  <2>2. /\ c \in CbsOf(s) /\ s.cbs[c].el = e /\ s.cbs[c].side = "enter"
        /\ ~ s.cbs[c].called
    BY <1>1, <1>3 DEF Linked, IsOpen
  <2> HIDE DEF c
  <2>3. /\ Good(setup, u, y, A, phase) /\ Alike(s, u) /\ Onward(s, u)
        /\ u.els = s.els /\ u.cbs[c].cancelled
    BY <2>2, Flagged
  <2> HIDE DEF u
  <2>4. /\ c \in CbsOf(u) /\ u.cbs[c].el = e /\ u.cbs[c].side = "enter"
        /\ ~ u.cbs[c].called
    BY <2>2, <2>3 DEF Alike
  <2>5. LET t == EnterCb(u, c)
        IN  /\ Good(setup, t, y, A, phase) /\ Onward(u, t)
            /\ Len(t.els) = Len(u.els)
            /\ t.els[e].enter = 0 /\ t.els[e].leave = 0
    BY <2>3, <2>4, EndEnter
  <2>6. u \in States /\ EnterCb(u, c) \in States
    BY <2>3, <2>5 DEF Good
  <2> QED
    BY <1>1, <2>1, <2>3, <2>5, <2>6, Further
<1> QED
  BY <1>2, <1>3

LEMMA CancelsLeave ==
    ASSUME NEW s, NEW y, NEW A, NEW phase, Good(setup, s, y, A, phase), NEW e \in ElsOf(s),
           setup.show \/ s.els[e].leave = 0
    PROVE  LET t == CancelLeave(s, e)
           IN  /\ Good(setup, t, y, A, IF s.els[e].leave = 0 THEN phase ELSE "between")
               /\ Onward(s, t) /\ Len(t.els) = Len(s.els)
               /\ t.els[e].leave = 0 /\ t.els[e].enter = s.els[e].enter
<1> DEFINE c == s.els[e].leave
           u == [s EXCEPT !.cbs[c].cancelled = TRUE]
<1>1. s \in States /\ Linked(s)
  BY DEF Good
<1>2. CASE c = 0
  BY <1>1, <1>2, Further DEF CancelLeave
<1>3. CASE c # 0
  <2>1. CancelLeave(s, e) = LeaveCb(u, c)
    BY <1>3 DEF CancelLeave
  <2>2. /\ c \in CbsOf(s) /\ s.cbs[c].el = e /\ s.cbs[c].side = "leave"
        /\ ~ s.cbs[c].called /\ setup.show
    BY <1>1, <1>3 DEF Linked, IsOpen
  <2>3. c = s.els[e].leave
    OBVIOUS
  <2> HIDE DEF c
  <2>4. /\ Good(setup, u, y, A, "between") /\ Alike(s, u) /\ Onward(s, u)
        /\ u.els = s.els /\ u.cbs[c].cancelled
    BY <2>2, Flagged
  <2> HIDE DEF u
  <2>5. /\ c \in CbsOf(u) /\ u.cbs[c].el = e /\ u.cbs[c].side = "leave"
        /\ ~ u.cbs[c].called
    BY <2>2, <2>4 DEF Alike
  <2>6. LET t == LeaveCb(u, c)
        IN  /\ Good(setup, t, y, A,
                    IF setup.show /\ u.cbs[c].cancelled THEN "between" ELSE "between")
            /\ Onward(u, t) /\ Only(u, t, e)
            /\ t.els[e].leave = 0 /\ t.els[e].enter = u.els[e].enter
    BY <2>4, <2>5, EndLeave
  <2>7. Good(setup, LeaveCb(u, c), y, A, "between")
    BY <2>6
  <2>8. u \in States /\ LeaveCb(u, c) \in States
    BY <2>4, <2>7 DEF Good
  <2> QED
    BY <1>1, <1>3, <2>1, <2>3, <2>4, <2>6, <2>7, <2>8, Further DEF Only
<1> QED
  BY <1>2, <1>3

\* v-show displays the element.
LEMMA Shows ==
    ASSUME NEW s, NEW y, NEW A, NEW phase, Good(setup, s, y, A, phase), setup.show,
           NEW e \in ElsOf(s), s.els[e].leave = 0
    PROVE  LET t == [s EXCEPT !.els[e].display = TRUE]
           IN  /\ Good(setup, t, y, A, "shown") /\ Alike(s, t) /\ Onward(s, t)
               /\ t.cbs = s.cbs /\ Framed(t) = Framed(s)
<1> DEFINE t == [s EXCEPT !.els[e].display = TRUE]
<1>1. s \in States /\ Linked(s)
  BY DEF Good
<1>2. ElemHas(s, t, e, s.els[e].classes, s.els[e].dom, TRUE, s.els[e].enter, s.els[e].leave)
  BY <1>1, FieldSet
<1> HIDE DEF t
<1>3. /\ t \in States /\ Len(t.els) = Len(s.els) /\ ElsOf(t) = ElsOf(s) /\ CbsOf(t) = CbsOf(s)
      /\ \A f \in ElsOf(s) : f # e => t.els[f] = s.els[f]
      /\ t.els[e].key = s.els[e].key /\ t.els[e].dom = s.els[e].dom
      /\ t.els[e].display /\ t.els[e].classes = s.els[e].classes
      /\ t.els[e].enter = s.els[e].enter /\ t.els[e].leave = s.els[e].leave
      /\ t.cbs = s.cbs /\ t.frames = s.frames /\ Framed(t) = Framed(s) /\ t.waits = s.waits
      /\ t.leaving = s.leaving /\ t.dirty = s.dirty /\ t.pending = s.pending
  BY <1>2 DEF ElemHas, ElemIs
<1>4. Alike(s, t)
  BY <1>3 DEF Alike
<1>5. Linked(t)
  BY <1>1, <1>3, <1>4, LinkedKept DEF Linked
<1>6. ASSUME ~ EarlyDone
      PROVE  Dressed(setup, t, y)
  <2>1. Dressed(setup, s, y)
    BY <1>6 DEF Good
  <2>2. \A f \in ElsOf(s) : t.els[f].dom = s.els[f].dom /\ t.els[f].classes = s.els[f].classes
                            /\ t.els[f].enter = s.els[f].enter /\ t.els[f].leave = s.els[f].leave
    BY <1>3
  <2>3. \A f \in ElsOf(t) : t.els[f].dom \/ f = y => Wears(t, f)
    BY <1>3, <2>1, <2>2 DEF Dressed, Wears
  <2>4. ASSUME NEW d \in CbsOf(t), d \in Framed(t)
        PROVE  /\ ~ t.cbs[d].delayed
               /\ t.cbs[d].called /\ ~ t.cbs[d].cancelled =>
                     ~ t.els[t.cbs[d].el].dom /\ t.cbs[d].el # y
    <3>1. s.cbs[d].el \in ElsOf(s)
      BY <1>1, <1>3 DEF Linked
    <3> QED
      BY <1>3, <2>1, <2>2, <2>4, <3>1 DEF Dressed
  <2>5. ~ setup.css => Framed(t) = {} /\ \A f \in ElsOf(t) : t.els[f].classes = {}
    BY <1>3, <2>1, <2>2 DEF Dressed
  <2> QED
    BY <1>3, <2>1, <2>3, <2>4, <2>5 DEF Dressed
<1>7. Displayed(t, "shown")
  <2>1. Displayed(s, phase)
    BY DEF Good
  <2> QED
    BY <1>3, <2>1 DEF Displayed
<1>8. Onward(s, t)
  <2>1. \A f \in ElsOf(s) : t.els[f].key = s.els[f].key
    BY <1>3
  <2> QED
    BY <1>1, <1>3, <2>1, Members DEF Onward
<1>9. Good(setup, t, y, A, "shown")
  BY <1>3, <1>5, <1>6, <1>7 DEF Good
<1> QED
  BY <1>3, <1>4, <1>8, <1>9 DEF t

LEMMA EnterCallback ==
    ASSUME NEW e \in Nat, NEW old \in Nat
    PROVE  LET r == [Callback(e, "enter") EXCEPT !.old = old]
           IN  /\ r \in Cb /\ r.el = e /\ r.side = "enter" /\ ~ r.called /\ ~ r.cancelled
               /\ r.old = old /\ ~ r.resume /\ ~ r.delayed
BY DEF Callback, Cb

LEMMA LeaveCallback ==
    ASSUME NEW e \in Nat, NEW b1 \in BOOLEAN, NEW b2 \in BOOLEAN
    PROVE  LET r == [Callback(e, "leave") EXCEPT !.resume = b1, !.delayed = b2]
           IN  /\ r \in Cb /\ r.el = e /\ r.side = "leave" /\ ~ r.called /\ ~ r.cancelled
               /\ r.old = 0 /\ r.resume = b1 /\ r.delayed = b2
BY DEF Callback, Cb

LEMMA Leaves ==
    ASSUME NEW s, NEW y, NEW A, NEW phase, Good(setup, s, y, A, phase),
           NEW e \in ElsOf(s), s.els[e].leave = 0,
           NEW how \in {"now", "resume", "delay"}, setup.show => how = "now",
           how = "resume" => A \subseteq {e},
           NEW next,
           next = IF setup.show THEN "hidden" ELSE IF how = "resume" THEN "steady" ELSE phase
    PROVE  Good(setup, Leave(s, e, how), y, A \ {e}, next) /\ Onward(s, Leave(s, e, how))
<1> DEFINE free == CancelEnter(s, e)
           c == Len(free.cbs) + 1
           r == [Callback(e, "leave") EXCEPT !.resume = how = "resume", !.delayed = how = "delay"]
           made == [free EXCEPT !.cbs = Append(@, r), !.els[e].leave = c]
<1>1. s \in States /\ e \in Nat
  BY Members DEF Good, ElsOf
<1>2. /\ Good(setup, free, y, A, phase) /\ Onward(s, free)
      /\ Len(free.els) = Len(s.els)
      /\ free.els[e].enter = 0 /\ free.els[e].leave = 0
  BY CancelsEnter
<1>3. Leave(s, e, how) = IF how = "delay" THEN made ELSE PerformLeave(made, c)
  BY <1>2 DEF Leave
<1> HIDE DEF free
<1>4. /\ r \in Cb /\ r.el = e /\ r.side = "leave" /\ ~ r.called /\ ~ r.cancelled
      /\ r.old = 0 /\ (r.resume <=> how = "resume") /\ (r.delayed <=> how = "delay")
  <2>1. (how = "resume") \in BOOLEAN /\ (how = "delay") \in BOOLEAN
    OBVIOUS
  <2>2. \A b1, b2 \in BOOLEAN :
           LET q == [Callback(e, "leave") EXCEPT !.resume = b1, !.delayed = b2]
           IN  /\ q \in Cb /\ q.el = e /\ q.side = "leave" /\ ~ q.called /\ ~ q.cancelled
               /\ q.old = 0 /\ q.resume = b1 /\ q.delayed = b2
    BY <1>1, LeaveCallback
  <2> QED
    BY <2>1, <2>2
<1> HIDE DEF r
<1>5. e \in ElsOf(free)
  BY <1>2 DEF ElsOf
<1>6. Good(setup, made, y, A \ {e}, next) /\ Begun(free, made, e, r) /\ Onward(free, made)
  <2>1. setup.show => ~ r.resume /\ ~ r.delayed
    BY <1>4
  <2>2. next = IF setup.show THEN "hidden" ELSE IF r.resume THEN "steady" ELSE phase
    BY <1>4
  <2>3. ~ setup.show /\ r.resume => A \subseteq {e}
    BY <1>4
  <2> QED
    <3>1. free \in States
      BY <1>2 DEF Good
    <3>2. Begun(free, made, e, r)
      BY <1>4, <1>5, <3>1, CbBegun
    <3> HIDE DEF made
    <3> QED
      BY <1>2, <1>4, <1>5, <2>1, <2>2, <2>3, <3>2, BegunLeave
<1>7. /\ c \in CbsOf(made) /\ made.cbs[c] = r
      /\ c \notin Framed(made)
  <2>1. c \notin Framed(free)
    <3>1. Framed(free) \subseteq CbsOf(free)
      BY <1>2 DEF Good, Linked
    <3>2. c \notin CbsOf(free)
      BY <1>6 DEF Begun
    <3> QED
      BY <3>1, <3>2
  <2> QED
    BY <1>6, <2>1 DEF Begun
<1>8. free \in States /\ made \in States
  BY <1>2, <1>6 DEF Good
<1> HIDE DEF made, c
<1>9. Onward(s, made)
  BY <1>1, <1>2, <1>6, <1>8, Further
<1>10. CASE how = "delay"
  BY <1>3, <1>6, <1>9, <1>10
<1>11. CASE how # "delay"
  <2>1. /\ Good(setup, PerformLeave(made, c), y, A \ {e}, next)
        /\ Onward(made, PerformLeave(made, c))
    BY <1>4, <1>6, <1>7, <1>11, Performs
  <2>2. PerformLeave(made, c) \in States
    BY <2>1 DEF Good
  <2> QED
    BY <1>1, <1>3, <1>8, <1>9, <1>11, <2>1, <2>2, Further
<1> QED
  BY <1>10, <1>11

LEMMA Enters ==
    ASSUME NEW s, NEW y, NEW A, NEW phase, Good(setup, s, y, A, phase),
           NEW e \in ElsOf(s), NEW old \in Nat, old < e,
           setup.show => old = 0 /\ (phase = "shown" \/ (phase = "hidden" /\ mounted)),
           ~ setup.show => s.els[e].leave = 0
    PROVE  LET t == Enter(s, e, old)
           IN  /\ Good(setup, t, y, A, IF setup.show THEN "shown" ELSE phase)
               /\ Onward(s, t) /\ Len(t.els) = Len(s.els) /\ t.els[e].leave = 0
<1> DEFINE free == CancelLeave(s, e)
           c == Len(free.cbs) + 1
           r == [Callback(e, "enter") EXCEPT !.old = old]
           made == [free EXCEPT !.cbs = Append(@, r), !.els[e].enter = c]
           started == TakesOver(Start(made, c, {"enter", "enter-active"}), c)
           shown == IF setup.show THEN [started EXCEPT !.els[e].display = TRUE] ELSE started
           before == IF setup.show THEN "between" ELSE phase
           next == IF setup.show THEN "shown" ELSE phase
           stays == free.els[e].enter # 0 \/ (~ mounted /\ ~ setup.appear)
<1>1. s \in States /\ Linked(s) /\ e \in Nat
  BY Members DEF Good, ElsOf
<1>2. /\ Good(setup, free, y, A, IF s.els[e].leave = 0 THEN phase ELSE "between")
      /\ Onward(s, free) /\ Len(free.els) = Len(s.els)
      /\ free.els[e].leave = 0 /\ free.els[e].enter = s.els[e].enter
  BY CancelsLeave
<1>3. Enter(s, e, old) = IF stays THEN free
                         ELSE IF ~ setup.css /\ ~ setup.control THEN EnterCb(shown, c)
                         ELSE shown
  BY DEF Enter
<1> HIDE DEF free
<1>4. /\ free \in States /\ e \in ElsOf(free)
  BY <1>2 DEF Good, ElsOf
<1>5. ASSUME stays
      PROVE  Good(setup, free, y, A, next)
  <2>1. CASE setup.show
    <3>1. Displayed(s, phase)
      BY <2>1 DEF Good
    <3>2. phase = "shown"
      BY <1>2, <1>5, <2>1, <3>1 DEF Displayed
    <3>3. s.els[e].leave = 0
      BY <3>1, <3>2 DEF Displayed
    <3> QED
      BY <1>2, <2>1, <3>2, <3>3
  <2>2. CASE ~ setup.show
    BY <1>2, <2>2
  <2> QED
    BY <2>1, <2>2
<1>6. ASSUME ~ stays
      PROVE  /\ Good(setup, shown, y, A, next) /\ Onward(s, shown)
             /\ Len(shown.els) = Len(s.els) /\ shown.els[e].leave = 0
             /\ c \in CbsOf(shown) /\ shown.cbs[c] = r
             /\ ~ setup.css => c \notin Framed(shown)
  <2>1. /\ r \in Cb /\ r.el = e /\ r.side = "enter" /\ ~ r.called /\ ~ r.cancelled
        /\ r.old = old /\ ~ r.resume /\ ~ r.delayed
    BY <1>1, EnterCallback
  <2> HIDE DEF r
  <2>2. Begun(free, made, e, r)
    BY <1>4, <2>1, CbBegun
  <2> HIDE DEF made
  <2>3. free.els[e].enter = 0
    BY <1>6
  <2>4. /\ Good(setup, made, y, A,
                IF setup.show THEN "between"
                ELSE IF s.els[e].leave = 0 THEN phase ELSE "between")
        /\ Onward(free, made)
    BY <1>2, <1>4, <2>1, <2>2, <2>3, BegunEnter
  <2>5. Good(setup, made, y, A, before)
    BY <2>4
  <2> HIDE DEF before
  <2>6. /\ c \in CbsOf(made) /\ made.cbs[c] = r /\ c \notin Framed(made)
        /\ Len(made.els) = Len(free.els) /\ ElsOf(made) = ElsOf(free)
        /\ made.els[e].leave = 0
    <3>1. c \notin Framed(free)
      BY <1>2, <2>2 DEF Begun, Good, Linked
    <3> QED
      BY <1>2, <2>1, <2>2, <3>1 DEF Begun
  <2> HIDE DEF c
  <2>7. /\ Good(setup, started, y, A, before) /\ Alike(made, started)
        /\ Onward(made, started) /\ started.cbs = made.cbs
        /\ ~ setup.css => Framed(started) = Framed(made)
    BY <2>1, <2>5, <2>6, Starts
  <2> HIDE DEF started
  <2>8. /\ started.els[e].leave = 0 /\ Len(started.els) = Len(s.els) /\ e \in ElsOf(started)
        /\ CbsOf(started) = CbsOf(made)
    BY <1>2, <1>4, <2>6, <2>7 DEF Alike
  <2>9. made \in States /\ started \in States
    BY <2>5, <2>7 DEF Good
  <2>10. Onward(s, started)
    BY <1>1, <1>2, <1>4, <2>4, <2>7, <2>9, Further
  <2>11. CASE setup.show
    <3> DEFINE u == [started EXCEPT !.els[e].display = TRUE]
    <3>1. shown = u
      BY <2>11
    <3>2. /\ Good(setup, u, y, A, "shown") /\ Alike(started, u) /\ Onward(started, u)
          /\ u.cbs = started.cbs /\ Framed(u) = Framed(started)
      BY <2>7, <2>8, <2>11, Shows
    <3> HIDE DEF u, shown
    <3>3. u \in States
      BY <3>2 DEF Good
    <3>4. Onward(s, u)
      BY <1>1, <2>9, <2>10, <3>2, <3>3, Further
    <3>5. /\ Len(u.els) = Len(s.els) /\ u.els[e].leave = 0 /\ c \in CbsOf(u)
          /\ u.cbs[c] = r /\ (~ setup.css => c \notin Framed(u))
      BY <2>6, <2>7, <2>8, <3>2 DEF Alike
    <3> QED
      BY <2>11, <3>1, <3>2, <3>4, <3>5
  <2>12. CASE ~ setup.show
    <3>1. shown = started
      BY <2>12
    <3> HIDE DEF shown
    <3> QED
      BY <2>6, <2>7, <2>8, <2>10, <2>12, <3>1 DEF before
  <2> QED
    BY <2>11, <2>12
<1> HIDE DEF shown
<1>7. ASSUME ~ stays, ~ setup.css
      PROVE  LET t == EnterCb(shown, c)
             IN  /\ Good(setup, t, y, A, next) /\ Onward(s, t)
                 /\ Len(t.els) = Len(s.els) /\ t.els[e].leave = 0
  <2>1. r.el = e /\ r.side = "enter" /\ ~ r.called
    BY <1>1, EnterCallback
  <2> HIDE DEF r, c, next, stays
  <2>2. /\ shown.cbs[c].el = e /\ shown.cbs[c].side = "enter" /\ ~ shown.cbs[c].called
        /\ c \in CbsOf(shown) /\ c \notin Framed(shown) /\ Good(setup, shown, y, A, next)
    BY <1>6, <1>7, <2>1
  <2>3. LET t == EnterCb(shown, c)
        IN  /\ Good(setup, t, y, A, next) /\ Onward(shown, t)
            /\ Len(t.els) = Len(shown.els)
            /\ t.els[e].enter = 0 /\ t.els[e].leave = 0
    BY <2>2, EndEnter
  <2>4. shown \in States /\ EnterCb(shown, c) \in States
    BY <2>2, <2>3 DEF Good
  <2> QED
    BY <1>1, <1>6, <1>7, <2>3, <2>4, Further
<1> HIDE DEF stays, next, c, r
<1>8. CASE stays
  BY <1>2, <1>3, <1>5, <1>8 DEF next
<1>9. CASE ~ stays
  BY <1>3, <1>6, <1>7, <1>9 DEF next
<1> QED
  BY <1>8, <1>9

-----------------------------------------------------------------------------
(* A child that is made *)

LEMMA ElAppended ==
    ASSUME NEW s \in States, NEW x \in Elem
    PROVE  LET t == [s EXCEPT !.els = Append(@, x)]
               e == Len(s.els) + 1
           IN  /\ t \in States
               /\ Len(t.els) = e /\ ElsOf(t) = ElsOf(s) \cup {e} /\ e \notin ElsOf(s)
               /\ e \in Nat \ {0}
               /\ t.els[e] = x /\ \A f \in ElsOf(s) : t.els[f] = s.els[f]
               /\ t.cbs = s.cbs /\ CbsOf(t) = CbsOf(s)
               /\ t.frames = s.frames /\ Framed(t) = Framed(s) /\ t.waits = s.waits
               /\ t.leaving = s.leaving /\ t.dirty = s.dirty /\ t.pending = s.pending
<1> DEFINE q == Append(s.els, x)
           t == [s EXCEPT !.els = q]
<1>1. s.els \in Seq(Elem)
  BY DEF States
<1>2. /\ q \in Seq(Elem) /\ Len(q) = Len(s.els) + 1 /\ q[Len(s.els) + 1] = x
      /\ \A d \in 1 .. Len(s.els) : q[d] = s.els[d]
      /\ Len(s.els) \in Nat
  BY <1>1, AppendProperties
<1> HIDE DEF q
<1>3. /\ t.cbs = s.cbs /\ t.els = q /\ t.frames = s.frames /\ t.waits = s.waits
      /\ t.leaving = s.leaving /\ t.dirty = s.dirty /\ t.pending = s.pending
      /\ t \in States
  BY <1>2 DEF States
<1> HIDE DEF t
<1>4. /\ ElsOf(t) = ElsOf(s) \cup {Len(s.els) + 1} /\ Len(s.els) + 1 \notin ElsOf(s)
      /\ CbsOf(t) = CbsOf(s) /\ Framed(t) = Framed(s)
  BY <1>2, <1>3 DEF CbsOf, ElsOf, Framed
<1> QED
  BY <1>2, <1>3, <1>4 DEF t, q, ElsOf

LEMMA NewChild ==
    ASSUME NEW k \in Keys, NEW b \in BOOLEAN
    PROVE  LET x == [key |-> k, dom |-> FALSE, display |-> b, classes |-> {},
                     enter |-> 0, leave |-> 0]
           IN  /\ x \in Elem /\ x.key = k /\ ~ x.dom /\ x.display = b /\ x.classes = {}
               /\ x.enter = 0 /\ x.leave = 0
BY DEF Elem

\* All but the new element e is as it was.
Grown(s, t, k, b) ==
    LET e == Len(s.els) + 1 IN
    /\ t \in States
    /\ Len(t.els) = e /\ ElsOf(t) = ElsOf(s) \cup {e} /\ e \notin ElsOf(s) /\ e \in Nat \ {0}
    /\ t.els[e].key = k /\ ~ t.els[e].dom /\ t.els[e].display = b /\ t.els[e].classes = {}
    /\ t.els[e].enter = 0 /\ t.els[e].leave = 0
    /\ \A f \in ElsOf(s) : t.els[f] = s.els[f]
    /\ t.cbs = s.cbs /\ CbsOf(t) = CbsOf(s)
    /\ t.frames = s.frames /\ Framed(t) = Framed(s) /\ t.waits = s.waits
    /\ t.leaving = s.leaving /\ t.dirty = s.dirty /\ t.pending = s.pending

LEMMA Grows ==
    ASSUME NEW s \in States, NEW k \in Keys, NEW b \in BOOLEAN
    PROVE  Grown(s, Made(s, k, b), k, b)
<1> DEFINE x == [key |-> k, dom |-> FALSE, display |-> b, classes |-> {},
                 enter |-> 0, leave |-> 0]
           t == [s EXCEPT !.els = Append(@, x)]
           e == Len(s.els) + 1
<1>1. /\ x \in Elem /\ x.key = k /\ ~ x.dom /\ x.display = b /\ x.classes = {}
      /\ x.enter = 0 /\ x.leave = 0
  BY NewChild
<1>2. Made(s, k, b) = t
  BY DEF Made
<1> HIDE DEF x
<1>3. /\ t \in States
      /\ Len(t.els) = e /\ ElsOf(t) = ElsOf(s) \cup {e} /\ e \notin ElsOf(s)
      /\ e \in Nat \ {0}
      /\ t.els[e] = x /\ \A f \in ElsOf(s) : t.els[f] = s.els[f]
      /\ t.cbs = s.cbs /\ CbsOf(t) = CbsOf(s)
      /\ t.frames = s.frames /\ Framed(t) = Framed(s) /\ t.waits = s.waits
      /\ t.leaving = s.leaving /\ t.dirty = s.dirty /\ t.pending = s.pending
  BY <1>1, ElAppended
<1> HIDE DEF t
<1> QED
  BY <1>1, <1>2, <1>3 DEF Grown

LEMMA GrownLinked ==
    ASSUME NEW s \in States, NEW t, NEW k, NEW b, Grown(s, t, k, b), Linked(s)
    PROVE  Linked(t)
<1> DEFINE e == Len(s.els) + 1
<1>1. /\ ElsOf(t) = ElsOf(s) \cup {e} /\ e \notin ElsOf(s)
      /\ t.els[e].enter = 0 /\ t.els[e].leave = 0
      /\ \A f \in ElsOf(s) : t.els[f] = s.els[f]
      /\ t.cbs = s.cbs /\ CbsOf(t) = CbsOf(s)
      /\ Framed(t) = Framed(s) /\ t.waits = s.waits
  BY DEF Grown
<1>2. \A j \in Keys : t.pending[j] \in 0 .. Len(t.els)
  BY Members DEF Grown, Linked
<1> HIDE DEF e
<1>3. ASSUME NEW f \in ElsOf(t)
      PROVE  /\ t.els[f].enter # 0 => IsOpen(t, t.els[f].enter, f, "enter")
             /\ t.els[f].leave # 0 => IsOpen(t, t.els[f].leave, f, "leave")
             /\ t.els[f].enter = 0 \/ t.els[f].leave = 0
  BY <1>1 DEF Linked, IsOpen
<1>4. ASSUME NEW d \in CbsOf(t)
      PROVE  /\ t.cbs[d].el \in ElsOf(t)
             /\ t.cbs[d].old < t.cbs[d].el
             /\ t.cbs[d].resume \/ t.cbs[d].delayed => t.cbs[d].side = "leave"
             /\ ~ t.cbs[d].called /\ t.cbs[d].side = "enter" => t.els[t.cbs[d].el].enter = d
             /\ ~ t.cbs[d].called /\ t.cbs[d].side = "leave" => t.els[t.cbs[d].el].leave = d
  BY <1>1 DEF Linked
<1> QED
  BY <1>1, <1>2, <1>3, <1>4 DEF Linked

LEMMA GrownGood ==
    ASSUME NEW s, NEW A, NEW phase, Good(setup, s, 0, A, phase), ~ setup.show,
           NEW t, NEW k, NEW b, Grown(s, t, k, b)
    PROVE  Good(setup, t, Len(s.els) + 1, A, phase) /\ Onward(s, t)
<1> DEFINE e == Len(s.els) + 1
<1>1. s \in States /\ Linked(s)
  BY DEF Good
<1>2. Linked(t)
  BY <1>1, GrownLinked
<1>3. /\ t \in States /\ ElsOf(t) = ElsOf(s) \cup {e} /\ e \notin ElsOf(s)
      /\ t.els[e].enter = 0 /\ t.els[e].leave = 0 /\ t.els[e].classes = {}
      /\ ~ t.els[e].dom
      /\ \A f \in ElsOf(s) : t.els[f] = s.els[f]
      /\ t.cbs = s.cbs /\ CbsOf(t) = CbsOf(s)
      /\ t.frames = s.frames /\ Framed(t) = Framed(s)
      /\ t.leaving = s.leaving /\ t.dirty = s.dirty
  BY DEF Grown
<1>4. Onward(s, t)
  <2>1. Len(s.els) <= Len(t.els)
    BY <1>1, Members DEF Grown
  <2> HIDE DEF e
  <2> QED
    BY <1>3, <2>1 DEF Onward
<1> HIDE DEF e
<1>5. ASSUME ~ EarlyDone
      PROVE  Dressed(setup, t, e)
  <2>1. Dressed(setup, s, 0)
    BY <1>5 DEF Good
  <2>2. ASSUME NEW f \in ElsOf(t), t.els[f].dom \/ f = e
        PROVE  Wears(t, f)
    <3>1. CASE f = e
      BY <1>3, <3>1 DEF Wears
    <3>2. CASE f # e
      BY <1>3, <2>1, <2>2, <3>2 DEF Wears, Dressed
    <3> QED
      BY <3>1, <3>2
  <2>3. ASSUME NEW d \in CbsOf(t), d \in Framed(t)
        PROVE  /\ ~ t.cbs[d].delayed
               /\ t.cbs[d].called /\ ~ t.cbs[d].cancelled =>
                     ~ t.els[t.cbs[d].el].dom /\ t.cbs[d].el # e
    <3>1. s.cbs[d].el \in ElsOf(s)
      BY <1>1, <1>3 DEF Linked
    <3> QED
      BY <1>3, <2>1, <2>3, <3>1 DEF Dressed
  <2>4. ~ setup.css => Framed(t) = {} /\ \A f \in ElsOf(t) : t.els[f].classes = {}
    BY <1>3, <2>1 DEF Dressed
  <2> QED
    BY <1>3, <2>1, <2>2, <2>3, <2>4 DEF Dressed
<1>6. Placed(t, A, phase)
  <2>1. Placed(s, A, phase)
    BY DEF Good
  <2> QED
    BY <1>3, <2>1 DEF Placed
<1>7. Good(setup, t, e, A, phase)
  BY <1>2, <1>3, <1>5, <1>6 DEF Good
<1> QED
  BY <1>4, <1>7 DEF e

\* The element that was made comes into its place.
LEMMA PutIn ==
    ASSUME NEW s, NEW A, NEW phase, NEW e \in ElsOf(s), Good(setup, s, e, A, phase),
           ~ setup.show, s.els[e].leave = 0, ~ s.leaving
    PROVE  LET t == [s EXCEPT !.els[e].dom = TRUE]
           IN  /\ Good(setup, t, 0, A \cup {e}, phase)
               /\ Onward(s, t) /\ Len(t.els) = Len(s.els) /\ ~ t.leaving
<1> DEFINE t == [s EXCEPT !.els[e].dom = TRUE]
<1>1. s \in States /\ Linked(s)
  BY DEF Good
<1>2. ElemHas(s, t, e, s.els[e].classes, TRUE, s.els[e].display, s.els[e].enter, s.els[e].leave)
  BY <1>1, FieldSet
<1> HIDE DEF t
<1>3. /\ t \in States /\ Len(t.els) = Len(s.els) /\ ElsOf(t) = ElsOf(s) /\ CbsOf(t) = CbsOf(s)
      /\ \A f \in ElsOf(s) : f # e => t.els[f] = s.els[f]
      /\ t.els[e].key = s.els[e].key /\ t.els[e].dom
      /\ t.els[e].classes = s.els[e].classes
      /\ t.els[e].enter = s.els[e].enter /\ t.els[e].leave = s.els[e].leave
      /\ t.cbs = s.cbs /\ t.frames = s.frames /\ Framed(t) = Framed(s) /\ t.waits = s.waits
      /\ t.leaving = s.leaving /\ t.dirty = s.dirty /\ t.pending = s.pending
  BY <1>2 DEF ElemHas, ElemIs
<1>4. Alike(s, t)
  BY <1>3 DEF Alike
<1>5. Linked(t)
  BY <1>1, <1>3, <1>4, LinkedKept DEF Linked
<1>6. ASSUME ~ EarlyDone
      PROVE  Dressed(setup, t, 0)
  <2>1. Dressed(setup, s, e)
    BY <1>6 DEF Good
  <2>2. \A f \in ElsOf(s) : t.els[f].classes = s.els[f].classes
                            /\ t.els[f].enter = s.els[f].enter /\ t.els[f].leave = s.els[f].leave
    BY <1>3
  <2>3. ASSUME NEW f \in ElsOf(t), t.els[f].dom \/ f = 0
        PROVE  Wears(t, f)
    <3>1. s.els[f].dom \/ f = e
      BY <1>1, <1>3, <2>3, Members DEF ElsOf
    <3> QED
      BY <1>3, <2>1, <2>2, <3>1 DEF Dressed, Wears
  <2>4. ASSUME NEW d \in CbsOf(t), d \in Framed(t)
        PROVE  /\ ~ t.cbs[d].delayed
               /\ t.cbs[d].called /\ ~ t.cbs[d].cancelled =>
                     ~ t.els[t.cbs[d].el].dom /\ t.cbs[d].el # 0
    <3>1. s.cbs[d].el \in ElsOf(s) /\ s.cbs[d].el # 0
      BY <1>1, <1>3, Members DEF Linked, ElsOf
    <3> QED
      BY <1>3, <2>1, <2>4, <3>1 DEF Dressed
  <2>5. ~ setup.css => Framed(t) = {} /\ \A f \in ElsOf(t) : t.els[f].classes = {}
    BY <1>3, <2>1, <2>2 DEF Dressed
  <2> QED
    BY <1>3, <2>1, <2>3, <2>4, <2>5 DEF Dressed
<1>7. Placed(t, A \cup {e}, phase)
  <2>1. Placed(s, A, phase)
    BY DEF Good
  <2>2. \A f \in A \cup {e} : f \in ElsOf(t) /\ t.els[f].dom /\ t.els[f].leave = 0
    BY <1>3, <2>1 DEF Placed
  <2>3. \A f \in ElsOf(t) : t.els[f].dom => f \in A \cup {e} \/ t.els[f].leave # 0
    BY <1>3, <2>1 DEF Placed
  <2> QED
    BY <1>3, <2>1, <2>2, <2>3 DEF Placed
<1>8. Onward(s, t)
  <2>1. \A f \in ElsOf(s) : t.els[f].key = s.els[f].key
    BY <1>3
  <2> QED
    BY <1>1, <1>3, <2>1, Members DEF Onward
<1>9. Good(setup, t, 0, A \cup {e}, phase)
  BY <1>3, <1>5, <1>6, <1>7 DEF Good
<1> QED
  BY <1>3, <1>8, <1>9 DEF t

LEMMA Creates ==
    ASSUME NEW s, NEW A, NEW phase, Good(setup, s, 0, A, phase), ~ setup.show, ~ s.leaving,
           NEW k \in Keys, NEW old \in 0 .. Len(s.els),
           NEW e, e = Len(s.els) + 1, NEW t, t = Create(s, k, old)
    PROVE  /\ Good(setup, t, 0, A \cup {e}, phase) /\ Onward(s, t) /\ ~ t.leaving
           /\ e \in ElsOf(t) /\ e \notin ElsOf(s) /\ t.els[e].key = k
<1> DEFINE m == Made(s, k, TRUE)
           n == Enter(m, e, old)
<1>1. s \in States /\ Linked(s) /\ Len(s.els) \in Nat /\ old \in Nat /\ old < e
  BY Members DEF Good
<1>2. t = [n EXCEPT !.els[e].dom = TRUE]
  BY DEF Create
<1>3. Grown(s, m, k, TRUE)
  BY <1>1, Grows
<1> HIDE DEF m
<1>4. Good(setup, m, e, A, phase) /\ Onward(s, m)
  BY <1>3, GrownGood
<1>5. /\ e \in ElsOf(m) /\ e \notin ElsOf(s) /\ m.els[e].key = k /\ m.els[e].leave = 0
      /\ ~ m.leaving /\ Len(m.els) = e
  BY <1>3 DEF Grown
<1>6. /\ Good(setup, n, e, A, IF setup.show THEN "shown" ELSE phase)
      /\ Onward(m, n) /\ Len(n.els) = Len(m.els) /\ n.els[e].leave = 0
  BY <1>1, <1>4, <1>5, Enters
<1>7. Good(setup, n, e, A, phase)
  BY <1>6
<1> HIDE DEF n
<1>8. ~ n.leaving /\ e \in ElsOf(n)
  BY <1>5, <1>6 DEF Onward, ElsOf
<1>9. /\ Good(setup, t, 0, A \cup {e}, phase)
      /\ Onward(n, t) /\ Len(t.els) = Len(n.els) /\ ~ t.leaving
  <2> DEFINE v == [n EXCEPT !.els[e].dom = TRUE]
  <2>1. n.els[e].leave = 0
    BY <1>6
  <2>2. Good(setup, v, 0, A \cup {e}, phase)
    BY <1>7, <1>8, <2>1, PutIn
  <2>3. Onward(n, v)
    BY <1>7, <1>8, <2>1, <2>2, PutIn
  <2>4. Len(v.els) = Len(n.els)
    BY <1>7, <1>8, <2>1, <2>2, PutIn
  <2>5. ~ v.leaving
    BY <1>7, <1>8, <2>1, <2>2, PutIn
  <2> QED
    BY <1>2, <2>2, <2>3, <2>4, <2>5
<1>10. m \in States /\ n \in States /\ t \in States
  BY <1>4, <1>7, <1>9 DEF Good
<1>11. Onward(m, t) /\ Onward(s, t)
  BY <1>1, <1>4, <1>6, <1>9, <1>10, Further
<1>12. e \in ElsOf(t) /\ t.els[e].key = k
  BY <1>5, <1>6, <1>9, <1>11 DEF Onward, ElsOf
<1> QED
  BY <1>5, <1>9, <1>11, <1>12

\* An element of the same key that still leaves goes at once.
LEMMA Hooks ==
    ASSUME NEW s, NEW A, NEW phase, Good(setup, s, 0, A, phase), ~ setup.show,
           NEW e \in ElsOf(s)
    PROVE  Good(setup, InsertHook(s, e), 0, A, phase) /\ Onward(s, InsertHook(s, e))
<1> DEFINE p == s.pending[s.els[e].key]
           c == s.els[p].leave
<1>1. s \in States /\ Linked(s) /\ s.els[e].key \in Keys
  BY Members DEF Good, Elem
<1>2. Onward(s, s)
  BY <1>1, Further
<1>3. CASE (~ mounted /\ ~ setup.appear) \/ p = 0 \/ c = 0
  BY <1>2, <1>3 DEF InsertHook
<1>4. CASE ~ ((~ mounted /\ ~ setup.appear) \/ p = 0 \/ c = 0)
  <2>1. InsertHook(s, e) = LeaveCb(s, c)
    BY <1>4 DEF InsertHook
  <2>2. p \in ElsOf(s) /\ p # 0
    BY <1>1, <1>4, Members DEF Linked, ElsOf
  <2> HIDE DEF p
  <2>3. /\ c \in CbsOf(s) /\ s.cbs[c].side = "leave" /\ ~ s.cbs[c].called
        /\ s.cbs[c].el = p
    BY <1>1, <1>4, <2>2 DEF Linked, IsOpen
  <2> HIDE DEF c
  <2>4. /\ Good(setup, LeaveCb(s, c), 0, A,
                IF setup.show /\ s.cbs[c].cancelled THEN "between" ELSE phase)
        /\ Onward(s, LeaveCb(s, c))
    BY <2>2, <2>3, EndLeave
  <2> QED
    BY <2>1, <2>4
<1> QED
  BY <1>3, <1>4

-----------------------------------------------------------------------------
(* A render *)

\* Only the two flags of the component differ.
LEMMA FlagsSet ==
    ASSUME NEW s, NEW A, NEW phase, Good(setup, s, 0, A, phase)
    PROVE  /\ LET t == [s EXCEPT !.dirty = FALSE]
              IN  /\ Good(setup, t, 0, A, phase)
                  /\ t.els = s.els /\ ElsOf(t) = ElsOf(s) /\ t.leaving = s.leaving
           /\ LET t == [s EXCEPT !.leaving = TRUE]
              IN  /\ ~ setup.show => Good(setup, t, 0, A, "resume")
                  /\ t.els = s.els /\ ElsOf(t) = ElsOf(s) /\ t.leaving
<1> DEFINE t1 == [s EXCEPT !.dirty = FALSE]
           t2 == [s EXCEPT !.leaving = TRUE]
           Same(t) == /\ t \in States /\ t.els = s.els /\ t.cbs = s.cbs /\ t.frames = s.frames
                      /\ t.waits = s.waits /\ t.pending = s.pending
<1>1. s \in States /\ Linked(s)
  BY DEF Good
<1>2. Same(t1) /\ Same(t2) /\ t1.leaving = s.leaving /\ t2.leaving
  <2>1. \A b \in BOOLEAN : LET u == [s EXCEPT !.dirty = b]
                               v == [s EXCEPT !.leaving = b]
                           IN  Same(u) /\ Same(v) /\ u.leaving = s.leaving /\ v.leaving = b
    BY <1>1 DEF States
  <2> QED
    BY <2>1
<1> HIDE DEF t1, t2
<1>3. ASSUME NEW t, Same(t)
      PROVE  /\ ElsOf(t) = ElsOf(s) /\ CbsOf(t) = CbsOf(s)
             /\ Linked(t)
             /\ Dressed(setup, s, 0) => Dressed(setup, t, 0)
  <2>1. ElsOf(t) = ElsOf(s) /\ CbsOf(t) = CbsOf(s) /\ Framed(t) = Framed(s)
    BY <1>3 DEF ElsOf, CbsOf, Framed
  <2>2. Alike(s, t)
    BY <1>3, <2>1 DEF Alike
  <2>3. Linked(t)
    BY <1>1, <1>3, <2>1, <2>2, LinkedKept DEF Linked
  <2>4. Dressed(setup, s, 0) => Dressed(setup, t, 0)
    BY <1>3, <2>1 DEF Dressed, Wears
  <2> QED
    BY <2>1, <2>3, <2>4
<1>4. Good(setup, t1, 0, A, phase)
  <2>1. Displayed(s, phase) => Displayed(t1, phase)
    BY <1>2, <1>3 DEF Displayed
  <2>2. Placed(s, A, phase) => Placed(t1, A, phase)
    BY <1>2, <1>3 DEF Placed
  <2> QED
    BY <1>2, <1>3, <2>1, <2>2 DEF Good
<1>5. ~ setup.show => Good(setup, t2, 0, A, "resume")
  <2>1. Placed(s, A, phase) => Placed(t2, A, "resume")
    BY <1>2, <1>3 DEF Placed
  <2> QED
    BY <1>2, <1>3, <2>1 DEF Good
<1> QED
  BY <1>2, <1>3, <1>4, <1>5 DEF t1, t2

At(e) == IF e = 0 THEN {} ELSE {e}

\* After a render the element e is the child, and it is the one that was asked for,
\* or there is to be another render.
Answers(s, e) ==
    s.dirty \/ IF want = None THEN e = 0 ELSE IF e = 0 THEN s.leaving ELSE s.els[e].key = want

LEMMA Removes ==
    ASSUME NEW s, NEW A, NEW phase, Good(setup, s, 0, A, phase), ~ setup.show,
           NEW e, e = 0 \/ e \in A, NEW how \in {"now", "delay"}
    PROVE  /\ Good(setup, Remove(s, e, how), 0, A \ {e}, phase)
           /\ Onward(s, Remove(s, e, how))
<1>1. s \in States /\ Placed(s, A, phase) /\ 0 \notin ElsOf(s)
  BY DEF Good, ElsOf
<1>2. CASE e = 0
  <2>1. A \ {e} = A
    BY <1>1, <1>2 DEF Placed
  <2> QED
    BY <1>1, <1>2, <2>1, Further DEF Remove
<1>3. CASE e # 0
  <2>1. e \in ElsOf(s) /\ s.els[e].leave = 0 /\ Remove(s, e, how) = Leave(s, e, how)
    BY <1>1, <1>3 DEF Placed, Remove
  <2>2. phase = IF setup.show THEN "hidden" ELSE IF how = "resume" THEN "steady" ELSE phase
    OBVIOUS
  <2> QED
    BY <2>1, <2>2, Leaves
<1> QED
  BY <1>2, <1>3

LEMMA RendersChild ==
    ASSUME NEW s, Good(setup, s, 0, At(current), "steady"), ~ setup.show,
           s.els = els, want \in Keys \cup {None}, current \in Nat, RenderChild(s)
    PROVE  \E t \in States, e \in Nat :
              Good(setup, t, 0, At(e), "steady") /\ Answers(t, e) /\ Showing(t, e)
<1> DEFINE n == Len(s.els) + 1
           replaces == current # 0 /\ want # None /\ els[current].key # want
           how == IF replaces /\ setup.mode = "in-out" THEN "delay" ELSE "now"
           old == IF how = "delay" THEN current ELSE 0
           created == Create(s, want, old)
           halted == [s EXCEPT !.leaving = TRUE]
<1>1. s \in States /\ Placed(s, At(current), "steady") /\ Len(s.els) \in Nat
  BY Members DEF Good
<1>2. current # 0 => current \in ElsOf(s) /\ s.els[current].leave = 0
  BY <1>1 DEF Placed, At
<1>3. current = 0 \/ current \in At(current)
  BY DEF At
<1>4. At(current) \ {current} = {} /\ At(0) = {}
  BY DEF At
<1>5. CASE want = None \/ s.leaving
  <2> DEFINE t == Remove(s, current, "now")
  <2>1. Good(setup, t, 0, At(current) \ {current}, "steady") /\ Onward(s, t)
    BY <1>3, Removes
  <2>2. Showing(t, 0)
    BY <1>5 DEF RenderChild
  <2> HIDE DEF t
  <2>3. t \in States /\ Good(setup, t, 0, At(0), "steady")
    BY <1>4, <2>1 DEF Good
  <2>4. Answers(t, 0)
    BY <1>5, <2>1 DEF Answers, Onward
  <2> QED
    BY <2>2, <2>3, <2>4
<1>6. CASE ~ (want = None \/ s.leaving) /\ replaces /\ setup.mode = "out-in"
  <2> DEFINE t == Remove(halted, current, "resume")
  <2>1. Showing(t, 0)
    BY <1>6 DEF RenderChild
  <2>2. t = Leave(halted, current, "resume")
    BY <1>6 DEF Remove
  <2>3. /\ Good(setup, halted, 0, At(current), "resume")
        /\ halted.els = s.els /\ ElsOf(halted) = ElsOf(s) /\ halted.leaving
    BY FlagsSet
  <2> HIDE DEF halted, t
  <2>4. /\ current \in ElsOf(halted) /\ halted.els[current].leave = 0
        /\ At(current) \subseteq {current}
    BY <1>2, <1>6, <2>3 DEF At
  <2>5. Good(setup, t, 0, At(current) \ {current}, "steady") /\ Onward(halted, t)
    <3> DEFINE next == IF setup.show THEN "hidden"
                       ELSE IF "resume" = "resume" THEN "steady" ELSE "resume"
    <3>1. next = "steady"
      OBVIOUS
    <3>2. setup.show => "resume" = "now"
      OBVIOUS
    <3> QED
      BY <2>2, <2>3, <2>4, <3>1, <3>2, Leaves
  <2>6. t \in States /\ Good(setup, t, 0, At(0), "steady")
    BY <1>4, <2>5 DEF Good
  <2>7. Answers(t, 0)
    BY <2>3, <2>5 DEF Answers, Onward
  <2> QED
    BY <2>1, <2>6, <2>7
<1>7. CASE ~ (want = None \/ s.leaving) /\ ~ (replaces /\ setup.mode = "out-in")
           /\ (replaces \/ current = 0)
  <2> DEFINE u == Remove(created, current, how)
             t == InsertHook(u, n)
  <2>1. Showing(t, n)
    BY <1>7 DEF RenderChild
  <2>2. how \in {"now", "delay"} /\ want \in Keys /\ n \in Nat \ {0} /\ At(n) = {n}
    BY <1>1, <1>7 DEF At
  <2>3. old \in 0 .. Len(s.els)
    BY <1>1, <1>2 DEF ElsOf
  <2>0. ~ s.leaving
    BY <1>7
  <2> HIDE DEF how, old, replaces
  <2>4. /\ Good(setup, created, 0, At(current) \cup {n}, "steady")
        /\ Onward(s, created) /\ ~ created.leaving
        /\ n \in ElsOf(created) /\ n \notin ElsOf(s) /\ created.els[n].key = want
    <3> DEFINE B == At(current)
    <3>1. Good(setup, s, 0, B, "steady")
      OBVIOUS
    <3> HIDE DEF B, created
    <3>2. n = Len(s.els) + 1 /\ created = Create(s, want, old)
      BY DEF created
    <3> HIDE DEF n
    <3>3. Good(setup, created, 0, B \cup {n}, "steady")
      BY <2>0, <2>2, <2>3, <3>1, <3>2, Creates
    <3>4. Onward(s, created) /\ ~ created.leaving
      BY <2>0, <2>2, <2>3, <3>1, <3>2, <3>3, Creates
    <3>5. n \in ElsOf(created) /\ n \notin ElsOf(s)
      BY <2>0, <2>2, <2>3, <3>1, <3>2, <3>3, Creates
    <3>6. created.els[n].key = want
      BY <2>0, <2>2, <2>3, <3>1, <3>2, <3>3, Creates
    <3> QED
      BY <3>3, <3>4, <3>5, <3>6 DEF B
  <2> HIDE DEF created
  <2>5. /\ Good(setup, u, 0, (At(current) \cup {n}) \ {current}, "steady")
        /\ Onward(created, u)
    <3> DEFINE B == At(current) \cup {n}
    <3>1. current = 0 \/ current \in B
      BY <1>3
    <3>2. Good(setup, created, 0, B, "steady")
      BY <2>4
    <3> HIDE DEF B
    <3>3. Good(setup, u, 0, B \ {current}, "steady") /\ Onward(created, u)
      BY <2>2, <3>1, <3>2, Removes
    <3> QED
      BY <3>3 DEF B
  <2>6. (At(current) \cup {n}) \ {current} = {n}
    BY <1>2, <2>2, <2>4 DEF At
  <2> HIDE DEF u, n
  <2>7. created \in States /\ u \in States
    BY <2>4, <2>5 DEF Good
  <2>8. n \in ElsOf(u) /\ u.els[n].key = want
    BY <2>4, <2>5, <2>7, Members DEF Onward, ElsOf
  <2>9. Good(setup, t, 0, {n}, "steady") /\ Onward(u, t)
    BY <2>5, <2>6, <2>8, Hooks
  <2> HIDE DEF t
  <2>10. t \in States /\ Good(setup, t, 0, At(n), "steady") /\ Answers(t, n)
    BY <1>7, <2>2, <2>8, <2>9 DEF Good, Answers, Onward
  <2> QED
    BY <2>1, <2>2, <2>10
<1>8. CASE ~ (want = None \/ s.leaving) /\ ~ (replaces \/ current = 0)
  <2>1. Showing(s, current)
    BY <1>8 DEF RenderChild
  <2>2. Answers(s, current)
    BY <1>8 DEF Answers
  <2> QED
    BY <1>1, <2>1, <2>2
<1> QED
  BY <1>5, <1>6, <1>7, <1>8

\* The child of v-show is made and put into the page ...
LEMMA ShowMade ==
    ASSUME NEW s, NEW A, NEW phase, Good(setup, s, 0, A, phase), setup.show, s.els = <<>>
    PROVE  LET b == [Made(s, TheKey, Shown) EXCEPT !.els[1].dom = TRUE]
           IN  /\ Good(setup, b, 0, A, IF Shown THEN "shown" ELSE "hidden")
               /\ Len(b.els) = 1 /\ ElsOf(b) = {1} /\ CbsOf(b) = {}
<1> DEFINE m == Made(s, TheKey, Shown)
           b == [m EXCEPT !.els[1].dom = TRUE]
           next == IF Shown THEN "shown" ELSE "hidden"
<1>1. s \in States /\ Linked(s) /\ Displayed(s, phase) /\ Len(s.els) = 0 /\ ElsOf(s) = {}
  BY DEF Good, ElsOf
<1>2. CbsOf(s) = {} /\ Framed(s) = {}
  BY <1>1 DEF Linked
<1>3. TheKey \in Keys /\ Shown \in BOOLEAN
  BY TransitionAssumption DEF TheKey, Shown
<1>4. Grown(s, m, TheKey, Shown)
  BY <1>1, <1>3, Grows
<1>5. Linked(m)
  BY <1>1, <1>4, GrownLinked
<1> HIDE DEF m
<1>6. /\ m \in States /\ Len(m.els) = 1 /\ ElsOf(m) = {1} /\ CbsOf(m) = {}
      /\ m.els[1].display = Shown /\ m.els[1].classes = {}
      /\ m.els[1].enter = 0 /\ m.els[1].leave = 0
      /\ m.frames = s.frames /\ Framed(m) = {} /\ ~ m.leaving
  <2>1. Len(s.els) + 1 = 1
    BY <1>1
  <2> QED
    BY <1>1, <1>2, <1>4, <2>1 DEF Grown, Displayed
<1>7. ElemHas(m, b, 1, {}, TRUE, Shown, 0, 0)
  BY <1>6, FieldSet
<1> HIDE DEF b
<1>8. /\ b \in States /\ Len(b.els) = 1 /\ ElsOf(b) = {1} /\ CbsOf(b) = {}
      /\ b.els[1].dom /\ b.els[1].display = Shown /\ b.els[1].classes = {}
      /\ b.els[1].enter = 0 /\ b.els[1].leave = 0
      /\ b.els[1].key = m.els[1].key
      /\ b.cbs = m.cbs /\ b.frames = m.frames /\ Framed(b) = {} /\ b.waits = m.waits
      /\ b.pending = m.pending /\ ~ b.leaving
  BY <1>6, <1>7 DEF ElemHas, ElemIs
<1>9. Linked(b)
  <2>1. Alike(m, b)
    BY <1>6, <1>8 DEF Alike
  <2> QED
    BY <1>5, <1>6, <1>8, <2>1, LinkedKept DEF Linked
<1>10. ASSUME ~ EarlyDone
       PROVE  Dressed(setup, b, 0)
  <2>1. Dressed(setup, s, 0)
    BY <1>10 DEF Good
  <2>2. Wears(b, 1)
    BY <1>8 DEF Wears
  <2> QED
    BY <1>6, <1>8, <2>1, <2>2 DEF Dressed
<1>11. Displayed(b, next)
  BY <1>8 DEF Displayed
<1>12. Good(setup, b, 0, A, next)
  BY <1>8, <1>9, <1>10, <1>11 DEF Good
<1> QED
  BY <1>8, <1>12 DEF b, m

\* ... and displayed or not.
LEMMA Binds ==
    ASSUME NEW s, NEW A, NEW phase, Good(setup, s, 0, A, phase), setup.show, s.els = <<>>,
           BindShow(s)
    PROVE  \E t \in States :
              /\ Good(setup, t, 0, A, IF Shown THEN "shown" ELSE "hidden")
              /\ Len(t.els) = 1 /\ Showing(t, 1)
<1> DEFINE m == Made(s, TheKey, Shown)
           b == [m EXCEPT !.els[1].dom = TRUE]
           next == IF Shown THEN "shown" ELSE "hidden"
<1>1. Good(setup, b, 0, A, next) /\ Len(b.els) = 1 /\ ElsOf(b) = {1}
  BY ShowMade
<1> HIDE DEF b
<1>2. b \in States
  BY <1>1 DEF Good
<1>3. CASE Shown
  <2> DEFINE t == Enter(b, 1, 0)
  <2>1. Good(setup, b, 0, A, "shown")
    BY <1>1, <1>3
  <2>2. 1 \in ElsOf(b) /\ 0 \in Nat /\ 0 < 1
    BY <1>1
  <2>3. /\ Good(setup, t, 0, A, IF setup.show THEN "shown" ELSE "shown")
        /\ Onward(b, t) /\ Len(t.els) = Len(b.els) /\ t.els[1].leave = 0
    BY <2>1, <2>2, Enters
  <2>4. Showing(t, 1)
    BY <1>3 DEF BindShow, b, m
  <2> HIDE DEF t
  <2> QED
    BY <1>1, <1>3, <2>3, <2>4 DEF Good
<1>4. CASE ~ Shown
  <2>1. Showing(b, 1)
    BY <1>4 DEF BindShow, b, m
  <2> QED
    BY <1>1, <1>2, <1>4, <2>1
<1> QED
  BY <1>3, <1>4

LEMMA Updates ==
    ASSUME NEW s, NEW A, Good(setup, s, 0, A, IF showing THEN "shown" ELSE "hidden"),
           setup.show, mounted, showing \in BOOLEAN, Len(s.els) = 1, UpdateShow(s)
    PROVE  \E t \in States : \E B :
              /\ Good(setup, t, 0, B, IF Shown THEN "shown" ELSE "hidden")
              /\ Len(t.els) = 1 /\ Showing(t, 1)
<1>1. s \in States /\ 1 \in ElsOf(s)
  BY DEF Good, ElsOf
<1>2. Shown \in BOOLEAN
  BY DEF Shown
<1>3. CASE showing = Shown
  <2>1. Showing(s, 1)
    BY <1>3 DEF UpdateShow
  <2> QED
    BY <1>1, <1>3, <2>1
<1>4. CASE showing # Shown /\ Shown
  <2> DEFINE t == Enter(s, 1, 0)
  <2>1. Good(setup, s, 0, A, "hidden")
    BY <1>2, <1>4
  <2>2. 0 \in Nat /\ 0 < 1
    OBVIOUS
  <2>3. /\ Good(setup, t, 0, A, IF setup.show THEN "shown" ELSE "hidden")
        /\ Onward(s, t) /\ Len(t.els) = Len(s.els) /\ t.els[1].leave = 0
    BY <1>1, <2>1, <2>2, Enters
  <2>4. Showing(t, 1)
    BY <1>4 DEF UpdateShow
  <2> HIDE DEF t
  <2> QED
    BY <1>4, <2>3, <2>4 DEF Good
<1>5. CASE showing # Shown /\ ~ Shown
  <2> DEFINE t == Leave(s, 1, "now")
             next == IF setup.show THEN "hidden"
                     ELSE IF "now" = "resume" THEN "steady" ELSE "shown"
  <2>1. Good(setup, s, 0, A, "shown")
    BY <1>2, <1>5
  <2>2. s.els[1].leave = 0
    BY <1>1, <2>1 DEF Good, Displayed
  <2>3. next = "hidden"
    OBVIOUS
  <2>4. "now" = "resume" => A \subseteq {1}
    OBVIOUS
  <2>5. Good(setup, t, 0, A \ {1}, "hidden") /\ Onward(s, t)
    BY <1>1, <2>1, <2>2, <2>3, <2>4, Leaves
  <2>6. Showing(t, 1)
    BY <1>5 DEF UpdateShow
  <2> HIDE DEF t
  <2>7. t \in States /\ ElsOf(t) \subseteq {1} /\ 1 <= Len(t.els)
    BY <1>1, <2>5, Members DEF Good, Displayed, Onward
  <2>8. Len(t.els) = 1
    <3>1. Len(t.els) \in Nat
      BY <2>7, Members
    <3>2. Len(t.els) \in ElsOf(t)
      BY <2>7, <3>1 DEF ElsOf
    <3> QED
      BY <2>7, <3>2
  <2> QED
    BY <1>5, <2>5, <2>6, <2>7, <2>8
<1> QED
  BY <1>2, <1>3, <1>4, <1>5

-----------------------------------------------------------------------------
(* A frame and an end *)

\* The next frame no longer waits for its callback.
LEMMA FramePopped ==
    ASSUME NEW s \in States, s.frames # <<>>
    PROVE  LET t == [s EXCEPT !.frames = Tail(@)] IN
           /\ t \in States /\ t.els = s.els /\ t.cbs = s.cbs /\ t.waits = s.waits
           /\ t.pending = s.pending /\ t.leaving = s.leaving /\ t.dirty = s.dirty
           /\ Head(s.frames) \in Framed(s)
           /\ Framed(t) \subseteq Framed(s)
           /\ \A c \in Framed(s) : c # Head(s.frames) => c \in Framed(t)
           /\ Once(s) => Once(t) /\ Head(s.frames) \notin Framed(t)
<1> DEFINE q == Tail(s.frames)
           t == [s EXCEPT !.frames = q]
           n == Len(s.frames)
<1>1. /\ s.frames \in Seq(Nat) /\ n \in Nat \ {0} /\ Head(s.frames) = s.frames[1]
  BY EmptySeq DEF States
<1>2. /\ q \in Seq(Nat) /\ Len(q) = n - 1
      /\ \A i \in 1 .. Len(q) : q[i] = s.frames[i + 1]
  BY <1>1, HeadTailProperties
<1> HIDE DEF q
<1>3. /\ t \in States /\ t.frames = q /\ t.els = s.els /\ t.cbs = s.cbs /\ t.waits = s.waits
      /\ t.pending = s.pending /\ t.leaving = s.leaving /\ t.dirty = s.dirty
  BY <1>2 DEF States
<1> HIDE DEF t
<1>4. \A i \in 1 .. Len(q) : i + 1 \in 1 .. n /\ i + 1 # 1 /\ q[i] = s.frames[i + 1]
  BY <1>1, <1>2
<1> HIDE DEF n
<1>5. Framed(t) \subseteq Framed(s)
  BY <1>3, <1>4 DEF Framed, n
<1>6. Head(s.frames) \in Framed(s)
  BY <1>1 DEF Framed, n
<1>7. ASSUME NEW c \in Framed(s), c # Head(s.frames)
      PROVE  c \in Framed(t)
  <2>1. PICK i \in 1 .. n : c = s.frames[i]
    BY DEF Framed, n
  <2>2. i # 1 /\ i - 1 \in 1 .. Len(q) /\ q[i - 1] = s.frames[i]
    BY <1>1, <1>2, <1>7, <2>1
  <2> QED
    BY <1>3, <2>1, <2>2 DEF Framed
<1>8. ASSUME Once(s)
      PROVE  Once(t) /\ Head(s.frames) \notin Framed(t)
  <2>1. 1 \in 1 .. n
    BY <1>1
  <2>2. \A i \in 1 .. Len(q) : q[i] # s.frames[1]
    BY <1>4, <1>8, <2>1 DEF n, Once
  <2>3. ASSUME NEW i \in 1 .. Len(q), NEW j \in 1 .. Len(q), q[i] = q[j]
        PROVE  i = j
    <3>1. s.frames[i + 1] = s.frames[j + 1]
      BY <1>4, <2>3
    <3>2. i + 1 = j + 1
      BY <1>4, <1>8, <3>1 DEF n, Once
    <3> QED
      BY <3>2
  <2> QED
    BY <1>1, <1>3, <2>2, <2>3 DEF Framed, Once
<1> QED
  BY <1>3, <1>5, <1>6, <1>7, <1>8 DEF t, q

\* The next frame is for the callback c, of the element e: the first class goes,
\* and then the last one comes.
FrameMoves(s, c, e, side, started, to) ==
    /\ s.frames # <<>>
    /\ c = Head(s.frames) /\ e = s.cbs[c].el /\ side = s.cbs[c].side
    /\ started = RemoveClasses([s EXCEPT !.frames = Tail(@)], e, {side})
    /\ to = AddClasses(started, e, {IF side = "enter" THEN "enter-to" ELSE "leave-to"})

LEMMA Framing ==
    ASSUME NEW s, NEW A, NEW phase, Good(setup, s, 0, A, phase),
           NEW c, NEW e, NEW side, NEW started, NEW to, FrameMoves(s, c, e, side, started, to)
    PROVE  /\ Good(setup, started, 0, A, phase) /\ Onward(s, started)
           /\ ~ s.cbs[c].cancelled => Good(setup, to, 0, A, phase) /\ Onward(s, to)
           /\ c \in CbsOf(to) /\ to.cbs = s.cbs
           /\ EarlyDone \/ c \notin Framed(to)
<1> DEFINE popped == [s EXCEPT !.frames = Tail(@)]
           last == IF side = "enter" THEN "enter-to" ELSE "leave-to"
<1>0. /\ s.frames # <<>>
      /\ c = Head(s.frames) /\ e = s.cbs[c].el /\ side = s.cbs[c].side
  BY DEF FrameMoves
<1>3. started = RemoveClasses(popped, e, {side}) /\ to = AddClasses(started, e, {last})
  BY DEF FrameMoves
<1>1. s \in States /\ Linked(s)
  BY DEF Good
<1>2. /\ popped \in States /\ popped.els = s.els /\ popped.cbs = s.cbs
      /\ popped.waits = s.waits /\ popped.pending = s.pending
      /\ popped.leaving = s.leaving /\ popped.dirty = s.dirty
      /\ c \in Framed(s) /\ Framed(popped) \subseteq Framed(s)
      /\ \A d \in Framed(s) : d # c => d \in Framed(popped)
      /\ Once(s) => Once(popped) /\ c \notin Framed(popped)
  BY <1>0, <1>1, FramePopped
<1> HIDE DEF popped
<1>4. c \in CbsOf(s) /\ e \in ElsOf(s) /\ s.cbs[c] \in Cb
  BY <1>0, <1>1, <1>2, Members DEF Linked
<1>5. side \in {"enter", "leave"}
  BY <1>0, <1>4 DEF Cb
<1>6. ElsOf(popped) = ElsOf(s) /\ CbsOf(popped) = CbsOf(s)
  BY <1>2 DEF ElsOf, CbsOf
<1>7. {side} \in SUBSET Classes /\ {last} \in SUBSET Classes
  BY <1>5 DEF Classes
<1> DEFINE x == s.els[e]
<1>8. ElemHas(popped, started, e, IF setup.css THEN x.classes \ {side} ELSE x.classes,
              x.dom, x.display, x.enter, x.leave)
  BY <1>2, <1>3, <1>4, <1>6, <1>7, ClassesRemoved
<1>9. started \in States /\ e \in ElsOf(started)
  BY <1>4, <1>6, <1>8 DEF ElemHas, ElemIs
<1>10. ElemHas(started, to, e,
               IF setup.css THEN started.els[e].classes \cup {last} ELSE started.els[e].classes,
               started.els[e].dom, started.els[e].display, started.els[e].enter,
               started.els[e].leave)
  BY <1>3, <1>7, <1>9, ClassesAdded
<1> DEFINE Same(t) == /\ t \in States
                      /\ ElsOf(t) = ElsOf(s) /\ Len(t.els) = Len(s.els)
                      /\ \A f \in ElsOf(s) : f # e => t.els[f] = s.els[f]
                      /\ t.els[e].key = x.key /\ t.els[e].dom = x.dom
                      /\ t.els[e].display = x.display
                      /\ t.els[e].enter = x.enter /\ t.els[e].leave = x.leave
                      /\ t.cbs = s.cbs /\ CbsOf(t) = CbsOf(s)
                      /\ t.frames = popped.frames /\ Framed(t) = Framed(popped)
                      /\ t.waits = s.waits /\ t.pending = s.pending
                      /\ t.leaving = s.leaving /\ t.dirty = s.dirty
<1>11. Same(started)
  BY <1>2, <1>6, <1>8 DEF ElemHas, ElemIs
<1>12. Same(to)
  <2>1. \A f \in ElsOf(s) : f # e => to.els[f] = started.els[f]
    BY <1>10, <1>11 DEF ElemHas, ElemIs
  <2>2. /\ to.els[e].key = x.key /\ to.els[e].dom = x.dom /\ to.els[e].display = x.display
        /\ to.els[e].enter = x.enter /\ to.els[e].leave = x.leave
    BY <1>10, <1>11 DEF ElemHas
  <2>3. /\ to \in States /\ ElsOf(to) = ElsOf(s) /\ Len(to.els) = Len(s.els)
        /\ to.cbs = s.cbs /\ CbsOf(to) = CbsOf(s)
        /\ to.frames = popped.frames /\ Framed(to) = Framed(popped)
        /\ to.waits = s.waits /\ to.pending = s.pending
        /\ to.leaving = s.leaving /\ to.dirty = s.dirty
    <3> HIDE DEF x
    <3> QED
      BY <1>10, <1>11 DEF ElemHas, ElemIs
  <2> HIDE DEF x
  <2>4. \A f \in ElsOf(s) : f # e => to.els[f] = s.els[f]
    <3>1. \A f \in ElsOf(s) : f # e => started.els[f] = s.els[f]
      BY <1>11
    <3>2. ASSUME NEW f \in ElsOf(s), f # e
          PROVE  to.els[f] = s.els[f]
      BY <2>1, <3>1, <3>2
    <3> HIDE DEF Same
    <3> QED
      BY <3>2
  <2> QED
    BY <2>2, <2>3, <2>4
<1>13. /\ started.els[e].classes = IF setup.css THEN x.classes \ {side} ELSE x.classes
       /\ to.els[e].classes = IF setup.css THEN (x.classes \ {side}) \cup {last}
                              ELSE x.classes
  BY <1>8, <1>10 DEF ElemHas
<1> HIDE DEF x, last
<1>14. ASSUME NEW t, Same(t)
       PROVE  /\ Linked(t) /\ Onward(s, t)
              /\ Displayed(s, phase) => Displayed(t, phase)
              /\ Placed(s, A, phase) => Placed(t, A, phase)
  <2>1. Alike(s, t)
    <3>1. \A f \in ElsOf(s) : /\ t.els[f].key = s.els[f].key
                              /\ t.els[f].enter = s.els[f].enter
                              /\ t.els[f].leave = s.els[f].leave
      BY <1>14 DEF x
    <3> QED
      BY <1>14, <3>1 DEF Alike
  <2>2. Framed(t) \subseteq CbsOf(s)
    BY <1>1, <1>2, <1>14 DEF Linked
  <2>10. /\ \A k \in Keys : t.pending[k] \in 0 .. Len(s.els)
         /\ \A d \in t.waits : d \in CbsOf(s) /\ ~ s.cbs[d].called
    BY <1>1, <1>14 DEF Linked
  <2>3. Linked(t)
    BY <1>1, <2>1, <2>2, <2>10, LinkedKept
  <2>4. Onward(s, t)
    <3>1. \A f \in ElsOf(s) : t.els[f].key = s.els[f].key
      BY <1>14 DEF x
    <3>2. Len(t.els) = Len(s.els) /\ t.leaving = s.leaving /\ t.dirty = s.dirty
      BY <1>14
    <3>3. Len(s.els) \in Nat
      BY <1>1, Members
    <3> QED
      BY <3>1, <3>2, <3>3 DEF Onward
  <2>5. \A f \in ElsOf(s) : t.els[f].dom = s.els[f].dom /\ t.els[f].display = s.els[f].display
    BY <1>14 DEF x
  <2>6. \A d \in CbsOf(s) : t.cbs[d].cancelled = s.cbs[d].cancelled
    BY <1>14
  <2>7. t.leaving = s.leaving
    BY <1>14
  <2>8. Displayed(s, phase) => Displayed(t, phase)
    BY <2>1, <2>5, <2>6, <2>7, DisplayedKept
  <2>9. Placed(s, A, phase) => Placed(t, A, phase)
    BY <2>1, <2>5, <2>6, <2>7, PlacedKept
  <2> QED
    BY <2>3, <2>4, <2>8, <2>9
<1>15. ASSUME NEW t, Same(t), EarlyDone \/ Dressed(setup, t, 0)
       PROVE  Good(setup, t, 0, A, phase)
  BY <1>14, <1>15 DEF Good
<1>16. ASSUME ~ EarlyDone
       PROVE  /\ c \notin Framed(popped)
              /\ Dressed(setup, started, 0)
              /\ ~ s.cbs[c].cancelled => Dressed(setup, to, 0)
  <2>1. Dressed(setup, s, 0)
    BY <1>16 DEF Good
  <2>2. Once(popped) /\ c \notin Framed(popped) /\ setup.css
    BY <1>2, <2>1 DEF Dressed, Once
  <2>3. ASSUME NEW t, Same(t), t.els[e].dom => Wears(t, e)
        PROVE  Dressed(setup, t, 0)
    <3>1. ASSUME NEW f \in ElsOf(t), t.els[f].dom \/ f = 0
          PROVE  Wears(t, f)
      <4>0. f \in ElsOf(s) /\ 0 \notin ElsOf(s)
        <5>1. ElsOf(t) = ElsOf(s)
          BY <2>3
        <5> QED
          BY <3>1, <5>1 DEF ElsOf
      <4>1. f \in ElsOf(s) /\ f # 0 /\ t.els[f].dom
        BY <3>1, <4>0
      <4>2. CASE f = e
        BY <2>3, <4>1, <4>2
      <4>3. CASE f # e
        <5>1. t.els[f] = s.els[f] /\ s.els[f].dom
          BY <2>3, <4>1, <4>3
        <5>2. Wears(s, f)
          BY <2>1, <4>1, <5>1 DEF Dressed
        <5>3. s.els[f].enter # c /\ s.els[f].leave # c
          <6>1. c # 0
            BY <1>4, <1>1, Members DEF CbsOf
          <6>2. /\ s.els[f].enter # 0 => IsOpen(s, s.els[f].enter, f, "enter")
                /\ s.els[f].leave # 0 => IsOpen(s, s.els[f].leave, f, "leave")
            BY <1>1, <4>1 DEF Linked
          <6> QED
            BY <1>0, <4>3, <6>1, <6>2 DEF IsOpen
        <5> QED
          BY <1>2, <2>3, <5>1, <5>2, <5>3 DEF Wears
      <4> QED
        BY <4>2, <4>3
    <3>2. ASSUME NEW d \in CbsOf(t), d \in Framed(t)
          PROVE  /\ ~ t.cbs[d].delayed
                 /\ t.cbs[d].called /\ ~ t.cbs[d].cancelled =>
                       ~ t.els[t.cbs[d].el].dom /\ t.cbs[d].el # 0
      <4>1. d \in Framed(s) /\ d \in CbsOf(s) /\ t.cbs[d] = s.cbs[d]
        BY <1>2, <2>3, <3>2
      <4>2. s.cbs[d].el \in ElsOf(s)
        BY <1>1, <4>1 DEF Linked
      <4>3. t.els[s.cbs[d].el].dom = s.els[s.cbs[d].el].dom
        BY <2>3, <4>2 DEF x
      <4> QED
        BY <2>1, <4>1, <4>3 DEF Dressed
    <3>3. Once(t)
      BY <2>2, <2>3 DEF Once
    <3> QED
      BY <2>2, <3>1, <3>2, <3>3 DEF Dressed, Once
  <2>4. ASSUME x.dom
        PROVE  Wears(s, e)
    BY <1>4, <2>1, <2>4 DEF Dressed, x
  <2>6. /\ x.enter # 0 => IsOpen(s, x.enter, e, "enter")
        /\ x.leave # 0 => IsOpen(s, x.leave, e, "leave")
        /\ x.enter = 0 \/ x.leave = 0
        /\ ~ s.cbs[c].called /\ side = "enter" => x.enter = c
        /\ ~ s.cbs[c].called /\ side = "leave" => x.leave = c
        /\ c # 0
    <3>1. c # 0
      BY <1>4 DEF CbsOf
    <3>2. /\ x.enter # 0 => IsOpen(s, x.enter, e, "enter")
          /\ x.leave # 0 => IsOpen(s, x.leave, e, "leave")
          /\ x.enter = 0 \/ x.leave = 0
      BY <1>1, <1>4 DEF Linked, x
    <3>3. /\ ~ s.cbs[c].called /\ side = "enter" => x.enter = c
          /\ ~ s.cbs[c].called /\ side = "leave" => x.leave = c
      BY <1>0, <1>1, <1>4 DEF Linked, x
    <3> QED
      BY <3>1, <3>2, <3>3
  <2>7. ASSUME x.dom
        PROVE  Wears(started, e)
    <3>1. started.els[e].classes = x.classes \ {side}
      BY <1>13, <2>2
    <3>2. "enter" \in started.els[e].classes => x.enter \in Framed(started)
      BY <1>0, <1>2, <1>5, <1>11, <2>4, <2>6, <2>7, <3>1 DEF Wears, IsOpen, x
    <3>3. "leave" \in started.els[e].classes => x.leave \in Framed(started)
      BY <1>0, <1>2, <1>5, <1>11, <2>4, <2>6, <2>7, <3>1 DEF Wears, IsOpen, x
    <3>4. x.classes \subseteq IF x.enter # 0 THEN EnterClasses
                              ELSE IF x.leave # 0 THEN LeaveClasses ELSE {}
      BY <2>4, <2>7 DEF Wears, x
    <3> QED
      BY <1>11, <3>1, <3>2, <3>3, <3>4 DEF Wears
  <2>8. ASSUME ~ s.cbs[c].cancelled, x.dom
        PROVE  Wears(to, e)
    <3>1. ~ s.cbs[c].called
      BY <1>0, <1>2, <1>4, <2>1, <2>8 DEF Dressed, x
    <3>2. to.els[e].classes = started.els[e].classes \cup {last}
      BY <1>13, <2>2
    <3>3. last \in IF x.enter # 0 THEN EnterClasses
                   ELSE IF x.leave # 0 THEN LeaveClasses ELSE {}
      BY <1>5, <2>6, <3>1 DEF EnterClasses, LeaveClasses, last
    <3>4. last # "enter" /\ last # "leave"
      BY DEF last
    <3>5. /\ to.els[e].enter = started.els[e].enter /\ to.els[e].leave = started.els[e].leave
          /\ Framed(to) = Framed(started) /\ to.els[e].enter = x.enter
          /\ to.els[e].leave = x.leave
      BY <1>11, <1>12
    <3>6. /\ started.els[e].classes \subseteq
                IF x.enter # 0 THEN EnterClasses ELSE IF x.leave # 0 THEN LeaveClasses ELSE {}
          /\ "enter" \in started.els[e].classes => x.enter \in Framed(started)
          /\ "leave" \in started.els[e].classes => x.leave \in Framed(started)
      BY <2>7, <2>8, <3>5 DEF Wears
    <3>7. /\ to.els[e].classes \subseteq
                IF x.enter # 0 THEN EnterClasses ELSE IF x.leave # 0 THEN LeaveClasses ELSE {}
          /\ "enter" \in to.els[e].classes => x.enter \in Framed(to)
          /\ "leave" \in to.els[e].classes => x.leave \in Framed(to)
      BY <3>2, <3>3, <3>4, <3>5, <3>6
    <3> QED
      BY <3>5, <3>7 DEF Wears
  <2>9. Dressed(setup, started, 0)
    <3>1. started.els[e].dom => x.dom
      BY <1>11
    <3> QED
      BY <1>11, <2>3, <2>7, <3>1
  <2>10. ~ s.cbs[c].cancelled => Dressed(setup, to, 0)
    <3>1. to.els[e].dom => x.dom
      BY <1>12
    <3> QED
      BY <1>12, <2>3, <2>8, <3>1
  <2> QED
    BY <2>2, <2>9, <2>10
<1>17. Good(setup, started, 0, A, phase) /\ Onward(s, started)
  BY <1>11, <1>14, <1>15, <1>16
<1>18. ~ s.cbs[c].cancelled => Good(setup, to, 0, A, phase) /\ Onward(s, to)
  BY <1>12, <1>14, <1>15, <1>16
<1>19. c \in CbsOf(to) /\ to.cbs = s.cbs /\ (EarlyDone \/ c \notin Framed(to))
  BY <1>4, <1>12, <1>16
<1> QED
  BY <1>17, <1>18, <1>19

\* The callback c, that is still to be called, is called.
LEMMA Calls ==
    ASSUME NEW s, NEW A, NEW phase, Good(setup, s, 0, A, phase),
           NEW c \in CbsOf(s), ~ s.cbs[c].called, EarlyDone \/ c \notin Framed(s),
           setup.show => phase \in {"shown", "hidden"}
    PROVE  Good(setup, Call(s, c), 0, A, phase) /\ Onward(s, Call(s, c))
<1> DEFINE e == s.cbs[c].el
<1>1. s \in States /\ Linked(s) /\ s.cbs[c] \in Cb
  BY Members DEF Good
<1>2. e = s.cbs[c].el
  OBVIOUS
<1> HIDE DEF e
<1>3. CASE s.cbs[c].side = "enter"
  <2> DEFINE t == EnterCb(s, c)
  <2>1. Good(setup, t, 0, A, phase) /\ Onward(s, t)
    BY <1>2, <1>3, EndEnter
  <2> QED
    BY <1>3, <2>1 DEF Call
<1>4. CASE s.cbs[c].side = "leave"
  <2> DEFINE t == LeaveCb(s, c)
             next == IF setup.show /\ s.cbs[c].cancelled THEN "between" ELSE phase
  <2>1. Good(setup, t, 0, A, next) /\ Onward(s, t)
    BY <1>2, <1>4, EndLeave
  <2>2. ~ (setup.show /\ s.cbs[c].cancelled)
    <3>1. s.els[e].leave = c /\ c # 0 /\ e \in ElsOf(s)
      BY <1>1, <1>2, <1>4 DEF Linked, CbsOf
    <3>2. setup.show => Displayed(s, phase) /\ phase = "hidden"
      BY <3>1 DEF Good, Displayed
    <3> QED
      BY <1>4, <3>2 DEF Displayed
  <2> HIDE DEF t
  <2>3. Good(setup, t, 0, A, phase) /\ Onward(s, t)
    BY <2>1, <2>2
  <2>4. t = Call(s, c)
    BY <1>4 DEF Call, t
  <2> QED
    BY <2>3, <2>4
<1> QED
  BY <1>1, <1>3, <1>4 DEF Cb

-----------------------------------------------------------------------------
(* The invariant of the state *)

Phase == IF setup.show THEN (IF showing THEN "shown" ELSE "hidden") ELSE "steady"

Inv ==
    /\ setup \in Attributes /\ mounted \in BOOLEAN /\ showing \in BOOLEAN
    /\ want \in Asks /\ current \in Nat
    /\ Good(setup, State, 0, At(current), Phase)
    /\ ~ mounted => els = <<>> /\ dirty /\ current = 0 /\ ~ leaving
    /\ setup.show /\ mounted => Len(els) = 1
    /\ mounted /\ ~ dirty => IF setup.show THEN showing = Shown ELSE Answers(State, current)

LEMMA StateIs ==
    /\ State.leaving = leaving /\ State.dirty = dirty /\ State.els = els /\ State.cbs = cbs
    /\ State.pending = pending /\ State.frames = frames /\ State.waits = waits
    /\ CbsOf(State) = Cbs /\ ElsOf(State) = Els
BY DEF State, CbsOf, ElsOf, Cbs, Els

LEMMA Becoming ==
    ASSUME NEW t \in States, Becomes(t)
    PROVE  State' = t
BY DEF States, Becomes, State

LEMMA AsksType == want \in Asks => want \in Keys \cup {None}
BY TransitionAssumption DEF Asks, TheKey

LEMMA InitInv ==
    ASSUME Init
    PROVE  Inv
<1>1. State \in States
  <2>1. <<>> \in Seq(Elem) /\ <<>> \in Seq(Cb) /\ <<>> \in Seq(Nat) /\ {} \in SUBSET Nat
    OBVIOUS
  <2>2. [k \in Keys |-> 0] \in [Keys -> Nat]
    OBVIOUS
  <2> QED
    BY <2>1, <2>2 DEF Init, State, States
<1>2. /\ ElsOf(State) = {} /\ CbsOf(State) = {} /\ Framed(State) = {}
      /\ State.waits = {} /\ Len(State.els) = 0 /\ Len(State.frames) = 0
      /\ ~ State.leaving /\ State.pending = [k \in Keys |-> 0]
  BY DEF Init, State, ElsOf, CbsOf, Framed
<1>3. At(current) = {}
  BY DEF Init, At
<1>4. Linked(State)
  BY <1>2 DEF Linked
<1>5. Dressed(setup, State, 0)
  BY <1>2 DEF Dressed
<1>6. Placed(State, {}, Phase) /\ Displayed(State, Phase)
  BY <1>2 DEF Placed, Displayed
<1>7. Good(setup, State, 0, At(current), Phase)
  BY <1>1, <1>3, <1>4, <1>5, <1>6 DEF Good
<1> QED
  BY <1>7, TransitionAssumption DEF Init, Inv

\* A frame or an end leaves to the renders what is their business.
LEMMA Carries ==
    ASSUME Inv, ~ dirty, NEW t, Good(setup, t, 0, At(current), Phase), Onward(State, t),
           Becomes(t), UNCHANGED <<setup, want, toggles, mounted, current, showing>>
    PROVE  Inv'
<1>1. State' = t /\ t \in States
  BY Becoming DEF Good
<1>2. State \in States /\ mounted
  BY DEF Inv, Good
<1>3. At(current)' = At(current) /\ Phase' = Phase /\ Asks' = Asks /\ Shown' = Shown
  BY DEF At, Phase, Asks, Shown, TheKey
<1>4. Good(setup, State, 0, At(current), Phase)'
  BY <1>1, <1>3
<1>5. setup.show => Len(els') = 1
  <2>1. ASSUME setup.show
        PROVE  Len(t.els) = 1
    <3>1. ElsOf(t) \subseteq {1} /\ 1 <= Len(t.els) /\ Len(t.els) \in Nat
      <4>1. Len(State.els) = 1
        BY <1>2, <2>1, StateIs DEF Inv
      <4> QED
        BY <1>1, <2>1, <4>1, Members DEF Good, Displayed, Onward
    <3>2. Len(t.els) \in ElsOf(t)
      BY <3>1 DEF ElsOf
    <3> QED
      BY <3>1, <3>2
  <2> QED
    BY <2>1 DEF Becomes
<1>6. ASSUME ~ dirty', ~ setup.show
      PROVE  Answers(State, current)'
  <2>1. Answers(State, current) /\ ~ State.dirty /\ ~ t.dirty
    BY <1>1, <1>2, <1>6, StateIs DEF Inv, Becomes
  <2>2. State.leaving => t.leaving
    BY <2>1 DEF Onward
  <2>3. current # 0 => current \in ElsOf(State)
    <3>1. Placed(State, At(current), Phase)
      BY <1>6 DEF Inv, Good
    <3> QED
      BY <3>1 DEF Placed, At
  <2>4. current # 0 => t.els[current].key = State.els[current].key
    BY <2>3 DEF Onward
  <2>5. Answers(t, current)
    BY <2>1, <2>2, <2>4 DEF Answers
  <2> QED
    BY <1>1, <2>5 DEF Answers
<1> QED
  BY <1>2, <1>3, <1>4, <1>5, <1>6 DEF Inv

LEMMA RenderInv ==
    ASSUME Inv, Render
    PROVE  Inv'
<1> DEFINE s == [State EXCEPT !.dirty = FALSE]
<1>1. Good(setup, State, 0, At(current), Phase)
  BY DEF Inv
<1>2. Good(setup, s, 0, At(current), Phase) /\ s.els = els
  BY <1>1, FlagsSet, StateIs
<1>3. /\ mounted' = TRUE /\ showing' = Shown
      /\ setup' = setup /\ want' = want /\ toggles' = toggles
      /\ IF ~ setup.show THEN RenderChild(s)
         ELSE IF mounted THEN UpdateShow(s) ELSE BindShow(s)
  BY DEF Render
<1> HIDE DEF s
<1>4. /\ setup \in Attributes /\ mounted \in BOOLEAN /\ showing \in BOOLEAN
      /\ want \in Asks /\ current \in Nat
  BY DEF Inv
<1>5. Shown \in BOOLEAN /\ Shown' = Shown /\ Asks' = Asks
  BY <1>3 DEF Shown, Asks, TheKey
<1>6. CASE ~ setup.show
  <2>1. Good(setup, s, 0, At(current), "steady")
    BY <1>2, <1>6 DEF Phase
  <2>2. want \in Keys \cup {None}
    BY <1>4, AsksType
  <2>3. PICK t \in States, e \in Nat :
           Good(setup, t, 0, At(e), "steady") /\ Answers(t, e) /\ Showing(t, e)
    BY <1>2, <1>3, <1>4, <1>6, <2>1, <2>2, RendersChild
  <2>4. State' = t /\ current' = e
    BY <2>3, Becoming DEF Showing
  <2>5. At(current)' = At(e) /\ Phase' = "steady"
    BY <1>3, <1>6, <2>4 DEF At, Phase
  <2>6. Good(setup, State, 0, At(current), Phase)'
    BY <1>3, <2>3, <2>4, <2>5
  <2>7. Answers(State, current)'
    BY <1>3, <2>3, <2>4 DEF Answers
  <2> QED
    BY <1>3, <1>4, <1>5, <1>6, <2>3, <2>4, <2>6, <2>7 DEF Inv
<1>7. CASE setup.show
  <2>1. \E t \in States : \E B :
           /\ Good(setup, t, 0, B, IF Shown THEN "shown" ELSE "hidden")
           /\ Len(t.els) = 1 /\ Showing(t, 1)
    <3>1. CASE mounted
      <4>1. Good(setup, s, 0, At(current), IF showing THEN "shown" ELSE "hidden")
        BY <1>2, <1>7 DEF Phase
      <4>2. Len(s.els) = 1
        BY <1>2, <1>7, <3>1 DEF Inv
      <4> QED
        BY <1>3, <1>4, <1>7, <3>1, <4>1, <4>2, Updates
    <3>2. CASE ~ mounted
      <4>1. s.els = <<>>
        BY <1>2, <3>2 DEF Inv
      <4> QED
        BY <1>2, <1>3, <1>7, <3>2, <4>1, Binds
    <3> QED
      BY <3>1, <3>2
  <2>2. PICK t \in States : \E B :
           /\ Good(setup, t, 0, B, IF Shown THEN "shown" ELSE "hidden")
           /\ Len(t.els) = 1 /\ Showing(t, 1)
    BY <2>1
  <2>3. State' = t /\ current' = 1 /\ els' = t.els
    BY <2>2, Becoming DEF Showing, Becomes
  <2>4. Phase' = IF Shown THEN "shown" ELSE "hidden"
    BY <1>3, <1>7 DEF Phase
  <2>5. Good(setup, State, 0, At(current), Phase)'
    <3>1. Good(setup, t, 0, At(current)', IF Shown THEN "shown" ELSE "hidden")
      BY <1>7, <2>2 DEF Good
    <3> QED
      BY <1>3, <2>3, <2>4, <3>1
  <2> QED
    BY <1>3, <1>4, <1>5, <1>7, <2>2, <2>3, <2>5 DEF Inv
<1> QED
  BY <1>6, <1>7

\* Whether a render is queued is nobody's business but the renders'.
LEMMA DirtyAlone ==
    ASSUME NEW s, NEW A, NEW phase, Good(setup, s, 0, A, phase),
           NEW t \in States, t.els = s.els, t.cbs = s.cbs, t.frames = s.frames,
           t.waits = s.waits, t.pending = s.pending, t.leaving = s.leaving
    PROVE  Good(setup, t, 0, A, phase)
<1>1. s \in States /\ Linked(s)
  BY DEF Good
<1>2. ElsOf(t) = ElsOf(s) /\ CbsOf(t) = CbsOf(s) /\ Framed(t) = Framed(s)
  BY DEF ElsOf, CbsOf, Framed
<1>3. Alike(s, t)
  BY <1>2 DEF Alike
<1>4. Linked(t)
  BY <1>1, <1>2, <1>3, LinkedKept DEF Linked
<1>5. Dressed(setup, s, 0) => Dressed(setup, t, 0)
  BY <1>2 DEF Dressed, Wears
<1>6. Displayed(s, phase) => Displayed(t, phase)
  BY <1>2 DEF Displayed
<1>7. Placed(s, A, phase) => Placed(t, A, phase)
  BY <1>2 DEF Placed
<1> QED
  BY <1>4, <1>5, <1>6, <1>7 DEF Good

LEMMA ToggleInv ==
    ASSUME Inv, Toggle
    PROVE  Inv'
<1>1. Good(setup, State, 0, At(current), Phase) /\ mounted /\ State \in States
  BY DEF Inv, Toggle, Good
<1>2. /\ State'.els = State.els /\ State'.cbs = State.cbs /\ State'.frames = State.frames
      /\ State'.waits = State.waits /\ State'.pending = State.pending
      /\ State'.leaving = State.leaving /\ dirty' = TRUE
  BY DEF State, Toggle
<1>3. State' \in States
  BY <1>1 DEF State, States, Toggle
<1>4. /\ setup' = setup /\ mounted' = mounted /\ current' = current /\ showing' = showing
      /\ els' = els /\ want' \in Asks
  BY DEF Toggle
<1>5. At(current)' = At(current) /\ Phase' = Phase /\ Asks' = Asks
  BY <1>4 DEF At, Phase, Asks, TheKey
<1>6. Good(setup, State', 0, At(current), Phase)
  <2> DEFINE t == State'
             s == State
             A == At(current)
             phase == Phase
  <2>1. /\ Good(setup, s, 0, A, phase) /\ t \in States /\ t.els = s.els /\ t.cbs = s.cbs
        /\ t.frames = s.frames /\ t.waits = s.waits /\ t.pending = s.pending
        /\ t.leaving = s.leaving
    BY <1>1, <1>2, <1>3
  <2> HIDE DEF t, s, A, phase
  <2>2. Good(setup, t, 0, A, phase)
    BY <2>1, DirtyAlone
  <2> QED
    BY <2>2 DEF t, A, phase
<1>7. Good(setup, State, 0, At(current), Phase)'
  BY <1>4, <1>5, <1>6
<1> QED
  BY <1>1, <1>2, <1>4, <1>5, <1>7 DEF Inv

LEMMA FrameInv ==
    ASSUME Inv, Frame
    PROVE  Inv'
<1> DEFINE c == Head(State.frames)
           e == State.cbs[c].el
           side == State.cbs[c].side
           started == RemoveClasses([State EXCEPT !.frames = Tail(@)], e, {side})
           to == AddClasses(started, e, {IF side = "enter" THEN "enter-to" ELSE "leave-to"})
           waiting == [to EXCEPT !.waits = @ \cup {c}]
           A == At(current)
           phase == Phase
<1>1. ~ dirty /\ State.frames # <<>>
  BY StateIs DEF Frame
<1>2. /\ \/ Becomes(started) /\ State.cbs[c].cancelled
         \/ Becomes(to)
         \/ Becomes(Call(to, c))
         \/ Becomes(waiting) /\ ~ State.cbs[c].called
      /\ UNCHANGED <<setup, want, toggles, mounted, current, showing>>
      /\ ~ State.cbs[c].cancelled \/ Becomes(started)
  BY StateIs DEF Frame
<1>3. Good(setup, State, 0, A, phase)
  BY DEF Inv
<1>4. c = Head(State.frames) /\ e = State.cbs[c].el /\ side = State.cbs[c].side
  OBVIOUS
<1>5. /\ started = RemoveClasses([State EXCEPT !.frames = Tail(@)], e, {side})
      /\ to = AddClasses(started, e, {IF side = "enter" THEN "enter-to" ELSE "leave-to"})
  OBVIOUS
<1> HIDE DEF A, phase, c, e, side, started, to
<1>6. /\ Good(setup, started, 0, A, phase) /\ Onward(State, started)
      /\ ~ State.cbs[c].cancelled => Good(setup, to, 0, A, phase) /\ Onward(State, to)
      /\ c \in CbsOf(to) /\ to.cbs = State.cbs
      /\ EarlyDone \/ c \notin Framed(to)
  <2> DEFINE s == State
  <2>0. Good(setup, s, 0, A, phase) /\ FrameMoves(s, c, e, side, started, to)
    BY <1>1, <1>3, <1>4, <1>5 DEF FrameMoves
  <2> HIDE DEF s
  <2>1. Good(setup, started, 0, A, phase) /\ Onward(s, started)
    BY <2>0, Framing
  <2>2. ~ s.cbs[c].cancelled => Good(setup, to, 0, A, phase) /\ Onward(s, to)
    BY <2>0, Framing
  <2>3. c \in CbsOf(to) /\ to.cbs = s.cbs
    BY <2>0, Framing
  <2>4. EarlyDone \/ c \notin Framed(to)
    BY <2>0, Framing
  <2> QED
    BY <2>1, <2>2, <2>3, <2>4 DEF s
<1>7. setup.show => phase \in {"shown", "hidden"}
  BY DEF phase, Phase
<1>8. ASSUME NEW t, Becomes(t), Good(setup, t, 0, A, phase), Onward(State, t)
      PROVE  Inv'
  BY <1>1, <1>2, <1>8, Carries DEF A, phase
<1>9. CASE State.cbs[c].cancelled
  BY <1>2, <1>6, <1>8, <1>9
<1>10. CASE ~ State.cbs[c].cancelled
  <2>1. Good(setup, to, 0, A, phase) /\ Onward(State, to) /\ to \in States
    BY <1>6, <1>10 DEF Good
  <2>2. State \in States
    BY <1>3 DEF Good
  <2>3. CASE Becomes(to)
    BY <1>8, <2>1, <2>3
  <2>4. CASE Becomes(Call(to, c)) /\ to.cbs[c].called
    <3>1. Call(to, c) = to
      BY <2>4 DEF Call, EnterCb, LeaveCb
    <3> QED
      BY <1>8, <2>1, <2>4, <3>1
  <2>5. CASE Becomes(Call(to, c)) /\ ~ to.cbs[c].called
    <3> DEFINE t == Call(to, c)
    <3>1. Good(setup, t, 0, A, phase) /\ Onward(to, t)
      BY <1>6, <1>7, <2>1, <2>5, Calls
    <3> HIDE DEF t
    <3>2. t \in States
      BY <3>1 DEF Good
    <3>3. Onward(State, t)
      BY <2>1, <2>2, <3>1, <3>2, Further
    <3> QED
      BY <1>8, <2>5, <3>1, <3>3 DEF t
  <2>6. CASE Becomes(waiting) /\ ~ to.cbs[c].called
    <3> DEFINE t == waiting
    <3>1. Beside(to, t) /\ t.waits = to.waits \cup {c} /\ t.pending = to.pending
      <4>1. c \in Nat
        BY <1>6, <2>1, Members DEF CbsOf
      <4> QED
        BY <2>1, <4>1, WaitsSet
    <3> HIDE DEF waiting
    <3>2. Good(setup, t, 0, A, phase)
      <4>1. /\ t \in States /\ t.els = to.els /\ t.cbs = to.cbs /\ t.frames = to.frames
            /\ t.leaving = to.leaving /\ ElsOf(t) = ElsOf(to) /\ CbsOf(t) = CbsOf(to)
            /\ Framed(t) = Framed(to)
        BY <3>1 DEF Beside, Framed
      <4>2. Alike(to, t)
        BY <4>1 DEF Alike
      <4>3. Linked(to)
        BY <2>1 DEF Good
      <4>4. Framed(t) \subseteq CbsOf(to)
        BY <4>1, <4>3 DEF Linked
      <4>5. /\ \A k \in Keys : t.pending[k] \in 0 .. Len(to.els)
            /\ \A d \in t.waits : d \in CbsOf(to) /\ ~ to.cbs[d].called
        BY <1>6, <2>6, <3>1, <4>3 DEF Linked
      <4>6. Linked(t)
        BY <4>2, <4>3, <4>4, <4>5, LinkedKept
      <4>7. Dressed(setup, to, 0) => Dressed(setup, t, 0)
        BY <4>1 DEF Dressed, Wears
      <4>8. Displayed(to, phase) => Displayed(t, phase)
        BY <4>1 DEF Displayed
      <4>9. Placed(to, A, phase) => Placed(t, A, phase)
        BY <4>1 DEF Placed
      <4> QED
        BY <2>1, <4>1, <4>6, <4>7, <4>8, <4>9 DEF Good
    <3>3. Onward(State, t)
      <4>1. t.els = to.els /\ t.leaving = to.leaving /\ t.dirty = to.dirty
        BY <3>1 DEF Beside
      <4> QED
        BY <2>1, <4>1 DEF Onward
    <3> QED
      BY <1>8, <2>6, <3>2, <3>3
  <2> QED
    BY <1>2, <1>6, <1>10, <2>3, <2>4, <2>5, <2>6
<1> QED
  BY <1>9, <1>10

LEMMA EndInv ==
    ASSUME Inv, NEW c \in waits, End(c)
    PROVE  Inv'
<1> DEFINE A == At(current)
           phase == Phase
           t == Call(State, c)
<1>1. Good(setup, State, 0, A, phase)
  BY DEF Inv
<1>2. /\ ~ dirty /\ Becomes(t)
      /\ UNCHANGED <<setup, want, toggles, mounted, current, showing>>
      /\ EarlyDone \/ \A i \in DOMAIN frames : frames[i] # c
  BY DEF End
<1>3. setup.show => phase \in {"shown", "hidden"}
  BY DEF Phase
<1> HIDE DEF A, phase
<1>4. c \in CbsOf(State) /\ ~ State.cbs[c].called
  BY <1>1, StateIs DEF Good, Linked
<1>5. EarlyDone \/ c \notin Framed(State)
  <2>1. frames \in Seq(Nat)
    BY <1>1, StateIs DEF Good, States
  <2>2. DOMAIN frames = 1 .. Len(frames)
    BY <2>1
  <2> QED
    BY <1>2, <2>2, StateIs DEF Framed
<1>6. Good(setup, t, 0, A, phase) /\ Onward(State, t)
  BY <1>1, <1>3, <1>4, <1>5, Calls
<1> HIDE DEF t
<1> QED
  BY <1>2, <1>6, Carries DEF A, phase

LEMMA NextInv ==
    ASSUME Inv, [Next]_vars
    PROVE  Inv'
<1>1. ASSUME Render PROVE Inv'
  BY <1>1, RenderInv
<1>2. ASSUME Toggle PROVE Inv'
  BY <1>2, ToggleInv
<1>3. ASSUME Frame PROVE Inv'
  BY <1>3, FrameInv
<1>4. ASSUME NEW c \in waits, End(c) PROVE Inv'
  BY <1>4, EndInv
<1>5. ASSUME UNCHANGED vars PROVE Inv'
  <2>1. State' = State /\ UNCHANGED <<setup, want, toggles, mounted, current, showing, els>>
    BY <1>5 DEF vars, work, State
  <2>2. /\ UNCHANGED <<leaving, dirty>>
        /\ At(current)' = At(current) /\ Phase' = Phase /\ Asks' = Asks /\ Shown' = Shown
    BY <1>5 DEF vars, work, At, Phase, Asks, Shown, TheKey
  <2>3. Good(setup, State, 0, At(current), Phase)'
    BY <2>1, <2>2 DEF Inv
  <2>4. Answers(State, current)' = Answers(State, current)
    BY <2>1 DEF Answers
  <2> QED
    BY <2>1, <2>2, <2>3, <2>4 DEF Inv
<1> QED
  BY <1>1, <1>2, <1>3, <1>4, <1>5 DEF Next, Browser

LEMMA Invariant == Spec => []Inv
BY InitInv, NextInv, PTL DEF Spec

-----------------------------------------------------------------------------
(* What is still to be called is due *)

\* The callback c is called by what waits, or by the next frame where no hook
\* takes over.  X are the callbacks the function that runs will see to.
Waited(s, X, c) ==
    c \in X \/ c \in s.waits \/ (~ setup.control /\ c \in Framed(s))

\* An enter is to be called that performs the delayed leave of the element e.
Awaited(s, X, e) ==
    \E d \in CbsOf(s) : /\ s.cbs[d].side = "enter" /\ s.cbs[d].old = e
                        /\ ~ s.cbs[d].called /\ Waited(s, X, d)

\* All that is to be called is due; what is cancelled was called at once.
Owing(s, X) ==
    \A c \in CbsOf(s) : ~ s.cbs[c].called =>
        \/ c \in X
        \/ /\ ~ s.cbs[c].cancelled
           /\ IF s.cbs[c].delayed THEN Awaited(s, X, s.cbs[c].el) ELSE Waited(s, X, c)

AllAwaited(s, X, t, Y) == \A e : Awaited(s, X, e) => Awaited(t, Y, e)

\* The same callbacks, all of which are due as they were.
LEMMA OwesMore ==
    ASSUME NEW s, NEW t, NEW X, NEW Y, t.cbs = s.cbs, CbsOf(t) = CbsOf(s),
           \A c \in CbsOf(s) : ~ s.cbs[c].called /\ Waited(s, X, c) => Waited(t, Y, c)
    PROVE  /\ AllAwaited(s, X, t, Y)
           /\ Owing(s, X)
              /\ (\A c \in X : c \in Y \/ s.cbs[c].called
                               \/ (~ s.cbs[c].cancelled /\ ~ s.cbs[c].delayed))
                 => Owing(t, Y)
<1>1. AllAwaited(s, X, t, Y)
  BY DEF AllAwaited, Awaited
<1>2. ASSUME Owing(s, X),
             \A c \in X : c \in Y \/ s.cbs[c].called
                          \/ (~ s.cbs[c].cancelled /\ ~ s.cbs[c].delayed),
             NEW c \in CbsOf(t), ~ t.cbs[c].called, c \notin Y
      PROVE  /\ ~ t.cbs[c].cancelled
             /\ IF t.cbs[c].delayed THEN Awaited(t, Y, t.cbs[c].el) ELSE Waited(t, Y, c)
  <2>1. CASE c \in X
    BY <1>2, <2>1 DEF Waited
  <2>2. CASE c \notin X
    BY <1>1, <1>2, <2>2 DEF Owing, AllAwaited
  <2> QED
    BY <2>1, <2>2
<1> QED
  BY <1>1, <1>2 DEF Owing

\* One callback is seen to from now on: it may be cancelled, or delayed no more.
LEMMA OwesMarked ==
    ASSUME NEW s, NEW t, NEW c \in CbsOf(s), CbsOf(t) = CbsOf(s),
           \A d \in CbsOf(s) : d # c => t.cbs[d] = s.cbs[d],
           t.cbs[c].side = s.cbs[c].side, t.cbs[c].old = s.cbs[c].old,
           t.cbs[c].called = s.cbs[c].called,
           Framed(t) = Framed(s), t.waits = s.waits,
           NEW X, X \subseteq {c}
    PROVE  AllAwaited(s, X, t, {c}) /\ (Owing(s, X) => Owing(t, {c}))
<1>1. \A d \in CbsOf(s) : Waited(s, X, d) => Waited(t, {c}, d)
  BY DEF Waited
<1>2. AllAwaited(s, X, t, {c})
  BY <1>1 DEF AllAwaited, Awaited
<1>3. ASSUME Owing(s, X), NEW d \in CbsOf(t), ~ t.cbs[d].called, d # c
      PROVE  /\ ~ t.cbs[d].cancelled
             /\ IF t.cbs[d].delayed THEN Awaited(t, {c}, t.cbs[d].el) ELSE Waited(t, {c}, d)
  BY <1>1, <1>2, <1>3 DEF Owing, AllAwaited
<1> QED
  BY <1>2, <1>3 DEF Owing

\* t is s but for the callback c, which was called.
Closed(s, t, c) ==
    /\ CbsOf(t) = CbsOf(s) /\ t.cbs[c].called
    /\ \A d \in CbsOf(s) : d # c => t.cbs[d] = s.cbs[d]
    /\ Framed(t) = Framed(s) /\ t.waits = s.waits \ {c}

\* The leaves that wait for the enter of another child to be performed.
Delayed(s, e) ==
    {c \in CbsOf(s) : s.cbs[c].delayed /\ s.cbs[c].el = e /\ ~ s.cbs[c].called}

\* What was called owes nothing, but an enter has a leave to perform.
LEMMA OwesClosed ==
    ASSUME NEW s, NEW t, NEW c \in CbsOf(s), Closed(s, t, c), Owing(s, {c}), c \in Nat
    PROVE  /\ s.cbs[c].side # "enter" => Owing(t, {}) /\ AllAwaited(s, {c}, t, {})
           /\ Owing(t, Delayed(s, s.cbs[c].old))
           /\ \A e : Awaited(s, {c}, e) /\ e # s.cbs[c].old => Awaited(t, {}, e)
<1>1. \A d \in CbsOf(s) : d # c /\ Waited(s, {c}, d) => Waited(t, {}, d)
  BY DEF Waited, Closed
<1>2. ASSUME NEW e, Awaited(s, {c}, e), s.cbs[c].side # "enter" \/ e # s.cbs[c].old
      PROVE  Awaited(t, {}, e)
  <2>1. PICK d \in CbsOf(s) : /\ s.cbs[d].side = "enter" /\ s.cbs[d].old = e
                              /\ ~ s.cbs[d].called /\ Waited(s, {c}, d)
    BY <1>2 DEF Awaited
  <2>2. d # c
    BY <1>2, <2>1
  <2> QED
    BY <1>1, <2>1, <2>2 DEF Awaited, Closed
<1>3. ASSUME NEW Y, NEW d \in CbsOf(t), ~ t.cbs[d].called, d \notin Y,
             s.cbs[c].side = "enter" => Delayed(s, s.cbs[c].old) \subseteq Y
      PROVE  /\ ~ t.cbs[d].cancelled
             /\ IF t.cbs[d].delayed THEN Awaited(t, Y, t.cbs[d].el) ELSE Waited(t, Y, d)
  <2>1. d # c /\ d \in CbsOf(s) /\ t.cbs[d] = s.cbs[d] /\ ~ s.cbs[d].called
    BY <1>3 DEF Closed
  <2>2. /\ ~ s.cbs[d].cancelled
        /\ IF s.cbs[d].delayed THEN Awaited(s, {c}, s.cbs[d].el) ELSE Waited(s, {c}, d)
    BY <2>1 DEF Owing
  <2>3. CASE s.cbs[d].delayed
    <3>1. s.cbs[c].side # "enter" \/ s.cbs[d].el # s.cbs[c].old
      BY <1>3, <2>1, <2>3 DEF Delayed
    <3>2. Awaited(t, {}, s.cbs[d].el)
      BY <1>2, <2>2, <2>3, <3>1
    <3>3. Awaited(t, Y, s.cbs[d].el)
      BY <3>2 DEF Awaited, Waited
    <3> QED
      BY <2>1, <2>2, <2>3, <3>3
  <2>4. CASE ~ s.cbs[d].delayed
    BY <1>1, <2>1, <2>2, <2>4 DEF Waited
  <2> QED
    BY <2>3, <2>4
<1>4. s.cbs[c].side # "enter" => Owing(t, {})
  BY <1>3 DEF Owing
<1>5. Owing(t, Delayed(s, s.cbs[c].old))
  BY <1>3 DEF Owing
<1> QED
  BY <1>2, <1>4, <1>5 DEF AllAwaited

LEMMA LeaveOwes ==
    ASSUME NEW s \in States, Linked(s), NEW c \in CbsOf(s), s.cbs[c].side = "leave",
           ~ s.cbs[c].called, Owing(s, {c})
    PROVE  Owing(LeaveCb(s, c), {}) /\ AllAwaited(s, {c}, LeaveCb(s, c), {})
<1> DEFINE t == LeaveCb(s, c)
<1>1. s.cbs[c].el \in ElsOf(s) /\ c \in Nat
  BY DEF Linked, CbsOf
<1>2. LeaveEndsRest(s, t, c, s.cbs[c].el)
  BY <1>1, LeaveCbFacts
<1> HIDE DEF t
<1>3. Closed(s, t, c)
  BY <1>2 DEF Closed, LeaveEndsRest
<1>4. Owing(t, {}) /\ AllAwaited(s, {c}, t, {})
  BY <1>1, <1>3, OwesClosed
<1> QED
  BY <1>4 DEF t

\* What Start and TakesOver do to the callbacks, the frames and what waits.
LEMMA StartedWith ==
    ASSUME NEW s \in States, NEW c \in CbsOf(s), NEW e \in ElsOf(s), e = s.cbs[c].el,
           NEW cs \in SUBSET Classes
    PROVE  LET t == TakesOver(Start(s, c, cs), c)
           IN  /\ t.cbs = s.cbs /\ CbsOf(t) = CbsOf(s)
               /\ Framed(t) = IF setup.css THEN Framed(s) \cup {c} ELSE Framed(s)
               /\ t.waits = IF setup.control THEN s.waits \cup {c} ELSE s.waits
<1> DEFINE v == AddClasses(s, e, cs)
           w == IF setup.css THEN [v EXCEPT !.frames = Append(@, c)] ELSE v
           t == TakesOver(w, c)
<1>1. c \in Nat
  BY DEF CbsOf
<1>2. Start(s, c, cs) = w
  BY DEF Start
<1> HIDE DEF w
<1>3. /\ v \in States /\ v.cbs = s.cbs /\ CbsOf(v) = CbsOf(s)
      /\ Framed(v) = Framed(s) /\ v.waits = s.waits
  <2>1. ElemHas(s, v, e, IF setup.css THEN s.els[e].classes \cup cs ELSE s.els[e].classes,
                s.els[e].dom, s.els[e].display, s.els[e].enter, s.els[e].leave)
    BY ClassesAdded
  <2> HIDE DEF v
  <2> QED
    BY <2>1 DEF ElemHas, ElemIs
<1> HIDE DEF v
<1>4. /\ w \in States /\ w.cbs = v.cbs /\ CbsOf(w) = CbsOf(v) /\ w.waits = v.waits
      /\ Framed(w) = IF setup.css THEN Framed(v) \cup {c} ELSE Framed(v)
  <2>1. CASE setup.css
    <3>1. w = [v EXCEPT !.frames = Append(@, c)]
      BY <2>1 DEF w
    <3> QED
      BY ONLY <1>1, <1>3, <2>1, <3>1, FrameAppended
  <2>2. CASE ~ setup.css
    BY <1>3, <2>2 DEF w
  <2> QED
    BY <2>1, <2>2
<1>5. /\ t.cbs = w.cbs /\ CbsOf(t) = CbsOf(w) /\ Framed(t) = Framed(w)
      /\ t.waits = IF setup.control THEN w.waits \cup {c} ELSE w.waits
  <2>1. CASE setup.control
    <3>1. t = [w EXCEPT !.waits = @ \cup {c}]
      BY <2>1 DEF TakesOver
    <3>2. LET u == [w EXCEPT !.waits = @ \cup {c}]
          IN Beside(w, u) /\ u.waits = w.waits \cup {c} /\ u.pending = w.pending
      BY <1>1, <1>4, WaitsSet
    <3> HIDE DEF t
    <3> QED
      BY <2>1, <3>1, <3>2 DEF Beside
  <2>2. CASE ~ setup.control
    BY <2>2 DEF TakesOver
  <2> QED
    BY <2>1, <2>2
<1> HIDE DEF t
<1> QED
  BY <1>2, <1>3, <1>4, <1>5 DEF t

\* A transition that is started is due, unless it has neither classes nor hooks.
LEMMA StartOwes ==
    ASSUME NEW s \in States, NEW c \in CbsOf(s), NEW e \in ElsOf(s), e = s.cbs[c].el,
           NEW cs \in SUBSET Classes
    PROVE  LET t == TakesOver(Start(s, c, cs), c)
           IN  /\ AllAwaited(s, {c}, t, {c}) /\ (Owing(s, {c}) => Owing(t, {c}))
               /\ setup.css \/ setup.control =>
                     /\ AllAwaited(s, {c}, t, {})
                     /\ Owing(s, {c}) /\ ~ s.cbs[c].cancelled /\ ~ s.cbs[c].delayed
                           => Owing(t, {})
<1> DEFINE t == TakesOver(Start(s, c, cs), c)
<1>1. /\ t.cbs = s.cbs /\ CbsOf(t) = CbsOf(s)
      /\ Framed(t) = IF setup.css THEN Framed(s) \cup {c} ELSE Framed(s)
      /\ t.waits = IF setup.control THEN s.waits \cup {c} ELSE s.waits
  BY StartedWith
<1> HIDE DEF t
<1>2. \A d \in CbsOf(s) : Waited(s, {c}, d) => Waited(t, {c}, d)
  BY <1>1 DEF Waited
<1>3. AllAwaited(s, {c}, t, {c}) /\ (Owing(s, {c}) => Owing(t, {c}))
  BY <1>1, <1>2, OwesMore
<1>4. ASSUME setup.css \/ setup.control
      PROVE  /\ AllAwaited(s, {c}, t, {})
             /\ Owing(s, {c}) /\ ~ s.cbs[c].cancelled /\ ~ s.cbs[c].delayed => Owing(t, {})
  <2>1. \A d \in CbsOf(s) : Waited(s, {c}, d) => Waited(t, {}, d)
    BY <1>1, <1>4 DEF Waited
  <2> QED
    BY <1>1, <2>1, OwesMore
<1> QED
  BY <1>3, <1>4 DEF t

\* A leave that is performed is due or over.
LEMMA PerformOwes ==
    ASSUME NEW s, NEW y, NEW A, NEW phase, Good(setup, s, y, A, phase),
           NEW c \in CbsOf(s), s.cbs[c].side = "leave", ~ s.cbs[c].called,
           ~ s.cbs[c].delayed, ~ s.cbs[c].cancelled,
           EarlyDone \/ c \notin Framed(s), Owing(s, {c})
    PROVE  Owing(PerformLeave(s, c), {}) /\ AllAwaited(s, {c}, PerformLeave(s, c), {})
<1> DEFINE e == s.cbs[c].el
           r == IF ~ setup.show /\ s.els[e].dom
                THEN [s EXCEPT !.pending[s.els[e].key] = e] ELSE s
           cs == {"leave", "leave-active"}
           u == TakesOver(Start(r, c, cs), c)
<1>1. s \in States /\ Linked(s) /\ e \in ElsOf(s) /\ s.els[e].key \in Keys /\ e \in 0 .. Len(s.els)
  BY Members DEF Good, Linked, Elem, ElsOf
<1>2. PerformLeave(s, c) = IF ~ setup.css /\ ~ setup.control THEN LeaveCb(u, c) ELSE u
  BY DEF PerformLeave
<1>3. cs \in SUBSET Classes /\ cs = IF s.cbs[c].side = "enter" THEN {"enter", "enter-active"}
                                    ELSE {"leave", "leave-active"}
  BY DEF Classes
<1>4. e = s.cbs[c].el
  OBVIOUS
<1> HIDE DEF e, cs
<1>5. /\ Good(setup, r, y, A, phase) /\ r.els = s.els /\ r.cbs = s.cbs
      /\ CbsOf(r) = CbsOf(s) /\ Framed(r) = Framed(s) /\ r.waits = s.waits
  <2>1. CASE ~ setup.show /\ s.els[e].dom
    <3> DEFINE k == s.els[e].key
    <3>1. r = [s EXCEPT !.pending[k] = e] /\ k \in Keys /\ e \in Nat
      BY <1>1, <2>1
    <3> HIDE DEF r, k
    <3>2. e \in 0 .. Len(s.els)
      BY <1>1
    <3>3. Good(setup, r, y, A, phase) /\ r.els = s.els
      BY ONLY Good(setup, s, y, A, phase), <3>1, <3>2, Recorded
    <3>4. Beside(s, r) /\ r.waits = s.waits
      BY ONLY <1>1, <3>1, PendingSet
    <3> QED
      BY <3>3, <3>4 DEF Beside
  <2>2. CASE ~ (~ setup.show /\ s.els[e].dom)
    BY <2>2
  <2> QED
    BY <2>1, <2>2
<1> HIDE DEF r
<1>6. r \in States /\ e \in ElsOf(r) /\ c \in CbsOf(r)
  BY <1>1, <1>5 DEF Good, ElsOf
<1>7. AllAwaited(s, {c}, r, {c}) /\ Owing(r, {c})
  <2>1. \A d \in CbsOf(s) : Waited(s, {c}, d) => Waited(r, {c}, d)
    BY <1>5 DEF Waited
  <2> QED
    BY <1>5, <2>1, OwesMore
<1>8. /\ AllAwaited(r, {c}, u, {c}) /\ Owing(u, {c})
      /\ setup.css \/ setup.control => AllAwaited(r, {c}, u, {}) /\ Owing(u, {})
  BY <1>3, <1>4, <1>5, <1>6, <1>7, StartOwes
<1>9. Good(setup, u, y, A, phase) /\ Alike(r, u) /\ u.cbs = r.cbs
  BY <1>3, <1>4, <1>5, <1>6, Starts
<1> HIDE DEF u
<1>10. CASE setup.css \/ setup.control
  BY <1>2, <1>7, <1>8, <1>10 DEF AllAwaited
<1>11. CASE ~ (setup.css \/ setup.control)
  <2> DEFINE t == LeaveCb(u, c)
  <2>1. /\ u \in States /\ Linked(u) /\ c \in CbsOf(u) /\ u.cbs[c].side = "leave"
        /\ ~ u.cbs[c].called
    BY <1>5, <1>6, <1>9 DEF Good, Alike
  <2>2. Owing(t, {}) /\ AllAwaited(u, {c}, t, {})
    BY <1>8, <2>1, LeaveOwes
  <2>3. PerformLeave(s, c) = t
    BY <1>2, <1>11
  <2> HIDE DEF t
  <2> QED
    BY <1>7, <1>8, <2>2, <2>3 DEF AllAwaited
<1> QED
  BY <1>10, <1>11

\* A leave that waited for the enter of another child is performed.
LEMMA DelayOwes ==
    ASSUME NEW s, NEW y, NEW A, NEW phase, Good(setup, s, y, A, phase),
           NEW old \in 0 .. Len(s.els), Owing(s, Delayed(s, old))
    PROVE  Owing(PerformDelayed(s, old), {}) /\ AllAwaited(s, {}, PerformDelayed(s, old), {})
<1> DEFINE c == IF old = 0 THEN 0 ELSE s.els[old].leave
           u == [s EXCEPT !.cbs[c].delayed = FALSE]
<1>1. s \in States /\ Linked(s)
  BY DEF Good
<1>2. PerformDelayed(s, old) = IF c # 0 /\ s.cbs[c].delayed THEN PerformLeave(u, c) ELSE s
  BY DEF PerformDelayed
<1>3. Delayed(s, old) \subseteq {c} /\ (Delayed(s, old) # {} => c # 0 /\ s.cbs[c].delayed)
  <2> SUFFICES ASSUME NEW d \in Delayed(s, old)
               PROVE  d = c /\ c # 0 /\ s.cbs[c].delayed
    OBVIOUS
  <2>1. d \in CbsOf(s) /\ s.cbs[d].delayed /\ s.cbs[d].el = old /\ ~ s.cbs[d].called
    BY DEF Delayed
  <2>2. old \in ElsOf(s) /\ s.cbs[d].side = "leave"
    BY <1>1, <2>1 DEF Linked
  <2>3. s.els[old].leave = d /\ old # 0 /\ d # 0
    BY <1>1, <2>1, <2>2 DEF Linked, ElsOf, CbsOf
  <2> QED
    BY <2>1, <2>3
<1>4. CASE c # 0 /\ s.cbs[c].delayed
  <2>1. old \in ElsOf(s) /\ s.els[old].leave = c
    BY <1>1, <1>4, Members DEF ElsOf
  <2>2. /\ c \in CbsOf(s) /\ s.cbs[c].el = old /\ s.cbs[c].side = "leave"
        /\ ~ s.cbs[c].called
    BY <1>1, <1>4, <2>1 DEF Linked, IsOpen
  <2>3. EarlyDone \/ c \notin Framed(s)
    BY <1>4, <2>2 DEF Good, Dressed
  <2>4. ~ s.cbs[c].cancelled
    BY <1>4, <2>2 DEF Good, Placed, Displayed
  <2> HIDE DEF c
  <2>5. /\ Good(setup, u, y, A, phase) /\ Alike(s, u)
        /\ Framed(u) = Framed(s) /\ ~ u.cbs[c].delayed
    BY <2>2, Flagged
  <2>6. CbHas(s, u, c, s.cbs[c].cancelled, s.cbs[c].called, FALSE)
    BY <1>1, <2>2, FlagSet
  <2> HIDE DEF u
  <2>7. /\ CbsOf(u) = CbsOf(s) /\ \A d \in CbsOf(s) : d # c => u.cbs[d] = s.cbs[d]
        /\ u.cbs[c].side = s.cbs[c].side /\ u.cbs[c].old = s.cbs[c].old
        /\ u.cbs[c].called = s.cbs[c].called /\ u.cbs[c].cancelled = s.cbs[c].cancelled
        /\ Framed(u) = Framed(s) /\ u.waits = s.waits
    BY <2>6 DEF CbHas, CbIs
  <2>8. Owing(u, {c}) /\ AllAwaited(s, {}, u, {c})
    <3> DEFINE D == Delayed(s, old)
    <3>1. D \subseteq {c} /\ {} \subseteq {c} /\ Owing(s, D)
      BY <1>3
    <3> HIDE DEF D
    <3> QED
      BY <2>2, <2>7, <3>1, OwesMarked
  <2>9. Owing(PerformLeave(u, c), {}) /\ AllAwaited(u, {c}, PerformLeave(u, c), {})
    BY <2>2, <2>3, <2>4, <2>5, <2>7, <2>8, PerformOwes
  <2> QED
    BY <1>2, <1>4, <2>8, <2>9 DEF AllAwaited, c, u
<1>5. CASE ~ (c # 0 /\ s.cbs[c].delayed)
  <2>1. Delayed(s, old) = {}
    BY <1>3, <1>5
  <2> QED
    BY <1>2, <1>5, <2>1 DEF AllAwaited
<1> QED
  BY <1>4, <1>5

LEMMA EnterOwes ==
    ASSUME NEW s, NEW y, NEW A, NEW phase, Good(setup, s, y, A, phase),
           NEW c \in CbsOf(s), s.cbs[c].side = "enter", ~ s.cbs[c].called,
           EarlyDone \/ s.cbs[c].cancelled \/ c \notin Framed(s), Owing(s, {c})
    PROVE  /\ Owing(EnterCb(s, c), {})
           /\ \A f : Awaited(s, {c}, f) /\ f # s.cbs[c].old => Awaited(EnterCb(s, c), {}, f)
<1> DEFINE e == s.cbs[c].el
           classes == {"enter-to", "enter-active"}
                        \cup (IF s.cbs[c].cancelled THEN {"enter"} ELSE {})
           over == RemoveClasses(Done([s EXCEPT !.els[e].enter = 0], c), e, classes)
           old == s.cbs[c].old
           t == PerformDelayed(over, old)
<1>1. s \in States /\ Linked(s) /\ c \in Nat
  BY DEF Good, CbsOf
<1>2. e \in ElsOf(s) /\ e = s.cbs[c].el
  BY <1>1 DEF Linked
<1>3. EnterCb(s, c) = t
  BY DEF EnterCb
<1> HIDE DEF e
<1>4. EnterEnds(s, over, c, e)
  BY <1>1, <1>2, EnterEndsFacts
<1> HIDE DEF over
<1>5. Good(setup, over, y, A, phase)
  BY <1>2, <1>4, EnterOver
<1>6. Closed(s, over, c)
  BY <1>4 DEF Closed, EnterEnds
<1>7. old \in 0 .. Len(over.els)
  <2>1. s.cbs[c] \in Cb /\ old < e /\ old \in Nat
    BY <1>1, <1>2, Members DEF Linked, Cb
  <2> QED
    BY <1>2, <1>4, <2>1, <1>1, Members DEF EnterEnds, ElsOf
<1>8. /\ Owing(over, Delayed(s, old))
      /\ \A f : Awaited(s, {c}, f) /\ f # old => Awaited(over, {}, f)
  BY <1>1, <1>6, OwesClosed
<1>9. Delayed(over, old) = Delayed(s, old)
  <2>1. ~ s.cbs[c].delayed
    BY <1>1 DEF Linked
  <2>2. over.cbs[c].called
    BY <1>6 DEF Closed
  <2> QED
    BY <1>6, <2>1, <2>2 DEF Delayed, Closed
<1> HIDE DEF old
<1>10. Owing(t, {}) /\ AllAwaited(over, {}, t, {})
  BY <1>5, <1>7, <1>8, <1>9, DelayOwes
<1> HIDE DEF t
<1> QED
  BY <1>3, <1>8, <1>10 DEF AllAwaited, old

LEMMA CancelEnterOwes ==
    ASSUME NEW s, NEW y, NEW A, NEW phase, Good(setup, s, y, A, phase), NEW e \in ElsOf(s),
           Owing(s, {})
    PROVE  /\ Owing(CancelEnter(s, e), {})
           /\ Awaited(s, {}, e) => Awaited(CancelEnter(s, e), {}, e)
<1> DEFINE c == s.els[e].enter
           u == [s EXCEPT !.cbs[c].cancelled = TRUE]
<1>1. s \in States /\ Linked(s)
  BY DEF Good
<1>2. CASE c = 0
  BY <1>2 DEF CancelEnter
<1>3. CASE c # 0
  <2>1. CancelEnter(s, e) = EnterCb(u, c)
    BY <1>3 DEF CancelEnter
  <2>2. /\ c \in CbsOf(s) /\ s.cbs[c].el = e /\ s.cbs[c].side = "enter"
        /\ ~ s.cbs[c].called
    BY <1>1, <1>3 DEF Linked, IsOpen
  <2> HIDE DEF c
  <2>3. /\ Good(setup, u, y, A, phase) /\ u.cbs[c].cancelled
    BY <2>2, Flagged
  <2>4. CbHas(s, u, c, TRUE, s.cbs[c].called, s.cbs[c].delayed)
    BY <1>1, <2>2, FlagSet
  <2> HIDE DEF u
  <2>5. /\ CbsOf(u) = CbsOf(s) /\ \A d \in CbsOf(s) : d # c => u.cbs[d] = s.cbs[d]
        /\ u.cbs[c].side = s.cbs[c].side /\ u.cbs[c].old = s.cbs[c].old
        /\ u.cbs[c].called = s.cbs[c].called
        /\ Framed(u) = Framed(s) /\ u.waits = s.waits
    BY <2>4 DEF CbHas, CbIs
  <2>6. AllAwaited(s, {}, u, {c}) /\ Owing(u, {c})
    <3>1. {} \subseteq {c}
      OBVIOUS
    <3> QED
      BY <2>2, <2>5, <3>1, OwesMarked
  <2>7. /\ Owing(EnterCb(u, c), {})
        /\ \A f : Awaited(u, {c}, f) /\ f # u.cbs[c].old => Awaited(EnterCb(u, c), {}, f)
    BY <2>2, <2>3, <2>5, <2>6, EnterOwes
  <2>8. e # u.cbs[c].old
    <3>1. s.cbs[c].old < e /\ e \in Nat
      BY <1>1, <2>2 DEF Linked, ElsOf
    <3> QED
      BY <2>5, <3>1
  <2> QED
    BY <2>1, <2>6, <2>7, <2>8 DEF AllAwaited
<1> QED
  BY <1>2, <1>3

LEMMA CancelLeaveOwes ==
    ASSUME NEW s \in States, Linked(s), NEW e \in ElsOf(s), Owing(s, {})
    PROVE  Owing(CancelLeave(s, e), {})
<1> DEFINE c == s.els[e].leave
           u == [s EXCEPT !.cbs[c].cancelled = TRUE]
<1>1. CASE c = 0
  BY <1>1 DEF CancelLeave
<1>2. CASE c # 0
  <2>1. CancelLeave(s, e) = LeaveCb(u, c)
    BY <1>2 DEF CancelLeave
  <2>2. /\ c \in CbsOf(s) /\ s.cbs[c].el = e /\ s.cbs[c].side = "leave"
        /\ ~ s.cbs[c].called
    BY <1>2 DEF Linked, IsOpen
  <2> HIDE DEF c
  <2>3. CbHas(s, u, c, TRUE, s.cbs[c].called, s.cbs[c].delayed)
    BY <2>2, FlagSet
  <2> HIDE DEF u
  <2>4. /\ u \in States /\ CbsOf(u) = CbsOf(s) /\ ElsOf(u) = ElsOf(s)
        /\ \A d \in CbsOf(s) : d # c => u.cbs[d] = s.cbs[d]
        /\ u.cbs[c].side = s.cbs[c].side /\ u.cbs[c].old = s.cbs[c].old
        /\ u.cbs[c].called = s.cbs[c].called /\ u.cbs[c].el = s.cbs[c].el
        /\ u.cbs[c].resume = s.cbs[c].resume /\ u.cbs[c].delayed = s.cbs[c].delayed
        /\ Framed(u) = Framed(s) /\ u.waits = s.waits /\ u.els = s.els
        /\ u.pending = s.pending
    BY <2>3 DEF CbHas, CbIs
  <2>5. Alike(s, u)
    BY <2>4 DEF Alike
  <2>6. Linked(u)
    BY <2>4, <2>5, LinkedKept DEF Linked
  <2>7. Owing(u, {c})
    <3>1. {} \subseteq {c}
      OBVIOUS
    <3> QED
      BY <2>2, <2>4, <3>1, OwesMarked
  <2>8. Owing(LeaveCb(u, c), {})
    BY <2>2, <2>4, <2>6, <2>7, LeaveOwes
  <2> QED
    BY <2>1, <2>8
<1> QED
  BY <1>1, <1>2

\* A transition that is begun is seen to, or waits for one that is due.
LEMMA BegunOwes ==
    ASSUME NEW s \in States, NEW t, NEW e, NEW r, Begun(s, t, e, r), Owing(s, {}),
           Linked(s), NEW c, c = Len(s.cbs) + 1
    PROVE  /\ Owing(t, {c}) /\ c \in CbsOf(t) /\ t.cbs[c] = r /\ c \notin Framed(t)
           /\ AllAwaited(s, {}, t, {})
           /\ r.delayed /\ ~ r.cancelled /\ Awaited(s, {}, r.el) => Owing(t, {})
<1>1. /\ CbsOf(t) = CbsOf(s) \cup {c} /\ t.cbs[c] = r /\ c \notin CbsOf(s)
      /\ \A d \in CbsOf(s) : t.cbs[d] = s.cbs[d]
      /\ Framed(t) = Framed(s) /\ t.waits = s.waits
  BY DEF Begun
<1>2. c \notin Framed(t)
  BY <1>1 DEF Linked
<1>3. \A d : Waited(s, {}, d) => Waited(t, {}, d) /\ Waited(t, {c}, d)
  BY <1>1 DEF Waited
<1>4. AllAwaited(s, {}, t, {}) /\ AllAwaited(s, {}, t, {c})
  BY <1>1, <1>3 DEF AllAwaited, Awaited
<1>5. ASSUME NEW d \in CbsOf(s), ~ t.cbs[d].called
      PROVE  /\ ~ t.cbs[d].cancelled
             /\ IF t.cbs[d].delayed THEN Awaited(t, {}, t.cbs[d].el) ELSE Waited(t, {}, d)
             /\ IF t.cbs[d].delayed THEN Awaited(t, {c}, t.cbs[d].el) ELSE Waited(t, {c}, d)
  BY <1>1, <1>3, <1>4, <1>5 DEF Owing, AllAwaited
<1>6. Owing(t, {c})
  BY <1>1, <1>5 DEF Owing
<1>7. r.delayed /\ ~ r.cancelled /\ Awaited(s, {}, r.el) => Owing(t, {})
  BY <1>1, <1>4, <1>5 DEF Owing, AllAwaited
<1> QED
  BY <1>1, <1>2, <1>4, <1>6, <1>7

LEMMA LeavingOwes ==
    ASSUME NEW s, NEW y, NEW A, NEW phase, Good(setup, s, y, A, phase),
           NEW e \in ElsOf(s), s.els[e].leave = 0,
           NEW how \in {"now", "resume", "delay"}, setup.show => how = "now",
           how = "resume" => A \subseteq {e},
           Owing(s, {}), how = "delay" => Awaited(s, {}, e)
    PROVE  Owing(Leave(s, e, how), {})
<1> DEFINE free == CancelEnter(s, e)
           c == Len(free.cbs) + 1
           r == [Callback(e, "leave") EXCEPT !.resume = how = "resume", !.delayed = how = "delay"]
           made == [free EXCEPT !.cbs = Append(@, r), !.els[e].leave = c]
           next == IF setup.show THEN "hidden" ELSE IF how = "resume" THEN "steady" ELSE phase
<1>1. s \in States /\ e \in Nat
  BY Members DEF Good, ElsOf
<1>2. /\ Good(setup, free, y, A, phase) /\ Len(free.els) = Len(s.els)
      /\ free.els[e].enter = 0 /\ free.els[e].leave = 0
  BY CancelsEnter
<1>3. Leave(s, e, how) = IF how = "delay" THEN made ELSE PerformLeave(made, c)
  BY <1>2 DEF Leave
<1>4. Owing(free, {}) /\ (how = "delay" => Awaited(free, {}, e))
  BY CancelEnterOwes
<1> HIDE DEF free
<1>5. /\ r \in Cb /\ r.el = e /\ r.side = "leave" /\ ~ r.called /\ ~ r.cancelled
      /\ r.old = 0 /\ (r.resume <=> how = "resume") /\ (r.delayed <=> how = "delay")
  <2>1. (how = "resume") \in BOOLEAN /\ (how = "delay") \in BOOLEAN
    OBVIOUS
  <2>2. \A b1, b2 \in BOOLEAN :
           LET q == [Callback(e, "leave") EXCEPT !.resume = b1, !.delayed = b2]
           IN  /\ q \in Cb /\ q.el = e /\ q.side = "leave" /\ ~ q.called /\ ~ q.cancelled
               /\ q.old = 0 /\ q.resume = b1 /\ q.delayed = b2
    BY <1>1, LeaveCallback
  <2> QED
    BY <2>1, <2>2
<1> HIDE DEF r
<1>6. e \in ElsOf(free) /\ free \in States /\ Linked(free)
  BY <1>2 DEF ElsOf, Good
<1>7. Begun(free, made, e, r)
  BY <1>5, <1>6, CbBegun
<1> HIDE DEF made
<1>8. Good(setup, made, y, A \ {e}, next)
  <2>1. setup.show => ~ r.resume /\ ~ r.delayed
    BY <1>5
  <2>2. next = IF setup.show THEN "hidden" ELSE IF r.resume THEN "steady" ELSE phase
    BY <1>5
  <2>3. ~ setup.show /\ r.resume => A \subseteq {e}
    BY <1>5
  <2> HIDE DEF next
  <2> QED
    BY <1>2, <1>5, <1>6, <1>7, <2>1, <2>2, <2>3, BegunLeave
<1>9. c = Len(free.cbs) + 1
  OBVIOUS
<1> HIDE DEF c, next
<1>10. /\ Owing(made, {c}) /\ c \in CbsOf(made) /\ made.cbs[c] = r /\ c \notin Framed(made)
       /\ r.delayed /\ ~ r.cancelled /\ Awaited(free, {}, r.el) => Owing(made, {})
  BY <1>4, <1>6, <1>7, <1>9, BegunOwes
<1>11. CASE how = "delay"
  BY <1>3, <1>4, <1>5, <1>10, <1>11
<1>12. CASE how # "delay"
  <2>1. Owing(PerformLeave(made, c), {})
    BY <1>5, <1>8, <1>10, <1>12, PerformOwes
  <2> QED
    BY <1>3, <1>12, <2>1
<1> QED
  BY <1>11, <1>12

\* A child that enters owes only its enter, which the delayed leave of the old
\* child may wait for.
LEMMA EnteringOwes ==
    ASSUME NEW s, NEW y, NEW A, NEW phase, Good(setup, s, y, A, phase),
           NEW e \in ElsOf(s), NEW old \in Nat, old < e, setup.show => old = 0,
           ~ setup.show => s.els[e].leave = 0, Owing(s, {})
    PROVE  /\ Owing(Enter(s, e, old), {})
           /\ /\ ~ setup.show /\ s.els[e].enter = 0 /\ mounted
              /\ setup.css \/ setup.control
              => Awaited(Enter(s, e, old), {}, old)
<1> DEFINE free == CancelLeave(s, e)
           c == Len(free.cbs) + 1
           r == [Callback(e, "enter") EXCEPT !.old = old]
           made == [free EXCEPT !.cbs = Append(@, r), !.els[e].enter = c]
           cs == {"enter", "enter-active"}
           started == TakesOver(Start(made, c, cs), c)
           shown == IF setup.show THEN [started EXCEPT !.els[e].display = TRUE] ELSE started
           stays == free.els[e].enter # 0 \/ (~ mounted /\ ~ setup.appear)
           before == IF s.els[e].leave = 0 THEN phase ELSE "between"
           middle == IF setup.show THEN "between" ELSE before
<1>1. s \in States /\ Linked(s) /\ e \in Nat
  BY Members DEF Good, ElsOf
<1>2. /\ Good(setup, free, y, A, before) /\ Len(free.els) = Len(s.els)
      /\ free.els[e].leave = 0 /\ free.els[e].enter = s.els[e].enter
  BY CancelsLeave
<1>3. Enter(s, e, old) = IF stays THEN free
                         ELSE IF ~ setup.css /\ ~ setup.control THEN EnterCb(shown, c)
                         ELSE shown
  BY DEF Enter
<1>4. Owing(free, {})
  BY <1>1, CancelLeaveOwes
<1>5. s.els[e].enter = 0 /\ mounted => ~ stays
  BY <1>2
<1> HIDE DEF free
<1>6. CASE stays
  BY <1>3, <1>4, <1>5, <1>6
<1>7. CASE ~ stays
  <2>1. /\ r \in Cb /\ r.el = e /\ r.side = "enter" /\ ~ r.called /\ ~ r.cancelled
        /\ r.old = old /\ ~ r.resume /\ ~ r.delayed
    BY <1>1, EnterCallback
  <2> HIDE DEF r
  <2>2. free \in States /\ Linked(free) /\ e \in ElsOf(free) /\ free.els[e].enter = 0
    BY <1>2, <1>7 DEF Good, ElsOf
  <2>3. Begun(free, made, e, r)
    BY <2>1, <2>2, CbBegun
  <2> HIDE DEF made, before
  <2>4. Good(setup, made, y, A, middle)
    BY <1>2, <2>1, <2>2, <2>3, BegunEnter
  <2>5. c = Len(free.cbs) + 1
    OBVIOUS
  <2> HIDE DEF c, middle, stays
  <2>6. Owing(made, {c}) /\ c \in CbsOf(made) /\ made.cbs[c] = r /\ c \notin Framed(made)
    BY <1>4, <2>2, <2>3, <2>5, BegunOwes
  <2>7. /\ cs \in SUBSET Classes
        /\ cs = IF made.cbs[c].side = "enter" THEN {"enter", "enter-active"}
                                              ELSE {"leave", "leave-active"}
    BY <2>1, <2>6 DEF Classes
  <2>8. made \in States /\ e \in ElsOf(made) /\ e = made.cbs[c].el
    BY <2>1, <2>3, <2>2, <2>6 DEF Begun
  <2> HIDE DEF cs
  <2>9. /\ Owing(started, {c})
        /\ setup.css \/ setup.control => Owing(started, {}) /\ AllAwaited(made, {c}, started, {})
    BY <2>1, <2>6, <2>7, <2>8, StartOwes
  <2>10. /\ started.cbs = made.cbs /\ CbsOf(started) = CbsOf(made)
         /\ Framed(started) = IF setup.css THEN Framed(made) \cup {c} ELSE Framed(made)
    BY <2>7, <2>8, <2>6, StartedWith
  <2>11. /\ Good(setup, started, y, A, middle)
         /\ Alike(made, started)
    BY <2>1, <2>4, <2>6, <2>7, <2>8, Starts
  <2> HIDE DEF started
  <2>12. Awaited(made, {c}, old)
    BY <2>1, <2>6 DEF Awaited, Waited
  <2>13. /\ \E next : Good(setup, shown, y, A, next)
         /\ shown.cbs = started.cbs /\ CbsOf(shown) = CbsOf(started)
         /\ Framed(shown) = Framed(started)
         /\ Owing(shown, {c})
         /\ setup.css \/ setup.control => Owing(shown, {})
         /\ ~ setup.show => shown = started
    <3>1. CASE setup.show
      <4> DEFINE u == [started EXCEPT !.els[e].display = TRUE]
      <4>1. shown = u
        BY <3>1
      <4>2. e \in ElsOf(started) /\ started.els[e].leave = 0 /\ started \in States
        BY <1>2, <2>2, <2>1, <2>3, <2>8, <2>11 DEF Alike, Begun, Good
      <4>3. Good(setup, u, y, A, "shown") /\ Alike(started, u) /\ u.cbs = started.cbs
            /\ Framed(u) = Framed(started)
        BY <2>11, <3>1, <4>2, Shows
      <4>4. u.waits = started.waits
        BY DEF States
      <4> HIDE DEF u, shown
      <4>5. CbsOf(u) = CbsOf(started)
        BY <4>3 DEF Alike
      <4>6. \A X : \A d \in CbsOf(started) : Waited(started, X, d) => Waited(u, X, d)
        BY <4>3, <4>4 DEF Waited
      <4>7. \A X : Owing(started, X) => Owing(u, X)
        BY <4>3, <4>5, <4>6, OwesMore
      <4> QED
        BY <2>9, <3>1, <4>1, <4>3, <4>5, <4>7
    <3>2. CASE ~ setup.show
      BY <2>9, <2>11, <3>2
    <3> QED
      BY <3>1, <3>2
  <2> HIDE DEF shown
  <2>14. CASE setup.css \/ setup.control
    BY <1>3, <1>7, <2>9, <2>12, <2>13, <2>14 DEF AllAwaited
  <2>15. CASE ~ (setup.css \/ setup.control)
    <3>1. PICK next : Good(setup, shown, y, A, next)
      BY <2>13
    <3>2. /\ c \in CbsOf(shown) /\ shown.cbs[c].side = "enter" /\ ~ shown.cbs[c].called
          /\ c \notin Framed(shown)
      BY <2>1, <2>6, <2>10, <2>13, <2>15
    <3>3. Owing(EnterCb(shown, c), {})
      BY <2>13, <3>1, <3>2, EnterOwes
    <3> QED
      BY <1>3, <1>7, <2>15, <3>3
  <2> QED
    BY <2>14, <2>15
<1> QED
  BY <1>6, <1>7

\* Only what is not about the callbacks differs.
Aside(s, t) ==
    t.cbs = s.cbs /\ CbsOf(t) = CbsOf(s) /\ Framed(t) = Framed(s) /\ t.waits = s.waits

LEMMA OwesAside ==
    ASSUME NEW s, NEW t, Aside(s, t), NEW X
    PROVE  AllAwaited(s, X, t, X) /\ (Owing(s, X) => Owing(t, X))
<1>1. \A c \in CbsOf(s) : Waited(s, X, c) => Waited(t, X, c)
  BY DEF Waited, Aside
<1> QED
  BY <1>1, OwesMore DEF Aside

LEMMA CreatingOwes ==
    ASSUME NEW s, NEW A, NEW phase, Good(setup, s, 0, A, phase), ~ setup.show,
           NEW k \in Keys, NEW old \in 0 .. Len(s.els), Owing(s, {})
    PROVE  /\ Owing(Create(s, k, old), {})
           /\ mounted /\ (setup.css \/ setup.control) => Awaited(Create(s, k, old), {}, old)
<1> DEFINE e == Len(s.els) + 1
           m == Made(s, k, TRUE)
           n == Enter(m, e, old)
           t == [n EXCEPT !.els[e].dom = TRUE]
<1>1. s \in States /\ Len(s.els) \in Nat /\ old \in Nat /\ old < e
  BY Members DEF Good
<1>2. Create(s, k, old) = t
  BY DEF Create
<1>3. Grown(s, m, k, TRUE)
  BY <1>1, Grows
<1> HIDE DEF m
<1>4. Good(setup, m, e, A, phase)
  BY <1>3, GrownGood
<1>5. e \in ElsOf(m) /\ m.els[e].leave = 0 /\ m.els[e].enter = 0 /\ Aside(s, m)
  BY <1>3 DEF Grown, Aside
<1>6. Owing(m, {})
  BY <1>5, OwesAside
<1>7. /\ Owing(n, {})
      /\ mounted /\ (setup.css \/ setup.control) => Awaited(n, {}, old)
  BY <1>1, <1>4, <1>5, <1>6, EnteringOwes
<1>8. n \in States /\ e \in ElsOf(n)
  <2>1. Good(setup, n, e, A, IF setup.show THEN "shown" ELSE phase) /\ Len(n.els) = Len(m.els)
    BY <1>1, <1>4, <1>5, Enters
  <2> HIDE DEF n
  <2> QED
    BY <1>5, <2>1 DEF Good, ElsOf
<1> HIDE DEF n
<1>9. ElemHas(n, t, e, n.els[e].classes, TRUE, n.els[e].display, n.els[e].enter, n.els[e].leave)
  BY <1>8, FieldSet
<1> HIDE DEF t
<1>10. Aside(n, t)
  BY <1>9 DEF ElemHas, ElemIs, Aside
<1> QED
  BY <1>2, <1>7, <1>10, OwesAside DEF AllAwaited

LEMMA HookOwes ==
    ASSUME NEW s, NEW A, NEW phase, Good(setup, s, 0, A, phase), NEW e \in ElsOf(s),
           Owing(s, {})
    PROVE  Owing(InsertHook(s, e), {})
<1> DEFINE p == s.pending[s.els[e].key]
           c == s.els[p].leave
<1>1. s \in States /\ Linked(s) /\ s.els[e].key \in Keys
  BY Members DEF Good, Elem
<1>2. CASE (~ mounted /\ ~ setup.appear) \/ p = 0 \/ c = 0
  BY <1>2 DEF InsertHook
<1>3. CASE ~ ((~ mounted /\ ~ setup.appear) \/ p = 0 \/ c = 0)
  <2>1. InsertHook(s, e) = LeaveCb(s, c)
    BY <1>3 DEF InsertHook
  <2>2. p \in ElsOf(s)
    BY <1>1, <1>3, Members DEF Linked, ElsOf
  <2> HIDE DEF p
  <2>3. c \in CbsOf(s) /\ s.cbs[c].side = "leave" /\ ~ s.cbs[c].called
    BY <1>1, <1>3, <2>2 DEF Linked, IsOpen
  <2> HIDE DEF c
  <2>4. Owing(s, {c})
    BY DEF Owing, Awaited, Waited
  <2> QED
    BY <1>1, <2>1, <2>3, <2>4, LeaveOwes
<1> QED
  BY <1>2, <1>3

LEMMA RemovingOwes ==
    ASSUME NEW s, NEW A, NEW phase, Good(setup, s, 0, A, phase), ~ setup.show,
           NEW e, e = 0 \/ e \in A, NEW how \in {"now", "resume", "delay"},
           how = "resume" => A \subseteq {e},
           Owing(s, {}), how = "delay" => Awaited(s, {}, e)
    PROVE  Owing(Remove(s, e, how), {})
<1>1. CASE e = 0
  BY <1>1 DEF Remove
<1>2. CASE e # 0
  <2>1. e \in ElsOf(s) /\ s.els[e].leave = 0 /\ Remove(s, e, how) = Leave(s, e, how)
    BY <1>2 DEF Good, Placed, Remove
  <2> QED
    BY <2>1, LeavingOwes
<1> QED
  BY <1>1, <1>2

\* In mode "in-out" a child takes time to enter: it has classes or hooks.
TakesTime == setup.mode = "in-out" /\ ~ setup.show => setup.css \/ setup.control

LEMMA RenderOwes ==
    ASSUME NEW s, Good(setup, s, 0, At(current), "steady"), ~ setup.show,
           s.els = els, want \in Keys \cup {None}, current \in Nat, RenderChild(s),
           Owing(s, {}), TakesTime, current # 0 => mounted
    PROVE  \E t \in States : Becomes(t) /\ Owing(t, {})
<1> DEFINE n == Len(s.els) + 1
           replaces == current # 0 /\ want # None /\ els[current].key # want
           how == IF replaces /\ setup.mode = "in-out" THEN "delay" ELSE "now"
           old == IF how = "delay" THEN current ELSE 0
           created == Create(s, want, old)
           halted == [s EXCEPT !.leaving = TRUE]
           B == At(current)
<1>1. s \in States /\ Placed(s, B, "steady") /\ Len(s.els) \in Nat
  BY Members DEF Good
<1>2. current # 0 => current \in ElsOf(s) /\ s.els[current].leave = 0
  BY <1>1 DEF Placed, At
<1>3. (current = 0 \/ current \in B) /\ B \subseteq {current} /\ Good(setup, s, 0, B, "steady")
  BY DEF At
<1> HIDE DEF B
<1>4. CASE want = None \/ s.leaving
  <2> DEFINE t == Remove(s, current, "now")
  <2>1. Owing(t, {})
    BY <1>3, RemovingOwes
  <2>2. t \in States
    <3>1. Good(setup, t, 0, B \ {current}, "steady")
      BY <1>3, Removes
    <3> QED
      BY <3>1 DEF Good
  <2>3. Becomes(t)
    BY <1>4 DEF RenderChild, Showing
  <2> QED
    BY <2>1, <2>2, <2>3
<1>5. CASE ~ (want = None \/ s.leaving) /\ replaces /\ setup.mode = "out-in"
  <2> DEFINE t == Remove(halted, current, "resume")
  <2>1. Becomes(t)
    BY <1>5 DEF RenderChild, Showing
  <2>2. /\ Good(setup, halted, 0, B, "resume") /\ ElsOf(halted) = ElsOf(s)
        /\ halted.els = s.els
    BY <1>3, FlagsSet
  <2>3. Aside(s, halted)
    BY <1>1 DEF States, Aside, CbsOf, Framed
  <2>0. t = Leave(halted, current, "resume")
    BY <1>5 DEF Remove
  <2> HIDE DEF halted
  <2>4. Owing(halted, {})
    BY <2>3, OwesAside
  <2>5. Owing(t, {})
    BY <1>3, <2>2, <2>4, RemovingOwes
  <2>6. t \in States
    <3> DEFINE next == IF setup.show THEN "hidden"
                       ELSE IF "resume" = "resume" THEN "steady" ELSE "resume"
    <3>1. current \in ElsOf(halted) /\ halted.els[current].leave = 0
      BY <1>2, <1>5, <2>2
    <3>2. next = "steady"
      OBVIOUS
    <3>3. setup.show => "resume" = "now"
      OBVIOUS
    <3> HIDE DEF t
    <3>4. Good(setup, t, 0, B \ {current}, "steady")
      BY <1>3, <2>0, <2>2, <3>1, <3>2, <3>3, Leaves
    <3> QED
      BY <3>4 DEF Good
  <2> QED
    BY <2>1, <2>5, <2>6
<1>6. CASE ~ (want = None \/ s.leaving) /\ ~ (replaces /\ setup.mode = "out-in")
           /\ (replaces \/ current = 0)
  <2> DEFINE u == Remove(created, current, how)
             t == InsertHook(u, n)
  <2>1. Becomes(t)
    BY <1>6 DEF RenderChild, Showing
  <2>2. how \in {"now", "delay"} /\ want \in Keys /\ ~ s.leaving
    BY <1>6
  <2>3. old \in 0 .. Len(s.els)
    BY <1>1, <1>2 DEF ElsOf
  <2>4. /\ how = "delay" => mounted /\ (setup.css \/ setup.control) /\ old = current
    BY DEF TakesTime
  <2> HIDE DEF how, old, replaces
  <2>5. /\ Owing(created, {})
        /\ how = "delay" => Awaited(created, {}, current)
    BY <1>3, <2>2, <2>3, <2>4, CreatingOwes
  <2>6. n = Len(s.els) + 1 /\ created = Create(s, want, old)
    OBVIOUS
  <2> HIDE DEF created, n
  <2>7. Good(setup, created, 0, B \cup {n}, "steady")
    BY <1>3, <2>2, <2>3, <2>6, Creates
  <2>8. n \in ElsOf(created) /\ n \notin ElsOf(s)
    BY <1>3, <2>2, <2>3, <2>6, <2>7, Creates
  <2>9. Owing(u, {})
    <3>1. how \in {"now", "resume", "delay"} /\ how # "resume"
          /\ (current = 0 \/ current \in B \cup {n})
      BY <1>3, <2>2
    <3> QED
      BY <2>5, <2>7, <3>1, RemovingOwes
  <2>10. Good(setup, u, 0, (B \cup {n}) \ {current}, "steady") /\ Onward(created, u)
    BY <1>3, <2>2, <2>7, Removes
  <2> HIDE DEF u
  <2>11. n \in ElsOf(u)
    <3>1. created \in States /\ u \in States
      BY <2>7, <2>10 DEF Good
    <3> QED
      BY <2>8, <2>10, <3>1, Members DEF Onward, ElsOf
  <2>12. Owing(t, {})
    BY <2>9, <2>10, <2>11, HookOwes
  <2>13. t \in States
    <3>1. Good(setup, t, 0, (B \cup {n}) \ {current}, "steady")
      BY <2>10, <2>11, Hooks
    <3> QED
      BY <3>1 DEF Good
  <2> QED
    BY <2>1, <2>12, <2>13
<1>7. CASE ~ (want = None \/ s.leaving) /\ ~ (replaces \/ current = 0)
  <2>1. Becomes(s)
    BY <1>7 DEF RenderChild, Showing
  <2> QED
    BY <1>1, <2>1
<1> QED
  BY <1>4, <1>5, <1>6, <1>7

LEMMA BindOwes ==
    ASSUME NEW s, NEW A, NEW phase, Good(setup, s, 0, A, phase), setup.show, s.els = <<>>,
           BindShow(s)
    PROVE  \E t \in States : Becomes(t) /\ Owing(t, {})
<1> DEFINE b == [Made(s, TheKey, Shown) EXCEPT !.els[1].dom = TRUE]
           next == IF Shown THEN "shown" ELSE "hidden"
           t == IF Shown THEN Enter(b, 1, 0) ELSE b
<1>1. Becomes(t)
  BY DEF BindShow, Showing
<1>2. /\ Good(setup, b, 0, A, next) /\ ElsOf(b) = {1} /\ CbsOf(b) = {}
  BY ShowMade
<1>3. Shown => next = "shown"
  OBVIOUS
<1> HIDE DEF b, next
<1>4. Owing(b, {}) /\ b \in States
  BY <1>2 DEF Owing, Good
<1>5. CASE Shown
  <2> DEFINE u == Enter(b, 1, 0)
  <2>1. 1 \in ElsOf(b) /\ 0 \in Nat /\ 0 < 1 /\ Good(setup, b, 0, A, "shown")
    BY <1>2, <1>3, <1>5
  <2>2. Owing(u, {})
    BY <1>4, <2>1, EnteringOwes
  <2>3. Good(setup, u, 0, A, IF setup.show THEN "shown" ELSE "shown")
    BY <2>1, Enters
  <2>4. u \in States
    BY <2>3 DEF Good
  <2> QED
    BY <1>1, <1>5, <2>2, <2>4
<1>6. CASE ~ Shown
  BY <1>1, <1>4, <1>6
<1> QED
  BY <1>5, <1>6

LEMMA UpdateOwes ==
    ASSUME NEW s, NEW A, Good(setup, s, 0, A, IF showing THEN "shown" ELSE "hidden"),
           setup.show, mounted, showing \in BOOLEAN, Len(s.els) = 1, UpdateShow(s),
           Owing(s, {})
    PROVE  \E t \in States : Becomes(t) /\ Owing(t, {})
<1>1. s \in States /\ 1 \in ElsOf(s) /\ Shown \in BOOLEAN
  BY DEF Good, ElsOf, Shown
<1>2. CASE showing = Shown
  BY <1>1, <1>2 DEF UpdateShow, Showing
<1>3. CASE showing # Shown /\ Shown
  <2> DEFINE t == Enter(s, 1, 0)
  <2>0. Good(setup, s, 0, A, "hidden")
    BY <1>1, <1>3
  <2>1. Good(setup, s, 0, A, "hidden") /\ 0 \in Nat /\ 0 < 1
    BY <2>0
  <2>2. Owing(t, {})
    BY <1>1, <2>1, EnteringOwes
  <2>3. Good(setup, t, 0, A, IF setup.show THEN "shown" ELSE "hidden")
    BY <1>1, <2>1, Enters
  <2>4. t \in States
    BY <2>3 DEF Good
  <2>5. Becomes(t)
    BY <1>3 DEF UpdateShow, Showing
  <2> QED
    BY <2>2, <2>4, <2>5
<1>4. CASE showing # Shown /\ ~ Shown
  <2> DEFINE t == Leave(s, 1, "now")
             next == IF setup.show THEN "hidden"
                     ELSE IF "now" = "resume" THEN "steady" ELSE "shown"
  <2>1. Good(setup, s, 0, A, "shown")
    BY <1>1, <1>4
  <2>2. s.els[1].leave = 0
    BY <1>1, <2>1 DEF Good, Displayed
  <2>3. next = "hidden" /\ ("now" = "resume" => A \subseteq {1}) /\ "now" # "delay"
    OBVIOUS
  <2>4. Becomes(t)
    BY <1>4 DEF UpdateShow, Showing
  <2>5. Owing(t, {})
    BY <1>1, <2>1, <2>2, <2>3, LeavingOwes
  <2>6. Good(setup, t, 0, A \ {1}, "hidden")
    BY <1>1, <2>1, <2>2, <2>3, Leaves
  <2>7. t \in States
    BY <2>6 DEF Good
  <2> QED
    BY <2>4, <2>5, <2>7
<1> QED
  BY <1>1, <1>2, <1>3, <1>4

LEMMA CallOwes ==
    ASSUME NEW s, NEW A, NEW phase, Good(setup, s, 0, A, phase),
           NEW c \in CbsOf(s), ~ s.cbs[c].called, EarlyDone \/ c \notin Framed(s),
           Owing(s, {c})
    PROVE  Owing(Call(s, c), {})
<1>1. s \in States /\ Linked(s) /\ s.cbs[c].side \in {"enter", "leave"}
  BY Members DEF Good, Cb
<1>2. CASE s.cbs[c].side = "enter"
  <2>1. Owing(EnterCb(s, c), {})
    BY <1>2, EnterOwes
  <2> QED
    BY <1>2, <2>1 DEF Call
<1>3. CASE s.cbs[c].side = "leave"
  <2>1. Owing(LeaveCb(s, c), {})
    BY <1>1, <1>3, LeaveOwes
  <2> QED
    BY <1>3, <2>1 DEF Call
<1> QED
  BY <1>1, <1>2, <1>3

LEMMA ClassesAside ==
    ASSUME NEW s \in States, NEW e \in ElsOf(s), NEW cs \in SUBSET Classes
    PROVE  \A t \in {AddClasses(s, e, cs), RemoveClasses(s, e, cs)} :
              t \in States /\ ElsOf(t) = ElsOf(s) /\ Aside(s, t)
<1> DEFINE t1 == AddClasses(s, e, cs)
           t2 == RemoveClasses(s, e, cs)
           x == s.els[e]
<1>1. ElemHas(s, t1, e, IF setup.css THEN x.classes \cup cs ELSE x.classes,
              x.dom, x.display, x.enter, x.leave)
  BY ClassesAdded
<1>2. ElemHas(s, t2, e, IF setup.css THEN x.classes \ cs ELSE x.classes,
              x.dom, x.display, x.enter, x.leave)
  BY ClassesRemoved
<1> HIDE DEF t1, t2
<1>3. \A t \in {t1, t2} : t \in States /\ ElsOf(t) = ElsOf(s) /\ Aside(s, t)
  BY <1>1, <1>2 DEF ElemHas, ElemIs, Aside
<1> QED
  BY <1>3 DEF t1, t2

\* A frame leaves its callback to be called, or to wait; where a hook took over it
\* waits already.
LEMMA FrameOwes ==
    ASSUME NEW s, NEW A, NEW phase, Good(setup, s, 0, A, phase), Owing(s, {}),
           NEW c, NEW e, NEW side, NEW started, NEW to, FrameMoves(s, c, e, side, started, to),
           NEW waiting, waiting = [to EXCEPT !.waits = @ \cup {c}]
    PROVE  /\ Owing(to, {c}) /\ Owing(waiting, {})
           /\ s.cbs[c].cancelled => Owing(started, {})
           /\ setup.control \/ s.cbs[c].called => Owing(to, {})
           /\ to.cbs = s.cbs /\ started \in States /\ to \in States /\ waiting \in States
<1> DEFINE popped == [s EXCEPT !.frames = Tail(@)]
           last == IF side = "enter" THEN "enter-to" ELSE "leave-to"
<1>1. s \in States /\ Linked(s)
  BY DEF Good
<1>2. /\ s.frames # <<>> /\ c = Head(s.frames) /\ e = s.cbs[c].el /\ side = s.cbs[c].side
      /\ started = RemoveClasses(popped, e, {side}) /\ to = AddClasses(started, e, {last})
  BY DEF FrameMoves
<1>3. /\ popped \in States /\ popped.els = s.els /\ popped.cbs = s.cbs
      /\ popped.waits = s.waits
      /\ c \in Framed(s) /\ \A d \in Framed(s) : d # c => d \in Framed(popped)
  BY <1>1, <1>2, FramePopped
<1> HIDE DEF popped
<1>4. c \in CbsOf(s) /\ e \in ElsOf(s) /\ c \in Nat /\ side \in {"enter", "leave"}
  <2>1. c \in CbsOf(s)
    BY <1>1, <1>3 DEF Linked
  <2>2. s.cbs[c] \in Cb /\ s.cbs[c].el \in ElsOf(s)
    BY <1>1, <2>1, Members DEF Linked
  <2>3. c \in Nat
    BY <1>1, <2>1, Members DEF CbsOf
  <2>4. s.cbs[c].side \in {"enter", "leave"}
    BY <2>2 DEF Cb
  <2> QED
    BY <1>2, <2>1, <2>2, <2>3, <2>4
<1>5. e \in ElsOf(popped) /\ CbsOf(popped) = CbsOf(s)
  BY <1>3, <1>4 DEF ElsOf, CbsOf
<1>6. {side} \in SUBSET Classes /\ {last} \in SUBSET Classes
  BY <1>4 DEF Classes
<1> HIDE DEF last
<1>7. /\ started \in States /\ ElsOf(started) = ElsOf(popped) /\ Aside(popped, started)
  BY <1>2, <1>3, <1>5, <1>6, ClassesAside
<1>8. /\ to \in States /\ Aside(started, to)
  BY <1>2, <1>5, <1>6, <1>7, ClassesAside
<1>9. Beside(to, waiting) /\ waiting.waits = to.waits \cup {c}
  BY <1>4, <1>8, WaitsSet
<1>10. Owing(to, {c})
  <2>1. \A d \in CbsOf(s) : Waited(s, {}, d) => Waited(to, {c}, d)
    BY <1>3, <1>7, <1>8 DEF Waited, Aside
  <2> QED
    BY <1>3, <1>5, <1>7, <1>8, <2>1, OwesMore DEF Aside
<1>11. Owing(waiting, {})
  <2>1. \A d \in CbsOf(s) : Waited(s, {}, d) => Waited(waiting, {}, d)
    BY <1>3, <1>7, <1>8, <1>9 DEF Waited, Aside, Beside
  <2>2. waiting.cbs = s.cbs /\ CbsOf(waiting) = CbsOf(s)
    BY <1>3, <1>5, <1>7, <1>8, <1>9 DEF Aside, Beside
  <2> QED
    BY <2>1, <2>2, OwesMore
<1>12. ASSUME setup.control \/ s.cbs[c].called
       PROVE  Owing(to, {}) /\ Owing(started, {})
  <2>1. \A d \in CbsOf(s) : ~ s.cbs[d].called /\ Waited(s, {}, d) =>
                               Waited(to, {}, d) /\ Waited(started, {}, d)
    BY <1>3, <1>7, <1>8, <1>12 DEF Waited, Aside
  <2> QED
    BY <1>3, <1>5, <1>7, <1>8, <2>1, OwesMore DEF Aside
<1>13. s.cbs[c].cancelled => s.cbs[c].called
  BY <1>4 DEF Owing
<1> QED
  BY <1>3, <1>7, <1>8, <1>9, <1>10, <1>11, <1>12, <1>13 DEF Aside, Beside

-----------------------------------------------------------------------------
(* The invariant of what is due *)

Owed == Owing(State, {}) /\ TakesTime

LEMMA OwedLater ==
    ASSUME Owed, NEW t \in States, Becomes(t), Owing(t, {}), setup' = setup
    PROVE  Owed'
<1>1. State' = t
  BY Becoming
<1>2. Owing(State, {})'
  BY <1>1 DEF Owing, Awaited, Waited, CbsOf, Framed
<1>3. TakesTime'
  BY DEF Owed, TakesTime
<1> QED
  BY <1>2, <1>3 DEF Owed

LEMMA OwedInit ==
    ASSUME Init, TakesTime
    PROVE  Owed
BY DEF Init, Owed, Owing, State, CbsOf

LEMMA OwedRender ==
    ASSUME Inv, Owed, Render
    PROVE  Owed'
<1> DEFINE s == [State EXCEPT !.dirty = FALSE]
<1>1. Good(setup, State, 0, At(current), Phase)
  BY DEF Inv
<1>2. Good(setup, s, 0, At(current), Phase) /\ s.els = els
  BY <1>1, FlagsSet, StateIs
<1>3. Owing(s, {})
  <2>1. Aside(State, s)
    BY DEF State, Aside, CbsOf, Framed
  <2> QED
    BY <2>1, OwesAside DEF Owed
<1>4. /\ setup' = setup
      /\ IF ~ setup.show THEN RenderChild(s)
         ELSE IF mounted THEN UpdateShow(s) ELSE BindShow(s)
  BY DEF Render
<1> HIDE DEF s
<1>5. /\ mounted \in BOOLEAN /\ showing \in BOOLEAN /\ want \in Asks /\ current \in Nat
      /\ ~ mounted => els = <<>> /\ current = 0
      /\ setup.show /\ mounted => Len(els) = 1
  BY DEF Inv
<1>6. \E t \in States : Becomes(t) /\ Owing(t, {})
  <2>1. CASE ~ setup.show
    <3>1. Good(setup, s, 0, At(current), "steady") /\ want \in Keys \cup {None}
      BY <1>2, <1>5, <2>1, AsksType DEF Phase
    <3> QED
      BY <1>2, <1>3, <1>4, <1>5, <2>1, <3>1, RenderOwes DEF Owed
  <2>2. CASE setup.show /\ mounted
    <3>1. Good(setup, s, 0, At(current), IF showing THEN "shown" ELSE "hidden")
      BY <1>2, <2>2 DEF Phase
    <3> QED
      BY <1>2, <1>3, <1>4, <1>5, <2>2, <3>1, UpdateOwes
  <2>3. CASE setup.show /\ ~ mounted
    BY <1>2, <1>4, <1>5, <2>3, BindOwes
  <2> QED
    BY <2>1, <2>2, <2>3
<1> QED
  BY <1>4, <1>6, OwedLater

LEMMA OwedFrame ==
    ASSUME Inv, Owed, Frame
    PROVE  Owed'
<1> DEFINE s == State
           c == Head(s.frames)
           e == s.cbs[c].el
           side == s.cbs[c].side
           started == RemoveClasses([s EXCEPT !.frames = Tail(@)], e, {side})
           to == AddClasses(started, e, {IF side = "enter" THEN "enter-to" ELSE "leave-to"})
           waiting == [to EXCEPT !.waits = @ \cup {c}]
           A == At(current)
           phase == Phase
<1>1. setup' = setup /\ s.frames # <<>>
  BY StateIs DEF Frame
<1>2. IF s.cbs[c].cancelled THEN Becomes(started)
      ELSE IF setup.control THEN Becomes(to)
      ELSE Becomes(Call(to, c)) \/ Becomes(IF s.cbs[c].called THEN to ELSE waiting)
  BY StateIs DEF Frame
<1>3. Good(setup, s, 0, A, phase) /\ Owing(s, {})
  BY DEF Inv, Owed
<1>4. FrameMoves(s, c, e, side, started, to)
  BY <1>1 DEF FrameMoves
<1>5. waiting = [to EXCEPT !.waits = @ \cup {c}]
  OBVIOUS
<1> HIDE DEF s, c, e, side, started, to, waiting, A, phase
<1>6. /\ Owing(to, {c}) /\ Owing(waiting, {})
      /\ s.cbs[c].cancelled => Owing(started, {})
      /\ setup.control \/ s.cbs[c].called => Owing(to, {})
      /\ to.cbs = s.cbs /\ started \in States /\ to \in States /\ waiting \in States
  BY <1>3, <1>4, <1>5, FrameOwes
<1>7. /\ ~ s.cbs[c].cancelled => Good(setup, to, 0, A, phase)
      /\ c \in CbsOf(to) /\ (EarlyDone \/ c \notin Framed(to))
  BY <1>3, <1>4, Framing
<1>8. CASE s.cbs[c].cancelled \/ setup.control
  BY <1>1, <1>2, <1>6, <1>8, OwedLater
<1>9. CASE ~ (s.cbs[c].cancelled \/ setup.control)
  <2>1. CASE Becomes(Call(to, c)) /\ to.cbs[c].called
    <3>1. Call(to, c) = to
      BY <2>1 DEF Call, EnterCb, LeaveCb
    <3> QED
      BY <1>1, <1>6, <2>1, <3>1, OwedLater
  <2>2. CASE Becomes(Call(to, c)) /\ ~ to.cbs[c].called
    <3> DEFINE t == Call(to, c)
    <3>1. Owing(t, {})
      BY <1>6, <1>7, <1>9, <2>2, CallOwes
    <3>2. t \in States
      <4>1. setup.show => phase \in {"shown", "hidden"}
        BY DEF phase, Phase
      <4>2. Good(setup, t, 0, A, phase)
        BY <1>7, <1>9, <2>2, <4>1, Calls
      <4> QED
        BY <4>2 DEF Good
    <3> QED
      BY <1>1, <2>2, <3>1, <3>2, OwedLater
  <2>3. CASE Becomes(IF s.cbs[c].called THEN to ELSE waiting)
    BY <1>1, <1>6, <2>3, OwedLater
  <2> QED
    BY <1>2, <1>9, <2>1, <2>2, <2>3
<1> QED
  BY <1>8, <1>9

LEMMA OwedEnd ==
    ASSUME Inv, Owed, NEW c \in waits, End(c)
    PROVE  Owed'
<1> DEFINE A == At(current)
           phase == Phase
           t == Call(State, c)
<1>1. Good(setup, State, 0, A, phase) /\ Owing(State, {})
  BY DEF Inv, Owed
<1>2. /\ Becomes(t) /\ setup' = setup
      /\ EarlyDone \/ \A i \in DOMAIN frames : frames[i] # c
  BY DEF End
<1>3. setup.show => phase \in {"shown", "hidden"}
  BY DEF Phase
<1> HIDE DEF A, phase
<1>4. c \in CbsOf(State) /\ ~ State.cbs[c].called
  BY <1>1, StateIs DEF Good, Linked
<1>5. EarlyDone \/ c \notin Framed(State)
  <2>1. frames \in Seq(Nat)
    BY <1>1, StateIs DEF Good, States
  <2>2. DOMAIN frames = 1 .. Len(frames)
    BY <2>1
  <2> QED
    BY <1>2, <2>2, StateIs DEF Framed
<1>6. Owing(State, {c})
  BY <1>1 DEF Owing, Awaited, Waited
<1>7. Owing(t, {})
  BY <1>1, <1>4, <1>5, <1>6, CallOwes
<1>8. Good(setup, t, 0, A, phase)
  BY <1>1, <1>3, <1>4, <1>5, Calls
<1> HIDE DEF t
<1>9. t \in States
  BY <1>8 DEF Good
<1> QED
  BY <1>2, <1>7, <1>9, OwedLater

LEMMA OwedStep ==
    ASSUME Inv, Owed, [Next]_vars
    PROVE  Owed'
<1>1. CASE Render
  BY <1>1, OwedRender
<1>2. CASE Frame
  BY <1>2, OwedFrame
<1>3. ASSUME NEW c \in waits, End(c) PROVE Owed'
  BY <1>3, OwedEnd
<1>4. ASSUME setup' = setup /\ cbs' = cbs /\ frames' = frames /\ waits' = waits PROVE Owed'
  BY <1>4 DEF Owed, TakesTime, Owing, Awaited, Waited, State, CbsOf, Framed
<1> QED
  BY <1>1, <1>2, <1>3, <1>4 DEF Next, Browser, Toggle, vars, work

-----------------------------------------------------------------------------
(* What it says *)

\* No element both enters and leaves: enter() cancels the leave under way and
\* leave() the enter, also for v-show, where the same element goes back and forth.
THEOREM NeverBothWays == Spec => []OneWay
<1>1. Inv => OneWay
  BY StateIs DEF Inv, Good, Linked, OneWay
<1> QED
  BY <1>1, Invariant, PTL

\* As long as the old child leaves in mode "out-in" there is no other: what is in
\* the page leaves too, as render() returns nothing while _leaving holds.
THEOREM OutBeforeInHolds == Spec => []OutBeforeIn
<1>1. ASSUME Inv
      PROVE  OutBeforeIn
  <2>1. CASE setup.show
    BY <1>1, <2>1, StateIs DEF Inv, Good, Displayed, OutBeforeIn
  <2>2. CASE ~ setup.show
    <3>1. Placed(State, At(current), "steady")
      BY <1>1, <2>2 DEF Inv, Good, Phase
    <3> QED
      BY <3>1, StateIs DEF Placed, OutBeforeIn
  <2> QED
    BY <2>1, <2>2
<1> QED
  BY <1>1, Invariant, PTL

\* When every callback was called the page shows what was asked for last and
\* nothing else, whatever was cancelled, delayed or asked for again on the way.
THEOREM SettledShowsHolds == Spec => []SettledShows
<1>1. ASSUME Inv, Settled
      PROVE  IF setup.show THEN els[1].display = Shown
             ELSE {els[e].key : e \in {x \in Els : els[x].dom}} = {want} \ {None}
                  /\ Cardinality({x \in Els : els[x].dom}) <= 1
  <2>1. \A e \in Els : els[e].leave = 0
    BY <1>1, StateIs DEF Inv, Good, Linked, IsOpen, Settled
  <2>2. CASE setup.show
    <3>1. 1 \in Els /\ showing = Shown /\ Displayed(State, Phase)
      BY <1>1, <2>2 DEF Inv, Good, Settled, Els
    <3>2. Shown \in BOOLEAN
      BY DEF Shown
    <3>3. els[1].display \in BOOLEAN
      BY <1>1, <3>1, StateIs, Members DEF Inv, Good, Elem
    <3>4. CASE showing
      BY <2>2, <3>1, <3>2, <3>3, <3>4, StateIs DEF Displayed, Phase
    <3>5. CASE ~ showing
      BY <2>1, <2>2, <3>1, <3>2, <3>3, <3>5, StateIs DEF Displayed, Phase
    <3> QED
      BY <2>2, <3>4, <3>5
  <2>3. CASE ~ setup.show
    <3> DEFINE D == {x \in Els : els[x].dom}
    <3>1. Placed(State, At(current), "steady")
      BY <1>1, <2>3 DEF Inv, Good, Phase
    <3>2. ~ leaving
      BY <1>1, <3>1, StateIs DEF Placed, Settled
    <3>3. D = At(current)
      BY <2>1, <3>1, StateIs DEF Placed
    <3>4. IF want = None THEN current = 0
          ELSE current # 0 /\ els[current].key = want
      BY <1>1, <2>3, <3>2, StateIs DEF Inv, Settled, Answers
    <3> HIDE DEF D
    <3>5. CASE want = None
      <4>1. D = {}
        BY <3>3, <3>4, <3>5 DEF At
      <4> QED
        BY <2>3, <3>5, <4>1, FS_EmptySet DEF D
    <3>6. CASE want # None
      <4>1. D = {current} /\ els[current].key = want
        BY <3>3, <3>4, <3>6 DEF At
      <4>2. Cardinality(D) = 1
        BY <4>1, FS_Singleton
      <4>3. {els[e].key : e \in D} = {want}
        BY <4>1
      <4>4. {want} \ {None} = {want}
        BY <3>6
      <4> QED
        BY <2>3, <4>2, <4>3, <4>4 DEF D
    <3> QED
      BY <3>5, <3>6
  <2> QED
    BY <2>2, <2>3
<1> QED
  BY <1>1, Invariant, PTL DEF SettledShows

\* Where no hook calls done() before the next frame, an element that neither
\* enters nor leaves wears none of the transition's classes: each callback takes
\* off what its start and its frame put on, and a cancelled one what is left.
THEOREM BareHolds == ~ EarlyDone => (Spec => []Bare)
<1>1. ASSUME Inv, ~ EarlyDone
      PROVE  Bare
  <2>1. Dressed(setup, State, 0)
    BY <1>1 DEF Inv, Good
  <2>2. ASSUME NEW e \in Els, els[e].dom, els[e].enter = 0, els[e].leave = 0
        PROVE  els[e].classes = {}
    <3>1. Wears(State, e)
      BY <2>1, <2>2, StateIs DEF Dressed
    <3> QED
      BY <2>2, <3>1, StateIs DEF Wears
  <2> QED
    BY <2>2 DEF Bare
<1> SUFFICES ASSUME ~ EarlyDone
             PROVE  Spec => []Bare
  OBVIOUS
<1>2. Inv => Bare
  BY <1>1
<1> QED
  BY <1>2, Invariant, PTL

\* c is called by the browser: a frame, the end of a transition or done().
IsDue(c) == c \in waits \/ \E i \in DOMAIN frames : frames[i] = c

EachDue ==
    \A c \in Cbs : ~ cbs[c].called =>
        IF cbs[c].delayed
        THEN \E d \in Cbs : /\ cbs[d].side = "enter" /\ cbs[d].old = cbs[c].el
                            /\ ~ cbs[d].called /\ IsDue(d)
        ELSE IsDue(c)

\* No transition is stuck: each one that is under way is due to be ended by the
\* browser or a hook, or is the leave of an old child that waits, in mode "in-out",
\* for the enter of the new one, which is due.  So when nothing is due all are
\* over.  In that mode the enter must take time, for an enter that is over at
\* once leaves the old child behind: what it would perform comes after it.
THEOREM EachIsDue ==
    (\A t \in Setups : t.mode = "in-out" /\ ~ t.show => t.css \/ t.control)
        => (Spec => [](EachDue /\ (~ Due => \A c \in Cbs : cbs[c].called)))
<1> SUFFICES ASSUME \A t \in Setups : t.mode = "in-out" /\ ~ t.show => t.css \/ t.control
             PROVE  Spec => [](EachDue /\ (~ Due => \A c \in Cbs : cbs[c].called))
  OBVIOUS
<1>1. Init => Owed
  BY OwedInit DEF Init, TakesTime
<1>2. ASSUME Inv, Owed
      PROVE  EachDue /\ (~ Due => \A c \in Cbs : cbs[c].called)
  <2>1. frames \in Seq(Nat) /\ DOMAIN frames = 1 .. Len(frames)
    BY <1>2, StateIs DEF Inv, Good, States
  <2>2. \A c : Waited(State, {}, c) => IsDue(c)
    BY <2>1, StateIs DEF Waited, IsDue, Framed
  <2>3. EachDue
    BY <1>2, <2>2, StateIs DEF Owed, Owing, Awaited, EachDue
  <2>4. ~ Due => \A c : ~ IsDue(c)
    <3>1. DOMAIN <<>> = {}
      OBVIOUS
    <3> QED
      BY <3>1 DEF Due, IsDue
  <2> QED
    BY <2>3, <2>4 DEF EachDue
<1> QED
  BY <1>1, <1>2, OwedStep, Invariant, PTL DEF Spec
=============================================================================
