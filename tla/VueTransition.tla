---------------------------- MODULE VueTransition ----------------------------
(***************************************************************************)
(* A <transition> around one child: vue.js's Transition component, the     *)
(* enter and leave functions of its transition module, and v-show.  The    *)
(* dialogs, menus and masks of element-ui show and hide through it.        *)
(*                                                                         *)
(* The parent changes its mind at any time.  A render runs before the      *)
(* browser's next event; the callbacks of the next frame come in order,    *)
(* the ends of the transitions (events or timers) whenever they like.      *)
(***************************************************************************)
EXTENDS Naturals, Sequences, FiniteSets

CONSTANTS
    Keys,         \* the children the parent may ask for
    None,         \* no child, or for v-show a child that is hidden
    Setups,       \* the attributes the <transition> may have
    EarlyDone,    \* a hook that takes over may call done before the next frame
    MaxToggles    \* bound: changes of mind

\* Whether the child has v-show, mode, whether classes are used (css) and hooks
\* that take over by a done argument, and appear.
Attributes ==
    [show : BOOLEAN, mode : {"both", "out-in", "in-out"}, css : BOOLEAN,
     control : BOOLEAN, appear : BOOLEAN]

ASSUME TransitionAssumption ==
    /\ None \notin Keys /\ Keys # {}
    /\ Setups \subseteq Attributes
    /\ EarlyDone \in BOOLEAN
    /\ MaxToggles \in Nat

VARIABLES
    setup,    \* the attributes of the <transition>
    want,     \* what the parent asks for
    toggles,  \* changes of mind so far
    dirty,    \* a render is queued
    mounted,  \* _isMounted
    leaving,  \* _leaving
    current,  \* the element of _vnode, 0 for a comment
    showing,  \* oldValue of v-show
    els,      \* the elements made so far
    cbs,      \* the callbacks made so far
    pending,  \* parentNode._pending
    frames,   \* the callbacks the next frames are for, in order
    waits     \* the callbacks that wait for a transition to end, or for done()

work == <<leaving, dirty, els, cbs, pending, frames, waits>>
vars == <<setup, want, toggles, mounted, current, showing, work>>

Classes == {"enter", "enter-active", "enter-to", "leave", "leave-active", "leave-to"}
Els == 1 .. Len(els)
Cbs == 1 .. Len(cbs)

\* The callbacks of an element that are not called yet.
Open(e, side) ==
    {c \in Cbs : cbs[c].el = e /\ cbs[c].side = side /\ ~ cbs[c].called}

-----------------------------------------------------------------------------
(* What the functions do to the state they share, s *)

State == [leaving |-> leaving, dirty |-> dirty, els |-> els, cbs |-> cbs,
          pending |-> pending, frames |-> frames, waits |-> waits]

Becomes(s) ==
    /\ leaving' = s.leaving /\ dirty' = s.dirty /\ els' = s.els /\ cbs' = s.cbs
    /\ pending' = s.pending /\ frames' = s.frames /\ waits' = s.waits

AddClasses(s, e, cs) ==
    IF setup.css THEN [s EXCEPT !.els[e].classes = @ \cup cs] ELSE s
RemoveClasses(s, e, cs) ==
    IF setup.css THEN [s EXCEPT !.els[e].classes = @ \ cs] ELSE s

\* rm: the element goes, or is no longer displayed.
Rm(s, e) ==
    IF setup.show THEN [s EXCEPT !.els[e].display = FALSE]
                  ELSE [s EXCEPT !.els[e].dom = FALSE]

\* Fault: the component is not rendered again.
AfterLeaveQuietly(s, cb) ==
    IF cb.resume THEN [s EXCEPT !.leaving = FALSE] ELSE s

\* afterLeave: in mode "out-in" the component renders again.
AfterLeave(s, cb) ==
    IF cb.resume THEN [s EXCEPT !.leaving = FALSE, !.dirty = TRUE] ELSE s

\* once: what still waits to call the callback does so in vain.
Done(s, c) == [s EXCEPT !.cbs[c].called = TRUE, !.waits = @ \ {c}]

\* Fault: the classes of a cancelled leave stay.
LeaveCbKeeping(s, c) ==
    LET cb == s.cbs[c]
        e == cb.el
        freed == IF s.els[e].dom THEN [s EXCEPT !.pending[s.els[e].key] = 0] ELSE s
        over == Done([freed EXCEPT !.els[e].leave = 0], c)
    IN IF cb.called THEN s
       ELSE IF cb.cancelled THEN over
       ELSE AfterLeave(Rm(RemoveClasses(over, e, {"leave-to", "leave-active"}), e), cb)

\* el._leaveCb.
LeaveCb(s, c) ==
    LET cb == s.cbs[c]
        e == cb.el
        freed == IF s.els[e].dom THEN [s EXCEPT !.pending[s.els[e].key] = 0] ELSE s
        over == RemoveClasses(Done([freed EXCEPT !.els[e].leave = 0], c),
                              e, {"leave-to", "leave-active"})
    IN IF cb.called THEN s
       ELSE IF cb.cancelled THEN RemoveClasses(over, e, {"leave"})
       ELSE AfterLeave(Rm(over, e), cb)

\* A hook with a done argument takes the end over.
TakesOver(s, c) == IF setup.control THEN [s EXCEPT !.waits = @ \cup {c}] ELSE s

Start(s, c, cs) ==
    LET classed == AddClasses(s, s.cbs[c].el, cs)
    IN IF setup.css THEN [classed EXCEPT !.frames = Append(@, c)] ELSE classed

\* performLeave.
PerformLeave(s, c) ==
    LET e == s.cbs[c].el
        recorded == IF ~ setup.show /\ s.els[e].dom
                    THEN [s EXCEPT !.pending[s.els[e].key] = e] ELSE s
        started == TakesOver(Start(recorded, c, {"leave", "leave-active"}), c)
    IN IF s.cbs[c].cancelled THEN s
       ELSE IF ~ setup.css /\ ~ setup.control THEN LeaveCb(started, c)
       ELSE started

\* The hooks mode "in-out" adds to afterEnter and enterCancelled; before the old
\* child's leave there is nothing to perform, and the error is only reported.
PerformDelayed(s, old) ==
    LET c == IF old = 0 THEN 0 ELSE s.els[old].leave
    IN IF c # 0 /\ s.cbs[c].delayed
       THEN PerformLeave([s EXCEPT !.cbs[c].delayed = FALSE], c) ELSE s

\* Fault: only an enter that is not cancelled lets the old child go.
EnterCbAlone(s, c) ==
    LET cb == s.cbs[c]
        e == cb.el
        classes == {"enter-to", "enter-active"}
                     \cup (IF cb.cancelled THEN {"enter"} ELSE {})
        over == RemoveClasses(Done([s EXCEPT !.els[e].enter = 0], c), e, classes)
    IN IF cb.called THEN s ELSE IF cb.cancelled THEN over ELSE PerformDelayed(over, cb.old)

\* el._enterCb.
EnterCb(s, c) ==
    LET cb == s.cbs[c]
        e == cb.el
        classes == {"enter-to", "enter-active"}
                     \cup (IF cb.cancelled THEN {"enter"} ELSE {})
        over == RemoveClasses(Done([s EXCEPT !.els[e].enter = 0], c), e, classes)
    IN IF cb.called THEN s ELSE PerformDelayed(over, cb.old)

Callback(e, side) ==
    [el |-> e, side |-> side, cancelled |-> FALSE, called |-> FALSE, old |-> 0,
     resume |-> FALSE, delayed |-> FALSE]

CancelLeave(s, e) ==
    LET c == s.els[e].leave
    IN IF c = 0 THEN s ELSE LeaveCb([s EXCEPT !.cbs[c].cancelled = TRUE], c)
CancelEnter(s, e) ==
    LET c == s.els[e].enter
    IN IF c = 0 THEN s ELSE EnterCb([s EXCEPT !.cbs[c].cancelled = TRUE], c)

\* enter: old is the child whose leave waits for this one.  A child that is
\* there when the page is mounted needs appear.
Enter(s, e, old) ==
    LET free == CancelLeave(s, e)
        c == Len(free.cbs) + 1
        made == [free EXCEPT !.cbs = Append(@, [Callback(e, "enter") EXCEPT !.old = old]),
                             !.els[e].enter = c]
        started == TakesOver(Start(made, c, {"enter", "enter-active"}), c)
        shown == IF setup.show THEN [started EXCEPT !.els[e].display = TRUE] ELSE started
    IN IF free.els[e].enter # 0 \/ (~ mounted /\ ~ setup.appear) THEN free
       ELSE IF ~ setup.css /\ ~ setup.control THEN EnterCb(shown, c)
       ELSE shown

\* The insert hook enter adds: an element of the same key that still leaves goes
\* at once.
InsertHook(s, e) ==
    LET p == s.pending[s.els[e].key]
    IN IF (~ mounted /\ ~ setup.appear) \/ p = 0 THEN s
       ELSE IF s.els[p].leave = 0 THEN s
       ELSE LeaveCb(s, s.els[p].leave)

\* Fault: the enter under way is not cancelled.
LeaveOver(s, e, how) ==
    LET c == Len(s.cbs) + 1
        made == [s EXCEPT
                   !.cbs = Append(@, [Callback(e, "leave") EXCEPT
                                        !.resume = how = "resume", !.delayed = how = "delay"]),
                   !.els[e].leave = c]
    IN IF s.els[e].leave # 0 THEN s
       ELSE IF how = "delay" THEN made
       ELSE PerformLeave(made, c)

\* leave: how is "resume" when the component renders again after it, and "delay"
\* when it waits for another child's enter.
Leave(s, e, how) ==
    LET free == CancelEnter(s, e)
        c == Len(free.cbs) + 1
        made == [free EXCEPT
                   !.cbs = Append(@, [Callback(e, "leave") EXCEPT
                                        !.resume = how = "resume", !.delayed = how = "delay"]),
                   !.els[e].leave = c]
    IN IF free.els[e].leave # 0 THEN free
       ELSE IF how = "delay" THEN made
       ELSE PerformLeave(made, c)

-----------------------------------------------------------------------------
(* A render and its patch *)

Made(s, k, shown) ==
    [s EXCEPT !.els = Append(@, [key |-> k, dom |-> FALSE, display |-> shown,
                                 classes |-> {}, enter |-> 0, leave |-> 0])]

\* createElm: the create hooks run before the element is in its place.
Create(s, k, old) ==
    LET e == Len(s.els) + 1
    IN [Enter(Made(s, k, TRUE), e, old) EXCEPT !.els[e].dom = TRUE]

Remove(s, e, how) == IF e = 0 THEN s ELSE Leave(s, e, how)

Showing(s, new) == Becomes(s) /\ current' = new

\* Fault: the other child is rendered while the old one leaves.
RenderAtOnce(s) ==
    LET e == Len(s.els) + 1
        replaces == current # 0 /\ want # None /\ els[current].key # want
        how == IF replaces /\ setup.mode = "in-out" THEN "delay" ELSE "now"
        created == Create(s, want, IF how = "delay" THEN current ELSE 0)
    IN IF want = None THEN Showing(Remove(s, current, "now"), 0)
       ELSE IF replaces /\ setup.mode = "out-in"
       THEN Showing(Remove([s EXCEPT !.leaving = TRUE], current, "resume"), 0)
       ELSE IF replaces \/ current = 0
       THEN Showing(InsertHook(Remove(created, current, how), e), e)
       ELSE Showing(s, current)

\* Transition.render, then the patch.
RenderChild(s) ==
    LET e == Len(s.els) + 1
        replaces == current # 0 /\ want # None /\ els[current].key # want
        how == IF replaces /\ setup.mode = "in-out" THEN "delay" ELSE "now"
        created == Create(s, want, IF how = "delay" THEN current ELSE 0)
    IN IF want = None \/ s.leaving THEN Showing(Remove(s, current, "now"), 0)
       ELSE IF replaces /\ setup.mode = "out-in"
       THEN Showing(Remove([s EXCEPT !.leaving = TRUE], current, "resume"), 0)
       ELSE IF replaces \/ current = 0
       THEN Showing(InsertHook(Remove(created, current, how), e), e)
       ELSE Showing(s, current)

Shown == want # None
TheKey == CHOOSE k \in Keys : TRUE

\* The v-show directive: bind, for the child that is made ...
BindShow(s) ==
    LET made == [Made(s, TheKey, Shown) EXCEPT !.els[1].dom = TRUE]
    IN Showing(IF Shown THEN Enter(made, 1, 0) ELSE made, 1)

\* ... and update, for the one that is there.
UpdateShow(s) ==
    Showing(IF showing = Shown THEN s
            ELSE IF Shown THEN Enter(s, 1, 0) ELSE Leave(s, 1, "now"), 1)

Render ==
    /\ dirty
    /\ LET s == [State EXCEPT !.dirty = FALSE] IN
       IF ~ setup.show THEN RenderChild(s)
       ELSE IF mounted THEN UpdateShow(s) ELSE BindShow(s)
    /\ mounted' = TRUE
    /\ showing' = Shown
    /\ UNCHANGED <<setup, want, toggles>>

-----------------------------------------------------------------------------
(* The browser *)

Asks == IF setup.show THEN {TheKey, None} ELSE Keys \cup {None}

Toggle ==
    /\ mounted
    /\ toggles < MaxToggles
    /\ toggles' = toggles + 1
    /\ want' \in Asks \ {want}
    /\ dirty' = TRUE
    /\ UNCHANGED <<setup, mounted, current, showing, leaving, els, cbs, pending, frames,
                   waits>>

Call(s, c) == IF s.cbs[c].side = "enter" THEN EnterCb(s, c) ELSE LeaveCb(s, c)

\* nextFrame's callback.  Where no style declares a transition it is over at once.
Frame ==
    /\ ~ dirty
    /\ frames # <<>>
    /\ LET c == Head(frames)
           side == cbs[c].side
           started == RemoveClasses([State EXCEPT !.frames = Tail(@)], cbs[c].el, {side})
           to == AddClasses(started, cbs[c].el,
                            {IF side = "enter" THEN "enter-to" ELSE "leave-to"})
       IN IF cbs[c].cancelled THEN Becomes(started)
          ELSE IF setup.control THEN Becomes(to)
          ELSE \/ Becomes(Call(to, c))
               \/ Becomes(IF cbs[c].called THEN to ELSE [to EXCEPT !.waits = @ \cup {c}])
    /\ UNCHANGED <<setup, want, toggles, mounted, current, showing>>

\* transitionend or animationend, the timer behind them, setTimeout for an
\* explicit duration, or done().
End(c) ==
    /\ ~ dirty
    /\ c \in waits
    /\ EarlyDone \/ \A i \in DOMAIN frames : frames[i] # c
    /\ Becomes(Call(State, c))
    /\ UNCHANGED <<setup, want, toggles, mounted, current, showing>>

Init ==
    /\ setup \in Setups
    /\ want \in Asks
    /\ toggles = 0
    /\ dirty = TRUE /\ mounted = FALSE /\ leaving = FALSE
    /\ current = 0 /\ showing = FALSE
    /\ els = <<>> /\ cbs = <<>> /\ pending = [k \in Keys |-> 0]
    /\ frames = <<>> /\ waits = {}

Browser == Render \/ Frame \/ \E c \in waits : End(c)
Next == Toggle \/ Browser

Spec == Init /\ [][Next]_vars

\* Something is due.
Due == dirty \/ frames # <<>> \/ waits # {}

\* Microtasks, frames, events and timers come: weak fairness of Browser, with
\* Due for what enables it.
FairSpec == Spec /\ ([]<>(~ Due) \/ []<><<Browser>>_<<dirty, current, frames, waits>>)

-----------------------------------------------------------------------------
(* Properties *)

\* An element enters or leaves, not both: whichever comes cancels the other.
OneWay == \A e \in Els : els[e].enter = 0 \/ els[e].leave = 0

\* An element that neither enters nor leaves wears none of the classes of the
\* transition, whatever was cancelled and whichever frame came late.
Bare ==
    \A e \in Els :
        (els[e].dom /\ els[e].enter = 0 /\ els[e].leave = 0) => els[e].classes = {}

Settled == mounted /\ ~ dirty /\ \A c \in Cbs : cbs[c].called

\* When every transition is over the page shows what was asked for last, and
\* nothing else.
SettledShows ==
    Settled =>
        IF setup.show THEN els[1].display = Shown
        ELSE {els[e].key : e \in {x \in Els : els[x].dom}} = {want} \ {None}
             /\ Cardinality({x \in Els : els[x].dom}) <= 1

\* Mode "out-in": as long as the old child leaves there is no other.
OutBeforeIn == leaving => \A e \in Els : els[e].dom => els[e].leave # 0

\* Every transition that is begun is over some time, also one that waits for
\* another.
EachEnds ==
    \A c \in 1 .. 2 * MaxToggles + 2 :
        (c \in Cbs /\ ~ cbs[c].called) ~> (c \in Cbs /\ cbs[c].called)
=============================================================================
