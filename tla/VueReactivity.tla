--------------------------- MODULE VueReactivity ---------------------------
(***************************************************************************)
(* The reactivity of a page (vue.js): an observed object in the data of a  *)
(* component, the dependency lists of its properties, the watchers that    *)
(* read them, the queue of watchers to run and the callbacks of nextTick.  *)
(*                                                                         *)
(* JavaScript runs one function at a time.  What interleaves is the code   *)
(* of the page: it runs in a task, in the hooks and callbacks a flush      *)
(* calls, in the callbacks of nextTick, and changes the data there.  mode  *)
(* says which code runs; notify is one step per subscriber.                *)
(***************************************************************************)
EXTENDS Naturals, Sequences

CONSTANTS
    Keys,            \* the properties the object may have
    Undefined,       \* the value of a property it has not
    Objects,         \* the objects the page starts with or puts in its place
    N,               \* the watchers are 1 .. N, in the order they are made
    Initial,         \* how many of them initState makes, before the page's code runs
    Kind,            \* of each watcher: "lazy" (computed), "user", "render"
    Program,         \* what its getter reads: if test then yes else no
    Reaction,        \* the property its callback flips, or Nothing
    Nothing,
    Ticks,           \* the callbacks the page may give to nextTick
    MaxUpdateCount,  \* MAX_UPDATE_COUNT, 100 in the code
    MaxEdits,        \* bound: changes the page makes
    MaxThrows        \* bound: patches that throw

Watchers == 1 .. N
Value == {0, 1, Undefined}
Shape == [Keys -> Value]
Lazy == {w \in Watchers : Kind[w] = "lazy"}

\* A computed property may read the computed properties defined before it.
Source == Keys \cup Lazy
Expression == [test : Source, yes : Source, no : Source]

ASSUME KeyAssumption ==
    /\ Keys \cap (Nat \cup {"root", "object"}) = {}
    /\ Undefined \notin {0, 1}
    /\ Undefined \notin Shape
    /\ Objects \subseteq Shape
    /\ N \in Nat
    /\ Initial \in 0 .. N
ASSUME ProgramAssumption ==
    /\ Kind \in [Watchers -> {"lazy", "user", "render"}]
    /\ Program \in [Watchers -> Expression]
    /\ \A w \in Watchers : {Program[w].test, Program[w].yes, Program[w].no}
                             \subseteq Keys \cup 0 .. (w - 1)
    /\ Reaction \in [Watchers -> Keys \cup {Nothing}]
    /\ "flush" \notin Ticks
ASSUME BoundAssumption ==
    MaxUpdateCount \in Nat /\ MaxEdits \in Nat /\ MaxThrows \in Nat

\* A Dep is told from another by what it belongs to, the data property that
\* holds the object, the object, or one of its properties, and by when it was made.
Dep == [of : Keys \cup {"root", "object"}, born : 0 .. MaxEdits]

VARIABLES
    data,       \* the properties of the object
    born,       \* when the Dep of each of them was made
    object,     \* when the Observer of the object was made
    subs,       \* Dep.subs
    deps,       \* Watcher.deps
    value,      \* Watcher.value; of a render watcher, what it has rendered
    active,     \* Watcher.active
    dirty,      \* Watcher.dirty
    made,       \* watchers made so far (uid$2)
    destroyed,  \* the component has been destroyed
    queue,      \* during a flush from the current watcher on
    past,       \* the watchers it held before that one
    has, circular, waiting, flushing,   \* the rest of the scheduler's state
    callbacks, pending,                               \* nextTick
    copies,     \* the callbacks flushCallbacks is running, the current one first
    mode,       \* which code runs
    acted,      \* the hook or callback that runs has made its change
    updating,   \* the subscribers notify has not told yet
    edits, throws,   \* changes and throws so far
    tripped,    \* a flush has given up
    owed        \* of each tick: watchers queued when it was asked for, not run since

observed == <<data, born, object>>
watchers == <<subs, deps, value, active, dirty>>
scheduler == <<queue, past, has, circular, waiting, flushing>>
ticks == <<callbacks, pending, copies>>
counters == <<edits, throws, tripped>>
vars == <<observed, watchers, made, destroyed, scheduler, ticks, mode, acted,
          updating, counters, owed>>

PageModes == {"task", "before", "callback", "updated", "tick"}

TypeOK ==
    /\ data \in Shape
    /\ born \in [Keys -> 0 .. MaxEdits]
    /\ object \in 0 .. MaxEdits
    /\ subs \in [Dep -> SUBSET Watchers]
    /\ deps \in [Watchers -> SUBSET Dep]
    /\ value \in [Watchers -> Value]
    /\ active \in [Watchers -> BOOLEAN]
    /\ dirty \in [Watchers -> BOOLEAN]
    /\ made \in 0 .. N
    /\ destroyed \in BOOLEAN
    /\ queue \in Seq(Watchers)
    /\ past \in SUBSET Watchers
    /\ has \in [Watchers -> BOOLEAN]
    /\ circular \in [Watchers -> Nat]
    /\ waiting \in BOOLEAN /\ flushing \in BOOLEAN
    /\ callbacks \in Seq(Ticks \cup {"flush"})
    /\ pending \in BOOLEAN
    /\ copies \in Seq(Ticks \cup {"flush"})
    /\ mode \in PageModes \cup {"copies", "loop", "run", "react", "check"}
    /\ acted \in BOOLEAN
    /\ updating \in SUBSET Watchers
    /\ edits \in 0 .. MaxEdits
    /\ throws \in 0 .. MaxThrows
    /\ tripped \in BOOLEAN
    /\ owed \in [Ticks -> SUBSET Watchers]

-----------------------------------------------------------------------------
(* Reading *)

RootDep == [of |-> "root", born |-> 0]
ObjectDep == [of |-> "object", born |-> object]
KeyDep(k) == [of |-> k, born |-> born[k]]

\* The getter of the data property depends on its Dep and on the Observer of
\* the object it holds; the getter of the object's property, if it has one, on its own.
ReadKey(k) ==
    [value |-> data[k],
     deps  |-> {RootDep, ObjectDep} \cup (IF data[k] = Undefined THEN {} ELSE {KeyDep(k)}),
     ran   |-> {}]

\* What the getter of w returns, the Deps that register with it, and the computed
\* properties evaluated on the way: a computed property that is clean answers
\* from its cache and passes its Deps on, a dirty one is evaluated first.
Getter ==
    LET get[w \in Watchers] ==
          LET read(s) == IF s \in Keys THEN ReadKey(s) ELSE get[s]
              test == read(Program[w].test)
              branch == read(IF test.value = 1 THEN Program[w].yes ELSE Program[w].no)
          IN  IF w \in Lazy /\ ~ dirty[w]
              THEN [value |-> value[w], deps |-> deps[w], ran |-> {}]
              ELSE [value |-> branch.value,
                    deps  |-> test.deps \cup branch.deps,
                    ran   |-> test.ran \cup branch.ran \cup {w}]
    IN  get

\* Fault: a watcher is not removed from the Deps its last evaluation did not read.
WithoutCleanup(got, ran) ==
    /\ deps' = [v \in Watchers |-> IF v \in ran THEN got[v].deps ELSE deps[v]]
    /\ subs' = [d \in Dep |-> subs[d] \cup {v \in ran : d \in deps'[v] \ deps[v]}]

\* addDep of what the getters of ran have read, which subscribes to the Deps they
\* had not read before, then cleanupDeps, which leaves those not read again.
Register(got, ran) ==
    /\ deps' = [v \in Watchers |-> IF v \in ran THEN got[v].deps ELSE deps[v]]
    /\ subs' = [d \in Dep |-> {v \in subs[d] : v \in ran => d \in deps'[v]}
                                \cup {v \in ran : d \in deps'[v] \ deps[v]}]

\* Fault: the value a computed property was evaluated to is not kept.
EvaluateForgetting(got, ran) ==
    /\ value' = [v \in Watchers |-> IF v \in ran \ Lazy THEN got[v].value ELSE value[v]]
    /\ dirty' = [v \in Watchers |-> dirty[v] /\ ~ (v \in ran /\ v \in Lazy)]

\* Computed properties that were evaluated on the way keep their value.
Evaluate(got, ran) ==
    /\ value' = [v \in Watchers |-> IF v \in ran THEN got[v].value ELSE value[v]]
    /\ dirty' = [v \in Watchers |-> dirty[v] /\ ~ (v \in ran /\ v \in Lazy)]

\* Watcher.get of w, which stores what it returns.
Get(w) ==
    LET got == Getter
        ran == {w} \cup {v \in Lazy : v <= made /\ v \in got[w].ran}
    IN  Register(got, ran) /\ Evaluate(got, ran)

-----------------------------------------------------------------------------
(* Telling the watchers *)

\* Behind the current watcher and those of the others that are not younger.
Behind(w) == {1} \cup {j \in 2 .. Len(queue) : queue[j] <= w}

Splice(w) ==
    \E i \in Behind(w) :
        /\ \A j \in Behind(w) : j <= i
        /\ queue' = SubSeq(queue, 1, i) \o <<w>> \o SubSeq(queue, i + 1, Len(queue))

\* Fault: a callback of the page goes in front.
NextTickFirst(cb) ==
    /\ callbacks' = IF cb = "flush" THEN Append(callbacks, cb) ELSE <<cb>> \o callbacks
    /\ pending' = TRUE
    /\ UNCHANGED copies

NextTick(cb) ==
    /\ callbacks' = Append(callbacks, cb)
    /\ pending' = TRUE
    /\ UNCHANGED copies

\* Fault: a watcher the flush has passed is left for the next flush, which
\* nobody asks for.
QueueWatcherAhead(w) ==
    \/ (has[w] \/ (flushing /\ w <= Head(queue))) /\ UNCHANGED <<scheduler, ticks>>
    \/ /\ ~ has[w]
       /\ flushing => w > Head(queue)
       /\ has' = [has EXCEPT ![w] = TRUE]
       /\ IF flushing THEN Splice(w) ELSE queue' = Append(queue, w)
       /\ waiting' = TRUE
       /\ IF waiting THEN UNCHANGED ticks ELSE NextTick("flush")
       /\ UNCHANGED <<past, circular, flushing>>

QueueWatcher(w) ==
    \/ has[w] /\ UNCHANGED <<scheduler, ticks>>
    \/ /\ ~ has[w]
       /\ has' = [has EXCEPT ![w] = TRUE]
       /\ IF flushing THEN Splice(w) ELSE queue' = Append(queue, w)
       /\ waiting' = TRUE
       /\ IF waiting THEN UNCHANGED ticks ELSE NextTick("flush")
       /\ UNCHANGED <<past, circular, flushing>>

\* One turn of the loop of notify.  The order of the subscribers makes no
\* difference: the queue is sorted before it is run and spliced in order after.
Update(w) ==
    /\ w \in updating
    /\ updating' = updating \ {w}
    /\ \/ /\ w \in Lazy
          /\ dirty' = [dirty EXCEPT ![w] = TRUE]
          /\ UNCHANGED <<scheduler, ticks>>
       \/ /\ w \notin Lazy
          /\ QueueWatcher(w)
          /\ UNCHANGED dirty
    /\ UNCHANGED <<observed, subs, deps, value, active, made, destroyed, mode,
                   acted, counters, owed>>

-----------------------------------------------------------------------------
(* What the code of the page does, wherever it runs *)

Callable == updating = {} /\ mode \in PageModes /\ (mode = "task" \/ ~ acted)

\* The first code of the page that sees its data is the created hook.
PageRuns == Callable /\ made >= Initial

\* Code of the page that is called back makes one change.
Edit ==
    /\ PageRuns
    /\ edits < MaxEdits
    /\ edits' = edits + 1
    /\ acted' = (mode # "task")
    /\ UNCHANGED <<watchers, made, destroyed, scheduler, ticks, mode, throws,
                   tripped, owed>>

\* The setter of a property, which ignores a value that is not new.
Assign(k, v) ==
    /\ Edit
    /\ data[k] # Undefined
    /\ data[k] # v
    /\ data' = [data EXCEPT ![k] = v]
    /\ updating' = subs[KeyDep(k)]
    /\ UNCHANGED <<born, object>>

\* Fault: the Dep takes the number of the next one.
SetNextUid(k, v) ==
    /\ Edit
    /\ data[k] = Undefined
    /\ data' = [data EXCEPT ![k] = v]
    /\ born' = [born EXCEPT ![k] = edits' + 1]
    /\ updating' = subs[ObjectDep]
    /\ UNCHANGED object

\* $set of a property the object has not.
Set(k, v) ==
    /\ Edit
    /\ data[k] = Undefined
    /\ data' = [data EXCEPT ![k] = v]
    /\ born' = [born EXCEPT ![k] = edits']
    /\ updating' = subs[ObjectDep]
    /\ UNCHANGED object

\* $delete.
Delete(k) ==
    /\ Edit
    /\ data[k] # Undefined
    /\ data' = [data EXCEPT ![k] = Undefined]
    /\ updating' = subs[ObjectDep]
    /\ UNCHANGED <<born, object>>

\* The data property is given another object, which is observed.
Replace(new) ==
    /\ Edit
    /\ data' = new
    /\ born' = [k \in Keys |-> edits']
    /\ object' = edits'
    /\ updating' = subs[RootDep]

\* The page makes its next watcher: a computed property, a watcher of its own
\* or the render watcher.  All but the first kind read at once.
Make ==
    LET w == made + 1 IN
    /\ Callable
    /\ made < N
    /\ ~ destroyed
    /\ made' = w
    /\ active' = [active EXCEPT ![w] = TRUE]
    /\ \/ /\ w \in Lazy
          /\ dirty' = [dirty EXCEPT ![w] = TRUE]
          /\ UNCHANGED <<subs, deps, value>>
       \/ /\ w \notin Lazy
          /\ Get(w)
    /\ UNCHANGED <<observed, destroyed, scheduler, ticks, mode, acted, updating,
                   counters, owed>>

\* The getter of a dirty computed property is called outside any watcher, the
\* component destroyed or not.
ReadComputed(w) ==
    /\ PageRuns
    /\ w \in Lazy
    /\ w <= made
    /\ dirty[w]
    /\ Get(w)
    /\ UNCHANGED <<observed, active, made, destroyed, scheduler, ticks, mode,
                   acted, updating, counters, owed>>

Teardown(S) ==
    /\ active' = [v \in Watchers |-> active[v] /\ v \notin S]
    /\ subs' = [d \in Dep |-> subs[d] \ {v \in S : active[v]}]
    /\ UNCHANGED <<deps, value, dirty>>

\* unwatchFn.
Unwatch(w) ==
    /\ PageRuns
    /\ Kind[w] = "user"
    /\ active[w]
    /\ Teardown({w})
    /\ UNCHANGED <<observed, made, destroyed, scheduler, ticks, mode, acted,
                   updating, counters, owed>>

\* $destroy tears every watcher of the component down.
Destroy ==
    /\ PageRuns
    /\ ~ destroyed
    /\ made = N
    /\ destroyed' = TRUE
    /\ Teardown(Watchers)
    /\ UNCHANGED <<observed, made, scheduler, ticks, mode, acted, updating,
                   counters, owed>>

\* The page calls nextTick.
AskTick(t) ==
    /\ PageRuns
    /\ t \notin {callbacks[i] : i \in DOMAIN callbacks} \cup {copies[i] : i \in DOMAIN copies}
    /\ owed[t] = {}
    /\ NextTick(t)
    /\ owed' = [owed EXCEPT ![t] = {w \in Watchers : has[w]}]
    /\ acted' = (mode # "task")
    /\ edits < MaxEdits
    /\ edits' = edits + 1
    /\ UNCHANGED <<observed, watchers, made, destroyed, scheduler, mode, updating,
                   throws, tripped>>

-----------------------------------------------------------------------------
(* The flush *)

\* The task has ended and its microtask runs.
FlushCallbacks ==
    /\ mode = "task"
    /\ updating = {}
    /\ pending
    /\ pending' = FALSE
    /\ copies' = callbacks
    /\ callbacks' = <<>>
    /\ mode' = "copies"
    /\ UNCHANGED <<observed, watchers, made, destroyed, scheduler, acted, updating,
                   counters, owed>>

\* Fault: the queue is run in the order the watchers came.
Unsorted(q) == {q}

\* The queue in the order of the ids.
Sorted(q) ==
    {p \in [DOMAIN q -> Watchers] :
        /\ \A w \in Watchers : (\E i \in DOMAIN p : p[i] = w) <=> (\E i \in DOMAIN q : q[i] = w)
        /\ \A i, j \in DOMAIN p : i < j => p[i] < p[j]}

StartFlush ==
    /\ mode = "copies"
    /\ copies # <<>>
    /\ Head(copies) = "flush"
    /\ flushing' = TRUE
    /\ queue' \in Sorted(queue)
    /\ mode' = "loop"
    /\ UNCHANGED <<observed, watchers, made, destroyed, past, has, circular,
                   waiting, ticks, acted, updating, counters, owed>>

StartTick ==
    /\ mode = "copies"
    /\ copies # <<>>
    /\ Head(copies) # "flush"
    /\ mode' = "tick"
    /\ acted' = FALSE
    /\ UNCHANGED <<observed, watchers, made, destroyed, scheduler, ticks, updating,
                   counters, owed>>

EndCopies ==
    /\ mode = "copies"
    /\ copies = <<>>
    /\ mode' = "task"
    /\ acted' = FALSE
    /\ UNCHANGED <<observed, watchers, made, destroyed, scheduler, ticks, updating,
                   counters, owed>>

\* The callback that runs, the flush or the page's, returns.
Return ==
    /\ mode' = "copies"
    /\ copies' = Tail(copies)
    /\ UNCHANGED <<callbacks, pending>>

Current == Head(queue)

\* The beforeUpdate hook comes before the watcher is taken off has.
NextWatcher ==
    /\ mode = "loop"
    /\ queue # <<>>
    /\ mode' = IF Kind[Current] = "render" /\ ~ destroyed THEN "before" ELSE "run"
    /\ acted' = FALSE
    /\ UNCHANGED <<observed, watchers, made, destroyed, scheduler, ticks, updating,
                   counters, owed>>

\* The callback is called when the value is another one.
Fires(w) == Kind[w] = "user" /\ Getter[w].value # value[w]

Run ==
    /\ mode = "run"
    /\ has' = [has EXCEPT ![Current] = FALSE]
    /\ owed' = [t \in Ticks |-> owed[t] \ {Current}]
    /\ \/ /\ active[Current]
          /\ Get(Current)
          /\ mode' = IF ~ Fires(Current) THEN "check"
                     ELSE IF Reaction[Current] = Nothing THEN "callback" ELSE "react"
       \/ /\ ~ active[Current]
          /\ mode' = "check"
          /\ UNCHANGED <<subs, deps, value, dirty>>
    /\ acted' = FALSE
    /\ UNCHANGED <<observed, active, made, destroyed, queue, past, circular,
                   waiting, flushing, ticks, updating, counters>>

\* The patch of a render watcher throws.  The wrapper of nextTick catches it;
\* the state of the scheduler stays as it is.
RunThrows ==
    /\ mode = "run"
    /\ Kind[Current] = "render"
    /\ active[Current]
    /\ throws < MaxThrows
    /\ throws' = throws + 1
    /\ has' = [has EXCEPT ![Current] = FALSE]
    /\ Get(Current)
    /\ Return
    /\ UNCHANGED <<observed, active, made, destroyed, queue, past, circular,
                   waiting, flushing, acted, updating, edits, tripped, owed>>

\* What the callback of the watcher always does.
React ==
    LET k == Reaction[Current] IN
    /\ mode = "react"
    /\ mode' = "callback"
    /\ data' = IF data[k] = Undefined THEN data ELSE [data EXCEPT ![k] = 1 - @]
    /\ updating' = IF data[k] = Undefined THEN {} ELSE subs[KeyDep(k)]
    /\ UNCHANGED <<born, object, watchers, made, destroyed, scheduler, ticks, acted,
                   counters, owed>>

\* The hook or callback of the page returns.
PageReturns ==
    /\ updating = {}
    /\ \/ mode = "before" /\ mode' = "run" /\ UNCHANGED ticks
       \/ mode = "callback" /\ mode' = "check" /\ UNCHANGED ticks
       \/ mode \in {"updated", "tick"} /\ Return
    /\ UNCHANGED <<observed, watchers, made, destroyed, scheduler, acted, updating,
                   counters, owed>>

ResetSchedulerState ==
    /\ queue' = <<>>
    /\ past' = {}
    /\ has' = [w \in Watchers |-> FALSE]
    /\ circular' = [w \in Watchers |-> 0]
    /\ waiting' = FALSE
    /\ flushing' = FALSE

\* callUpdatedHooks, of the render watchers in the queue.
Finish ==
    /\ ResetSchedulerState
    /\ IF ~ destroyed /\ \E w \in past \cup {queue[i] : i \in DOMAIN queue} : Kind[w] = "render"
       THEN mode' = "updated" /\ acted' = FALSE /\ UNCHANGED ticks
       ELSE Return /\ UNCHANGED acted

\* index++
Advance ==
    /\ queue' = Tail(queue)
    /\ past' = past \cup {Current}
    /\ mode' = "loop"

\* Fault: a watcher that has queued itself again is not counted.
CheckNothing ==
    /\ mode = "check"
    /\ updating = {}
    /\ Advance
    /\ UNCHANGED <<has, circular, waiting, flushing, ticks, acted, tripped>>
    /\ UNCHANGED <<observed, watchers, made, destroyed, updating, edits, throws, owed>>

\* "in dev build, check and stop circular updates."
CheckCircular ==
    /\ mode = "check"
    /\ updating = {}
    /\ \/ /\ ~ has[Current]
          /\ Advance
          /\ UNCHANGED <<has, circular, waiting, flushing, ticks, acted, tripped>>
       \/ /\ has[Current]
          /\ circular[Current] < MaxUpdateCount
          /\ circular' = [circular EXCEPT ![Current] = @ + 1]
          /\ Advance
          /\ UNCHANGED <<has, waiting, flushing, ticks, acted, tripped>>
       \/ /\ has[Current]
          /\ circular[Current] >= MaxUpdateCount
          /\ tripped' = TRUE
          /\ Finish
    /\ UNCHANGED <<observed, watchers, made, destroyed, updating, edits, throws, owed>>

EndFlush ==
    /\ mode = "loop"
    /\ queue = <<>>
    /\ Finish
    /\ UNCHANGED <<observed, watchers, made, destroyed, updating, counters, owed>>

-----------------------------------------------------------------------------
Init ==
    /\ data \in Objects
    /\ born = [k \in Keys |-> 0]
    /\ object = 0
    /\ subs = [d \in Dep |-> {}]
    /\ deps = [w \in Watchers |-> {}]
    /\ value = [w \in Watchers |-> Undefined]
    /\ active = [w \in Watchers |-> FALSE]
    /\ dirty = [w \in Watchers |-> FALSE]
    /\ made = 0
    /\ destroyed = FALSE
    /\ queue = <<>> /\ past = {}
    /\ has = [w \in Watchers |-> FALSE]
    /\ circular = [w \in Watchers |-> 0]
    /\ waiting = FALSE /\ flushing = FALSE
    /\ callbacks = <<>> /\ pending = FALSE /\ copies = <<>>
    /\ mode = "task"
    /\ acted = FALSE
    /\ updating = {}
    /\ edits = 0 /\ throws = 0 /\ tripped = FALSE
    /\ owed = [t \in Ticks |-> {}]

\* What the page chooses to do.
Page ==
    \/ \E k \in Keys, v \in {0, 1} : Assign(k, v) \/ Set(k, v)
    \/ \E k \in Keys : Delete(k)
    \/ \E new \in Objects : Replace(new)
    \/ Make \/ Destroy
    \/ \E w \in Watchers : ReadComputed(w) \/ Unwatch(w)
    \/ \E t \in Ticks : AskTick(t)

\* What happens by itself.
Engine ==
    \/ \E w \in Watchers : Update(w)
    \/ FlushCallbacks \/ StartFlush \/ StartTick \/ EndCopies
    \/ NextWatcher \/ Run \/ React \/ PageReturns \/ CheckCircular \/ EndFlush

\* The page does nothing and nothing is pending.
Rest ==
    /\ mode = "task"
    /\ updating = {}
    /\ ~ pending
    /\ UNCHANGED vars

Next == Page \/ Engine \/ RunThrows \/ Rest

Spec == Init /\ [][Next]_vars

\* The event loop runs what is pending, and a function that is called returns.
\* Every step of the engine changes one of the two variables.
FairSpec == Spec /\ WF_<<mode, updating>>(Engine)

-----------------------------------------------------------------------------
(* Properties *)

\* What w would return were nothing cached.
Fresh ==
    LET fresh[w \in Watchers] ==
          LET read(s) == IF s \in Keys THEN data[s] ELSE fresh[s]
          IN  IF read(Program[w].test) = 1 THEN read(Program[w].yes)
              ELSE read(Program[w].no)
    IN  fresh

\* When no flush is due every watcher has seen the data as they are: no change
\* is lost, in whichever hook or callback it was made, whatever the object was
\* replaced by, whichever branch of an expression was taken last.  Given up
\* flushes and patches that throw are the exceptions.
SettledFresh ==
    (updating = {} /\ ~ waiting /\ ~ tripped /\ throws = 0)
        => \A w \in Watchers \ Lazy : active[w] => value[w] = Fresh[w]

\* A computed property that is clean would not change if it were evaluated
\* again, at any moment the page can read it.
ComputedFresh ==
    updating = {} =>
        \A w \in Lazy : active[w] /\ ~ dirty[w] => value[w] = Fresh[w]

\* The two sides of a subscription agree: a Dep knows a watcher exactly when the
\* watcher has read it and is not torn down.  A computed property may be read
\* after its component is destroyed, and subscribe to what it had not read before.
SubsAgree ==
    \A w \in Watchers, d \in Dep :
        /\ w \in subs[d] => d \in deps[w] /\ (active[w] \/ w \in Lazy)
        /\ d \in deps[w] /\ active[w] => w \in subs[d]

\* When a callback given to nextTick runs, the watchers that were queued when it
\* was asked for have run.
TickAfterUpdate ==
    (mode = "tick" /\ ~ tripped /\ throws = 0) => owed[Head(copies)] = {}

\* A flush that is due, or under way, ends: a watcher whose callback changes
\* what it watches is stopped.
FlushEnds == waiting ~> (~ waiting \/ throws > 0)

\* The queue, has and the two flags implement the update queue.
Taken == IF mode \in {"before", "run"} THEN {Current} ELSE {}

Abstract == INSTANCE UpdateQueue WITH
    Watcher <- Watchers,
    due     <- {w \in Watchers : has[w]} \ Taken,
    busy    <- flushing

QueueImplements == Abstract!Spec
=============================================================================
