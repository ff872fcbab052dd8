------------------------ MODULE VueReactivityProofs ------------------------
(* What holds of the scheduler of a page for every value of the constants.  *)
EXTENDS VueReactivity, SequenceTheorems, TLAPS

-----------------------------------------------------------------------------
(* The invariant *)

FlushModes == {"loop", "before", "run", "react", "callback", "check"}
Modes == PageModes \cup {"copies"} \cup FlushModes

SchedulerTypes ==
    /\ queue \in Seq(Watchers)
    /\ has \in [Watchers -> BOOLEAN]
    /\ waiting \in BOOLEAN /\ flushing \in BOOLEAN
    /\ callbacks \in Seq(Ticks \cup {"flush"})
    /\ copies \in Seq(Ticks \cup {"flush"})
    /\ mode \in Modes

\* The callbacks flushCallbacks has still to call.
Ahead == IF mode \in {"task", "copies"} THEN copies ELSE Tail(copies)

Holds(s, c) == \E i \in DOMAIN s : s[i] = c

\* The flush is asked for once, and not while one runs.
FlushOnce ==
    /\ flushing => waiting
    /\ flushing \/ ~ waiting => ~ Holds(callbacks, "flush") /\ ~ Holds(Ahead, "flush")
    /\ ~ (Holds(callbacks, "flush") /\ Holds(Ahead, "flush"))
    /\ \A i, j \in DOMAIN Ahead : Ahead[i] = "flush" /\ Ahead[j] = "flush" => i = j
    /\ \A i, j \in DOMAIN callbacks :
          callbacks[i] = "flush" /\ callbacks[j] = "flush" => i = j

\* Which code runs when.
Control ==
    /\ mode \in FlushModes => flushing
    /\ flushing /\ mode # "loop" => queue # <<>>
    /\ updating # {} => mode \in PageModes
    /\ mode = "task" => copies = <<>>
    /\ mode \notin {"task", "copies"} => copies # <<>>

\* has knows the watchers that are in the queue and have not been taken.
HasQueue ==
    /\ ~ flushing \/ mode \in {"loop", "before", "run"} =>
          \A w \in Watchers : has[w] <=> Holds(queue, w)
    /\ mode \in {"react", "callback", "check"} =>
          \A w \in Watchers : has[w] <=> \E i \in 2 .. Len(queue) : queue[i] = w

\* From behind the current watcher on the queue is in order.
Ordered ==
    /\ mode \in FlushModes =>
          \A i, j \in 2 .. Len(queue) : i < j => queue[i] < queue[j]
    /\ mode = "loop" =>
          \A i, j \in DOMAIN queue : i < j => queue[i] < queue[j]
    /\ mode \in {"before", "run"} => \A i \in 2 .. Len(queue) : queue[i] # queue[1]

QueueInv == SchedulerTypes /\ FlushOnce /\ Control /\ HasQueue /\ Ordered

Undisturbed == ~ tripped /\ throws = 0

\* A callback of the page that waits for a watcher comes after the flush.
InOrder ==
    \A t \in Ticks : owed[t] # {} =>
        /\ \A k \in DOMAIN callbacks : callbacks[k] = t =>
              \/ flushing \/ Holds(Ahead, "flush")
              \/ \E j \in DOMAIN callbacks : j < k /\ callbacks[j] = "flush"
        /\ \A k \in DOMAIN Ahead : Ahead[k] = t =>
              flushing \/ \E j \in DOMAIN Ahead : j < k /\ Ahead[j] = "flush"

\* As long as no patch throws and no flush is given up, a flush that is due is
\* under way or asked for, and a callback of the page that waits for it comes
\* after it.
TickInv ==
    /\ owed \in [Ticks -> SUBSET Watchers]
    /\ throws \in Nat
    /\ Undisturbed =>
        /\ \A t \in Ticks : \A w \in owed[t] : has[w]
        /\ (\E w \in Watchers : has[w]) => waiting
        /\ waiting => flushing \/ Holds(callbacks, "flush") \/ Holds(Ahead, "flush")
        /\ flushing => mode \in FlushModes
        /\ InOrder

\* A watcher that is not made yet has subscribed to nothing.
SubsInv ==
    /\ subs = [d \in Dep |-> subs[d]]
    /\ deps = [w \in Watchers |-> deps[w]]
    /\ active = [w \in Watchers |-> active[w]]
    /\ made \in Nat
    /\ \A w \in Watchers : w > made => deps[w] = {} /\ ~ active[w]
    /\ SubsAgree

-----------------------------------------------------------------------------
(* Subscriptions *)

\* Watchers that have read subscribe anew, the others stay as they are.
LEMMA RegisterSubscribes ==
    ASSUME SubsInv, NEW got, NEW ran \in SUBSET Watchers, Register(got, ran),
           made' \in Nat, made <= made',
           active' = [v \in Watchers |-> active'[v]],
           \A v \in ran : /\ v <= made' /\ (active'[v] \/ v \in Lazy)
                          /\ active'[v] => active[v] \/ v > made,
           \A v \in Watchers \ ran : active'[v] = active[v]
    PROVE  SubsInv'
<1>1. /\ subs' = [d \in Dep |-> subs'[d]]
      /\ deps' = [v \in Watchers |-> deps'[v]]
      /\ \A v \in Watchers \ ran : deps'[v] = deps[v]
      /\ \A d \in Dep : subs'[d] = {v \in subs[d] : v \in ran => d \in deps'[v]}
                                      \cup {v \in ran : d \in deps'[v] \ deps[v]}
  BY DEF Register
<1>2. ASSUME NEW v \in Watchers, v > made' PROVE deps'[v] = {} /\ ~ active'[v]
  <2>1. \A u \in ran : u <= made'
    OBVIOUS
  <2>2. v \in Nat /\ made \in Nat /\ made' \in Nat /\ made <= made'
    BY KeyAssumption DEF Watchers, SubsInv
  <2>3. v \notin ran /\ v > made
    BY <1>2, <2>1, <2>2
  <2> QED
    BY <1>1, <2>3 DEF SubsInv
<1>3. ASSUME NEW v \in Watchers, NEW d \in Dep
      PROVE  /\ v \in subs'[d] => d \in deps'[v] /\ (active'[v] \/ v \in Lazy)
             /\ d \in deps'[v] /\ active'[v] => v \in subs'[d]
  <2>1. CASE v \in ran
    <3>1. d \in deps[v] /\ active'[v] => v \in subs[d]
      BY <2>1 DEF SubsInv, SubsAgree
    <3> QED
      BY <1>1, <2>1, <3>1
  <2>2. CASE v \notin ran
    BY <1>1, <2>2 DEF SubsInv, SubsAgree
  <2> QED
    BY <2>1, <2>2
<1> QED
  BY <1>1, <1>2, <1>3 DEF SubsInv, SubsAgree

\* Watcher.get of a watcher that is alive, or lazy, leaves subscriptions in order.
LEMMA GetSubscribes ==
    ASSUME SubsInv, NEW w \in Watchers, Get(w), made' \in Nat, made <= made',
           w <= made', active'[w] \/ w \in Lazy, active'[w] => active[w] \/ w > made,
           active' = [v \in Watchers |-> active'[v]],
           \A v \in Watchers \ {w} : active'[v] = active[v]
    PROVE  SubsInv'
<1>1. PICK got, ran :
        /\ ran = {w} \cup {v \in Lazy : v <= made /\ v \in got[w].ran}
        /\ Register(got, ran)
  BY DEF Get
<1>2. ran \in SUBSET Watchers
  BY <1>1 DEF Lazy
<1>3. \A v \in ran : /\ v <= made' /\ (active'[v] \/ v \in Lazy)
                     /\ active'[v] => active[v] \/ v > made
  <2>1. made \in Nat
    BY DEF SubsInv
  <2>2. \A v \in Lazy : v \in Nat
    BY KeyAssumption DEF Lazy, Watchers
  <2>3. \A v \in Lazy : v <= made => v <= made'
    BY <2>1, <2>2
  <2>4. \A v \in ran \ {w} : active'[v] = active[v]
    BY <1>2
  <2> QED
    BY <1>1, <2>3, <2>4
<1>4. \A v \in Watchers \ ran : active'[v] = active[v]
  BY <1>1
<1> QED
  BY <1>1, <1>2, <1>3, <1>4, RegisterSubscribes

\* Tearing watchers down takes them off every list.
LEMMA TeardownUnsubscribes ==
    ASSUME SubsInv, NEW S \in SUBSET Watchers, Teardown(S), UNCHANGED made
    PROVE  SubsInv'
BY DEF SubsInv, SubsAgree, Teardown

SubsVars == <<subs, deps, active, made>>

LEMMA SubsStep == SubsInv /\ QueueInv /\ [Next]_vars => SubsInv'
<1> SUFFICES ASSUME SubsInv, QueueInv, [Next]_vars PROVE SubsInv'
  OBVIOUS
<1>0. made \in Nat
  BY DEF SubsInv
<1>1. ASSUME UNCHANGED SubsVars PROVE SubsInv'
  BY <1>1 DEF SubsInv, SubsAgree, SubsVars
<1>2. ASSUME NEW w \in Watchers, Update(w) PROVE SubsInv'
  BY <1>1, <1>2 DEF Update, SubsVars
<1>3. ASSUME Edit, watchers' = watchers, made' = made PROVE SubsInv'
  BY <1>1, <1>3 DEF watchers, SubsVars
<1>4. CASE Make
  <2> DEFINE w == made + 1
  <2>0. w \in Watchers /\ w \in Nat /\ made <= w
    BY <1>0, <1>4, KeyAssumption DEF Make, Watchers
  <2>1. /\ made' = w
        /\ active' = [active EXCEPT ![w] = TRUE]
        /\ \/ w \in Lazy /\ UNCHANGED <<subs, deps>>
           \/ Get(w)
    BY <1>4 DEF Make
  <2> HIDE DEF w
  <2>2. active' = [v \in Watchers |-> active'[v]] /\ active'[w]
        /\ \A v \in Watchers \ {w} : active'[v] = active[v]
    BY <2>0, <2>1 DEF SubsInv
  <2>3. CASE Get(w)
    <3>1. made' \in Nat /\ made <= made' /\ w <= made' /\ w > made
      BY <1>0, <2>0, <2>1 DEF w
    <3> QED
      BY <2>0, <2>2, <2>3, <3>1, GetSubscribes
  <2>4. CASE w \in Lazy /\ UNCHANGED <<subs, deps>>
    <3>1. deps[w] = {}
      BY <1>0, <2>0 DEF SubsInv, w
    <3>2. \A v \in Watchers : v > made' => v > made /\ v # w
      BY <1>0, <2>1, KeyAssumption DEF Watchers, w
    <3> QED
      BY <2>0, <2>1, <2>2, <2>4, <3>1, <3>2 DEF SubsInv, SubsAgree
  <2> QED
    BY <2>1, <2>3, <2>4
<1>5. ASSUME NEW w \in Watchers, ReadComputed(w) PROVE SubsInv'
  BY <1>0, <1>5, GetSubscribes DEF ReadComputed, SubsInv
<1>6. ASSUME NEW w \in Watchers, Unwatch(w) PROVE SubsInv'
  BY <1>6, TeardownUnsubscribes DEF Unwatch
<1>7. CASE Destroy
  BY <1>7, TeardownUnsubscribes DEF Destroy
<1>8. ASSUME mode = "run" PROVE Current \in Watchers
  BY <1>8 DEF Current, QueueInv, SchedulerTypes, Control, FlushModes
<1>9. ASSUME mode = "run", active[Current], Get(Current), UNCHANGED <<active, made>>
      PROVE  SubsInv'
  <2>1. active' = [v \in Watchers |-> active'[v]] /\ active'[Current]
    BY <1>9 DEF SubsInv
  <2>2. Current \in Watchers /\ Current <= made
    BY <1>0, <1>8, <1>9, KeyAssumption DEF SubsInv, Watchers
  <2> QED
    BY <1>0, <1>9, <2>1, <2>2, GetSubscribes
<1>10. CASE FlushCallbacks \/ StartFlush \/ StartTick \/ EndCopies \/ NextWatcher
           \/ React \/ PageReturns \/ CheckCircular \/ EndFlush \/ Rest \/ UNCHANGED vars
  BY <1>1, <1>10 DEF FlushCallbacks, StartFlush, StartTick, EndCopies, NextWatcher,
     React, PageReturns, CheckCircular, EndFlush, Rest, vars, watchers, SubsVars
<1>11. CASE Run
  <2>1. CASE active[Current] /\ Get(Current)
    BY <1>9, <1>11, <2>1 DEF Run
  <2>2. CASE UNCHANGED <<subs, deps>>
    BY <1>1, <1>11, <2>2 DEF Run, SubsVars
  <2> QED
    BY <1>11, <2>1, <2>2 DEF Run
<1>12. CASE RunThrows
  BY <1>9, <1>12 DEF RunThrows
<1>13. CASE Page
  <2>1. ASSUME NEW k \in Keys, NEW v \in {0, 1}, Assign(k, v) \/ Set(k, v)
        PROVE  SubsInv'
    BY <1>3, <2>1 DEF Assign, Set, Edit
  <2>2. ASSUME NEW k \in Keys, Delete(k) PROVE SubsInv'
    BY <1>3, <2>2 DEF Delete, Edit
  <2>3. ASSUME NEW new \in Objects, Replace(new) PROVE SubsInv'
    BY <1>3, <2>3 DEF Replace, Edit
  <2>4. ASSUME NEW t \in Ticks, AskTick(t) PROVE SubsInv'
    BY <1>1, <2>4 DEF AskTick, watchers, SubsVars
  <2> QED
    BY <1>4, <1>5, <1>6, <1>7, <1>13, <2>1, <2>2, <2>3, <2>4 DEF Page
<1> QED
  BY <1>2, <1>10, <1>11, <1>12, <1>13 DEF Next, Engine

-----------------------------------------------------------------------------
(* The queue *)

LEMMA TailFacts ==
    ASSUME NEW S, NEW q \in Seq(S), q # <<>>
    PROVE  /\ Head(q) = q[1] /\ q[1] \in S /\ Len(q) \in Nat /\ Len(q) >= 1
           /\ Tail(q) \in Seq(S) /\ Len(Tail(q)) = Len(q) - 1
           /\ \A i \in 1 .. Len(q) - 1 : Tail(q)[i] = q[i + 1]
OBVIOUS

LEMMA AppendFacts ==
    ASSUME NEW S, NEW q \in Seq(S), NEW c \in S
    PROVE  /\ Append(q, c) \in Seq(S) /\ Len(Append(q, c)) = Len(q) + 1
           /\ \A i \in 1 .. Len(q) : Append(q, c)[i] = q[i]
           /\ Append(q, c)[Len(q) + 1] = c
           /\ \A e : Holds(Append(q, c), e) <=> Holds(q, e) \/ e = c
<1>1. /\ Append(q, c) \in Seq(S) /\ Len(Append(q, c)) = Len(q) + 1
      /\ \A i \in 1 .. Len(q) : Append(q, c)[i] = q[i]
      /\ Append(q, c)[Len(q) + 1] = c
  OBVIOUS
<1>2. DOMAIN q = 1 .. Len(q) /\ DOMAIN Append(q, c) = 1 .. Len(q) + 1 /\ Len(q) \in Nat
  BY <1>1
<1>3. ASSUME NEW e PROVE Holds(Append(q, c), e) <=> Holds(q, e) \/ e = c
  <2>1. \A i : i \in 1 .. Len(q) + 1 <=> i \in 1 .. Len(q) \/ i = Len(q) + 1
    BY <1>2
  <2> QED
    BY <1>1, <1>2, <2>1 DEF Holds
<1> QED
  BY <1>1, <1>3

\* Where a splice puts a watcher.
LEMMA SpliceFacts ==
    ASSUME queue \in Seq(Watchers), queue # <<>>, NEW w \in Watchers, Splice(w)
    PROVE  /\ queue' \in Seq(Watchers)
           /\ \E i \in 1 .. Len(queue) :
                /\ Len(queue') = Len(queue) + 1
                /\ i = 1 \/ queue[i] <= w
                /\ \A j \in i + 1 .. Len(queue) : queue[j] > w
                /\ \A j \in 1 .. i : queue'[j] = queue[j]
                /\ queue'[i + 1] = w
                /\ \A j \in i + 1 .. Len(queue) : queue'[j + 1] = queue[j]
<1>0. Len(queue) \in Nat /\ Len(queue) >= 1 /\ \A j \in 1 .. Len(queue) : queue[j] \in Nat
  BY KeyAssumption DEF Watchers
<1>1. PICK i \in Behind(w) :
        /\ \A j \in Behind(w) : j <= i
        /\ queue' = SubSeq(queue, 1, i) \o <<w>> \o SubSeq(queue, i + 1, Len(queue))
  BY DEF Splice
<1>2. i \in 1 .. Len(queue) /\ (i = 1 \/ queue[i] <= w)
  BY <1>0 DEF Behind
<1>3. \A j \in i + 1 .. Len(queue) : queue[j] > w
  <2>1. \A j \in i + 1 .. Len(queue) : j \notin Behind(w) /\ j \in 2 .. Len(queue)
    BY <1>0, <1>1, <1>2
  <2> QED
    BY <1>0, <2>1, KeyAssumption DEF Behind, Watchers
<1> DEFINE l == SubSeq(queue, 1, i)
           r == SubSeq(queue, i + 1, Len(queue))
<1>4. /\ l \in Seq(Watchers) /\ Len(l) = i
      /\ \A j \in 1 .. i : l[j] = queue[j]
  BY <1>0, <1>2
<1>5. /\ r \in Seq(Watchers) /\ Len(r) = Len(queue) - i
      /\ \A j \in 1 .. Len(queue) - i : r[j] = queue[i + j]
  BY <1>0, <1>2
<1>6. queue' = l \o <<w>> \o r
  BY <1>1
<1> HIDE DEF l, r
<1> DEFINE m == l \o <<w>>
<1>7. /\ m \in Seq(Watchers) /\ Len(m) = i + 1
      /\ \A j \in 1 .. i : m[j] = queue[j]
      /\ m[i + 1] = w
  BY <1>2, <1>4
<1>8. queue' = m \o r
  BY <1>6
<1> HIDE DEF m
<1>9. /\ queue' \in Seq(Watchers) /\ Len(queue') = Len(queue) + 1
      /\ \A j \in 1 .. i + 1 : queue'[j] = m[j]
      /\ \A j \in 1 .. Len(queue) - i : queue'[i + 1 + j] = r[j]
  BY <1>0, <1>2, <1>5, <1>7, <1>8
<1>10. \A j \in i + 1 .. Len(queue) : queue'[j + 1] = queue[j]
  <2>1. ASSUME NEW j \in i + 1 .. Len(queue) PROVE queue'[j + 1] = queue[j]
    <3>1. j - i \in 1 .. Len(queue) - i /\ i + 1 + (j - i) = j + 1 /\ i + (j - i) = j
      BY <1>0, <1>2
    <3> QED
      BY <1>5, <1>9, <3>1
  <2> QED
    BY <2>1
<1> QED
  BY <1>2, <1>3, <1>7, <1>9, <1>10

\* A watcher that is queued, in a flush or out of one, is in the queue as has says
\* and where the order wants it.
LEMMA Enqueued ==
    ASSUME QueueInv, mode \in PageModes, NEW w \in Watchers, ~ has[w],
           has' = [has EXCEPT ![w] = TRUE],
           IF flushing THEN Splice(w) ELSE queue' = Append(queue, w),
           UNCHANGED <<mode, flushing>>
    PROVE  queue' \in Seq(Watchers) /\ queue' # <<>> /\ HasQueue' /\ Ordered'
<1>1. /\ queue \in Seq(Watchers) /\ Len(queue) \in Nat /\ DOMAIN queue = 1 .. Len(queue)
      /\ has' \in [Watchers -> BOOLEAN]
      /\ \A v \in Watchers : has'[v] <=> has[v] \/ v = w
  BY DEF QueueInv, SchedulerTypes
<1>2. CASE ~ flushing
  <2>1. queue' = Append(queue, w)
    BY <1>2
  <2>2. mode \notin FlushModes /\ mode' \notin FlushModes /\ ~ flushing'
    BY <1>2 DEF QueueInv, Control
  <2>3. /\ queue' \in Seq(Watchers) /\ queue' # <<>>
        /\ \A v \in Watchers : Holds(queue', v) <=> Holds(queue, v) \/ v = w
    BY <1>1, <2>1, AppendFacts
  <2>4. \A v \in Watchers : has[v] <=> Holds(queue, v)
    BY <1>2 DEF QueueInv, HasQueue
  <2>5. HasQueue'
    <3>1. mode' \notin {"react", "callback", "check"}
      BY <2>2 DEF FlushModes
    <3>2. \A v \in Watchers : has'[v] <=> Holds(queue', v)
      BY <1>1, <2>3, <2>4
    <3> QED
      BY <3>1, <3>2 DEF HasQueue, Holds
  <2>6. Ordered'
    BY <2>2 DEF Ordered, FlushModes
  <2> QED
    BY <2>3, <2>5, <2>6
<1>3. CASE flushing
  <2>1. queue # <<>> /\ Splice(w)
    BY <1>3 DEF QueueInv, Control, PageModes
  <2>2. PICK i \in 1 .. Len(queue) :
                /\ Len(queue') = Len(queue) + 1
                /\ i = 1 \/ queue[i] <= w
                /\ \A j \in i + 1 .. Len(queue) : queue[j] > w
                /\ \A j \in 1 .. i : queue'[j] = queue[j]
                /\ queue'[i + 1] = w
                /\ \A j \in i + 1 .. Len(queue) : queue'[j + 1] = queue[j]
    BY <1>1, <2>1, SpliceFacts
  <2>3. /\ queue' \in Seq(Watchers) /\ queue' # <<>>
        /\ DOMAIN queue' = 1 .. Len(queue) + 1
        /\ queue'[1] = queue[1]
    BY <1>1, <2>1, <2>2, SpliceFacts
  <2>4. \A j \in 1 .. Len(queue) + 1 :
            \/ j <= i /\ j \in 1 .. Len(queue) /\ queue'[j] = queue[j]
            \/ j = i + 1 /\ queue'[j] = w
            \/ j > i + 1 /\ j - 1 \in 1 .. Len(queue) /\ j - 1 >= 2 /\ queue'[j] = queue[j - 1]
    <3>1. ASSUME NEW j \in 1 .. Len(queue) + 1, j > i + 1
          PROVE  j - 1 \in i + 1 .. Len(queue) /\ (j - 1) + 1 = j
      BY <1>1, <3>1
    <3>2. ASSUME NEW j \in 1 .. Len(queue) + 1, j > i + 1
          PROVE  j - 1 \in 1 .. Len(queue) /\ j - 1 >= 2 /\ queue'[j] = queue[j - 1]
      BY <2>2, <3>1, <3>2
    <3>3. ASSUME NEW j \in 1 .. Len(queue) + 1, j <= i
          PROVE  j \in 1 .. Len(queue) /\ queue'[j] = queue[j]
      BY <1>1, <2>2, <3>3
    <3> QED
      BY <1>1, <2>2, <3>2, <3>3
  <2>5. \A v \in Watchers : Holds(queue', v) <=> Holds(queue, v) \/ v = w
    <3>1. ASSUME NEW v \in Watchers, Holds(queue', v) PROVE Holds(queue, v) \/ v = w
      BY <1>1, <2>3, <2>4, <3>1 DEF Holds
    <3>2. ASSUME NEW j \in 1 .. Len(queue)
          PROVE  \E k \in 1 .. Len(queue) + 1 : queue'[k] = queue[j]
      BY <1>1, <2>2
    <3>3. ASSUME NEW v \in Watchers, Holds(queue, v) PROVE Holds(queue', v)
      BY <1>1, <2>3, <3>2, <3>3 DEF Holds
    <3>4. Holds(queue', w)
      BY <1>1, <2>2, <2>3 DEF Holds
    <3> QED
      BY <3>1, <3>3, <3>4
  <2>6. \A v \in Watchers : (\E k \in 2 .. Len(queue') : queue'[k] = v)
                              <=> (\E k \in 2 .. Len(queue) : queue[k] = v) \/ v = w
    <3>1. ASSUME NEW v \in Watchers, NEW k \in 2 .. Len(queue'), queue'[k] = v
          PROVE  (\E j \in 2 .. Len(queue) : queue[j] = v) \/ v = w
      BY <1>1, <2>2, <2>4, <3>1
    <3>2. ASSUME NEW j \in 2 .. Len(queue)
          PROVE  \E k \in 2 .. Len(queue') : queue'[k] = queue[j]
      BY <1>1, <2>2
    <3>3. \E k \in 2 .. Len(queue') : queue'[k] = w
      BY <1>1, <2>2
    <3> QED
      BY <3>1, <3>2, <3>3
  <2>7. HasQueue'
    <3>1. ASSUME mode' \in {"loop", "before", "run"}
          PROVE  \A v \in Watchers : has'[v] <=> Holds(queue', v)
      BY <1>1, <2>5, <3>1 DEF QueueInv, HasQueue
    <3>2. ASSUME mode' \in {"react", "callback", "check"}
          PROVE  \A v \in Watchers : has'[v] <=> \E k \in 2 .. Len(queue') : queue'[k] = v
      BY <1>1, <2>6, <3>2 DEF QueueInv, HasQueue
    <3> QED
      BY <1>3, <3>1, <3>2 DEF HasQueue, Holds
  <2>8. ASSUME mode \in FlushModes
        PROVE  \A k, j \in 2 .. Len(queue') : k < j => queue'[k] < queue'[j]
    <3>1. \A k, j \in 2 .. Len(queue) : k < j => queue[k] < queue[j]
      BY <2>8 DEF QueueInv, Ordered
    <3>2. \A j \in 2 .. Len(queue) : queue[j] # w
      <4>1. CASE mode \in {"loop", "before", "run"}
        BY <1>1, <4>1 DEF QueueInv, HasQueue, Holds
      <4>2. CASE mode \in {"react", "callback", "check"}
        BY <4>2 DEF QueueInv, HasQueue
      <4> QED
        BY <2>8, <4>1, <4>2 DEF FlushModes
    <3>3. w \in Nat /\ \A j \in 1 .. Len(queue) : queue[j] \in Nat
      BY <1>1, KeyAssumption DEF Watchers
    <3>4. \A j \in 2 .. i : queue[j] < w
      BY <1>1, <2>2, <3>1, <3>2, <3>3
    <3>5. ASSUME NEW k \in 2 .. Len(queue'), NEW j \in 2 .. Len(queue'), k < j
          PROVE  queue'[k] < queue'[j]
      <4>1. k \in 1 .. Len(queue) + 1 /\ j \in 1 .. Len(queue) + 1 /\ 2 <= k /\ 2 <= j
        BY <1>1, <2>2, <3>5
      <4>2. /\ \/ k \in 2 .. i /\ queue'[k] = queue[k]
               \/ k = i + 1 /\ queue'[k] = w
               \/ k - 1 \in i + 1 .. Len(queue) /\ k - 1 >= 2 /\ queue'[k] = queue[k - 1]
            /\ \/ j \in 2 .. i /\ queue'[j] = queue[j]
               \/ j = i + 1 /\ queue'[j] = w
               \/ j - 1 \in i + 1 .. Len(queue) /\ j - 1 >= 2 /\ queue'[j] = queue[j - 1]
        BY <1>1, <2>2, <2>4, <4>1
      <4>3. CASE k \in 2 .. i /\ queue'[k] = queue[k]
        BY <1>1, <2>2, <3>1, <3>3, <3>4, <3>5, <4>2, <4>3
      <4>4. CASE k = i + 1 /\ queue'[k] = w
        BY <1>1, <2>2, <3>3, <3>5, <4>2, <4>4
      <4>5. CASE k - 1 \in i + 1 .. Len(queue) /\ k - 1 >= 2 /\ queue'[k] = queue[k - 1]
        BY <1>1, <2>2, <3>1, <3>5, <4>2, <4>5
      <4> QED
        BY <4>2, <4>3, <4>4, <4>5
    <3> QED
      BY <3>5
  <2>9. ASSUME mode \in {"before", "run"}
        PROVE  \A j \in 2 .. Len(queue') : queue'[j] # queue'[1]
    <3>1. \A j \in 2 .. Len(queue) : queue[j] # queue[1]
      BY <2>9 DEF QueueInv, Ordered
    <3>2. w # queue[1]
      <4>1. 1 \in DOMAIN queue
        BY <1>1, <2>1
      <4> QED
        BY <1>1, <2>9, <4>1 DEF QueueInv, HasQueue, Holds
    <3>3. ASSUME NEW j \in 2 .. Len(queue') PROVE queue'[j] # queue'[1]
      BY <1>1, <2>2, <2>3, <2>4, <3>1, <3>2
    <3> QED
      BY <3>3
  <2>10. Ordered'
    BY <2>8, <2>9 DEF Ordered, PageModes
  <2> QED
    BY <2>3, <2>7, <2>10
<1> QED
  BY <1>2, <1>3

-----------------------------------------------------------------------------
(* Every step keeps the queue in order *)

QueueVars == <<queue, has, waiting, flushing, callbacks, copies, mode>>

LEMMA Quiet ==
    ASSUME QueueInv, UNCHANGED QueueVars, updating' # {} => mode \in PageModes
    PROVE  QueueInv'
BY DEF QueueInv, QueueVars, SchedulerTypes, FlushOnce, Ahead, Holds, Control, HasQueue, Ordered

\* What the page does to the data and the watchers does not touch the queue.
LEMMA PageIsQuiet ==
    ASSUME Page, ~ \E t \in Ticks : AskTick(t)
    PROVE  /\ UNCHANGED QueueVars /\ UNCHANGED <<owed, throws, tripped>>
           /\ mode \in PageModes
<1>1. ASSUME Edit PROVE UNCHANGED QueueVars /\ UNCHANGED <<owed, throws, tripped>> /\ mode \in PageModes
  BY <1>1 DEF Edit, PageRuns, Callable, scheduler, ticks, QueueVars
<1>2. ASSUME NEW k \in Keys, NEW v \in {0, 1}, Assign(k, v) \/ Set(k, v) PROVE Edit
  BY <1>2 DEF Assign, Set
<1>3. ASSUME NEW k \in Keys, Delete(k) PROVE Edit
  BY <1>3 DEF Delete
<1>4. ASSUME NEW new \in Objects, Replace(new) PROVE Edit
  BY <1>4 DEF Replace
<1>5. CASE Make \/ Destroy \/ \E w \in Watchers : ReadComputed(w) \/ Unwatch(w)
  BY <1>5 DEF Make, Destroy, ReadComputed, Unwatch, PageRuns, Callable, scheduler, ticks,
     counters, QueueVars
<1> QED
  BY <1>1, <1>2, <1>3, <1>4, <1>5 DEF Page

\* While the flags and the callbacks ahead stay as they are, FlushOnce does.
LEMMA FlushOnceKept ==
    ASSUME FlushOnce, UNCHANGED <<waiting, flushing, callbacks>>, Ahead' = Ahead
    PROVE  FlushOnce'
BY DEF FlushOnce, Holds

\* The next callback of flushCallbacks starts.
LEMMA AheadStarts ==
    ASSUME QueueInv, mode = "copies", copies # <<>>, UNCHANGED copies,
           mode' \notin {"task", "copies"}
    PROVE  /\ Ahead = copies /\ Ahead' = Tail(copies)
           /\ Ahead \in Seq(Ticks \cup {"flush"}) /\ Ahead' \in Seq(Ticks \cup {"flush"})
           /\ DOMAIN Ahead = 1 .. Len(copies) /\ DOMAIN Ahead' = 1 .. Len(copies) - 1
           /\ Len(copies) \in Nat /\ Len(copies) >= 1
           /\ Head(copies) = Ahead[1]
           /\ \A i \in DOMAIN Ahead' : Ahead'[i] = Ahead[i + 1]
<1>1. Ahead = copies /\ Ahead' = Tail(copies) /\ copies \in Seq(Ticks \cup {"flush"})
  BY DEF Ahead, QueueInv, SchedulerTypes
<1>2. /\ Tail(copies) \in Seq(Ticks \cup {"flush"})
      /\ Len(copies) \in Nat /\ Len(copies) >= 1
      /\ Head(copies) = copies[1]
      /\ Len(Tail(copies)) = Len(copies) - 1
      /\ \A i \in 1 .. Len(copies) - 1 : Tail(copies)[i] = copies[i + 1]
  BY <1>1, TailFacts
<1> QED
  BY <1>1, <1>2

LEMMA AskTickQueue == ASSUME QueueInv, NEW t \in Ticks, AskTick(t) PROVE QueueInv'
<1>1. /\ callbacks' = Append(callbacks, t)
      /\ UNCHANGED <<queue, has, waiting, flushing, copies, mode, updating>>
      /\ t # "flush"
  BY ProgramAssumption DEF AskTick, NextTick, scheduler
<1>2. /\ callbacks' \in Seq(Ticks \cup {"flush"})
      /\ Len(callbacks) \in Nat /\ Len(callbacks') = Len(callbacks) + 1
      /\ DOMAIN callbacks = 1 .. Len(callbacks) /\ DOMAIN callbacks' = 1 .. Len(callbacks')
      /\ \A i \in 1 .. Len(callbacks) : callbacks'[i] = callbacks[i]
      /\ callbacks'[Len(callbacks) + 1] = t
      /\ Holds(callbacks', "flush") <=> Holds(callbacks, "flush")
  <2>1. callbacks \in Seq(Ticks \cup {"flush"}) /\ t \in Ticks \cup {"flush"}
    BY DEF QueueInv, SchedulerTypes
  <2>2. \A e : Holds(callbacks', e) <=> Holds(callbacks, e) \/ e = t
    BY <1>1, <2>1, AppendFacts
  <2> QED
    BY <1>1, <2>1, <2>2, AppendFacts
<1>3. Ahead' = Ahead
  BY <1>1 DEF Ahead
<1>4. FlushOnce'
  <2>1. \A i \in DOMAIN callbacks' : callbacks'[i] = "flush" => i \in DOMAIN callbacks /\ callbacks[i] = "flush"
    BY <1>1, <1>2
  <2>2. \A i, j \in DOMAIN callbacks' : callbacks'[i] = "flush" /\ callbacks'[j] = "flush" => i = j
    BY <2>1 DEF QueueInv, FlushOnce
  <2>3. Holds(Ahead', "flush") <=> Holds(Ahead, "flush")
    BY <1>3
  <2> QED
    BY <1>1, <1>2, <1>3, <2>2, <2>3 DEF QueueInv, FlushOnce
<1> QED
  BY <1>1, <1>2, <1>4 DEF QueueInv, SchedulerTypes, Control, HasQueue, Ordered, Holds

LEMMA UpdateQueueInv == ASSUME QueueInv, NEW w \in Watchers, Update(w) PROVE QueueInv'
<1>1. /\ mode \in PageModes /\ UNCHANGED <<mode, copies>> /\ flushing' = flushing
  BY DEF Update, QueueWatcher, QueueInv, Control, scheduler, ticks, NextTick
<1>2. CASE UNCHANGED <<scheduler, ticks>>
  BY <1>1, <1>2, Quiet DEF QueueVars, scheduler, ticks
<1>3. CASE ~ UNCHANGED <<scheduler, ticks>>
  <2>1. /\ ~ has[w]
        /\ has' = [has EXCEPT ![w] = TRUE]
        /\ IF flushing THEN Splice(w) ELSE queue' = Append(queue, w)
        /\ waiting'
        /\ IF waiting THEN UNCHANGED callbacks ELSE callbacks' = Append(callbacks, "flush")
    BY <1>3 DEF Update, QueueWatcher, NextTick, ticks
  <2>2. queue' \in Seq(Watchers) /\ queue' # <<>> /\ HasQueue' /\ Ordered'
    BY <1>1, <2>1, Enqueued
  <2>3. Ahead' = Ahead
    BY <1>1 DEF Ahead
  <2>4. callbacks \in Seq(Ticks \cup {"flush"})
    BY DEF QueueInv, SchedulerTypes
  <2>5. CASE waiting
    <3>1. callbacks' = callbacks /\ waiting
      BY <2>1, <2>5
    <3>2. FlushOnce'
      BY <1>1, <2>1, <2>3, <3>1 DEF QueueInv, FlushOnce, Holds
    <3> QED
      BY <1>1, <2>1, <2>2, <3>1, <3>2 DEF QueueInv, SchedulerTypes, Control, PageModes
  <2>6. CASE ~ waiting
    <3>1. /\ ~ flushing /\ ~ Holds(callbacks, "flush") /\ ~ Holds(Ahead, "flush")
      BY <2>6 DEF QueueInv, FlushOnce
    <3>2. /\ callbacks' \in Seq(Ticks \cup {"flush"})
          /\ Len(callbacks) \in Nat
          /\ DOMAIN callbacks' = 1 .. Len(callbacks) + 1
          /\ \A i \in 1 .. Len(callbacks) : callbacks'[i] # "flush"
      <4>1. /\ callbacks' = Append(callbacks, "flush")
            /\ DOMAIN callbacks = 1 .. Len(callbacks) /\ Len(callbacks) \in Nat
        BY <2>1, <2>4, <2>6
      <4>2. /\ callbacks' \in Seq(Ticks \cup {"flush"})
            /\ Len(callbacks') = Len(callbacks) + 1
            /\ \A i \in 1 .. Len(callbacks) : callbacks'[i] = callbacks[i]
        BY <2>4, <4>1
      <4>3. \A i \in 1 .. Len(callbacks) : callbacks[i] # "flush"
        BY <3>1, <4>1 DEF Holds
      <4> QED
        BY <4>1, <4>2, <4>3
    <3>3. FlushOnce'
      <4>1. \A i, j \in DOMAIN callbacks' : callbacks'[i] = "flush" /\ callbacks'[j] = "flush" => i = j
        BY <3>2
      <4> QED
        BY <1>1, <2>1, <2>3, <3>1, <4>1 DEF QueueInv, FlushOnce, Holds
    <3> QED
      BY <1>1, <2>1, <2>2, <3>1, <3>2, <3>3 DEF QueueInv, SchedulerTypes, Control, PageModes
  <2> QED
    BY <2>5, <2>6
<1> QED
  BY <1>2, <1>3

LEMMA FlushCallbacksQueue == ASSUME QueueInv, FlushCallbacks PROVE QueueInv'
<1>1. /\ mode = "task" /\ mode' = "copies"
      /\ copies' = callbacks /\ callbacks' = <<>>
      /\ updating' = {}
      /\ UNCHANGED <<queue, has, waiting, flushing>>
  BY DEF FlushCallbacks, scheduler
<1>2. copies = <<>> /\ Ahead = <<>> /\ Ahead' = callbacks
  BY <1>1 DEF QueueInv, Control, Ahead
<1>3. ~ Holds(callbacks', "flush") /\ DOMAIN callbacks' = {}
  BY <1>1 DEF Holds
<1>4. FlushOnce'
  BY <1>1, <1>2, <1>3 DEF QueueInv, FlushOnce, Holds
<1>5. SchedulerTypes' /\ Control'
  BY <1>1 DEF QueueInv, SchedulerTypes, Control, Modes, PageModes, FlushModes
<1>6. HasQueue' /\ Ordered'
  BY <1>1 DEF QueueInv, HasQueue, Ordered, Holds, FlushModes
<1> QED
  BY <1>4, <1>5, <1>6 DEF QueueInv

LEMMA SortedFacts ==
    ASSUME queue \in Seq(Watchers), queue' \in Sorted(queue)
    PROVE  /\ queue' \in Seq(Watchers)
           /\ \A w \in Watchers : Holds(queue', w) <=> Holds(queue, w)
           /\ \A i, j \in DOMAIN queue' : i < j => queue'[i] < queue'[j]
<1>1. Len(queue) \in Nat /\ queue' \in [1 .. Len(queue) -> Watchers]
  BY DEF Sorted
<1>2. queue' \in Seq(Watchers)
  BY <1>1, SeqDef
<1> QED
  BY <1>2 DEF Sorted, Holds

LEMMA StartFlushQueue == ASSUME QueueInv, StartFlush PROVE QueueInv'
<1>1. /\ mode = "copies" /\ mode' = "loop"
      /\ copies # <<>> /\ Head(copies) = "flush"
      /\ flushing' = TRUE
      /\ queue' \in Sorted(queue)
      /\ UNCHANGED <<has, waiting, callbacks, copies, updating>>
  BY DEF StartFlush, ticks
<1>2. /\ Ahead = copies /\ Ahead' = Tail(copies)
      /\ DOMAIN Ahead = 1 .. Len(copies) /\ DOMAIN Ahead' = 1 .. Len(copies) - 1
      /\ Len(copies) \in Nat /\ Len(copies) >= 1
      /\ Head(copies) = Ahead[1]
      /\ \A i \in DOMAIN Ahead' : Ahead'[i] = Ahead[i + 1]
  BY <1>1, AheadStarts
<1>3. Holds(Ahead, "flush")
  BY <1>1, <1>2 DEF Holds
<1>4. ~ flushing /\ waiting /\ ~ Holds(callbacks, "flush")
  BY <1>3 DEF QueueInv, FlushOnce, SchedulerTypes
<1>5. ~ Holds(Ahead', "flush") /\ \A i \in DOMAIN Ahead' : Ahead'[i] # "flush"
  <2>1. \A i \in DOMAIN Ahead' : i + 1 \in DOMAIN Ahead /\ i + 1 # 1 /\ 1 \in DOMAIN Ahead
    BY <1>2
  <2>2. \A i \in DOMAIN Ahead' : Ahead[i + 1] # "flush"
    BY <1>1, <1>2, <2>1 DEF QueueInv, FlushOnce
  <2> QED
    BY <1>2, <2>2 DEF Holds
<1>6. FlushOnce'
  BY <1>1, <1>4, <1>5 DEF QueueInv, FlushOnce, Holds
<1>7. /\ queue' \in Seq(Watchers)
      /\ \A w \in Watchers : Holds(queue', w) <=> Holds(queue, w)
      /\ \A i, j \in DOMAIN queue' : i < j => queue'[i] < queue'[j]
  BY <1>1, SortedFacts DEF QueueInv, SchedulerTypes
<1>8. SchedulerTypes' /\ Control'
  BY <1>1, <1>4, <1>7 DEF QueueInv, SchedulerTypes, Control, Modes, PageModes, FlushModes
<1>9. HasQueue'
  BY <1>1, <1>4, <1>7 DEF QueueInv, HasQueue, Holds
<1>10. Ordered'
  <2>1. \A i \in 2 .. Len(queue') : i \in DOMAIN queue'
    BY <1>7
  <2> QED
    BY <1>1, <1>7, <2>1 DEF Ordered
<1> QED
  BY <1>6, <1>8, <1>9, <1>10 DEF QueueInv

LEMMA StartTickQueue == ASSUME QueueInv, StartTick PROVE QueueInv'
<1>1. /\ mode = "copies" /\ mode' = "tick"
      /\ copies # <<>>
      /\ UNCHANGED <<queue, flushing, has, waiting, callbacks, copies, updating>>
  BY DEF StartTick, ticks, scheduler
<1>2. /\ DOMAIN Ahead = 1 .. Len(copies) /\ DOMAIN Ahead' = 1 .. Len(copies) - 1
      /\ Len(copies) \in Nat /\ Len(copies) >= 1
      /\ \A i \in DOMAIN Ahead' : Ahead'[i] = Ahead[i + 1]
  BY <1>1, AheadStarts
<1>3. \A i \in DOMAIN Ahead' : i + 1 \in DOMAIN Ahead /\ i \in Nat
  BY <1>2
<1>4. Holds(Ahead', "flush") => Holds(Ahead, "flush")
  BY <1>2, <1>3 DEF Holds
<1>5. \A i, j \in DOMAIN Ahead' : Ahead'[i] = "flush" /\ Ahead'[j] = "flush" => i = j
  <2>1. ASSUME NEW i \in DOMAIN Ahead', NEW j \in DOMAIN Ahead',
               Ahead'[i] = "flush", Ahead'[j] = "flush"
        PROVE  i = j
    <3>1. i + 1 = j + 1
      BY <1>2, <1>3, <2>1 DEF QueueInv, FlushOnce
    <3> QED
      BY <1>3, <3>1
  <2> QED
    BY <2>1
<1>6. FlushOnce'
  BY <1>1, <1>4, <1>5 DEF QueueInv, FlushOnce, Holds
<1>7. SchedulerTypes' /\ Control'
  BY <1>1 DEF QueueInv, SchedulerTypes, Control, Modes, PageModes, FlushModes
<1>8. HasQueue' /\ Ordered'
  BY <1>1 DEF QueueInv, HasQueue, Ordered, Holds, FlushModes
<1> QED
  BY <1>6, <1>7, <1>8 DEF QueueInv

LEMMA EndCopiesQueue == ASSUME QueueInv, EndCopies PROVE QueueInv'
<1>1. /\ mode = "copies" /\ mode' = "task" /\ copies = <<>>
      /\ UNCHANGED <<queue, flushing, has, waiting, callbacks, copies, updating>>
  BY DEF EndCopies, ticks, scheduler
<1>2. Ahead' = Ahead
  BY <1>1 DEF Ahead
<1>3. FlushOnce'
  BY <1>1, <1>2, FlushOnceKept DEF QueueInv
<1>4. SchedulerTypes' /\ Control'
  BY <1>1 DEF QueueInv, SchedulerTypes, Control, Modes, PageModes, FlushModes
<1>5. HasQueue' /\ Ordered'
  BY <1>1 DEF QueueInv, HasQueue, Ordered, Holds, FlushModes
<1> QED
  BY <1>3, <1>4, <1>5 DEF QueueInv

LEMMA NextWatcherQueue == ASSUME QueueInv, NextWatcher PROVE QueueInv'
<1>1. /\ mode = "loop" /\ mode' \in {"before", "run"} /\ queue # <<>>
      /\ UNCHANGED <<queue, flushing, has, waiting, callbacks, copies, updating>>
  BY DEF NextWatcher, ticks, scheduler
<1>2. Ahead' = Ahead
  BY <1>1 DEF Ahead
<1>3. FlushOnce'
  BY <1>1, <1>2, FlushOnceKept DEF QueueInv
<1>4. SchedulerTypes' /\ Control'
  BY <1>1 DEF QueueInv, SchedulerTypes, Control, Modes, PageModes, FlushModes
<1>5. HasQueue'
  BY <1>1 DEF QueueInv, HasQueue, Holds
<1>6. Ordered'
  <2>1. \A i, j \in DOMAIN queue : i < j => queue[i] < queue[j]
    BY <1>1 DEF QueueInv, Ordered
  <2>2. queue \in Seq(Watchers) /\ 1 \in DOMAIN queue
        /\ \A i \in 2 .. Len(queue) : i \in DOMAIN queue /\ 1 < i
    BY <1>1 DEF QueueInv, SchedulerTypes
  <2>3. \A i \in 2 .. Len(queue) : queue[i] # queue[1]
    <3>1. \A i \in 2 .. Len(queue) : queue[1] < queue[i] /\ queue[i] \in Nat /\ queue[1] \in Nat
      BY <2>1, <2>2, KeyAssumption DEF Watchers
    <3> QED
      BY <3>1
  <2> QED
    BY <1>1, <2>1, <2>2, <2>3 DEF Ordered, FlushModes
<1> QED
  BY <1>3, <1>4, <1>5, <1>6 DEF QueueInv

\* The watcher that is taken off has is behind the others nowhere.
LEMMA TakenOff ==
    ASSUME QueueInv, mode = "run", UNCHANGED queue,
           has' = [has EXCEPT ![Current] = FALSE]
    PROVE  /\ Current \in Watchers /\ Current = queue[1] /\ queue # <<>>
           /\ has' \in [Watchers -> BOOLEAN]
           /\ \A w \in Watchers : has'[w] <=> has[w] /\ w # Current
           /\ \A w \in Watchers : has'[w] <=> \E i \in 2 .. Len(queue) : queue[i] = w
<1>1. queue \in Seq(Watchers) /\ queue # <<>> /\ has \in [Watchers -> BOOLEAN]
  BY DEF QueueInv, SchedulerTypes, Control, FlushModes
<1>2. Current \in Watchers /\ Current = queue[1]
  BY <1>1 DEF Current
<1>3. has' \in [Watchers -> BOOLEAN] /\ \A w \in Watchers : has'[w] <=> has[w] /\ w # Current
  BY <1>1, <1>2
<1>4. DOMAIN queue = 1 .. Len(queue) /\ Len(queue) \in Nat /\ Len(queue) >= 1
  BY <1>1
<1>5. \A w \in Watchers : has[w] <=> \E i \in 1 .. Len(queue) : queue[i] = w
  BY <1>4 DEF QueueInv, HasQueue, Holds
<1>6. \A i \in 2 .. Len(queue) : queue[i] # queue[1]
  BY DEF QueueInv, Ordered
<1>7. \A i \in 1 .. Len(queue) : i = 1 \/ i \in 2 .. Len(queue)
  BY <1>4
<1>8. \A i \in 2 .. Len(queue) : i \in 1 .. Len(queue)
  BY <1>4
<1>9. \A w \in Watchers : has'[w] <=> \E i \in 2 .. Len(queue) : queue[i] = w
  BY <1>2, <1>3, <1>5, <1>6, <1>7, <1>8
<1> QED
  BY <1>1, <1>2, <1>3, <1>9

LEMMA RunQueue == ASSUME QueueInv, Run PROVE QueueInv'
<1>1. /\ mode = "run" /\ mode' \in {"check", "callback", "react"}
      /\ has' = [has EXCEPT ![Current] = FALSE]
      /\ UNCHANGED <<queue, flushing, waiting, callbacks, copies, updating>>
  BY DEF Run, ticks
<1>2. Ahead' = Ahead
  BY <1>1 DEF Ahead
<1>3. FlushOnce'
  BY <1>1, <1>2, FlushOnceKept DEF QueueInv
<1>4. /\ has' \in [Watchers -> BOOLEAN]
      /\ \A w \in Watchers : has'[w] <=> \E i \in 2 .. Len(queue) : queue[i] = w
  BY <1>1, TakenOff
<1>5. SchedulerTypes' /\ Control'
  BY <1>1, <1>4 DEF QueueInv, SchedulerTypes, Control, Modes, PageModes, FlushModes
<1>6. HasQueue'
  BY <1>1, <1>4, <1>5 DEF QueueInv, HasQueue, Control, FlushModes
<1>7. Ordered'
  BY <1>1 DEF QueueInv, Ordered, FlushModes
<1> QED
  BY <1>3, <1>5, <1>6, <1>7 DEF QueueInv

\* The callback that runs returns, and the one after it is next.
LEMMA Returned ==
    ASSUME QueueInv, mode \notin {"task", "copies"}, Return
    PROVE  Ahead' = Ahead /\ copies' \in Seq(Ticks \cup {"flush"}) /\ copies # <<>>
<1>1. copies # <<>> /\ copies \in Seq(Ticks \cup {"flush"})
  BY DEF QueueInv, Control, SchedulerTypes, Modes
<1> QED
  BY <1>1, TailFacts DEF Return, Ahead

LEMMA RunThrowsQueue == ASSUME QueueInv, RunThrows PROVE QueueInv'
<1>1. /\ mode = "run" /\ mode' = "copies" /\ Return
      /\ has' = [has EXCEPT ![Current] = FALSE]
      /\ UNCHANGED <<queue, flushing, waiting, callbacks, updating>>
  BY DEF RunThrows, Return
<1>2. Ahead' = Ahead /\ copies' \in Seq(Ticks \cup {"flush"})
  BY <1>1, Returned
<1>3. FlushOnce'
  BY <1>1, <1>2, FlushOnceKept DEF QueueInv
<1>4. has' \in [Watchers -> BOOLEAN]
  BY <1>1, TakenOff
<1>5. flushing
  BY <1>1 DEF QueueInv, Control, FlushModes
<1>6. SchedulerTypes' /\ Control'
  BY <1>1, <1>2, <1>4 DEF QueueInv, SchedulerTypes, Control, Modes, PageModes, FlushModes
<1>7. HasQueue' /\ Ordered'
  BY <1>1, <1>5 DEF HasQueue, Ordered, FlushModes
<1> QED
  BY <1>3, <1>6, <1>7 DEF QueueInv

LEMMA ReactQueue == ASSUME QueueInv, React PROVE QueueInv'
<1>1. /\ mode = "react" /\ mode' = "callback"
      /\ UNCHANGED <<queue, has, flushing, waiting, callbacks, copies>>
  BY DEF React, scheduler, ticks
<1>2. Ahead' = Ahead
  BY <1>1 DEF Ahead
<1>3. FlushOnce'
  BY <1>1, <1>2, FlushOnceKept DEF QueueInv
<1>4. SchedulerTypes' /\ Control'
  BY <1>1 DEF QueueInv, SchedulerTypes, Control, Modes, PageModes, FlushModes
<1>5. HasQueue' /\ Ordered'
  BY <1>1, <1>4 DEF QueueInv, HasQueue, Ordered, FlushModes, Control
<1> QED
  BY <1>3, <1>4, <1>5 DEF QueueInv

LEMMA PageReturnsQueue == ASSUME QueueInv, PageReturns PROVE QueueInv'
<1>1. /\ updating' = {}
      /\ UNCHANGED <<queue, has, flushing, waiting, callbacks>>
  BY DEF PageReturns, scheduler, ticks, Return
<1>2. CASE mode \in {"updated", "tick"} /\ Return
  <2>1. Ahead' = Ahead /\ copies' \in Seq(Ticks \cup {"flush"}) /\ mode' = "copies"
    BY <1>2, Returned DEF Return
  <2>2. FlushOnce'
    BY <1>1, <2>1, FlushOnceKept DEF QueueInv
  <2>3. SchedulerTypes' /\ Control'
    BY <1>1, <1>2, <2>1 DEF QueueInv, SchedulerTypes, Control, Modes, PageModes, FlushModes
  <2>4. HasQueue' /\ Ordered'
    BY <1>1, <1>2, <2>1 DEF QueueInv, HasQueue, Ordered, FlushModes, Holds
  <2> QED
    BY <2>2, <2>3, <2>4 DEF QueueInv
<1>3. CASE /\ UNCHANGED copies
           /\ \/ mode = "before" /\ mode' = "run"
              \/ mode = "callback" /\ mode' = "check"
  <2>1. Ahead' = Ahead
    BY <1>3 DEF Ahead
  <2>2. FlushOnce'
    BY <1>1, <2>1, FlushOnceKept DEF QueueInv
  <2>3. SchedulerTypes' /\ Control'
    BY <1>1, <1>3 DEF QueueInv, SchedulerTypes, Control, Modes, PageModes, FlushModes
  <2>4. HasQueue' /\ Ordered'
    BY <1>1, <1>3, <2>3 DEF QueueInv, HasQueue, Ordered, FlushModes, Holds, Control
  <2> QED
    BY <2>2, <2>3, <2>4 DEF QueueInv
<1> QED
  BY <1>2, <1>3 DEF PageReturns, ticks

\* The flush ends, by itself or because it gives up.
LEMMA FinishQueue ==
    ASSUME QueueInv, mode \in {"loop", "check"}, Finish, UNCHANGED updating
    PROVE  QueueInv'
<1>1. /\ queue' = <<>> /\ has' = [w \in Watchers |-> FALSE]
      /\ waiting' = FALSE /\ flushing' = FALSE
      /\ callbacks' = callbacks
      /\ \/ mode' = "updated" /\ copies' = copies
         \/ Return
  BY DEF Finish, ResetSchedulerState, Return, ticks
<1>2. Ahead' = Ahead /\ copies' \in Seq(Ticks \cup {"flush"}) /\ copies # <<>>
  <2>1. copies # <<>> /\ copies \in Seq(Ticks \cup {"flush"})
    BY DEF QueueInv, Control, SchedulerTypes
  <2>2. CASE mode' = "updated" /\ copies' = copies
    BY <2>1, <2>2 DEF Ahead
  <2>3. CASE Return
    BY <2>3, Returned
  <2> QED
    BY <1>1, <2>1, <2>2, <2>3
<1>3. mode' \in {"updated", "copies"} /\ (mode' = "updated" => copies' = copies)
  BY <1>1 DEF Return
<1>4. flushing
  BY DEF QueueInv, Control, FlushModes
<1>5. FlushOnce'
  BY <1>1, <1>2, <1>4 DEF QueueInv, FlushOnce, Holds
<1>6. updating = {}
  BY DEF QueueInv, Control, PageModes
<1>7. SchedulerTypes' /\ Control'
  <2>1. SchedulerTypes'
    <3>1. queue' \in Seq(Watchers) /\ has' \in [Watchers -> BOOLEAN]
      BY <1>1, EmptySeq
    <3> QED
      BY <1>1, <1>2, <1>3, <3>1 DEF QueueInv, SchedulerTypes, Modes, PageModes
  <2>2. Control'
    BY <1>1, <1>2, <1>3, <1>6 DEF Control, PageModes, FlushModes
  <2> QED
    BY <2>1, <2>2
<1>8. HasQueue' /\ Ordered'
  BY <1>1, <1>3 DEF HasQueue, Ordered, FlushModes, Holds
<1> QED
  BY <1>5, <1>7, <1>8 DEF QueueInv

LEMMA AdvanceQueue ==
    ASSUME QueueInv, mode = "check", Advance,
           UNCHANGED <<has, waiting, flushing, callbacks, copies, updating>>
    PROVE  QueueInv'
<1>1. queue \in Seq(Watchers) /\ queue # <<>> /\ flushing
  BY DEF QueueInv, SchedulerTypes, Control, FlushModes
<1>2. /\ mode' = "loop" /\ queue' = Tail(queue)
      /\ queue' \in Seq(Watchers) /\ Len(queue) \in Nat /\ Len(queue) >= 1
      /\ DOMAIN queue' = 1 .. Len(queue) - 1 /\ Len(queue') = Len(queue) - 1
      /\ \A i \in 1 .. Len(queue) - 1 : queue'[i] = queue[i + 1]
  BY <1>1, TailFacts DEF Advance
<1>3. Ahead' = Ahead
  BY <1>2 DEF Ahead
<1>4. FlushOnce'
  BY <1>3, FlushOnceKept DEF QueueInv
<1>5. SchedulerTypes' /\ Control'
  BY <1>1, <1>2 DEF QueueInv, SchedulerTypes, Control, Modes, PageModes, FlushModes
<1>6. \A i \in 1 .. Len(queue) - 1 : i + 1 \in 2 .. Len(queue)
  BY <1>2
<1>7. \A i \in 2 .. Len(queue) : i - 1 \in 1 .. Len(queue) - 1 /\ (i - 1) + 1 = i
  BY <1>2
<1>8. \A w \in Watchers : has[w] <=> Holds(queue', w)
  <2>1. \A w \in Watchers : has[w] <=> \E i \in 2 .. Len(queue) : queue[i] = w
    BY DEF QueueInv, HasQueue
  <2>2. \A i \in 2 .. Len(queue) : i - 1 \in DOMAIN queue' /\ queue'[i - 1] = queue[i]
    BY <1>2, <1>7
  <2>3. \A i \in DOMAIN queue' : i + 1 \in 2 .. Len(queue) /\ queue'[i] = queue[i + 1]
    BY <1>2, <1>6
  <2>4. \A w : Holds(queue', w) <=> \E i \in 2 .. Len(queue) : queue[i] = w
    BY <2>2, <2>3 DEF Holds
  <2> QED
    BY <2>1, <2>4
<1>9. \A i, j \in DOMAIN queue' : i < j => queue'[i] < queue'[j]
  <2>1. \A i, j \in 2 .. Len(queue) : i < j => queue[i] < queue[j]
    BY DEF QueueInv, Ordered, FlushModes
  <2>2. \A i, j \in 1 .. Len(queue) - 1 : i < j => i + 1 < j + 1
    BY <1>2
  <2> QED
    BY <1>2, <1>6, <2>1, <2>2
<1>10. HasQueue'
  BY <1>2, <1>8 DEF HasQueue, Holds
<1>11. Ordered'
  <2>1. \A i \in 2 .. Len(queue') : i \in DOMAIN queue'
    BY <1>2
  <2> QED
    BY <1>2, <1>9, <2>1 DEF Ordered
<1> QED
  BY <1>4, <1>5, <1>10, <1>11 DEF QueueInv

LEMMA CheckCircularQueue == ASSUME QueueInv, CheckCircular PROVE QueueInv'
<1>1. mode = "check" /\ UNCHANGED updating
  BY DEF CheckCircular
<1>2. CASE Advance /\ UNCHANGED <<has, waiting, flushing, callbacks, copies>>
  BY <1>1, <1>2, AdvanceQueue
<1>3. CASE Finish
  BY <1>1, <1>3, FinishQueue
<1> QED
  BY <1>2, <1>3 DEF CheckCircular, ticks

LEMMA EndFlushQueue == ASSUME QueueInv, EndFlush PROVE QueueInv'
BY FinishQueue DEF EndFlush

LEMMA QueueStep == QueueInv /\ [Next]_vars => QueueInv'
<1> SUFFICES ASSUME QueueInv, [Next]_vars PROVE QueueInv'
  OBVIOUS
<1>1. CASE Page
  <2>1. CASE \E t \in Ticks : AskTick(t)
    BY <2>1, AskTickQueue
  <2>2. CASE ~ \E t \in Ticks : AskTick(t)
    BY <1>1, <2>2, PageIsQuiet, Quiet
  <2> QED
    BY <2>1, <2>2
<1>2. CASE Engine
  BY <1>2, UpdateQueueInv, FlushCallbacksQueue, StartFlushQueue, StartTickQueue,
     EndCopiesQueue, NextWatcherQueue, RunQueue, ReactQueue, PageReturnsQueue,
     CheckCircularQueue, EndFlushQueue DEF Engine
<1>3. CASE RunThrows
  BY <1>3, RunThrowsQueue
<1>4. CASE Rest \/ UNCHANGED vars
  <2>1. UNCHANGED QueueVars /\ updating' = updating
    BY <1>4 DEF Rest, vars, scheduler, ticks, QueueVars
  <2> QED
    BY <2>1, Quiet DEF QueueInv, Control
<1> QED
  BY <1>1, <1>2, <1>3, <1>4 DEF Next

LEMMA QueueInit == Init => QueueInv
<1> SUFFICES ASSUME Init PROVE QueueInv
  OBVIOUS
<1>1. SchedulerTypes
  <2>1. /\ queue \in Seq(Watchers) /\ callbacks \in Seq(Ticks \cup {"flush"})
        /\ copies \in Seq(Ticks \cup {"flush"})
    BY EmptySeq DEF Init
  <2>2. has \in [Watchers -> BOOLEAN]
    BY DEF Init
  <2> QED
    BY <2>1, <2>2 DEF Init, SchedulerTypes, Modes, PageModes
<1>2. FlushOnce /\ Control
  BY DEF Init, FlushOnce, Control, Ahead, Holds, PageModes, FlushModes
<1>3. HasQueue /\ Ordered
  BY DEF Init, HasQueue, Ordered, Holds, FlushModes
<1> QED
  BY <1>1, <1>2, <1>3 DEF QueueInv

\* A watcher is in the queue once and as has says, the rest of the queue is in
\* the order of the ids while it is flushed, and the flush is asked for once:
\* queueWatcher and flushSchedulerQueue agree about index, has, waiting and flushing.
THEOREM Queued == Spec => []QueueInv
BY QueueInit, QueueStep, PTL DEF Spec

-----------------------------------------------------------------------------
(* The update queue *)

Due == {w \in Watchers : has[w]} \ Taken

\* A step that leaves the due watchers and the flag alone is no step of the
\* abstract queue.
LEMMA Stutter ==
    ASSUME Due' = Due, flushing' = flushing
    PROVE  [Abstract!Next]_<<Due, flushing>>
OBVIOUS

LEMMA UpdateImplements ==
    ASSUME QueueInv, NEW w \in Watchers, Update(w)
    PROVE  [Abstract!Next]_<<Due, flushing>>
<1>1. /\ mode' = mode /\ flushing' = flushing
      /\ queue \in Seq(Watchers) /\ has \in [Watchers -> BOOLEAN]
  BY DEF Update, QueueWatcher, scheduler, QueueInv, SchedulerTypes
<1>2. CASE UNCHANGED scheduler
  BY <1>1, <1>2, Stutter DEF Due, Taken, Current, scheduler
<1>3. CASE ~ UNCHANGED scheduler
  <2>1. /\ ~ has[w] /\ has' = [has EXCEPT ![w] = TRUE]
        /\ IF flushing THEN Splice(w) ELSE queue' = Append(queue, w)
    BY <1>3 DEF Update, QueueWatcher
  <2>2. Taken' = Taken /\ w \notin Taken
    <3>1. CASE mode \in {"before", "run"}
      <4>1. flushing /\ queue # <<>>
        BY <3>1 DEF QueueInv, Control, FlushModes
      <4>2. queue' \in Seq(Watchers) /\ Len(queue') = Len(queue) + 1 /\ queue'[1] = queue[1]
        BY <1>1, <2>1, <4>1, SpliceFacts
      <4>3. Current = queue[1] /\ Current' = queue'[1] /\ Len(queue) >= 1
        BY <1>1, <4>1, <4>2 DEF Current
      <4>4. has[queue[1]]
        BY <1>1, <3>1, <4>1, <4>3 DEF QueueInv, HasQueue, Holds
      <4> QED
        BY <1>1, <2>1, <3>1, <4>2, <4>3, <4>4 DEF Taken
    <3>2. CASE mode \notin {"before", "run"}
      BY <1>1, <3>2 DEF Taken
    <3> QED
      BY <3>1, <3>2
  <2>3. Due' = Due \cup {w}
    BY <1>1, <2>1, <2>2 DEF Due
  <2>4. Abstract!Update(w)
    BY <1>1, <2>3 DEF Abstract!Update, Due
  <2> QED
    BY <2>4 DEF Abstract!Next, Due
<1> QED
  BY <1>2, <1>3

LEMMA NextWatcherImplements ==
    ASSUME QueueInv, NextWatcher
    PROVE  [Abstract!Next]_<<Due, flushing>>
<1>1. /\ mode = "loop" /\ mode' \in {"before", "run"} /\ queue # <<>>
      /\ UNCHANGED <<queue, has, flushing>>
      /\ queue \in Seq(Watchers) /\ flushing
  BY DEF NextWatcher, scheduler, QueueInv, SchedulerTypes, Control, FlushModes
<1>2. /\ Current \in Watchers /\ Current = queue[1] /\ Current' = Current
      /\ DOMAIN queue = 1 .. Len(queue) /\ Len(queue) \in Nat /\ 1 \in DOMAIN queue
  BY <1>1 DEF Current
<1>3. Taken = {} /\ Taken' = {Current}
  BY <1>1, <1>2 DEF Taken
<1>4. Due = {w \in Watchers : has[w]} /\ Due' = Due \ {Current}
  BY <1>1, <1>3 DEF Due
<1>5. Current \in Due
  BY <1>1, <1>2, <1>4 DEF QueueInv, HasQueue, Holds
<1>6. \A v \in Due : Current <= v
  <2>1. ASSUME NEW v \in Due PROVE Current <= v
    <3>1. PICK i \in DOMAIN queue : queue[i] = v
      BY <1>1, <1>4 DEF QueueInv, HasQueue, Holds
    <3>2. i = 1 \/ 1 < i
      BY <1>2
    <3>3. 1 < i => queue[1] < v
      BY <1>1, <1>2, <3>1 DEF QueueInv, Ordered
    <3>4. v \in Nat /\ Current \in Nat
      BY <1>2, <1>4, KeyAssumption DEF Watchers
    <3> QED
      BY <1>2, <3>1, <3>2, <3>3, <3>4
  <2> QED
    BY <2>1
<1>7. PICK w \in Watchers : w = Current
  BY <1>2
<1>8. Abstract!Take(w)
  BY <1>1, <1>4, <1>5, <1>6, <1>7 DEF Abstract!Take, Due
<1> QED
  BY <1>8 DEF Abstract!Next, Due

LEMMA RunImplements ==
    ASSUME QueueInv, Run \/ RunThrows
    PROVE  [Abstract!Next]_<<Due, flushing>>
<1>1. /\ mode = "run" /\ mode' \notin {"before", "run"}
      /\ has' = [has EXCEPT ![Current] = FALSE]
      /\ UNCHANGED <<queue, flushing>>
  BY DEF Run, RunThrows, Return
<1>2. \A w \in Watchers : has'[w] <=> has[w] /\ w # Current
  BY <1>1, TakenOff
<1>3. Taken = {Current} /\ Taken' = {}
  BY <1>1 DEF Taken
<1> QED
  BY <1>1, <1>2, <1>3, Stutter DEF Due

LEMMA FinishImplements ==
    ASSUME QueueInv, mode \in {"loop", "check"}, Finish
    PROVE  [Abstract!Next]_<<Due, flushing>>
<1>1. flushing /\ flushing' = FALSE /\ has' = [w \in Watchers |-> FALSE]
  BY DEF QueueInv, Control, FlushModes, Finish, ResetSchedulerState
<1>2. Due' = {}
  BY <1>1 DEF Due
<1>3. Abstract!End
  BY <1>1, <1>2 DEF Abstract!End, Due
<1> QED
  BY <1>3 DEF Abstract!Next, Due

LEMMA StartFlushImplements ==
    ASSUME QueueInv, StartFlush
    PROVE  [Abstract!Next]_<<Due, flushing>>
<1>1. /\ mode = "copies" /\ mode' = "loop" /\ copies # <<>> /\ Head(copies) = "flush"
      /\ flushing' = TRUE /\ has' = has /\ copies' = copies
  BY DEF StartFlush, ticks
<1>2. Holds(Ahead, "flush")
  <2>1. DOMAIN Ahead = 1 .. Len(copies) /\ Len(copies) \in Nat /\ Len(copies) >= 1
        /\ Ahead[1] = "flush"
    BY <1>1, AheadStarts
  <2> QED
    BY <2>1 DEF Holds
<1>3. ~ flushing
  BY <1>2 DEF QueueInv, FlushOnce
<1>4. Due' = Due
  BY <1>1 DEF Due, Taken
<1>5. Abstract!Start
  BY <1>1, <1>3, <1>4 DEF Abstract!Start, Due
<1> QED
  BY <1>5 DEF Abstract!Next, Due

LEMMA ImplementsStep ==
    ASSUME QueueInv, [Next]_vars
    PROVE  [Abstract!Next]_<<Due, flushing>>
<1>1. ASSUME UNCHANGED <<has, queue, flushing>>,
             \/ mode' = mode
             \/ mode \notin {"before", "run"} /\ mode' \notin {"before", "run"}
             \/ mode = "before" /\ mode' = "run"
      PROVE  [Abstract!Next]_<<Due, flushing>>
  BY <1>1, Stutter DEF Due, Taken, Current
<1>2. CASE Page
  <2>1. CASE \E t \in Ticks : AskTick(t)
    <3>1. UNCHANGED <<has, queue, flushing, mode>>
      BY <2>1 DEF AskTick, scheduler
    <3> QED
      BY <1>1, <3>1
  <2>2. CASE ~ \E t \in Ticks : AskTick(t)
    <3>1. UNCHANGED <<has, queue, flushing, mode>>
      BY <1>2, <2>2, PageIsQuiet DEF QueueVars
    <3> QED
      BY <1>1, <3>1
  <2> QED
    BY <2>1, <2>2
<1>3. CASE FlushCallbacks \/ StartTick \/ EndCopies \/ React \/ Rest \/ UNCHANGED vars
  <2>1. UNCHANGED <<has, queue, flushing>>
    BY <1>3 DEF FlushCallbacks, StartTick, EndCopies, React, Rest, vars, scheduler
  <2>2. mode' = mode \/ (mode \notin {"before", "run"} /\ mode' \notin {"before", "run"})
    BY <1>3 DEF FlushCallbacks, StartTick, EndCopies, React, Rest, vars
  <2> QED
    BY <1>1, <2>1, <2>2
<1>4. CASE PageReturns
  <2>1. UNCHANGED <<has, queue, flushing>>
    BY <1>4 DEF PageReturns, scheduler
  <2>2. \/ mode \notin {"before", "run"} /\ mode' \notin {"before", "run"}
        \/ mode = "before" /\ mode' = "run"
    BY <1>4 DEF PageReturns, Return
  <2> QED
    BY <1>1, <2>1, <2>2
<1>5. CASE CheckCircular
  <2>1. CASE Finish
    BY <1>5, <2>1, FinishImplements DEF CheckCircular
  <2>2. CASE Advance /\ UNCHANGED <<has, flushing>>
    <3>1. mode = "check" /\ mode' = "loop"
      BY <1>5, <2>2 DEF CheckCircular, Advance
    <3> QED
      BY <2>2, <3>1, Stutter DEF Due, Taken
  <2> QED
    BY <1>5, <2>1, <2>2 DEF CheckCircular
<1>6. CASE EndFlush
  BY <1>6, FinishImplements DEF EndFlush
<1> QED
  BY <1>2, <1>3, <1>4, <1>5, <1>6, UpdateImplements, NextWatcherImplements, RunImplements,
     StartFlushImplements DEF Next, Engine

\* The queue, has, the two flags and the way Vue takes watchers from the queue
\* implement the update queue: a watcher that has been told is due once, watchers
\* are taken from the oldest to the youngest, those told during the flush included.
THEOREM QueueRefines == Spec => QueueImplements
<1>1. Init => Abstract!Init
  BY DEF Init, Abstract!Init, Taken
<1>2. QueueInv /\ [Next]_vars => [Abstract!Next]_<<{w \in Watchers : has[w]} \ Taken, flushing>>
  BY ImplementsStep DEF Due
<1> QED
  BY <1>1, <1>2, Queued, PTL DEF Spec, QueueImplements, Abstract!Spec

-----------------------------------------------------------------------------
(* The callbacks of nextTick *)

LEMMA TickKept ==
    ASSUME TickInv, UNCHANGED <<has, waiting, flushing, callbacks, owed, throws, tripped>>,
           Ahead' = Ahead, flushing /\ Undisturbed => mode' \in FlushModes
    PROVE  TickInv'
<1>1. Undisturbed' = Undisturbed
  BY DEF Undisturbed
<1>2. FlushModes' = FlushModes
  BY DEF FlushModes
<1> QED
  BY <1>1, <1>2 DEF TickInv, InOrder, Holds

LEMMA AskTickTicks ==
    ASSUME QueueInv, TickInv, NEW t \in Ticks, AskTick(t) PROVE TickInv'
<1>1. /\ callbacks' = Append(callbacks, t)
      /\ \A i \in DOMAIN copies : copies[i] # t
      /\ \A i \in DOMAIN callbacks : callbacks[i] # t
      /\ owed' = [owed EXCEPT ![t] = {w \in Watchers : has[w]}]
      /\ UNCHANGED <<has, waiting, flushing, copies, mode, throws, tripped>>
  BY DEF AskTick, NextTick, scheduler
<1>2. /\ callbacks' \in Seq(Ticks \cup {"flush"})
      /\ Len(callbacks) \in Nat
      /\ DOMAIN callbacks = 1 .. Len(callbacks)
      /\ DOMAIN callbacks' = 1 .. Len(callbacks) + 1
      /\ \A i \in 1 .. Len(callbacks) : callbacks'[i] = callbacks[i]
      /\ callbacks'[Len(callbacks) + 1] = t
      /\ \A e : Holds(callbacks, e) => Holds(callbacks', e)
  <2>1. callbacks \in Seq(Ticks \cup {"flush"}) /\ t \in Ticks \cup {"flush"}
    BY DEF QueueInv, SchedulerTypes
  <2>2. \A e : Holds(callbacks', e) <=> Holds(callbacks, e) \/ e = t
    BY <1>1, <2>1, AppendFacts
  <2> QED
    BY <1>1, <2>1, <2>2, AppendFacts
<1>3. Ahead' = Ahead
  BY <1>1 DEF Ahead
<1>4. \A i \in DOMAIN Ahead : Ahead[i] # t
  <2>1. CASE mode \in {"task", "copies"}
    BY <1>1, <2>1 DEF Ahead
  <2>2. CASE mode \notin {"task", "copies"}
    <3>1. copies \in Seq(Ticks \cup {"flush"}) /\ copies # <<>>
      BY <2>2 DEF QueueInv, SchedulerTypes, Control
    <3>2. \A i \in 1 .. Len(copies) - 1 : i + 1 \in DOMAIN copies /\ Tail(copies)[i] = copies[i + 1]
      BY <3>1
    <3>3. DOMAIN Tail(copies) = 1 .. Len(copies) - 1
      BY <3>1
    <3> QED
      BY <1>1, <2>2, <3>2, <3>3 DEF Ahead
  <2> QED
    BY <2>1, <2>2
<1>5. owed' \in [Ticks -> SUBSET Watchers] /\ \A u \in Ticks : u # t => owed'[u] = owed[u]
  BY <1>1 DEF TickInv
<1>6. owed'[t] = {w \in Watchers : has[w]}
  BY <1>1 DEF TickInv
<1>7. ASSUME Undisturbed PROVE \A u \in Ticks : \A w \in owed'[u] : has'[w]
  BY <1>1, <1>5, <1>6, <1>7 DEF TickInv
<1>8. ASSUME Undisturbed PROVE InOrder'
  <2>1. ASSUME NEW u \in Ticks, owed'[u] # {}, NEW k \in DOMAIN callbacks', callbacks'[k] = u
        PROVE  \/ flushing' \/ Holds(Ahead', "flush")
               \/ \E j \in DOMAIN callbacks' : j < k /\ callbacks'[j] = "flush"
    <3>1. CASE u = t
      <4>1. waiting
        BY <1>6, <1>8, <2>1, <3>1 DEF TickInv
      <4>2. flushing \/ Holds(callbacks, "flush") \/ Holds(Ahead, "flush")
        BY <1>8, <4>1 DEF TickInv
      <4>3. k = Len(callbacks) + 1
        BY <1>1, <1>2, <2>1, <3>1
      <4>4. Holds(callbacks, "flush") =>
                \E j \in DOMAIN callbacks' : j < k /\ callbacks'[j] = "flush"
        BY <1>2, <4>3 DEF Holds
      <4> QED
        BY <1>1, <1>3, <4>2, <4>4
    <3>2. CASE u # t
      <4>1. k \in DOMAIN callbacks /\ callbacks[k] = u /\ owed[u] # {}
        BY <1>2, <1>5, <2>1, <3>2
      <4>2. \/ flushing \/ Holds(Ahead, "flush")
            \/ \E j \in DOMAIN callbacks : j < k /\ callbacks[j] = "flush"
        BY <1>8, <4>1 DEF TickInv, InOrder
      <4>3. \A j \in DOMAIN callbacks : j \in DOMAIN callbacks' /\ callbacks'[j] = callbacks[j]
        BY <1>2
      <4> QED
        BY <1>1, <1>3, <4>2, <4>3
    <3> QED
      BY <3>1, <3>2
  <2>2. ASSUME NEW u \in Ticks, owed'[u] # {}, NEW k \in DOMAIN Ahead, Ahead[k] = u
        PROVE  flushing' \/ \E j \in DOMAIN Ahead : j < k /\ Ahead[j] = "flush"
    BY <1>1, <1>4, <1>5, <1>8, <2>2 DEF TickInv, InOrder
  <2> QED
    BY <1>3, <2>1, <2>2 DEF InOrder
<1>9. Undisturbed' = Undisturbed /\ FlushModes' = FlushModes
  BY <1>1 DEF Undisturbed, FlushModes
<1>10. Holds(Ahead', "flush") = Holds(Ahead, "flush")
  BY <1>3
<1> QED
  BY <1>1, <1>2, <1>5, <1>7, <1>8, <1>9, <1>10 DEF TickInv, InOrder

LEMMA UpdateTicks ==
    ASSUME QueueInv, TickInv, NEW w \in Watchers, Update(w) PROVE TickInv'
<1>1. /\ UNCHANGED <<mode, copies, owed, throws, tripped>> /\ flushing' = flushing
  BY DEF Update, QueueWatcher, scheduler, ticks, NextTick, counters
<1>2. Ahead' = Ahead
  BY <1>1 DEF Ahead
<1>3. CASE UNCHANGED <<scheduler, ticks>>
  BY <1>1, <1>2, <1>3, TickKept DEF scheduler, ticks, TickInv
<1>4. CASE ~ UNCHANGED <<scheduler, ticks>>
  <2>1. /\ ~ has[w]
        /\ has' = [has EXCEPT ![w] = TRUE]
        /\ waiting'
        /\ IF waiting THEN UNCHANGED callbacks ELSE callbacks' = Append(callbacks, "flush")
    BY <1>4 DEF Update, QueueWatcher, NextTick, ticks
  <2>2. \A v \in Watchers : has[v] => has'[v]
    BY <2>1 DEF QueueInv, SchedulerTypes
  <2>3. Undisturbed' = Undisturbed /\ FlushModes' = FlushModes
    BY <1>1 DEF Undisturbed, FlushModes
  <2>4. CASE waiting
    <3>1. callbacks' = callbacks
      BY <2>1, <2>4
    <3>2. ASSUME Undisturbed PROVE \A t \in Ticks : \A v \in owed'[t] : has'[v]
      BY <1>1, <2>2, <3>2 DEF TickInv
    <3>3. ASSUME Undisturbed PROVE InOrder'
      BY <1>1, <1>2, <3>1, <3>3 DEF TickInv, InOrder, Holds
    <3> QED
      BY <1>1, <1>2, <2>1, <2>3, <2>4, <3>1, <3>2, <3>3 DEF TickInv, InOrder, Holds
  <2>5. CASE ~ waiting
    <3>1. ASSUME Undisturbed PROVE \A t \in Ticks : owed'[t] = {}
      BY <1>1, <2>5, <3>1 DEF TickInv
    <3>2. Holds(callbacks', "flush")
      <4>1. callbacks' = Append(callbacks, "flush")
        BY <2>1, <2>5
      <4>2. callbacks \in Seq(Ticks \cup {"flush"}) /\ "flush" \in Ticks \cup {"flush"}
        BY DEF QueueInv, SchedulerTypes
      <4> QED
        BY <4>1, <4>2, AppendFacts
    <3> QED
      BY <1>1, <2>1, <2>3, <3>1, <3>2 DEF TickInv, InOrder
  <2> QED
    BY <2>4, <2>5
<1> QED
  BY <1>3, <1>4

LEMMA FlushCallbacksTicks ==
    ASSUME QueueInv, TickInv, FlushCallbacks PROVE TickInv'
<1>1. /\ mode = "task" /\ mode' = "copies"
      /\ copies' = callbacks /\ callbacks' = <<>>
      /\ UNCHANGED <<has, waiting, flushing, owed, throws, tripped>>
  BY DEF FlushCallbacks, scheduler, counters
<1>2. copies = <<>> /\ Ahead = <<>> /\ Ahead' = callbacks
  BY <1>1 DEF QueueInv, Control, Ahead
<1>3. DOMAIN callbacks' = {} /\ ~ Holds(Ahead, "flush")
  BY <1>1, <1>2 DEF Holds
<1>4. Undisturbed => ~ flushing
  BY <1>1 DEF TickInv, FlushModes
<1>5. Undisturbed' = Undisturbed
  BY <1>1 DEF Undisturbed
<1>6. Holds(callbacks, "flush") => Holds(Ahead', "flush")
  BY <1>2
<1>7. ASSUME Undisturbed PROVE InOrder'
  BY <1>1, <1>2, <1>3, <1>4, <1>7 DEF TickInv, InOrder
<1> QED
  BY <1>1, <1>3, <1>4, <1>5, <1>6, <1>7 DEF TickInv, InOrder

LEMMA StartFlushTicks ==
    ASSUME QueueInv, TickInv, StartFlush PROVE TickInv'
<1>1. /\ mode' = "loop" /\ flushing' = TRUE
      /\ UNCHANGED <<has, waiting, callbacks, owed, throws, tripped>>
  BY DEF StartFlush, ticks, counters
<1>2. Undisturbed' = Undisturbed /\ mode' \in FlushModes'
  BY <1>1 DEF Undisturbed, FlushModes
<1> QED
  BY <1>1, <1>2 DEF TickInv, InOrder

LEMMA StartTickTicks ==
    ASSUME QueueInv, TickInv, StartTick PROVE TickInv' /\ TickAfterUpdate'
<1>1. /\ mode = "copies" /\ mode' = "tick" /\ copies # <<>> /\ Head(copies) # "flush"
      /\ UNCHANGED <<has, waiting, flushing, callbacks, copies, owed, throws, tripped>>
  BY DEF StartTick, ticks, scheduler, counters
<1>2. /\ Ahead = copies /\ Head(copies) = Ahead[1]
      /\ Ahead \in Seq(Ticks \cup {"flush"})
      /\ DOMAIN Ahead = 1 .. Len(copies) /\ DOMAIN Ahead' = 1 .. Len(copies) - 1
      /\ Len(copies) \in Nat /\ Len(copies) >= 1
      /\ \A i \in DOMAIN Ahead' : Ahead'[i] = Ahead[i + 1]
  BY <1>1, AheadStarts
<1>3. Undisturbed' = Undisturbed /\ (Undisturbed => ~ flushing)
  BY <1>1 DEF Undisturbed, TickInv, FlushModes
<1>4. \A i \in DOMAIN Ahead' : i \in Nat /\ i + 1 \in DOMAIN Ahead
  BY <1>2
<1>5. ASSUME NEW j \in DOMAIN Ahead, Ahead[j] = "flush"
      PROVE  j - 1 \in DOMAIN Ahead' /\ Ahead'[j - 1] = "flush" /\ j \in Nat
  <2>1. j \in 1 .. Len(copies) /\ j # 1
    BY <1>1, <1>2, <1>5
  <2>2. j - 1 \in 1 .. Len(copies) - 1 /\ (j - 1) + 1 = j
    BY <1>2, <2>1
  <2> QED
    BY <1>2, <1>5, <2>2
<1>6. Holds(Ahead, "flush") => Holds(Ahead', "flush")
  BY <1>5 DEF Holds
<1>7. ASSUME Undisturbed, NEW t \in Ticks, owed[t] # {}, NEW k \in DOMAIN Ahead', Ahead'[k] = t
      PROVE  \E j \in DOMAIN Ahead' : j < k /\ Ahead'[j] = "flush"
  <2>1. PICK j \in DOMAIN Ahead : j < k + 1 /\ Ahead[j] = "flush"
    BY <1>2, <1>3, <1>4, <1>7 DEF TickInv, InOrder
  <2>2. j - 1 < k
    BY <1>4, <1>5, <2>1
  <2> QED
    BY <1>5, <2>1, <2>2
<1>8. ASSUME Undisturbed PROVE InOrder'
  BY <1>1, <1>3, <1>6, <1>7, <1>8 DEF TickInv, InOrder
<1>9. TickInv'
  BY <1>1, <1>3, <1>6, <1>8 DEF TickInv, InOrder
<1>10. TickAfterUpdate'
  <2>1. ASSUME Undisturbed PROVE owed[Head(copies)] = {}
    <3>1. Ahead[1] \in Ticks /\ 1 \in DOMAIN Ahead
      BY <1>1, <1>2
    <3>2. ~ \E j \in DOMAIN Ahead : j < 1
      BY <1>2
    <3> QED
      BY <1>2, <1>3, <2>1, <3>1, <3>2 DEF TickInv, InOrder
  <2> QED
    BY <1>1, <2>1 DEF TickAfterUpdate, Undisturbed
<1> QED
  BY <1>9, <1>10

LEMMA RunTicks ==
    ASSUME QueueInv, TickInv, Run PROVE TickInv'
<1>1. /\ mode = "run" /\ mode' \in {"check", "callback", "react"}
      /\ has' = [has EXCEPT ![Current] = FALSE]
      /\ owed' = [t \in Ticks |-> owed[t] \ {Current}]
      /\ UNCHANGED <<queue, flushing, waiting, callbacks, throws, tripped>>
  BY DEF Run, ticks, counters
<1>2. \A w \in Watchers : has'[w] <=> has[w] /\ w # Current
  BY <1>1, TakenOff
<1>3. flushing
  BY <1>1 DEF QueueInv, Control, FlushModes
<1>4. Undisturbed' = Undisturbed /\ mode' \in FlushModes'
  BY <1>1 DEF Undisturbed, FlushModes
<1>5. owed' \in [Ticks -> SUBSET Watchers]
  BY <1>1 DEF TickInv
<1>6. ASSUME Undisturbed PROVE \A t \in Ticks : \A w \in owed'[t] : has'[w]
  <2>1. ASSUME NEW t \in Ticks, NEW w \in owed'[t] PROVE has'[w]
    <3>1. w \in Watchers /\ w \in owed[t] /\ w # Current
      BY <1>1, <1>5, <2>1
    <3> QED
      BY <1>2, <1>6, <3>1 DEF TickInv
  <2> QED
    BY <2>1
<1>7. Undisturbed /\ (\E w \in Watchers : has'[w]) => waiting'
  BY <1>1, <1>2 DEF TickInv
<1> QED
  BY <1>1, <1>3, <1>4, <1>5, <1>6, <1>7 DEF TickInv, InOrder

LEMMA EndFlushTicks ==
    ASSUME QueueInv, TickInv, EndFlush PROVE TickInv'
<1>1. /\ mode = "loop" /\ queue = <<>>
      /\ has' = [w \in Watchers |-> FALSE] /\ waiting' = FALSE /\ flushing' = FALSE
      /\ UNCHANGED <<owed, throws, tripped>>
  BY DEF EndFlush, Finish, ResetSchedulerState, counters
<1>2. \A w \in Watchers : ~ has[w]
  BY <1>1 DEF QueueInv, HasQueue, Holds
<1>3. Undisturbed => \A t \in Ticks : owed[t] = {}
  <2>1. ASSUME Undisturbed, NEW t \in Ticks PROVE owed[t] = {}
    BY <1>2, <2>1 DEF TickInv
  <2> QED
    BY <2>1
<1>4. Undisturbed' = Undisturbed
  BY <1>1 DEF Undisturbed
<1> QED
  BY <1>1, <1>3, <1>4 DEF TickInv, InOrder

LEMMA TickStep == QueueInv /\ TickInv /\ [Next]_vars => TickInv'
<1> SUFFICES ASSUME QueueInv, TickInv, [Next]_vars PROVE TickInv'
  OBVIOUS
<1>1. CASE Page
  <2>1. CASE \E t \in Ticks : AskTick(t)
    BY <2>1, AskTickTicks
  <2>2. CASE ~ \E t \in Ticks : AskTick(t)
    <3>1. UNCHANGED QueueVars /\ UNCHANGED <<owed, throws, tripped>>
      BY <1>1, <2>2, PageIsQuiet
    <3>2. Ahead' = Ahead
      BY <3>1 DEF QueueVars, Ahead
    <3> QED
      BY <3>1, <3>2, TickKept DEF QueueVars, TickInv
  <2> QED
    BY <2>1, <2>2
<1>2. ASSUME UNCHANGED <<has, waiting, flushing, callbacks, owed, throws, tripped>>,
             Ahead' = Ahead, mode \in FlushModes => mode' \in FlushModes
      PROVE  TickInv'
  BY <1>2, TickKept DEF TickInv
<1>3. CASE EndCopies
  <2>1. mode = "copies" /\ mode' = "task" /\ copies = <<>> /\ copies' = copies
    BY <1>3 DEF EndCopies, ticks
  <2>2. Ahead' = Ahead /\ mode \notin FlushModes
    BY <2>1 DEF Ahead, FlushModes
  <2> QED
    BY <1>2, <1>3, <2>2 DEF EndCopies, ticks, scheduler, counters
<1>4. CASE NextWatcher \/ React
  <2>1. /\ mode \in {"loop", "react"} /\ mode' \in {"before", "run", "callback"}
        /\ copies' = copies
    BY <1>4 DEF NextWatcher, React, ticks
  <2>2. Ahead' = Ahead /\ mode' \in FlushModes
    BY <2>1 DEF Ahead, FlushModes
  <2> QED
    BY <1>2, <1>4, <2>2 DEF NextWatcher, React, ticks, scheduler, counters
<1>5. CASE PageReturns
  <2>1. UNCHANGED <<has, waiting, flushing, callbacks, owed, throws, tripped>>
    BY <1>5 DEF PageReturns, Return, ticks, scheduler, counters
  <2>2. CASE mode \in {"updated", "tick"} /\ Return
    <3>1. Ahead' = Ahead /\ mode \notin FlushModes
      BY <2>2, Returned DEF FlushModes
    <3> QED
      BY <1>2, <2>1, <3>1
  <2>3. CASE /\ UNCHANGED copies
             /\ \/ mode = "before" /\ mode' = "run"
                \/ mode = "callback" /\ mode' = "check"
    <3>1. Ahead' = Ahead /\ mode' \in FlushModes
      BY <2>3 DEF Ahead, FlushModes
    <3> QED
      BY <1>2, <2>1, <3>1
  <2> QED
    BY <1>5, <2>2, <2>3 DEF PageReturns, ticks
<1>6. CASE Rest \/ UNCHANGED vars
  <2>1. /\ UNCHANGED <<has, waiting, flushing, callbacks, owed, throws, tripped>>
        /\ UNCHANGED <<copies, mode>>
    BY <1>6 DEF Rest, vars, scheduler, ticks, counters
  <2>2. Ahead' = Ahead
    BY <2>1 DEF Ahead
  <2> QED
    BY <1>2, <2>1, <2>2
<1>7. CASE CheckCircular
  <2>1. mode = "check" /\ owed' = owed /\ throws' = throws
    BY <1>7 DEF CheckCircular
  <2>2. CASE tripped' = TRUE
    BY <2>1, <2>2 DEF TickInv, Undisturbed
  <2>3. CASE Advance /\ UNCHANGED <<has, waiting, flushing, ticks, tripped>>
    <3>1. Ahead' = Ahead /\ mode' \in FlushModes
      BY <2>1, <2>3 DEF Advance, Ahead, FlushModes, ticks
    <3> QED
      BY <1>2, <2>1, <2>3, <3>1 DEF ticks
  <2> QED
    BY <1>7, <2>2, <2>3 DEF CheckCircular
<1>8. CASE RunThrows
  <2>1. throws' = throws + 1 /\ owed' = owed /\ throws \in Nat
    BY <1>8 DEF RunThrows, TickInv
  <2>2. throws' \in Nat /\ throws' # 0
    BY <2>1
  <2> QED
    BY <2>1, <2>2 DEF TickInv, Undisturbed
<1> QED
  BY <1>1, <1>3, <1>4, <1>5, <1>6, <1>7, <1>8, UpdateTicks, FlushCallbacksTicks,
     StartFlushTicks, StartTickTicks, RunTicks, EndFlushTicks DEF Next, Engine

LEMMA TickAfterUpdateStep ==
    QueueInv /\ TickInv /\ TickAfterUpdate /\ [Next]_vars => TickAfterUpdate'
<1> SUFFICES ASSUME QueueInv, TickInv, TickAfterUpdate, [Next]_vars PROVE TickAfterUpdate'
  OBVIOUS
<1>1. ASSUME mode' = mode, UNCHANGED <<copies, owed, throws, tripped>> PROVE TickAfterUpdate'
  BY <1>1 DEF TickAfterUpdate
<1>2. ASSUME mode' # "tick" PROVE TickAfterUpdate'
  BY <1>2 DEF TickAfterUpdate
<1>3. ASSUME NEW t \in Ticks, AskTick(t) PROVE TickAfterUpdate'
  <2>1. /\ UNCHANGED <<mode, copies, throws, tripped>>
        /\ \A i \in DOMAIN copies : copies[i] # t
        /\ owed' = [owed EXCEPT ![t] = {w \in Watchers : has[w]}]
    BY <1>3 DEF AskTick, NextTick
  <2>2. CASE mode = "tick"
    <3>1. copies \in Seq(Ticks \cup {"flush"}) /\ copies # <<>>
      BY <2>2 DEF QueueInv, SchedulerTypes, Control
    <3>2. Head(copies) = copies[1] /\ 1 \in DOMAIN copies
      BY <3>1
    <3>3. owed'[Head(copies)] = owed[Head(copies)]
      BY <2>1, <3>2 DEF TickInv
    <3> QED
      BY <2>1, <2>2, <3>3 DEF TickAfterUpdate
  <2> QED
    BY <1>2, <2>1, <2>2
<1>4. CASE Page
  <2>1. CASE ~ \E t \in Ticks : AskTick(t)
    BY <1>1, <1>4, <2>1, PageIsQuiet DEF QueueVars
  <2> QED
    BY <1>3, <2>1
<1>5. ASSUME NEW w \in Watchers, Update(w) PROVE TickAfterUpdate'
  BY <1>1, <1>5 DEF Update, QueueWatcher, ticks, NextTick, counters
<1>6. CASE FlushCallbacks \/ StartFlush \/ EndCopies \/ NextWatcher \/ Run \/ React
           \/ PageReturns \/ CheckCircular \/ EndFlush \/ RunThrows
  <2>1. mode' # "tick"
    BY <1>6 DEF FlushCallbacks, StartFlush, EndCopies, NextWatcher, Run, React, PageReturns,
       CheckCircular, EndFlush, RunThrows, Return, Finish, Advance
  <2> QED
    BY <1>2, <2>1
<1>7. CASE StartTick
  BY <1>7, StartTickTicks
<1>8. CASE Rest \/ UNCHANGED vars
  BY <1>1, <1>8 DEF Rest, vars, ticks, counters
<1> QED
  BY <1>4, <1>5, <1>6, <1>7, <1>8 DEF Next, Engine

-----------------------------------------------------------------------------
(* Theorems *)

LEMMA SubsInit == Init => SubsInv
BY DEF Init, SubsInv, SubsAgree

\* Whatever the watchers read and whenever the page changes its data, makes
\* watchers or tears them down, the two sides of every subscription agree.
THEOREM Subscribed == Spec => []SubsAgree
<1>1. SubsInv => SubsAgree
  BY DEF SubsInv
<1> QED
  BY <1>1, Queued, SubsInit, SubsStep, PTL DEF Spec

LEMMA TickInit == Init => TickInv /\ TickAfterUpdate
BY DEF Init, TickInv, InOrder, TickAfterUpdate, Undisturbed

\* A callback the page gives to nextTick finds the watchers that were queued when
\* it was given run, wherever the page was when it asked: in a task, in a hook, in
\* the callback of a watcher, or in another callback of nextTick.
THEOREM Ticked == Spec => []TickAfterUpdate
<1>1. QueueInv /\ TickInv /\ TickAfterUpdate /\ [Next]_vars => (TickInv /\ TickAfterUpdate)'
  BY TickStep, TickAfterUpdateStep
<1> QED
  BY <1>1, Queued, TickInit, PTL DEF Spec
=============================================================================
