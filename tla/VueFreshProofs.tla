--------------------------- MODULE VueFreshProofs ---------------------------
(***************************************************************************)
(* That no update is lost, for every value of the constants: what a clean  *)
(* computed property holds, and what a watcher that is not queued has seen,*)
(* is what its getter would return were everything evaluated again.        *)
(*                                                                         *)
(* The getters are functions recursive over the watchers, so the proofs    *)
(* go by induction over them.  The induction is over sets of naturals and  *)
(* comes from the fact that each but the empty one has a least element.    *)
(***************************************************************************)
EXTENDS VueReactivityProofs, WellFoundedInduction

-----------------------------------------------------------------------------
(* The invariant *)

\* The getters were nothing cached, with what they would subscribe to.
FreshReads ==
    LET get[w \in Watchers] ==
          LET read(s) == IF s \in Keys THEN ReadKey(s) ELSE get[s]
              test == read(Program[w].test)
              branch == read(IF test.value = 1 THEN Program[w].yes ELSE Program[w].no)
          IN  [value |-> branch.value,
               deps  |-> test.deps \cup branch.deps,
               ran   |-> test.ran \cup branch.ran \cup {w}]
    IN  get

\* w holds what it would if it were evaluated now, and has subscribed to that.
IsFresh(w) == value[w] = FreshReads[w].value /\ deps[w] = FreshReads[w].deps

\* w is not told of any change it has not looked at.
IsClean(w) ==
    /\ active[w]
    /\ w \notin updating
    /\ IF w \in Lazy THEN ~ dirty[w] ELSE ~ has[w] /\ ~ tripped

\* What the page has made is alive until the page is destroyed or, but for the
\* computed properties, torn down; what is clean is fresh.
FreshInv ==
    /\ \A w \in Watchers : active[w] => ~ destroyed /\ w <= made
    /\ ~ destroyed => \A w \in Lazy : w <= made => active[w]
    /\ \A w \in Watchers : IsClean(w) => IsFresh(w)

-----------------------------------------------------------------------------
(* Induction *)

Less == {p \in Nat \X Nat : p[1] < p[2]}

LEMMA LessIsWellFounded == IsWellFoundedOn(Less, Nat)
BY NatLessThanWellFounded DEF Less, OpToRel

\* A set of naturals that has some has a least one.
LEMMA LeastNatural ==
    ASSUME NEW T \in SUBSET Nat, T # {}
    PROVE  \E n \in T : \A m \in T : n <= m
<1> DEFINE R == Less
<1>0. IsWellFoundedOn(R, Nat)
  BY LessIsWellFounded
<1> HIDE DEF R
<1>1. \E n \in T : \A m \in T : ~ <<m, n>> \in R
  BY <1>0, WFMin
<1>2. \A m, n \in T : <<m, n>> \in R \/ n <= m
  BY DEF R, Less
<1> QED
  BY <1>1, <1>2

\* A set that holds a number whenever it holds the smaller ones holds them all.
LEMMA Induction ==
    ASSUME NEW S,
           \A n \in Nat : (\A m \in Nat : m < n => m \in S) => n \in S
    PROVE  Nat \subseteq S
<1> SUFFICES ASSUME ~ Nat \subseteq S PROVE FALSE
  OBVIOUS
<1>1. PICK n \in Nat \ S : \A m \in Nat \ S : n <= m
  BY LeastNatural
<1>2. \A m \in Nat : m < n => m \in S
  BY <1>1
<1> QED
  BY <1>1, <1>2

-----------------------------------------------------------------------------
(* Getters *)

\* What a getter reads of s, given the getters g and the reads of the properties.
ReadOf(g, s, keys) == IF s \in Keys THEN keys[s] ELSE g[s]

\* What the getter of w returns, given those before it: of a watcher in cached
\* what it has kept.
Turn(g, w, cached, kept, keys) ==
    LET test == ReadOf(g, Program[w].test, keys)
        branch == ReadOf(g, IF test.value = 1 THEN Program[w].yes ELSE Program[w].no, keys)
    IN  IF w \in cached THEN kept[w]
        ELSE [value |-> branch.value,
              deps  |-> test.deps \cup branch.deps,
              ran   |-> test.ran \cup branch.ran \cup {w}]

\* g are the getters.
Solves(g, cached, kept, keys) ==
    g = [w \in Watchers |-> Turn(g, w, cached, kept, keys)]

KeyReads == [k \in Keys |-> ReadKey(k)]

\* A getter reads properties and watchers made before.
LEMMA SourcesBefore ==
    ASSUME NEW w \in Watchers, NEW s \in {Program[w].test, Program[w].yes, Program[w].no}
    PROVE  s \in Keys \/ (s \in Lazy /\ s \in Watchers /\ s \in Nat /\ s < w)
<1>1. Program[w] \in Expression /\ s \in Keys \cup 0 .. (w - 1)
  BY ProgramAssumption
<1>2. s \in Source
  BY <1>1 DEF Expression
<1>3. w \in Nat
  BY KeyAssumption DEF Watchers
<1> QED
  BY <1>1, <1>2, <1>3 DEF Source, Lazy

\* Turn looks at the watchers before its own.
LEMMA TurnLooksBack ==
    ASSUME NEW w \in Watchers, NEW g, NEW h, NEW cached, NEW kept, NEW keys,
           \A v \in Watchers : v < w => g[v] = h[v]
    PROVE  Turn(g, w, cached, kept, keys) = Turn(h, w, cached, kept, keys)
<1>1. \A s \in {Program[w].test, Program[w].yes, Program[w].no} :
         ReadOf(g, s, keys) = ReadOf(h, s, keys)
  BY SourcesBefore DEF ReadOf
<1> DEFINE test == ReadOf(g, Program[w].test, keys)
           next == IF test.value = 1 THEN Program[w].yes ELSE Program[w].no
<1>2. ReadOf(h, Program[w].test, keys) = test /\ ReadOf(h, next, keys) = ReadOf(g, next, keys)
  BY <1>1
<1> QED
  BY <1>2 DEF Turn

\* There are such getters.
LEMMA SolutionExists ==
    ASSUME NEW cached, NEW kept, NEW keys
    PROVE  \E g : Solves(g, cached, kept, keys)
<1> DEFINE Up(n) == {w \in Watchers : w <= n}
           T(g, w) == Turn(g, w, cached, kept, keys)
           S == {n \in Nat : \E g : g = [w \in Up(n) |-> T(g, w)]}
<1>0. \A w \in Watchers : w \in Nat /\ w >= 1 /\ w <= N
  BY KeyAssumption DEF Watchers
<1>1. ASSUME NEW n \in Nat, \A m \in Nat : m < n => m \in S PROVE n \in S
  <2>1. CASE n = 0
    <3>1. Up(n) = {}
      BY <1>0, <2>1
    <3>2. [w \in Up(n) |-> 0] = [w \in Up(n) |-> T([v \in Up(n) |-> 0], w)]
      BY <3>1
    <3> QED
      BY <3>2
  <2>2. CASE n # 0
    <3>1. n - 1 \in Nat /\ n - 1 \in S
      BY <1>1, <2>2
    <3>2. PICK g : g = [w \in Up(n - 1) |-> T(g, w)]
      BY <3>1
    <3> DEFINE h == [w \in Up(n) |-> IF w <= n - 1 THEN g[w] ELSE T(g, w)]
    <3>3. \A w \in Up(n) : \A v \in Watchers : v < w => h[v] = g[v]
      BY <1>0
    <3>4. \A w \in Up(n) : T(h, w) = T(g, w)
      <4> HIDE DEF h
      <4> QED
        BY <3>3, TurnLooksBack
    <3>5. \A w \in Up(n) : w <= n - 1 => w \in Up(n - 1)
      OBVIOUS
    <3>6. \A w \in Up(n - 1) : g[w] = T(g, w)
      <4> HIDE DEF T
      <4> QED
        BY <3>2
    <3>7. \A w \in Up(n) : h[w] = T(h, w)
      <4> HIDE DEF T
      <4> QED
        BY <3>4, <3>5, <3>6
    <3>8. h = [w \in Up(n) |-> T(h, w)]
      <4>1. h = [w \in Up(n) |-> h[w]]
        OBVIOUS
      <4> HIDE DEF h, T
      <4> QED
        BY <3>7, <4>1
    <3> QED
      BY <3>8
  <2> QED
    BY <2>1, <2>2
<1>2. N \in S
  <2> HIDE DEF S
  <2> QED
    BY <1>1, Induction, KeyAssumption
<1>3. Up(N) = Watchers
  BY <1>0
<1>4. PICK g : g = [w \in Up(N) |-> T(g, w)]
  BY <1>2
<1>5. g = [w \in Watchers |-> T(g, w)]
  BY <1>3, <1>4
<1> QED
  BY <1>5 DEF Solves

\* What the computed properties that are clean have kept.
Cached == {w \in Lazy : ~ dirty[w]}
Kept == [w \in Watchers |-> [value |-> value[w], deps |-> deps[w], ran |-> {}]]

LEMMA GetterSolves == Solves(Getter, Cached, Kept, KeyReads)
<1> DEFINE Read(g, s) == IF s \in Keys THEN ReadKey(s) ELSE g[s]
           Test(g, w) == Read(g, Program[w].test)
           Branch(g, w) == Read(g, IF Test(g, w).value = 1 THEN Program[w].yes ELSE Program[w].no)
           Body(g, w) == IF w \in Lazy /\ ~ dirty[w]
                         THEN [value |-> value[w], deps |-> deps[w], ran |-> {}]
                         ELSE [value |-> Branch(g, w).value,
                               deps  |-> Test(g, w).deps \cup Branch(g, w).deps,
                               ran   |-> Test(g, w).ran \cup Branch(g, w).ran \cup {w}]
<1>1. \A g, s : Read(g, s) = ReadOf(g, s, KeyReads)
  BY DEF ReadOf, KeyReads
<1>2. ASSUME NEW g, NEW w \in Watchers PROVE Body(g, w) = Turn(g, w, Cached, Kept, KeyReads)
  <2> HIDE DEF Read
  <2> QED
    BY <1>1 DEF Turn, Cached, Kept
<1>3. Getter = CHOOSE g : g = [w \in Watchers |-> Body(g, w)]
  BY DEF Getter
<1> HIDE DEF Body
<1>4. PICK g : Solves(g, Cached, Kept, KeyReads)
  BY SolutionExists
<1>5. g = [w \in Watchers |-> Body(g, w)]
  BY <1>2, <1>4 DEF Solves
<1>6. Getter = [w \in Watchers |-> Body(Getter, w)]
  BY <1>3, <1>5
<1>7. Getter = [w \in Watchers |-> Turn(Getter, w, Cached, Kept, KeyReads)]
  BY <1>2, <1>6
<1> QED
  BY <1>7 DEF Solves

LEMMA FreshSolves == Solves(FreshReads, {}, Kept, KeyReads)
<1> DEFINE Read(g, s) == IF s \in Keys THEN ReadKey(s) ELSE g[s]
           Test(g, w) == Read(g, Program[w].test)
           Branch(g, w) == Read(g, IF Test(g, w).value = 1 THEN Program[w].yes ELSE Program[w].no)
           Body(g, w) == [value |-> Branch(g, w).value,
                          deps  |-> Test(g, w).deps \cup Branch(g, w).deps,
                          ran   |-> Test(g, w).ran \cup Branch(g, w).ran \cup {w}]
<1>1. \A g, s : Read(g, s) = ReadOf(g, s, KeyReads)
  BY DEF ReadOf, KeyReads
<1>2. ASSUME NEW g, NEW w \in Watchers PROVE Body(g, w) = Turn(g, w, {}, Kept, KeyReads)
  <2> HIDE DEF Read
  <2> QED
    BY <1>1 DEF Turn
<1>3. FreshReads = CHOOSE g : g = [w \in Watchers |-> Body(g, w)]
  BY DEF FreshReads
<1> HIDE DEF Body
<1>4. PICK g : Solves(g, {}, Kept, KeyReads)
  BY SolutionExists
<1>5. g = [w \in Watchers |-> Body(g, w)]
  BY <1>2, <1>4 DEF Solves
<1>6. FreshReads = [w \in Watchers |-> Body(FreshReads, w)]
  BY <1>3, <1>5
<1>7. FreshReads = [w \in Watchers |-> Turn(FreshReads, w, {}, Kept, KeyReads)]
  BY <1>2, <1>6
<1> QED
  BY <1>7 DEF Solves

\* What a getter returns is what it would return were nothing cached.
LEMMA FreshIsRead == \A w \in Watchers : Fresh[w] = FreshReads[w].value
<1> DEFINE Read(f, s) == IF s \in Keys THEN data[s] ELSE f[s]
           Body(f, w) == IF Read(f, Program[w].test) = 1 THEN Read(f, Program[w].yes)
                         ELSE Read(f, Program[w].no)
           values == [w \in Watchers |-> FreshReads[w].value]
<1>1. Fresh = CHOOSE f : f = [w \in Watchers |-> Body(f, w)]
  BY DEF Fresh
<1>2. ASSUME NEW w \in Watchers PROVE Body(values, w) = FreshReads[w].value
  <2>1. \A s \in {Program[w].test, Program[w].yes, Program[w].no} :
           Read(values, s) = ReadOf(FreshReads, s, KeyReads).value
    BY SourcesBefore DEF ReadOf, KeyReads, ReadKey
  <2>2. FreshReads[w] = Turn(FreshReads, w, {}, Kept, KeyReads)
    BY FreshSolves DEF Solves
  <2> HIDE DEF Read, values
  <2> QED
    BY <2>1, <2>2 DEF Turn
<1>3. values = [w \in Watchers |-> Body(values, w)]
  <2> HIDE DEF Body
  <2> QED
    BY <1>2
<1>4. Fresh = [w \in Watchers |-> Body(Fresh, w)]
  <2> HIDE DEF Body, values
  <2> QED
    BY <1>1, <1>3
<1>5. ASSUME NEW f, NEW g, NEW w \in Watchers, \A v \in Watchers : v < w => f[v] = g[v]
      PROVE  Body(f, w) = Body(g, w)
  BY <1>5, SourcesBefore
<1> DEFINE S == {n \in Nat : n \in Watchers => Fresh[n] = values[n]}
<1>6. Watchers \subseteq Nat
  BY KeyAssumption DEF Watchers
<1>7. ASSUME NEW n \in Nat, \A m \in Nat : m < n => m \in S PROVE n \in S
  <2> HIDE DEF Body, values
  <2> SUFFICES ASSUME n \in Watchers PROVE Fresh[n] = values[n]
    OBVIOUS
  <2>1. \A v \in Watchers : v < n => Fresh[v] = values[v]
    BY <1>6, <1>7
  <2>2. Body(Fresh, n) = Body(values, n)
    BY <1>5, <2>1
  <2>3. Fresh[n] = Body(Fresh, n) /\ values[n] = Body(values, n)
    BY <1>3, <1>4
  <2> QED
    BY <2>2, <2>3
<1>8. Nat \subseteq S
  <2> HIDE DEF S
  <2> QED
    BY <1>7, Induction
<1> QED
  BY <1>6, <1>8

-----------------------------------------------------------------------------
(* What the getters return *)

\* Each getter, evaluated now, given that those before it are.
FreshTurnOf(w) ==
    LET read(s) == ReadOf(FreshReads, s, KeyReads)
        next == IF read(Program[w].test).value = 1 THEN Program[w].yes ELSE Program[w].no
    IN  /\ FreshReads[w].value = read(next).value
        /\ FreshReads[w].deps = read(Program[w].test).deps \cup read(next).deps

LEMMA FreshTurn == \A w \in Watchers : FreshTurnOf(w)
<1> SUFFICES ASSUME NEW w \in Watchers PROVE FreshTurnOf(w)
  OBVIOUS
<1>1. FreshReads[w] = Turn(FreshReads, w, {}, Kept, KeyReads)
  BY FreshSolves DEF Solves
<1> QED
  BY <1>1 DEF Turn, FreshTurnOf

\* The getters when some are cached.
LEMMA GetterTurn ==
    ASSUME NEW w \in Watchers
    PROVE  LET read(s) == ReadOf(Getter, s, KeyReads)
               next == IF read(Program[w].test).value = 1 THEN Program[w].yes ELSE Program[w].no
           IN  IF w \in Cached THEN Getter[w].value = value[w] /\ Getter[w].deps = deps[w]
               ELSE /\ Getter[w].value = read(next).value
                    /\ Getter[w].deps = read(Program[w].test).deps \cup read(next).deps
<1>1. Getter[w] = Turn(Getter, w, Cached, Kept, KeyReads)
  BY GetterSolves DEF Solves
<1> QED
  BY <1>1 DEF Turn, Kept

\* The watchers that can be evaluated: those that are made, and the next one
\* unless it is a computed property.
Readable == {w \in Watchers : w <= made \/ (w = made + 1 /\ w \notin Lazy)}

\* As long as the page lives and everybody has been told, a getter returns what
\* it would were nothing cached.
LEMMA GetterIsFresh ==
    ASSUME FreshInv, ~ destroyed, updating = {}, made \in Nat
    PROVE  \A w \in Readable : /\ Getter[w].value = FreshReads[w].value
                               /\ Getter[w].deps = FreshReads[w].deps
<1> DEFINE Same(w) == /\ Getter[w].value = FreshReads[w].value
                      /\ Getter[w].deps = FreshReads[w].deps
           S == {n \in Nat : n \in Readable => Same(n)}
<1>0. Watchers \subseteq Nat
  BY KeyAssumption DEF Watchers
<1>1. ASSUME NEW n \in Nat, \A m \in Nat : m < n => m \in S PROVE n \in S
  <2> SUFFICES ASSUME n \in Readable PROVE Same(n)
    OBVIOUS
  <2>0. n \in Watchers
    BY DEF Readable
  <2>1. CASE n \in Cached
    <3>1. n \in Lazy /\ ~ dirty[n] /\ n <= made
      BY <2>1 DEF Cached, Readable
    <3>2. IsClean(n)
      BY <3>1, <2>0 DEF FreshInv, IsClean
    <3>3. IsFresh(n)
      BY <3>2, <2>0 DEF FreshInv
    <3> QED
      BY <2>0, <2>1, <3>3, GetterTurn DEF IsFresh
  <2>2. CASE n \notin Cached
    <3>1. ASSUME NEW s \in {Program[n].test, Program[n].yes, Program[n].no}
          PROVE  /\ ReadOf(Getter, s, KeyReads).value = ReadOf(FreshReads, s, KeyReads).value
                 /\ ReadOf(Getter, s, KeyReads).deps = ReadOf(FreshReads, s, KeyReads).deps
      <4>1. CASE s \in Keys
        BY <4>1 DEF ReadOf
      <4>2. CASE s \notin Keys
        <5>1. s \in Lazy /\ s \in Watchers /\ s \in Nat /\ s < n
          BY <2>0, <4>2, SourcesBefore
        <5>2. s <= made
          BY <5>1 DEF Readable
        <5>3. s \in Readable /\ s \in S
          BY <1>1, <5>1, <5>2 DEF Readable
        <5> QED
          BY <4>2, <5>3 DEF ReadOf
      <4> QED
        BY <4>1, <4>2
    <3> DEFINE next == IF ReadOf(Getter, Program[n].test, KeyReads).value = 1
                       THEN Program[n].yes ELSE Program[n].no
    <3>2. next = IF ReadOf(FreshReads, Program[n].test, KeyReads).value = 1
                 THEN Program[n].yes ELSE Program[n].no
      BY <3>1
    <3>3. /\ Getter[n].value = ReadOf(Getter, next, KeyReads).value
          /\ Getter[n].deps = ReadOf(Getter, Program[n].test, KeyReads).deps
                              \cup ReadOf(Getter, next, KeyReads).deps
      BY <2>0, <2>2, GetterTurn
    <3>4. /\ FreshReads[n].value = ReadOf(FreshReads, next, KeyReads).value
          /\ FreshReads[n].deps = ReadOf(FreshReads, Program[n].test, KeyReads).deps
                                  \cup ReadOf(FreshReads, next, KeyReads).deps
      BY <2>0, <3>2, FreshTurn DEF FreshTurnOf
    <3>5. next \in {Program[n].test, Program[n].yes, Program[n].no}
      OBVIOUS
    <3> HIDE DEF next
    <3> QED
      BY <3>1, <3>3, <3>4, <3>5
  <2> QED
    BY <2>1, <2>2
<1>2. Nat \subseteq S
  <2> HIDE DEF S
  <2> QED
    BY <1>1, Induction
<1> QED
  BY <1>0, <1>2 DEF Readable

\* A getter that is evaluated reads the object.
LEMMA EveryoneReadsTheObject ==
    \A w \in Watchers : RootDep \in FreshReads[w].deps /\ ObjectDep \in FreshReads[w].deps
<1> DEFINE Reads(n) == RootDep \in FreshReads[n].deps /\ ObjectDep \in FreshReads[n].deps
           S == {n \in Nat : n \in Watchers => Reads(n)}
<1>1. ASSUME NEW n \in Nat, \A m \in Nat : m < n => m \in S PROVE n \in S
  <2> SUFFICES ASSUME n \in Watchers PROVE Reads(n)
    OBVIOUS
  <2> DEFINE s == Program[n].test
  <2>1. s \in Keys \/ (s \in Watchers /\ s \in S)
    BY <1>1, SourcesBefore
  <2>2. /\ RootDep \in ReadOf(FreshReads, s, KeyReads).deps
        /\ ObjectDep \in ReadOf(FreshReads, s, KeyReads).deps
    BY <2>1 DEF ReadOf, KeyReads, ReadKey
  <2> HIDE DEF S
  <2> QED
    BY <2>2, FreshTurn DEF FreshTurnOf
<1>2. Nat \subseteq S
  <2> HIDE DEF S
  <2> QED
    BY <1>1, Induction
<1>3. Watchers \subseteq Nat
  BY KeyAssumption DEF Watchers
<1> QED
  BY <1>2, <1>3

\* Whoever has not read a property that is assigned would return the same again.
LEMMA UnreadIsUnchanged ==
    ASSUME NEW k \in Keys, data' \in Shape, data[k] # Undefined, data'[k] # Undefined,
           \A j \in Keys \ {k} : data'[j] = data[j], UNCHANGED <<born, object>>
    PROVE  \A w \in Watchers : KeyDep(k) \notin FreshReads[w].deps
              => /\ FreshReads'[w].value = FreshReads[w].value
                 /\ FreshReads'[w].deps = FreshReads[w].deps
<1> DEFINE Same(n) == /\ FreshReads'[n].value = FreshReads[n].value
                      /\ FreshReads'[n].deps = FreshReads[n].deps
           S == {n \in Nat : (n \in Watchers /\ KeyDep(k) \notin FreshReads[n].deps) => Same(n)}
<1>0. /\ KeyReads = [j \in Keys |-> ReadKey(j)]
      /\ KeyReads' = [j \in Keys |-> ReadKey(j)']
      /\ \A j \in Keys \ {k} : ReadKey(j)' = ReadKey(j)
      /\ KeyDep(k) \in ReadKey(k).deps
  BY DEF KeyReads, ReadKey, ObjectDep, RootDep, KeyDep
<1>9. (\A w \in Watchers : FreshTurnOf(w))'
  BY FreshTurn, PTL
<1>1. ASSUME NEW n \in Nat, \A m \in Nat : m < n => m \in S PROVE n \in S
  <2> SUFFICES ASSUME n \in Watchers, KeyDep(k) \notin FreshReads[n].deps PROVE Same(n)
    OBVIOUS
  <2>1. ASSUME NEW s \in {Program[n].test, Program[n].yes, Program[n].no},
               KeyDep(k) \notin ReadOf(FreshReads, s, KeyReads).deps
        PROVE  /\ ReadOf(FreshReads, s, KeyReads)'.value = ReadOf(FreshReads, s, KeyReads).value
               /\ ReadOf(FreshReads, s, KeyReads)'.deps = ReadOf(FreshReads, s, KeyReads).deps
    <3>1. CASE s \in Keys
      BY <1>0, <2>1, <3>1 DEF ReadOf
    <3>2. CASE s \notin Keys
      <4>1. s \in Watchers /\ s \in S
        BY <1>1, <3>2, SourcesBefore
      <4> QED
        BY <2>1, <3>2, <4>1 DEF ReadOf
    <3> QED
      BY <3>1, <3>2
  <2> DEFINE next == IF ReadOf(FreshReads, Program[n].test, KeyReads).value = 1
                     THEN Program[n].yes ELSE Program[n].no
  <2>2. /\ FreshReads[n].value = ReadOf(FreshReads, next, KeyReads).value
        /\ FreshReads[n].deps = ReadOf(FreshReads, Program[n].test, KeyReads).deps
                                \cup ReadOf(FreshReads, next, KeyReads).deps
    BY FreshTurn DEF FreshTurnOf
  <2>3. next \in {Program[n].test, Program[n].yes, Program[n].no}
    OBVIOUS
  <2>4. ReadOf(FreshReads, Program[n].test, KeyReads)'.value
          = ReadOf(FreshReads, Program[n].test, KeyReads).value
    BY <2>1, <2>2
  <2>5. next' = next
    BY <2>4
  <2>6. /\ FreshReads'[n].value = ReadOf(FreshReads, next, KeyReads)'.value
        /\ FreshReads'[n].deps = ReadOf(FreshReads, Program[n].test, KeyReads)'.deps
                                 \cup ReadOf(FreshReads, next, KeyReads)'.deps
    BY <1>9, <2>5 DEF FreshTurnOf
  <2> HIDE DEF next
  <2> QED
    BY <2>1, <2>2, <2>3, <2>4, <2>5, <2>6
<1>2. Nat \subseteq S
  <2> HIDE DEF S
  <2> QED
    BY <1>1, Induction
<1>3. Watchers \subseteq Nat
  BY KeyAssumption DEF Watchers
<1> QED
  BY <1>2, <1>3

-----------------------------------------------------------------------------
(* Types *)

\* The types of what the other invariants do not speak of, and that a callback
\* that changes what it watches has something to change.
Types ==
    /\ TypeOK
    /\ mode = "react" => Reaction[Current] # Nothing

LEMMA DepTypes ==
    ASSUME TypeOK
    PROVE  RootDep \in Dep /\ ObjectDep \in Dep /\ \A k \in Keys : KeyDep(k) \in Dep
<1>1. 0 \in 0 .. MaxEdits
  BY BoundAssumption
<1> QED
  BY <1>1 DEF TypeOK, RootDep, ObjectDep, KeyDep, Dep

\* Getters return values and what can be subscribed to.
LEMMA GetterTypes ==
    ASSUME TypeOK
    PROVE  \A w \in Watchers : Getter[w].value \in Value /\ Getter[w].deps \subseteq Dep
<1> DEFINE Good(n) == Getter[n].value \in Value /\ Getter[n].deps \subseteq Dep
           S == {n \in Nat : n \in Watchers => Good(n)}
<1>0. \A k \in Keys : ReadKey(k).value \in Value /\ ReadKey(k).deps \subseteq Dep
  BY DepTypes DEF ReadKey, TypeOK, Shape
<1>1. ASSUME NEW n \in Nat, \A m \in Nat : m < n => m \in S PROVE n \in S
  <2> SUFFICES ASSUME n \in Watchers PROVE Good(n)
    OBVIOUS
  <2>1. CASE n \in Cached
    <3>1. Getter[n].value = value[n] /\ Getter[n].deps = deps[n]
      BY <2>1, GetterTurn
    <3> QED
      BY <3>1 DEF TypeOK
  <2>2. CASE n \notin Cached
    <3>1. ASSUME NEW s \in {Program[n].test, Program[n].yes, Program[n].no}
          PROVE  /\ ReadOf(Getter, s, KeyReads).value \in Value
                 /\ ReadOf(Getter, s, KeyReads).deps \subseteq Dep
      <4>1. s \in Keys \/ (s \in Watchers /\ s \in S)
        BY <1>1, SourcesBefore
      <4> QED
        BY <1>0, <4>1 DEF ReadOf, KeyReads
    <3> DEFINE next == IF ReadOf(Getter, Program[n].test, KeyReads).value = 1
                       THEN Program[n].yes ELSE Program[n].no
    <3>2. /\ Getter[n].value = ReadOf(Getter, next, KeyReads).value
          /\ Getter[n].deps = ReadOf(Getter, Program[n].test, KeyReads).deps
                              \cup ReadOf(Getter, next, KeyReads).deps
      BY <2>2, GetterTurn
    <3>3. next \in {Program[n].test, Program[n].yes, Program[n].no}
      OBVIOUS
    <3> HIDE DEF next
    <3> QED
      BY <3>1, <3>2, <3>3
  <2> QED
    BY <2>1, <2>2
<1>2. Nat \subseteq S
  <2> HIDE DEF S
  <2> QED
    BY <1>1, Induction
<1>3. Watchers \subseteq Nat
  BY KeyAssumption DEF Watchers
<1> QED
  BY <1>2, <1>3

\* The part of the types that the code of the page and the getters change.
PageTypes ==
    /\ data \in Shape
    /\ born \in [Keys -> 0 .. MaxEdits]
    /\ object \in 0 .. MaxEdits
    /\ edits \in 0 .. MaxEdits
    /\ updating \in SUBSET Watchers
    /\ made \in 0 .. N
    /\ destroyed \in BOOLEAN
    /\ active \in [Watchers -> BOOLEAN]
    /\ acted \in BOOLEAN
    /\ pending \in BOOLEAN

GetTyped ==
    /\ subs \in [Dep -> SUBSET Watchers]
    /\ deps \in [Watchers -> SUBSET Dep]
    /\ value \in [Watchers -> Value]
    /\ dirty \in [Watchers -> BOOLEAN]

FlushTypes ==
    /\ past \in SUBSET Watchers
    /\ circular \in [Watchers -> Nat]
    /\ throws \in 0 .. MaxThrows
    /\ tripped \in BOOLEAN

\* An evaluation keeps the types.
LEMMA GetTypes ==
    ASSUME TypeOK, NEW w \in Watchers, Get(w) PROVE GetTyped'
<1>1. PICK ran \in SUBSET Watchers : Register(Getter, ran) /\ Evaluate(Getter, ran)
  <2>1. {w} \cup {v \in Lazy : v <= made /\ v \in Getter[w].ran} \in SUBSET Watchers
    BY DEF Lazy
  <2> QED
    BY <2>1 DEF Get
<1>2. \A v \in Watchers : /\ Getter[v].value \in Value /\ Getter[v].deps \subseteq Dep
                          /\ deps[v] \subseteq Dep /\ value[v] \in Value /\ dirty[v] \in BOOLEAN
  BY GetterTypes DEF TypeOK
<1>3. deps' \in [Watchers -> SUBSET Dep]
  BY <1>1, <1>2 DEF Register
<1>4. subs' \in [Dep -> SUBSET Watchers]
  BY <1>1 DEF Register, TypeOK
<1>5. value' \in [Watchers -> Value]
  BY <1>1, <1>2 DEF Evaluate
<1>6. dirty' \in [Watchers -> BOOLEAN]
  BY <1>1, <1>2 DEF Evaluate
<1> QED
  BY <1>3, <1>4, <1>5, <1>6 DEF GetTyped, Dep, Value

LEMMA TypesSplit ==
    QueueInv /\ owed \in [Ticks -> SUBSET Watchers]
        => (TypeOK <=> PageTypes /\ GetTyped /\ FlushTypes)
BY DEF QueueInv, SchedulerTypes, Modes, FlushModes, PageModes, TypeOK, PageTypes, GetTyped,
   FlushTypes

LEMMA PageKeepsTypes ==
    ASSUME TypeOK, Page PROVE PageTypes' /\ GetTyped' /\ FlushTypes'
<1>0. GetTyped /\ FlushTypes /\ PageTypes
  BY DEF TypeOK, GetTyped, FlushTypes, PageTypes
<1>1. ASSUME Edit
      PROVE  /\ edits' \in 0 .. MaxEdits /\ acted' \in BOOLEAN
             /\ GetTyped' /\ FlushTypes' /\ made' \in 0 .. N /\ destroyed' \in BOOLEAN
             /\ active' \in [Watchers -> BOOLEAN] /\ pending' \in BOOLEAN
  <2>1. edits' = edits + 1 /\ edits < MaxEdits /\ edits \in 0 .. MaxEdits /\ MaxEdits \in Nat
    BY <1>1, BoundAssumption DEF Edit, TypeOK
  <2>2. edits' \in 0 .. MaxEdits
    BY <2>1
  <2>3. GetTyped' /\ FlushTypes' /\ active' \in [Watchers -> BOOLEAN] /\ pending' \in BOOLEAN
    BY <1>0, <1>1 DEF Edit, watchers, scheduler, ticks, GetTyped, FlushTypes, PageTypes, Dep, Value
  <2> QED
    BY <1>1, <2>2, <2>3 DEF Edit, TypeOK
<1>2. ASSUME NEW k \in Keys, NEW v \in {0, 1}, Assign(k, v) PROVE PageTypes'
  <2>1. data' \in Shape
    BY <1>2 DEF Assign, TypeOK, Shape, Value
  <2>2. updating' \in SUBSET Watchers
    BY <1>2, DepTypes DEF Assign, TypeOK
  <2> QED
    BY <1>1, <1>2, <2>1, <2>2 DEF Assign, TypeOK, PageTypes, Shape, Value
<1>3. ASSUME NEW k \in Keys, NEW v \in {0, 1}, Set(k, v) PROVE PageTypes'
  <2>1. data' \in Shape
    BY <1>3 DEF Set, TypeOK, Shape, Value
  <2>2. updating' \in SUBSET Watchers
    BY <1>3, DepTypes DEF Set, TypeOK
  <2>3. born' \in [Keys -> 0 .. MaxEdits]
    BY <1>1, <1>3 DEF Set, TypeOK
  <2> QED
    BY <1>1, <1>3, <2>1, <2>2, <2>3 DEF Set, TypeOK, PageTypes, Shape, Value
<1>4. ASSUME NEW k \in Keys, Delete(k) PROVE PageTypes'
  <2>1. data' \in Shape
    BY <1>4 DEF Delete, TypeOK, Shape, Value
  <2>2. updating' \in SUBSET Watchers
    BY <1>4, DepTypes DEF Delete, TypeOK
  <2> QED
    BY <1>1, <1>4, <2>1, <2>2 DEF Delete, TypeOK, PageTypes, Shape, Value
<1>5. ASSUME NEW new \in Objects, Replace(new) PROVE PageTypes'
  <2>1. data' \in Shape
    BY <1>5, KeyAssumption DEF Replace
  <2>2. updating' \in SUBSET Watchers
    BY <1>5, DepTypes DEF Replace, TypeOK
  <2>3. born' \in [Keys -> 0 .. MaxEdits] /\ object' \in 0 .. MaxEdits
    BY <1>1, <1>5 DEF Replace
  <2> QED
    BY <1>1, <1>5, <2>1, <2>2, <2>3 DEF Replace, PageTypes, Shape, Value
<1>6. ASSUME UNCHANGED <<observed, acted, updating, counters>>, UNCHANGED <<scheduler, ticks>>,
             made' \in 0 .. N, destroyed' \in BOOLEAN, active' \in [Watchers -> BOOLEAN]
      PROVE  PageTypes' /\ FlushTypes'
  BY <1>0, <1>6 DEF observed, counters, scheduler, ticks, PageTypes, FlushTypes, Shape, Value
<1>7. CASE Make
  <2> DEFINE w == made + 1
  <2>1. w \in Watchers /\ w \in 0 .. N
    BY <1>7, KeyAssumption DEF Make, TypeOK, Watchers
  <2>2. /\ made' = w /\ active' = [active EXCEPT ![w] = TRUE] /\ destroyed' = destroyed
        /\ UNCHANGED <<observed, acted, updating, counters>> /\ UNCHANGED <<scheduler, ticks>>
        /\ \/ dirty' = [dirty EXCEPT ![w] = TRUE] /\ UNCHANGED <<subs, deps, value>>
           \/ Get(w)
    BY <1>7 DEF Make
  <2> HIDE DEF w
  <2>3. GetTyped'
    <3>1. CASE Get(w)
      BY <2>1, <3>1, GetTypes
    <3>2. CASE dirty' = [dirty EXCEPT ![w] = TRUE] /\ UNCHANGED <<subs, deps, value>>
      BY <1>0, <3>2 DEF GetTyped, Dep, Value
    <3> QED
      BY <2>2, <3>1, <3>2
  <2>4. active' \in [Watchers -> BOOLEAN]
    BY <2>2 DEF TypeOK
  <2> QED
    BY <1>6, <2>1, <2>2, <2>3, <2>4 DEF TypeOK
<1>8. ASSUME NEW w \in Watchers, ReadComputed(w) PROVE PageTypes' /\ GetTyped' /\ FlushTypes'
  BY <1>6, <1>8, GetTypes DEF ReadComputed, TypeOK
<1>9. ASSUME NEW S \in SUBSET Watchers, Teardown(S)
      PROVE  GetTyped' /\ active' \in [Watchers -> BOOLEAN]
  BY <1>0, <1>9 DEF Teardown, GetTyped, TypeOK, Dep, Value
<1>10. ASSUME NEW w \in Watchers, Unwatch(w) PROVE PageTypes' /\ GetTyped' /\ FlushTypes'
  BY <1>6, <1>9, <1>10 DEF Unwatch, TypeOK
<1>11. CASE Destroy
  BY <1>6, <1>9, <1>11 DEF Destroy, TypeOK
<1>12. ASSUME NEW t \in Ticks, AskTick(t) PROVE PageTypes' /\ GetTyped' /\ FlushTypes'
  <2>1. edits' \in 0 .. MaxEdits
    BY <1>12, BoundAssumption DEF AskTick, TypeOK
  <2>2. acted' \in BOOLEAN /\ pending' \in BOOLEAN
    BY <1>12 DEF AskTick, NextTick
  <2>3. GetTyped' /\ FlushTypes'
    BY <1>0, <1>12 DEF AskTick, watchers, scheduler, GetTyped, FlushTypes, Dep, Value
  <2> QED
    BY <1>0, <1>12, <2>1, <2>2, <2>3 DEF AskTick, observed, watchers, PageTypes, Shape, Value
<1>13. ASSUME NEW k \in Keys, NEW v \in {0, 1}, Assign(k, v) \/ Set(k, v) PROVE Edit
  BY <1>13 DEF Assign, Set
<1>14. ASSUME NEW k \in Keys, Delete(k) PROVE Edit
  BY <1>14 DEF Delete
<1>15. ASSUME NEW new \in Objects, Replace(new) PROVE Edit
  BY <1>15 DEF Replace
<1> QED
  BY <1>1, <1>2, <1>3, <1>4, <1>5, <1>7, <1>8, <1>10, <1>11, <1>12, <1>13, <1>14, <1>15 DEF Page

LEMMA EngineKeepsTypes ==
    ASSUME Types, QueueInv, Engine \/ RunThrows PROVE PageTypes' /\ GetTyped' /\ FlushTypes'
<1>0. GetTyped /\ FlushTypes /\ PageTypes /\ TypeOK
  BY DEF Types, TypeOK, GetTyped, FlushTypes, PageTypes
<1>1. ASSUME UNCHANGED <<observed, watchers, made, destroyed, updating, edits>>
      PROVE  GetTyped' /\ (acted' \in BOOLEAN /\ pending' \in BOOLEAN => PageTypes')
  BY <1>0, <1>1 DEF observed, watchers, GetTyped, PageTypes, Shape, Value, Dep
<1>2. ASSUME UNCHANGED <<past, circular, throws, tripped>> PROVE FlushTypes'
  BY <1>0, <1>2 DEF FlushTypes
<1>3. ASSUME Return PROVE pending' = pending
  BY <1>3 DEF Return
<1>4. ASSUME NEW w \in Watchers, Update(w) PROVE PageTypes' /\ GetTyped' /\ FlushTypes'
  <2>1. dirty' \in [Watchers -> BOOLEAN] /\ pending' \in BOOLEAN /\ UNCHANGED <<past, circular>>
    BY <1>0, <1>4 DEF Update, QueueWatcher, NextTick, scheduler, ticks, PageTypes, GetTyped
  <2>2. GetTyped'
    BY <1>0, <1>4, <2>1 DEF Update, GetTyped, Dep, Value
  <2>3. PageTypes'
    BY <1>0, <1>4, <2>1 DEF Update, PageTypes, observed, counters, Shape, Value
  <2> QED
    BY <1>2, <1>4, <2>1, <2>2, <2>3 DEF Update, counters
<1>5. CASE FlushCallbacks \/ StartFlush \/ StartTick \/ EndCopies \/ NextWatcher
  <2>1. acted' \in BOOLEAN /\ pending' \in BOOLEAN
    BY <1>0, <1>5 DEF FlushCallbacks, StartFlush, StartTick, EndCopies, NextWatcher, ticks, PageTypes
  <2> QED
    BY <1>1, <1>2, <1>5, <2>1 DEF FlushCallbacks, StartFlush, StartTick, EndCopies, NextWatcher,
       scheduler, counters
<1>6. CASE PageReturns
  <2>1. acted' \in BOOLEAN /\ pending' \in BOOLEAN
    BY <1>0, <1>3, <1>6 DEF PageReturns, ticks, PageTypes
  <2> QED
    BY <1>1, <1>2, <1>6, <2>1 DEF PageReturns, scheduler, counters
<1>7. ASSUME mode = "run" PROVE Current \in Watchers
  BY <1>7 DEF Current, QueueInv, SchedulerTypes, Control, FlushModes
<1>8. ASSUME UNCHANGED <<observed, active, made, destroyed, updating, edits>>,
             acted' \in BOOLEAN, pending' = pending
      PROVE  PageTypes'
  BY <1>0, <1>8 DEF observed, PageTypes, Shape, Value
<1>9. CASE Run
  <2>1. GetTyped'
    <3>1. CASE Get(Current)
      BY <1>0, <1>7, <1>9, <3>1, GetTypes DEF Run
    <3>2. CASE UNCHANGED <<subs, deps, value, dirty>>
      BY <1>0, <3>2 DEF GetTyped, Dep, Value
    <3> QED
      BY <1>9, <3>1, <3>2 DEF Run
  <2> QED
    BY <1>2, <1>8, <1>9, <2>1 DEF Run, ticks, counters
<1>10. CASE RunThrows
  <2>1. GetTyped'
    BY <1>0, <1>7, <1>10, GetTypes DEF RunThrows
  <2>2. throws' \in 0 .. MaxThrows
    BY <1>0, <1>10, BoundAssumption DEF RunThrows, FlushTypes
  <2>3. pending' = pending /\ acted' \in BOOLEAN
    BY <1>0, <1>10 DEF RunThrows, Return, PageTypes
  <2>4. FlushTypes'
    BY <1>0, <1>10, <2>2 DEF RunThrows, FlushTypes
  <2> QED
    BY <1>8, <1>10, <2>1, <2>3, <2>4 DEF RunThrows
<1>11. CASE React
  <2> DEFINE k == Reaction[Current]
  <2>1. mode = "react" /\ k \in Keys
    <3>1. mode = "react" /\ queue \in Seq(Watchers) /\ queue # <<>>
      BY <1>11 DEF React, QueueInv, SchedulerTypes, Control, FlushModes
    <3>2. Current \in Watchers
      BY <3>1 DEF Current
    <3> QED
      BY <3>1, <3>2, ProgramAssumption DEF Types
  <2>2. /\ data' = IF data[k] = Undefined THEN data ELSE [data EXCEPT ![k] = 1 - @]
        /\ updating' = IF data[k] = Undefined THEN {} ELSE subs[KeyDep(k)]
        /\ UNCHANGED <<born, object, watchers, made, destroyed, scheduler, ticks, acted, counters>>
    BY <1>11 DEF React
  <2> HIDE DEF k
  <2>3. data' \in Shape
    <3>1. data[k] = Undefined \/ 1 - data[k] \in {0, 1}
      BY <1>0, <2>1 DEF PageTypes, Shape, Value
    <3> QED
      BY <1>0, <2>1, <2>2, <3>1 DEF PageTypes, Shape, Value
  <2>4. updating' \in SUBSET Watchers
    BY <1>0, <2>1, <2>2, DepTypes DEF GetTyped
  <2>5. GetTyped' /\ FlushTypes'
    BY <1>0, <2>2 DEF watchers, scheduler, counters, GetTyped, FlushTypes, Dep, Value
  <2> QED
    BY <1>0, <2>2, <2>3, <2>4, <2>5 DEF watchers, ticks, counters, PageTypes, Shape, Value
<1>12. CASE CheckCircular \/ EndFlush
  <2>1. UNCHANGED <<observed, watchers, made, destroyed, updating, edits, throws>>
    BY <1>12 DEF CheckCircular, EndFlush, counters
  <2>2. ASSUME Finish PROVE /\ acted' \in BOOLEAN /\ pending' = pending
                            /\ past' = {} /\ circular' = [w \in Watchers |-> 0]
    BY <1>0, <2>2 DEF Finish, ResetSchedulerState, Return, ticks, PageTypes
  <2>3. CASE Finish /\ tripped' \in BOOLEAN
    BY <1>0, <1>1, <2>1, <2>2, <2>3 DEF FlushTypes, PageTypes
  <2>4. CASE mode = "check" /\ Advance /\ UNCHANGED <<ticks, acted, tripped>>
                 /\ (circular' = circular \/ circular' = [circular EXCEPT ![Current] = @ + 1])
    <3>1. Current \in Watchers
      BY <2>4 DEF Current, QueueInv, SchedulerTypes, Control, FlushModes
    <3>2. past' \in SUBSET Watchers
      BY <1>0, <2>4, <3>1 DEF Advance, FlushTypes
    <3>3. circular' \in [Watchers -> Nat]
      BY <1>0, <2>4, <3>1 DEF FlushTypes
    <3> QED
      BY <1>0, <1>1, <2>1, <2>4, <3>2, <3>3 DEF FlushTypes, PageTypes, ticks
  <2>5. EndFlush => Finish /\ tripped' \in BOOLEAN
    BY <1>0 DEF EndFlush, counters, FlushTypes
  <2> QED
    BY <1>12, <2>3, <2>4, <2>5 DEF CheckCircular
<1> QED
  BY <1>4, <1>5, <1>6, <1>9, <1>10, <1>11, <1>12 DEF Engine

LEMMA TypesStep ==
    Types /\ QueueInv /\ QueueInv' /\ TickInv' /\ [Next]_vars => Types'
<1> SUFFICES ASSUME Types, QueueInv, QueueInv', TickInv', [Next]_vars PROVE Types'
  OBVIOUS
<1>1. ASSUME mode' = mode, queue' = queue PROVE (mode = "react" => Reaction[Current] # Nothing)'
  BY <1>1 DEF Types, Current
<1>2. ASSUME PageTypes', GetTyped', FlushTypes' PROVE TypeOK'
  <2>1. (QueueInv /\ owed \in [Ticks -> SUBSET Watchers]
            => (TypeOK <=> PageTypes /\ GetTyped /\ FlushTypes))'
    BY TypesSplit, PTL
  <2> QED
    BY <1>2, <2>1 DEF TickInv
<1>3. CASE Page
  <2>1. mode' = mode
    <3>1. CASE \E t \in Ticks : AskTick(t)
      BY <3>1 DEF AskTick
    <3>2. CASE ~ \E t \in Ticks : AskTick(t)
      BY <1>3, <3>2, PageIsQuiet DEF QueueVars
    <3> QED
      BY <3>1, <3>2
  <2>2. mode # "react"
    <3>1. CASE \E t \in Ticks : AskTick(t)
      BY <3>1 DEF AskTick, PageRuns, Callable, PageModes
    <3>2. CASE ~ \E t \in Ticks : AskTick(t)
      BY <1>3, <3>2, PageIsQuiet DEF PageModes
    <3> QED
      BY <3>1, <3>2
  <2> QED
    BY <1>2, <1>3, <2>1, <2>2, PageKeepsTypes DEF Types
<1>4. CASE Engine \/ RunThrows
  <2>1. mode' = "react" => Run \/ \E w \in Watchers : Update(w)
    BY <1>4 DEF Engine, FlushCallbacks, StartFlush, StartTick, EndCopies, NextWatcher, React,
       PageReturns, CheckCircular, EndFlush, RunThrows, Return, Finish, Advance
  <2>2. Run => (mode' = "react" => Reaction[Current]' # Nothing)
    <3>1. Current' = Current \/ queue' # queue
      BY DEF Current
    <3> QED
      BY <3>1 DEF Run
  <2>3. ASSUME NEW w \in Watchers, Update(w) PROVE mode' # "react"
    BY <2>3 DEF Update, QueueInv, Control, PageModes
  <2> QED
    BY <1>2, <1>4, <2>1, <2>2, <2>3, EngineKeepsTypes DEF Types
<1>5. CASE Rest \/ UNCHANGED vars
  <2>1. UNCHANGED vars
    BY <1>5 DEF Rest
  <2>2. PageTypes' /\ GetTyped' /\ FlushTypes'
    BY <2>1 DEF vars, observed, watchers, scheduler, ticks, counters, Types, TypeOK, PageTypes,
       GetTyped, FlushTypes, Shape, Value, Dep
  <2> QED
    BY <1>1, <1>2, <2>1, <2>2 DEF vars, scheduler, Types
<1> QED
  BY <1>3, <1>4, <1>5 DEF Next

LEMMA TypesInit == Init => Types
<1> SUFFICES ASSUME Init PROVE Types
  OBVIOUS
<1>1. QueueInv /\ owed \in [Ticks -> SUBSET Watchers]
  BY QueueInit DEF Init
<1>2. GetTyped
  <2>1. value \in [Watchers -> Value]
    BY DEF Init, Value
  <2> QED
    BY <2>1 DEF Init, GetTyped
<1>3. 0 \in 0 .. MaxEdits /\ 0 \in 0 .. MaxThrows /\ 0 \in 0 .. N
  BY BoundAssumption, KeyAssumption
<1>4. FlushTypes
  BY <1>3 DEF Init, FlushTypes
<1>5. PageTypes
  <2>1. data \in Shape
    BY KeyAssumption DEF Init
  <2>2. born \in [Keys -> 0 .. MaxEdits] /\ active \in [Watchers -> BOOLEAN]
    BY <1>3 DEF Init
  <2> QED
    BY <1>3, <2>1, <2>2 DEF Init, PageTypes
<1> QED
  BY <1>1, <1>2, <1>4, <1>5, TypesSplit DEF Types, Init

\* The state stays of its type, whatever the getters read and return: what a
\* watcher keeps is a value of the data, and what it subscribes to a Dep.
THEOREM Typed == Spec => []TypeOK
<1>1. Types => TypeOK
  BY DEF Types
<1>2. QueueInv /\ TickInv /\ Types /\ [Next]_vars => (TickInv /\ Types)'
  BY QueueStep, TickStep, TypesStep
<1>3. Init => TickInv /\ Types
  BY TickInit, TypesInit
<1> QED
  BY <1>1, <1>2, <1>3, Queued, PTL DEF Spec

-----------------------------------------------------------------------------
(* What is clean is fresh *)

CleanIsFresh == \A w \in Watchers : IsClean(w) => IsFresh(w)

LEMMA FreshKept == UNCHANGED observed => FreshReads' = FreshReads
BY DEF FreshReads, observed, ReadKey, ObjectDep, RootDep, KeyDep

\* Everyone who is evaluated on the way is fresh after; the others are as they were.
LEMMA GetFresh ==
    ASSUME FreshInv, TypeOK, ~ destroyed, updating = {}, NEW w \in Readable, Get(w),
           UNCHANGED <<observed, updating, tripped>>,
           \A v \in Watchers \ {w} : active'[v] = active[v] /\ has'[v] = has[v]
    PROVE  CleanIsFresh'
<1>1. PICK ran : /\ ran = {w} \cup {v \in Lazy : v <= made /\ v \in Getter[w].ran}
                 /\ Register(Getter, ran) /\ Evaluate(Getter, ran)
  BY DEF Get
<1>2. ran \subseteq Readable /\ w \in ran
  BY <1>1 DEF Readable, Lazy
<1>3. made \in Nat
  BY DEF TypeOK
<1>4. \A v \in Readable : /\ Getter[v].value = FreshReads[v].value
                          /\ Getter[v].deps = FreshReads[v].deps
  BY <1>3, GetterIsFresh
<1>5. FreshReads' = FreshReads
  BY FreshKept DEF observed
<1> SUFFICES ASSUME NEW v \in Watchers, IsClean(v)' PROVE IsFresh(v)'
  BY DEF CleanIsFresh
<1>6. CASE v \in ran
  <2>1. value'[v] = Getter[v].value /\ deps'[v] = Getter[v].deps
    BY <1>1, <1>6 DEF Register, Evaluate
  <2>2. value'[v] = FreshReads[v].value /\ deps'[v] = FreshReads[v].deps
    BY <1>2, <1>4, <1>6, <2>1
  <2> QED
    BY <1>5, <2>2 DEF IsFresh
<1>7. CASE v \notin ran
  <2>1. value'[v] = value[v] /\ deps'[v] = deps[v] /\ dirty'[v] = dirty[v]
    BY <1>1, <1>7 DEF Register, Evaluate, TypeOK
  <2>2. active'[v] = active[v] /\ has'[v] = has[v]
    BY <1>2, <1>7
  <2>3. IsClean(v)
    BY <2>1, <2>2 DEF IsClean
  <2>4. IsFresh(v)
    BY <2>3 DEF FreshInv
  <2> QED
    BY <1>5, <2>1, <2>4 DEF IsFresh
<1> QED
  BY <1>6, <1>7

\* Nobody reads anything else than before, and nobody is cleaner.
LEMMA NoneCleaner ==
    ASSUME FreshInv, UNCHANGED <<observed, value, deps>>,
           \A v \in Watchers : IsClean(v)' => IsClean(v)
    PROVE  CleanIsFresh'
BY FreshKept DEF FreshInv, CleanIsFresh, IsFresh

\* Whoever reads a property that is assigned is told.
LEMMA AssignTells ==
    ASSUME FreshInv, TypeOK, SubsAgree, updating = {}, NEW k \in Keys,
           data[k] # Undefined, data' \in Shape, data'[k] # Undefined,
           \A j \in Keys \ {k} : data'[j] = data[j],
           updating' = subs[KeyDep(k)],
           UNCHANGED <<born, object, value, deps, active, dirty, has, tripped>>
    PROVE  CleanIsFresh'
<1> SUFFICES ASSUME NEW v \in Watchers, IsClean(v)' PROVE IsFresh(v)'
  BY DEF CleanIsFresh
<1>1. IsClean(v) /\ v \notin subs[KeyDep(k)] /\ active[v]
  BY DEF IsClean
<1>2. IsFresh(v)
  BY <1>1 DEF FreshInv
<1>3. KeyDep(k) \notin deps[v]
  BY <1>1, DepTypes DEF SubsAgree
<1>4. /\ FreshReads'[v].value = FreshReads[v].value
      /\ FreshReads'[v].deps = FreshReads[v].deps
  <2>1. KeyDep(k) \notin FreshReads[v].deps
    BY <1>2, <1>3 DEF IsFresh
  <2>2. UNCHANGED <<born, object>>
    OBVIOUS
  <2> QED
    BY <2>1, <2>2, UnreadIsUnchanged
<1> QED
  BY <1>2, <1>4 DEF IsFresh

\* Everyone is told of a property that comes or goes and of another object.
LEMMA AllTold ==
    ASSUME FreshInv, TypeOK, SubsAgree, updating = {},
           updating' = subs[ObjectDep] \/ updating' = subs[RootDep],
           UNCHANGED <<active, dirty, has, tripped>>
    PROVE  CleanIsFresh'
<1> SUFFICES ASSUME NEW v \in Watchers, IsClean(v)' PROVE FALSE
  BY DEF CleanIsFresh
<1>1. IsClean(v) /\ active[v] /\ v \notin updating'
  BY DEF IsClean
<1>2. IsFresh(v)
  BY <1>1 DEF FreshInv
<1>3. RootDep \in deps[v] /\ ObjectDep \in deps[v]
  BY <1>2, EveryoneReadsTheObject DEF IsFresh
<1>4. v \in subs[RootDep] /\ v \in subs[ObjectDep]
  BY <1>1, <1>3, DepTypes DEF SubsAgree
<1> QED
  BY <1>1, <1>4

\* Which watchers live.
Living ==
    /\ \A w \in Watchers : active[w] => ~ destroyed /\ w <= made
    /\ ~ destroyed => \A w \in Lazy : w <= made => active[w]

LEMMA LivingStep ==
    ASSUME FreshInv, TypeOK, [Next]_vars PROVE Living'
<1>1. ASSUME UNCHANGED <<active, made, destroyed>> PROVE Living'
  BY <1>1 DEF FreshInv, Living
<1>2. CASE Make
  <2>1. /\ made' = made + 1 /\ ~ destroyed /\ destroyed' = destroyed
        /\ active' = [active EXCEPT ![made + 1] = TRUE]
        /\ made \in 0 .. N /\ N \in Nat /\ made < N
    BY <1>2, KeyAssumption DEF Make, TypeOK
  <2>2. \A w \in Watchers : active'[w] <=> active[w] \/ w = made + 1
    BY <2>1 DEF TypeOK, Watchers
  <2>3. \A w \in Watchers : w <= made + 1 <=> w <= made \/ w = made + 1
    BY <2>1 DEF Watchers
  <2> QED
    BY <2>1, <2>2, <2>3 DEF FreshInv, Living, Lazy
<1>3. CASE Destroy
  BY <1>3 DEF Destroy, Teardown, Living
<1>4. ASSUME NEW w \in Watchers, Unwatch(w) PROVE Living'
  <2>1. w \notin Lazy
    BY <1>4 DEF Unwatch, Lazy
  <2> QED
    BY <1>4, <2>1 DEF Unwatch, Teardown, FreshInv, Living, Lazy
<1>5. CASE Page
  <2>1. ASSUME NEW k \in Keys, NEW v \in {0, 1}, Assign(k, v) \/ Set(k, v)
        PROVE  Living'
    BY <1>1, <2>1 DEF Assign, Set, Edit, watchers
  <2>2. ASSUME NEW k \in Keys, Delete(k) PROVE Living'
    BY <1>1, <2>2 DEF Delete, Edit, watchers
  <2>3. ASSUME NEW new \in Objects, Replace(new) PROVE Living'
    BY <1>1, <2>3 DEF Replace, Edit, watchers
  <2>4. ASSUME NEW t \in Ticks, AskTick(t) PROVE Living'
    BY <1>1, <2>4 DEF AskTick, watchers
  <2>5. ASSUME NEW w \in Watchers, ReadComputed(w) PROVE Living'
    BY <1>1, <2>5 DEF ReadComputed
  <2> QED
    BY <1>2, <1>3, <1>4, <1>5, <2>1, <2>2, <2>3, <2>4, <2>5 DEF Page
<1>6. CASE ~ Page
  BY <1>1, <1>6 DEF Next, Engine, Update, FlushCallbacks, StartFlush, StartTick, EndCopies,
     NextWatcher, Run, React, PageReturns, CheckCircular, EndFlush, RunThrows, Rest, vars,
     watchers
<1> QED
  BY <1>5, <1>6

LEMMA PageFresh ==
    ASSUME FreshInv, TypeOK, SubsAgree, Page, Living' PROVE CleanIsFresh'
<1>0. ASSUME Edit
      PROVE  /\ updating = {}
             /\ UNCHANGED <<value, deps, active, dirty, has, tripped>>
  BY <1>0 DEF Edit, PageRuns, Callable, watchers, scheduler
<1>1. ASSUME NEW k \in Keys, NEW v \in {0, 1}, Assign(k, v) PROVE CleanIsFresh'
  <2>1. Edit /\ data[k] # Undefined /\ updating' = subs[KeyDep(k)] /\ UNCHANGED <<born, object>>
    BY <1>1 DEF Assign
  <2>2. data' \in Shape /\ data'[k] # Undefined /\ \A j \in Keys \ {k} : data'[j] = data[j]
    BY <1>1, KeyAssumption DEF Assign, TypeOK, Shape, Value
  <2> QED
    BY <1>0, <2>1, <2>2, AssignTells
<1>2. ASSUME NEW k \in Keys, NEW v \in {0, 1}, Set(k, v) PROVE CleanIsFresh'
  BY <1>0, <1>2, AllTold DEF Set
<1>3. ASSUME NEW k \in Keys, Delete(k) PROVE CleanIsFresh'
  BY <1>0, <1>3, AllTold DEF Delete
<1>4. ASSUME NEW new \in Objects, Replace(new) PROVE CleanIsFresh'
  BY <1>0, <1>4, AllTold DEF Replace
<1>5. CASE Make
  <2> DEFINE w == made + 1
  <2>1. /\ updating = {} /\ ~ destroyed /\ w \in Watchers
        /\ active' = [active EXCEPT ![w] = TRUE]
        /\ UNCHANGED <<observed, updating, has, tripped>>
    BY <1>5, KeyAssumption DEF Make, Callable, TypeOK, Watchers, scheduler, counters
  <2>2. CASE w \in Lazy /\ dirty' = [dirty EXCEPT ![w] = TRUE] /\ UNCHANGED <<deps, value>>
    <3>1. ASSUME NEW v \in Watchers, IsClean(v)' PROVE IsClean(v)
      <4>1. v # w
        BY <2>1, <2>2, <3>1 DEF IsClean, TypeOK
      <4>2. active'[v] = active[v] /\ dirty'[v] = dirty[v]
        BY <2>1, <2>2, <4>1 DEF TypeOK
      <4> QED
        BY <2>1, <3>1, <4>2 DEF IsClean
    <3> HIDE DEF w
    <3> QED
      BY <2>1, <2>2, <3>1, NoneCleaner
  <2>3. CASE w \notin Lazy /\ Get(w)
    <3>1. w \in Readable
      BY <2>1, <2>3 DEF Readable
    <3>2. \A v \in Watchers \ {w} : active'[v] = active[v] /\ has'[v] = has[v]
      BY <2>1 DEF TypeOK
    <3> HIDE DEF w
    <3> QED
      BY <2>1, <2>3, <3>1, <3>2, GetFresh
  <2> QED
    BY <1>5, <2>2, <2>3 DEF Make
<1>6. ASSUME NEW w \in Watchers, ReadComputed(w) PROVE CleanIsFresh'
  <2>1. CASE destroyed
    <3>1. destroyed'
      BY <1>6, <2>1 DEF ReadComputed
    <3> QED
      BY <3>1 DEF Living, CleanIsFresh, IsClean
  <2>2. CASE ~ destroyed
    <3>1. /\ updating = {} /\ w \in Readable /\ Get(w)
          /\ UNCHANGED <<observed, updating, active, has, tripped>>
      BY <1>6 DEF ReadComputed, PageRuns, Callable, Readable, scheduler, counters
    <3>2. \A v \in Watchers \ {w} : active'[v] = active[v] /\ has'[v] = has[v]
      BY <3>1
    <3> QED
      BY <2>2, <3>1, <3>2, GetFresh
  <2> QED
    BY <2>1, <2>2
<1>7. ASSUME NEW S, Teardown(S), UNCHANGED <<observed, updating, scheduler, counters>>
      PROVE  CleanIsFresh'
  <2>1. ASSUME NEW v \in Watchers, IsClean(v)' PROVE IsClean(v)
    BY <1>7, <2>1 DEF Teardown, IsClean, scheduler, counters
  <2> QED
    BY <1>7, <2>1, NoneCleaner DEF Teardown
<1>8. ASSUME NEW w \in Watchers, Unwatch(w) PROVE CleanIsFresh'
  BY <1>7, <1>8 DEF Unwatch
<1>9. CASE Destroy
  BY <1>7, <1>9 DEF Destroy
<1>10. ASSUME NEW t \in Ticks, AskTick(t) PROVE CleanIsFresh'
  <2>1. UNCHANGED <<observed, watchers, scheduler, updating, tripped>>
    BY <1>10 DEF AskTick
  <2>2. ASSUME NEW v \in Watchers, IsClean(v)' PROVE IsClean(v)
    BY <2>1, <2>2 DEF IsClean, watchers, scheduler
  <2> QED
    BY <2>1, <2>2, NoneCleaner DEF watchers
<1> QED
  BY <1>1, <1>2, <1>3, <1>4, <1>5, <1>6, <1>8, <1>9, <1>10 DEF Page

LEMMA EngineFresh ==
    ASSUME FreshInv, Types, SubsAgree, QueueInv, Engine \/ RunThrows PROVE CleanIsFresh'
<1>0. TypeOK /\ (mode = "react" => Reaction[Current] # Nothing)
  BY DEF Types
<1>1. ASSUME UNCHANGED <<observed, watchers, updating, has, tripped>> PROVE CleanIsFresh'
  <2>1. ASSUME NEW v \in Watchers, IsClean(v)' PROVE IsClean(v)
    BY <1>1, <2>1 DEF IsClean, watchers
  <2> QED
    BY <1>1, <2>1, NoneCleaner DEF watchers
<1>2. ASSUME NEW w \in Watchers, Update(w) PROVE CleanIsFresh'
  <2>1. /\ updating' = updating \ {w}
        /\ UNCHANGED <<observed, value, deps, active, tripped>>
        /\ \/ w \in Lazy /\ dirty' = [dirty EXCEPT ![w] = TRUE] /\ has' = has
           \/ w \notin Lazy /\ dirty' = dirty /\ has[w] /\ has' = has
           \/ w \notin Lazy /\ dirty' = dirty /\ has' = [has EXCEPT ![w] = TRUE]
    BY <1>2 DEF Update, QueueWatcher, scheduler, counters
  <2>2. ASSUME NEW v \in Watchers, IsClean(v)' PROVE IsClean(v)
    <3>1. CASE v = w
      BY <1>0, <2>1, <2>2, <3>1 DEF IsClean, TypeOK
    <3>2. CASE v # w
      <4>1. dirty'[v] = dirty[v] /\ has'[v] = has[v] /\ active'[v] = active[v]
            /\ (v \in updating <=> v \in updating')
        BY <1>0, <2>1, <3>2 DEF TypeOK
      <4> QED
        BY <2>1, <2>2, <4>1 DEF IsClean
    <3> QED
      BY <3>1, <3>2
  <2> QED
    BY <2>1, <2>2, NoneCleaner
<1>3. CASE FlushCallbacks \/ StartFlush \/ StartTick \/ EndCopies \/ NextWatcher \/ PageReturns
  <2>1. UNCHANGED <<observed, watchers, updating, has, tripped>>
    BY <1>3 DEF FlushCallbacks, StartFlush, StartTick, EndCopies, NextWatcher, PageReturns,
       scheduler, counters
  <2> QED
    BY <1>1, <2>1
<1>4. ASSUME mode = "run", active[Current], Get(Current), has' = [has EXCEPT ![Current] = FALSE],
             UNCHANGED <<observed, active, updating, tripped>>
      PROVE  CleanIsFresh'
  <2>0. Current \in Watchers /\ updating = {}
    BY <1>4 DEF Current, QueueInv, SchedulerTypes, Control, FlushModes, PageModes
  <2>1. \A v \in Watchers \ {Current} : active'[v] = active[v] /\ has'[v] = has[v]
    BY <1>0, <1>4 DEF TypeOK
  <2>2. ~ destroyed /\ Current \in Readable
    BY <1>4, <2>0 DEF FreshInv, Readable
  <2> QED
    BY <1>0, <1>4, <2>0, <2>1, <2>2, GetFresh
<1>5. CASE Run
  <2>1. CASE active[Current] /\ Get(Current)
    BY <1>4, <1>5, <2>1 DEF Run, counters
  <2>2. CASE ~ active[Current] /\ UNCHANGED <<subs, deps, value, dirty>>
    <3>1. UNCHANGED <<observed, active, updating, tripped>> /\ has' = [has EXCEPT ![Current] = FALSE]
      BY <1>5 DEF Run, counters
    <3>2. ASSUME NEW v \in Watchers, IsClean(v)' PROVE IsClean(v)
      <4>1. active[v] /\ v # Current
        BY <2>2, <3>1, <3>2 DEF IsClean
      <4>2. has'[v] = has[v]
        BY <1>0, <3>1, <4>1 DEF TypeOK
      <4> QED
        BY <2>2, <3>1, <3>2, <4>2 DEF IsClean
    <3> QED
      BY <2>2, <3>1, <3>2, NoneCleaner
  <2> QED
    BY <1>5, <2>1, <2>2 DEF Run
<1>6. CASE RunThrows
  BY <1>4, <1>6 DEF RunThrows
<1>7. CASE React
  <2> DEFINE k == Reaction[Current]
  <2>1. mode = "react" /\ k \in Keys /\ updating = {}
    <3>1. mode = "react" /\ queue \in Seq(Watchers) /\ queue # <<>> /\ updating = {}
      BY <1>7 DEF React, QueueInv, SchedulerTypes, Control, FlushModes, PageModes
    <3>2. Current \in Watchers
      BY <3>1 DEF Current
    <3> QED
      BY <1>0, <3>1, <3>2, ProgramAssumption
  <2>2. /\ data' = IF data[k] = Undefined THEN data ELSE [data EXCEPT ![k] = 1 - @]
        /\ updating' = IF data[k] = Undefined THEN {} ELSE subs[KeyDep(k)]
        /\ UNCHANGED <<born, object, watchers, has, tripped>>
    BY <1>7 DEF React, scheduler, counters
  <2> HIDE DEF k
  <2>3. CASE data[k] = Undefined
    BY <1>1, <2>1, <2>2, <2>3 DEF observed
  <2>4. CASE data[k] # Undefined
    <3>1. data[k] \in {0, 1}
      BY <1>0, <2>1, <2>4 DEF TypeOK, Shape, Value
    <3>2. 1 - data[k] \in {0, 1}
      BY <3>1
    <3>3. data' \in Shape /\ data'[k] # Undefined /\ \A j \in Keys \ {k} : data'[j] = data[j]
      BY <1>0, <2>1, <2>2, <2>4, <3>2, KeyAssumption DEF TypeOK, Shape, Value
    <3> QED
      BY <1>0, <2>1, <2>2, <2>4, <3>3, AssignTells DEF watchers
  <2> QED
    BY <2>3, <2>4
<1>8. CASE CheckCircular
  <2>1. UNCHANGED <<observed, watchers, updating>>
    BY <1>8 DEF CheckCircular
  <2>2. CASE UNCHANGED <<has, tripped>>
    BY <1>1, <2>1, <2>2
  <2>3. CASE tripped' = TRUE
    <3>1. ASSUME NEW v \in Watchers, IsClean(v)' PROVE IsClean(v)
      BY <2>1, <2>3, <3>1 DEF IsClean, watchers
    <3> QED
      BY <2>1, <3>1, NoneCleaner DEF watchers
  <2> QED
    BY <1>8, <2>2, <2>3 DEF CheckCircular
<1>9. CASE EndFlush
  <2>1. /\ UNCHANGED <<observed, watchers, updating, tripped>>
        /\ mode = "loop" /\ queue = <<>>
    BY <1>9 DEF EndFlush, counters
  <2>2. \A v \in Watchers : ~ has[v]
    BY <2>1 DEF QueueInv, HasQueue, Holds
  <2>3. ASSUME NEW v \in Watchers, IsClean(v)' PROVE IsClean(v)
    BY <2>1, <2>2, <2>3 DEF IsClean, watchers
  <2> QED
    BY <2>1, <2>3, NoneCleaner DEF watchers
<1> QED
  BY <1>2, <1>3, <1>5, <1>6, <1>7, <1>8, <1>9 DEF Engine

LEMMA FreshStep ==
    FreshInv /\ Types /\ SubsInv /\ QueueInv /\ [Next]_vars => FreshInv'
<1> SUFFICES ASSUME FreshInv, Types, SubsInv, QueueInv, [Next]_vars PROVE FreshInv'
  OBVIOUS
<1>1. TypeOK /\ SubsAgree
  BY DEF Types, SubsInv
<1>2. Living'
  BY <1>1, LivingStep
<1>3. CleanIsFresh'
  <2>1. CASE Rest \/ UNCHANGED vars
    <3>1. UNCHANGED vars
      BY <2>1 DEF Rest
    <3>2. ASSUME NEW v \in Watchers, IsClean(v)' PROVE IsClean(v)
      BY <3>1, <3>2 DEF IsClean, vars, watchers, scheduler, counters
    <3> QED
      BY <3>1, <3>2, NoneCleaner DEF vars, watchers
  <2> QED
    BY <1>1, <1>2, <2>1, PageFresh, EngineFresh DEF Next
<1> QED
  BY <1>2, <1>3 DEF FreshInv, Living, CleanIsFresh

LEMMA FreshInit == Init => FreshInv
BY KeyAssumption DEF Init, FreshInv, IsClean, Lazy, Watchers

LEMMA AllInvariants == Spec => [](QueueInv /\ TickInv /\ SubsInv /\ Types /\ FreshInv)
<1>1. QueueInv /\ TickInv /\ SubsInv /\ Types /\ FreshInv /\ [Next]_vars
          => (QueueInv /\ TickInv /\ SubsInv /\ Types /\ FreshInv)'
  BY QueueStep, TickStep, SubsStep, TypesStep, FreshStep
<1>2. Init => QueueInv /\ TickInv /\ SubsInv /\ Types /\ FreshInv
  BY QueueInit, TickInit, SubsInit, TypesInit, FreshInit
<1> QED
  BY <1>1, <1>2, PTL DEF Spec

-----------------------------------------------------------------------------
(* Theorems *)

\* A computed property that is clean would not change were it and everything it
\* reads evaluated again, whatever the expressions read, whichever branch they
\* took last, and whatever became of the object in the meantime.
THEOREM ComputedIsFresh == Spec => []ComputedFresh
<1>1. FreshInv => ComputedFresh
  <2> SUFFICES ASSUME FreshInv, updating = {}, NEW w \in Lazy, active[w], ~ dirty[w]
               PROVE  value[w] = Fresh[w]
    BY DEF ComputedFresh
  <2>1. w \in Watchers /\ IsClean(w)
    BY DEF Lazy, IsClean
  <2> QED
    BY <2>1, FreshIsRead DEF FreshInv, IsFresh
<1> QED
  BY <1>1, AllInvariants, PTL

\* No update is lost: when no flush is due every watcher that is alive has seen
\* the data as they are, unless a flush was given up or a patch has thrown.
THEOREM SettledIsFresh == Spec => []SettledFresh
<1>1. FreshInv /\ TickInv => SettledFresh
  <2> SUFFICES ASSUME FreshInv, TickInv, updating = {}, ~ waiting, ~ tripped, throws = 0,
                      NEW w \in Watchers \ Lazy, active[w]
               PROVE  value[w] = Fresh[w]
    BY DEF SettledFresh
  <2>1. ~ has[w]
    BY DEF TickInv, Undisturbed
  <2>2. IsClean(w)
    BY <2>1 DEF IsClean
  <2> QED
    BY <2>2, FreshIsRead DEF FreshInv, IsFresh
<1> QED
  BY <1>1, AllInvariants, PTL
=============================================================================
