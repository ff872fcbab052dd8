--------------------------- MODULE VuePatchProofs ---------------------------
(***************************************************************************)
(* That updateChildren does its work, for any lists of children and any    *)
(* order of renders and ends of transitions: the document shows what was   *)
(* rendered, children with a key keep their elements, references name the  *)
(* elements that bear them, and the first pass of a <transition-group>     *)
(* moves nothing.                                                          *)
(***************************************************************************)
EXTENDS VuePatch, FiniteSetTheorems, SequenceTheorems, WellFoundedInduction, TLAPS

-----------------------------------------------------------------------------
(* The invariant *)

Keys == {d.key : d \in Descriptions} \cup {NoKey}
Tags == {d.tag : d \in Descriptions} \cup {Text}
Texts == {d.text : d \in Descriptions} \cup {"moved", ""}

VnodeSet ==
    [key : Keys, tag : Tags, text : Texts, ref : Refs \cup {NoRef}, elm : Elms \cup {NoElm}]

\* The old vnodes still to be dealt with, the new ones, and those that have been.
Mid == {i \in oldStart .. oldEnd : Has(old[i])}
Undone == newStart .. newEnd
Done == DOMAIN new \ Undone

Children(s) == s \in Seq(VnodeSet) /\ Len(s) <= MaxChildren

Typed ==
    /\ dom \in Seq(Elms) /\ IsInjective(dom)
    /\ shown \in [Elms -> [tag : Tags, text : Texts]]
    /\ leaving \subseteq Range(dom) /\ Cardinality(leaving) <= MaxLeaving
    /\ refs \in [Refs -> Elms \cup {NoElm}]
    /\ Children(old) /\ Children(new) /\ Children(goal) /\ Children(prev)
    /\ removeOnly \in BOOLEAN

Bounds ==
    /\ oldStart \in Nat \ {0} /\ oldEnd \in 0 .. Len(old) /\ oldStart <= oldEnd + 1
    /\ newStart \in Nat \ {0} /\ newEnd \in 0 .. Len(new) /\ newStart <= newEnd + 1

\* Where the patch is.
Phase ==
    /\ mode \in {"idle", "loop", "rest"}
    /\ mode = "idle" =>
          /\ ~ removeOnly
          /\ dom = [i \in DOMAIN dom |-> i]
          /\ oldStart = 1 /\ oldEnd = 0 /\ newStart = 1 /\ newEnd = 0
          /\ prev = <<>>
    /\ mode = "rest" => oldStart > oldEnd \/ newStart > newEnd

\* The vnodes of a list that have a key have one of their own.
OwnKeys(vs) ==
    \A i, j \in DOMAIN vs : i # j => (vs[i].key = vs[j].key => vs[i].key = NoKey)

\* What the vnodes of the two lists have.
Lists ==
    /\ OwnKeys(old) /\ Distinct(new) /\ Distinct(goal)
    /\ \A i \in DOMAIN old : Has(old[i]) => old[i].elm \in Elms
    /\ \A j \in Done : new[j].elm \in Elms
    /\ \A j \in Undone :
          IF removeOnly THEN new[j].key # NoKey /\ \E i \in Mid : old[i] = new[j]
          ELSE new[j].elm = NoElm
    /\ removeOnly => \A j \in DOMAIN goal : goal[j].elm = NoElm

\* The map leads to the old vnode with the key, and one whose key is that of a
\* new vnode to be dealt with is itself to be dealt with.
Mapped ==
    /\ \A k \in DOMAIN keyToOld : keyToOld[k] \in DOMAIN old
    /\ keyToOld # <<>> =>
          \A i \in Mid : old[i].key # NoKey =>
             old[i].key \in DOMAIN keyToOld /\ keyToOld[old[i].key] = i
    /\ \A i \in DOMAIN old, j \in Undone :
          old[i].key = new[j].key /\ new[j].key # NoKey => i \in Mid

\* The elements in the document.
Present == Range(dom) \ leaving = {old[i].elm : i \in Mid} \cup {new[j].elm : j \in Done}

\* A pass that moves: the new vnodes dealt with from the start, the old ones
\* that remain, the new ones dealt with from the end.
Sorted ==
    /\ \A i, j \in Mid : i < j => Before(dom, old[i].elm, old[j].elm)
    /\ \A i, j \in Done : i < j => Before(dom, new[i].elm, new[j].elm)
    /\ \A i \in Mid, j \in Done : j < newStart => Before(dom, new[j].elm, old[i].elm)
    /\ \A i \in Mid, j \in Done : j > newEnd => Before(dom, old[i].elm, new[j].elm)

\* The pass that only removes: document and lists are in the order of the numbers.
Increasing ==
    /\ \A i, j \in DOMAIN dom : i < j => dom[i] < dom[j]
    /\ \A i, j \in DOMAIN new : i < j => new[i].elm < new[j].elm
    /\ \A i, j \in Mid : i < j => old[i].elm < old[j].elm
    /\ \A i \in Mid, j \in Done : old[i].elm # new[j].elm

Order == IF removeOnly THEN Increasing ELSE Sorted

\* What the elements show.
Shows ==
    /\ \A i \in Mid : shown[old[i].elm] = [tag |-> old[i].tag, text |-> old[i].text]
    /\ \A j \in Done : shown[new[j].elm] = [tag |-> new[j].tag, text |-> new[j].text]

\* What the references name: the new vnode that bears it and has been dealt with,
\* or else the old one that remains.
Names ==
    /\ \A j \in Done : new[j].ref # NoRef => refs[new[j].ref] = new[j].elm
    /\ \A i \in Mid : old[i].ref # NoRef =>
          refs[old[i].ref] = old[i].elm \/ \E j \in Done : new[j].ref = old[i].ref
    /\ \A r \in Refs : refs[r] # NoElm =>
          \/ \E j \in Done : new[j].ref = r
          \/ \E i \in Mid : old[i].ref = r /\ old[i].elm = refs[r]

\* The two are the same child of two renders.
SameChild(u, v) == u.key # NoKey /\ u.key = v.key /\ u.tag = v.tag

SameElement(u, v) == u.key = v.key /\ u.tag = v.tag /\ u.elm = v.elm

\* A child that both renders have keeps its element or is still to be found.
Reuses ==
    IF removeOnly
    THEN \A i \in DOMAIN prev, j \in DOMAIN goal : SameChild(prev[i], goal[j]) =>
            \E l \in DOMAIN new : SameElement(new[l], prev[i])
    ELSE \A i \in DOMAIN prev, j \in DOMAIN new : SameChild(prev[i], new[j]) =>
            IF j \in Undone THEN \E l \in Mid : SameElement(old[l], prev[i])
            ELSE new[j].elm = prev[i].elm

Inv ==
    /\ Typed /\ Bounds /\ Phase /\ Lists /\ Mapped
    /\ Present /\ Order /\ Shows /\ Names /\ Reuses

-----------------------------------------------------------------------------
(* The document *)

Doc(s) == s \in Seq(Elms) /\ IsInjective(s)

Inserts(t, s, i, e, S) ==
    s \in Seq(S) /\ i \in 1 .. Len(s) + 1 /\ e \in S /\ t = InsertAt(s, i, e)

LEMMA InsertAtFacts ==
    ASSUME NEW S, NEW s, NEW i, NEW e, NEW t, Inserts(t, s, i, e, S)
    PROVE  /\ t \in Seq(S)
           /\ Len(t) = Len(s) + 1
           /\ \A k \in 1 .. Len(s) + 1 : t[k] =
                 IF k < i THEN s[k] ELSE IF k = i THEN e ELSE s[k - 1]
<1>1. s \in Seq(S) /\ i \in 1 .. Len(s) + 1 /\ e \in S
  BY DEF Inserts
<1> USE <1>1
<1> DEFINE u == SubSeq(s, 1, i - 1)
           v == SubSeq(s, i, Len(s))
           w == u \o <<e>>
<1>2. Len(s) \in Nat
  BY <1>1
<1>3. u \in Seq(S) /\ Len(u) = i - 1 /\ \A k \in 1 .. i - 1 : u[k] = s[k]
  BY <1>2
<1>4. v \in Seq(S) /\ Len(v) = Len(s) - i + 1 /\ \A k \in 1 .. Len(s) - i + 1 : v[k] = s[i + k - 1]
  BY <1>2, SubSeqProperties
<1> HIDE DEF u, v
<1>5. w \in Seq(S) /\ Len(w) = i /\ w[i] = e /\ \A k \in 1 .. i - 1 : w[k] = s[k]
  BY <1>3
<1> HIDE DEF w
<1>6. w \o v \in Seq(S) /\ Len(w \o v) = Len(s) + 1
  <2>1. w \o v \in Seq(S) /\ Len(w \o v) = Len(w) + Len(v)
    BY <1>4, <1>5, ConcatProperties
  <2> QED
    BY <1>2, <1>4, <1>5, <2>1
<1>7. ASSUME NEW k \in 1 .. Len(s) + 1
      PROVE  (w \o v)[k] = IF k < i THEN s[k] ELSE IF k = i THEN e ELSE s[k - 1]
  <2>1. (w \o v)[k] = IF k <= i THEN w[k] ELSE v[k - i]
    BY <1>2, <1>4, <1>5
  <2>2. CASE k <= i
    BY <2>1, <2>2, <1>5
  <2>3. CASE ~ k <= i
    <3>1. k - i \in 1 .. Len(s) - i + 1 /\ i + (k - i) - 1 = k - 1
      BY <1>2, <2>3
    <3> QED
      BY <1>4, <2>1, <2>3, <3>1
  <2> QED
    BY <2>2, <2>3
<1>8. t = w \o v
  BY DEF Inserts, InsertAt, u, v, w
<1> QED
  BY <1>6, <1>7, <1>8

LEMMA RemoveAtFacts ==
    ASSUME NEW S, NEW s \in Seq(S), NEW i \in 1 .. Len(s)
    PROVE  /\ RemoveAt(s, i) \in Seq(S)
           /\ Len(RemoveAt(s, i)) = Len(s) - 1
           /\ \A k \in 1 .. Len(s) - 1 : RemoveAt(s, i)[k] =
                 IF k < i THEN s[k] ELSE s[k + 1]
<1> DEFINE u == SubSeq(s, 1, i - 1)
           v == SubSeq(s, i + 1, Len(s))
<1>1. Len(s) \in Nat
  OBVIOUS
<1>2. u \in Seq(S) /\ Len(u) = i - 1 /\ \A k \in 1 .. i - 1 : u[k] = s[k]
  BY <1>1
<1>3. v \in Seq(S) /\ Len(v) = Len(s) - i /\ \A k \in 1 .. Len(s) - i : v[k] = s[i + k]
  BY <1>1, SubSeqProperties
<1> HIDE DEF u, v
<1>4. u \o v \in Seq(S) /\ Len(u \o v) = Len(s) - 1
  <2>1. u \o v \in Seq(S) /\ Len(u \o v) = Len(u) + Len(v)
    BY <1>2, <1>3, ConcatProperties
  <2> QED
    BY <1>1, <1>2, <1>3, <2>1
<1>5. ASSUME NEW k \in 1 .. Len(s) - 1
      PROVE  (u \o v)[k] = IF k < i THEN s[k] ELSE s[k + 1]
  <2>1. (u \o v)[k] = IF k <= i - 1 THEN u[k] ELSE v[k - (i - 1)]
    BY <1>1, <1>2, <1>3
  <2>2. CASE k < i
    BY <2>1, <2>2, <1>2
  <2>3. CASE ~ k < i
    <3>1. k - (i - 1) \in 1 .. Len(s) - i /\ i + (k - (i - 1)) = k + 1 /\ ~ k <= i - 1
      BY <1>1, <2>3
    <3>2. v[k - (i - 1)] = s[k + 1]
      BY <1>3, <3>1
    <3> QED
      BY <2>1, <2>3, <3>1, <3>2
  <2> QED
    BY <2>2, <2>3
<1>6. RemoveAt(s, i) = u \o v
  BY DEF RemoveAt, u, v
<1> QED
  BY <1>4, <1>5, <1>6

LEMMA BeforeFacts ==
    ASSUME NEW s, Doc(s)
    PROVE  /\ \A x, y : Before(s, x, y) => x # y /\ x \in Range(s) /\ y \in Range(s)
           /\ \A x, y, z : Before(s, x, y) /\ Before(s, y, z) => Before(s, x, z)
<1>1. Len(s) \in Nat /\ DOMAIN s = 1 .. Len(s)
  BY DEF Doc
<1>2. \A i, j \in DOMAIN s : s[i] = s[j] => i = j
  BY DEF Doc, IsInjective
<1>3. ASSUME NEW x, NEW y, Before(s, x, y) PROVE x # y /\ x \in Range(s) /\ y \in Range(s)
  BY <1>1, <1>2, <1>3 DEF Before, Range
<1>4. ASSUME NEW x, NEW y, NEW z, Before(s, x, y), Before(s, y, z) PROVE Before(s, x, z)
  <2>1. PICK i \in DOMAIN s, j \in DOMAIN s : i < j /\ s[i] = x /\ s[j] = y
    BY <1>4 DEF Before
  <2>2. PICK k \in DOMAIN s, l \in DOMAIN s : k < l /\ s[k] = y /\ s[l] = z
    BY <1>4 DEF Before
  <2>3. j = k
    BY <1>2, <2>1, <2>2
  <2>4. i < l
    BY <1>1, <2>1, <2>2, <2>3
  <2> QED
    BY <2>1, <2>2, <2>4 DEF Before
<1> QED
  BY <1>3, <1>4

LEMMA IndexInFacts ==
    ASSUME NEW s, Doc(s), NEW e \in Range(s)
    PROVE  IndexIn(s, e) \in DOMAIN s /\ s[IndexIn(s, e)] = e
<1>1. \E i \in DOMAIN s : s[i] = e
  BY DEF Range
<1> QED
  BY <1>1 DEF IndexIn

LEMMA ContainsFacts ==
    ASSUME NEW s, Doc(s), NEW e
    PROVE  Contains(s, e) <=> e \in Range(s)
BY DEF Contains, Range, Doc

LEMMA WithoutFacts ==
    ASSUME NEW s, Doc(s), NEW e
    PROVE  /\ Doc(Without(s, e))
           /\ Range(Without(s, e)) = Range(s) \ {e}
           /\ \A x, y : Before(s, x, y) /\ x # e /\ y # e => Before(Without(s, e), x, y)
           /\ \A x, y : Before(Without(s, e), x, y) => Before(s, x, y)
           /\ Len(Without(s, e)) <= Len(s)
<1>1. CASE e \notin Range(s)
  <2>1. Without(s, e) = s
    BY <1>1, ContainsFacts DEF Without
  <2> QED
    BY <1>1, <2>1 DEF Doc
<1>2. CASE e \in Range(s)
  <2> DEFINE n == IndexIn(s, e)
             t == RemoveAt(s, n)
  <2>1. Without(s, e) = t
    BY <1>2, ContainsFacts DEF Without
  <2>2. Len(s) \in Nat /\ DOMAIN s = 1 .. Len(s)
    BY DEF Doc
  <2>3. n \in 1 .. Len(s) /\ s[n] = e
    BY <1>2, <2>2, IndexInFacts
  <2> HIDE DEF n
  <2>4. /\ t \in Seq(Elms) /\ Len(t) = Len(s) - 1
        /\ \A k \in 1 .. Len(s) - 1 : t[k] = IF k < n THEN s[k] ELSE s[k + 1]
    BY <2>3, RemoveAtFacts DEF Doc
  <2> HIDE DEF t
  <2>5. DOMAIN t = 1 .. Len(s) - 1
    BY <2>2, <2>4
  <2>6. \A i, j \in DOMAIN s : s[i] = s[j] => i = j
    BY DEF Doc, IsInjective
  <2> DEFINE f(k) == IF k < n THEN k ELSE k + 1
  <2>7. \A k \in DOMAIN t : f(k) \in DOMAIN s /\ f(k) # n /\ t[k] = s[f(k)]
    BY <2>2, <2>3, <2>4, <2>5
  <2>8. \A k, l \in DOMAIN t : k < l => f(k) < f(l)
    BY <2>2, <2>3, <2>5
  <2>9. \A i \in DOMAIN s : i # n => \E k \in DOMAIN t : f(k) = i
    <3> SUFFICES ASSUME NEW i \in DOMAIN s, i # n PROVE \E k \in DOMAIN t : f(k) = i
      OBVIOUS
    <3>1. CASE i < n
      <4>1. i \in DOMAIN t /\ f(i) = i
        BY <2>2, <2>3, <2>5, <3>1
      <4> QED
        BY <4>1
    <3>2. CASE i > n
      <4>1. i - 1 \in DOMAIN t /\ f(i - 1) = i
        BY <2>2, <2>3, <2>5, <3>2
      <4> QED
        BY <4>1
    <3> QED
      BY <2>2, <2>3, <3>1, <3>2
  <2>10. \A k, l \in DOMAIN t : f(k) < f(l) => k < l
    BY <2>2, <2>3, <2>5
  <2>11. \A k, l \in DOMAIN t : k < l \/ k = l \/ l < k
    BY <2>2, <2>5
  <2>12. \A k \in DOMAIN t : f(k) \in Nat
    BY <2>2, <2>3, <2>5
  <2> HIDE DEF f
  <2>13. IsInjective(t)
    <3> SUFFICES ASSUME NEW k \in DOMAIN t, NEW l \in DOMAIN t, t[k] = t[l] PROVE k = l
      BY DEF IsInjective
    <3>1. f(k) = f(l)
      BY <2>6, <2>7
    <3> QED
      BY <2>8, <2>11, <2>12, <3>1
  <2>14. Range(t) = Range(s) \ {e}
    <3>1. \A k \in DOMAIN t : t[k] \in Range(s) \ {e}
      BY <2>3, <2>2, <2>6, <2>7 DEF Range
    <3>2. ASSUME NEW x \in Range(s) \ {e} PROVE x \in Range(t)
      <4>1. PICK i \in DOMAIN s : s[i] = x
        BY DEF Range
      <4>2. PICK k \in DOMAIN t : f(k) = i
        BY <2>3, <2>9, <4>1
      <4> QED
        BY <2>7, <4>1, <4>2 DEF Range
    <3> QED
      BY <3>1, <3>2 DEF Range
  <2>15. ASSUME NEW x, NEW y, Before(s, x, y), x # e, y # e PROVE Before(t, x, y)
    <3>1. PICK i \in DOMAIN s, j \in DOMAIN s : i < j /\ s[i] = x /\ s[j] = y
      BY <2>15 DEF Before
    <3>2. PICK k \in DOMAIN t : f(k) = i
      BY <2>3, <2>9, <2>15, <3>1
    <3>3. PICK l \in DOMAIN t : f(l) = j
      BY <2>3, <2>9, <2>15, <3>1
    <3> QED
      BY <2>7, <2>10, <3>1, <3>2, <3>3 DEF Before
  <2>16. ASSUME NEW x, NEW y, Before(t, x, y) PROVE Before(s, x, y)
    BY <2>7, <2>8, <2>16 DEF Before
  <2> QED
    BY <2>1, <2>2, <2>4, <2>13, <2>14, <2>15, <2>16 DEF Doc
<1> QED
  BY <1>1, <1>2

\* s with e put somewhere: the order of the rest is kept.
Adds(t, s, e) ==
    /\ Doc(t)
    /\ Range(t) = Range(s) \cup {e}
    /\ \A x, y : Before(s, x, y) /\ x # e /\ y # e => Before(t, x, y)

LEMMA PutFacts ==
    ASSUME NEW s, Doc(s), NEW e \in Elms, e \notin Range(s), NEW n \in 1 .. Len(s) + 1
    PROVE  /\ Adds(InsertAt(s, n, e), s, e)
           /\ \A k \in DOMAIN s : k < n => Before(InsertAt(s, n, e), s[k], e)
           /\ \A k \in DOMAIN s : k >= n => Before(InsertAt(s, n, e), e, s[k])
<1> DEFINE t == InsertAt(s, n, e)
<1>1. Len(s) \in Nat /\ DOMAIN s = 1 .. Len(s)
  BY DEF Doc
<1>2. /\ t \in Seq(Elms) /\ Len(t) = Len(s) + 1
      /\ \A k \in 1 .. Len(s) + 1 : t[k] = IF k < n THEN s[k] ELSE IF k = n THEN e ELSE s[k - 1]
  <2>1. Inserts(t, s, n, e, Elms)
    BY DEF Inserts, Doc
  <2> HIDE DEF t
  <2> QED
    BY ONLY <2>1, InsertAtFacts
<1> HIDE DEF t
<1>3. DOMAIN t = 1 .. Len(s) + 1
  BY <1>1, <1>2
<1>4. \A i, j \in DOMAIN s : s[i] = s[j] => i = j
  BY DEF Doc, IsInjective
<1> DEFINE g(k) == IF k < n THEN k ELSE k + 1
<1>5. \A k \in DOMAIN s : g(k) \in DOMAIN t /\ g(k) # n /\ t[g(k)] = s[k]
  <2> SUFFICES ASSUME NEW k \in DOMAIN s
               PROVE  g(k) \in DOMAIN t /\ g(k) # n /\ t[g(k)] = s[k]
    OBVIOUS
  <2>1. CASE k < n
    BY <1>1, <1>2, <1>3, <2>1
  <2>2. CASE ~ k < n
    <3>1. k + 1 \in 1 .. Len(s) + 1 /\ ~ k + 1 < n /\ k + 1 # n /\ (k + 1) - 1 = k
      BY <1>1, <2>2
    <3> QED
      BY <1>1, <1>2, <1>3, <2>2, <3>1
  <2> QED
    BY <2>1, <2>2
<1>6. \A k, l \in DOMAIN s : k < l => g(k) < g(l)
  BY <1>1
<1>7. \A i \in DOMAIN t : i # n => \E k \in DOMAIN s : g(k) = i
  <2> SUFFICES ASSUME NEW i \in DOMAIN t, i # n PROVE \E k \in DOMAIN s : g(k) = i
    OBVIOUS
  <2>1. CASE i < n
    <3>1. i \in DOMAIN s /\ g(i) = i
      BY <1>1, <1>3, <2>1
    <3> QED
      BY <3>1
  <2>2. CASE ~ i < n
    <3>1. i - 1 \in DOMAIN s /\ g(i - 1) = i
      BY <1>1, <1>3, <2>2
    <3> QED
      BY <3>1
  <2> QED
    BY <2>1, <2>2
<1>8. \A k \in DOMAIN s : (k < n => g(k) < n) /\ (k >= n => n < g(k))
  BY <1>1
<1>9. n \in DOMAIN t /\ t[n] = e
  BY <1>1, <1>2, <1>3
<1> HIDE DEF g
<1>10. Range(t) = Range(s) \cup {e}
  <2>1. ASSUME NEW x \in Range(t) PROVE x \in Range(s) \cup {e}
    <3>1. PICK i \in DOMAIN t : t[i] = x
      BY DEF Range
    <3>2. CASE i = n
      BY <1>9, <3>1, <3>2
    <3>3. CASE i # n
      <4>1. PICK k \in DOMAIN s : g(k) = i
        BY <1>7, <3>3
      <4> QED
        BY <1>5, <3>1, <4>1 DEF Range
    <3> QED
      BY <3>2, <3>3
  <2>2. ASSUME NEW x \in Range(s) PROVE x \in Range(t)
    <3>1. PICK k \in DOMAIN s : s[k] = x
      BY DEF Range
    <3> QED
      BY <1>5, <3>1 DEF Range
  <2>3. e \in Range(t)
    BY <1>9 DEF Range
  <2> QED
    BY <2>1, <2>2, <2>3
<1>11. IsInjective(t)
  <2> SUFFICES ASSUME NEW i \in DOMAIN t, NEW j \in DOMAIN t, t[i] = t[j] PROVE i = j
    BY DEF IsInjective
  <2>1. CASE i # n /\ j # n
    <3>1. PICK k \in DOMAIN s : g(k) = i
      BY <1>7, <2>1
    <3>2. PICK l \in DOMAIN s : g(l) = j
      BY <1>7, <2>1
    <3>3. k = l
      BY <1>4, <1>5, <3>1, <3>2
    <3> QED
      BY <3>1, <3>2, <3>3
  <2>2. ASSUME NEW k \in DOMAIN t, k # n PROVE t[k] # e
    <3>1. PICK l \in DOMAIN s : g(l) = k
      BY <1>7, <2>2
    <3> QED
      BY <1>5, <3>1 DEF Range
  <2> QED
    BY <1>9, <2>1, <2>2
<1>12. ASSUME NEW x, NEW y, Before(s, x, y) PROVE Before(t, x, y)
  BY <1>5, <1>6, <1>12 DEF Before
<1>13. ASSUME NEW k \in DOMAIN s, k < n PROVE Before(t, s[k], e)
  BY <1>5, <1>8, <1>9, <1>13 DEF Before
<1>14. ASSUME NEW k \in DOMAIN s, k >= n PROVE Before(t, e, s[k])
  BY <1>5, <1>8, <1>9, <1>14 DEF Before
<1> QED
  BY <1>2, <1>10, <1>11, <1>12, <1>13, <1>14 DEF Adds, Doc, t

LEMMA LastFacts ==
    ASSUME NEW s, Doc(s), NEW e \in Elms, e \notin Range(s)
    PROVE  /\ Adds(Append(s, e), s, e)
           /\ \A x \in Range(s) : Before(Append(s, e), x, e)
<1>0. PICK n : n = Len(s) + 1
  OBVIOUS
<1> DEFINE t == InsertAt(s, n, e)
<1>1. Len(s) \in Nat /\ DOMAIN s = 1 .. Len(s)
  BY DEF Doc
<1>2. n \in 1 .. Len(s) + 1
  BY <1>0, <1>1
<1>3. /\ t \in Seq(Elms) /\ Len(t) = Len(s) + 1
      /\ \A k \in 1 .. Len(s) + 1 : t[k] = IF k < n THEN s[k] ELSE IF k = n THEN e ELSE s[k - 1]
  <2>1. Inserts(t, s, n, e, Elms)
    BY <1>2 DEF Inserts, Doc
  <2> HIDE DEF t
  <2> QED
    BY ONLY <2>1, InsertAtFacts
<1>4. Adds(t, s, e) /\ \A k \in DOMAIN s : k < n => Before(t, s[k], e)
  BY <1>2, PutFacts
<1> HIDE DEF t
<1>5. Append(s, e) \in Seq(Elms) /\ Len(Append(s, e)) = Len(s) + 1
  BY DEF Doc
<1>6. \A k \in 1 .. Len(s) + 1 : Append(s, e)[k] = t[k]
  BY <1>0, <1>1, <1>3 DEF Doc
<1>7. Append(s, e) = t
  BY <1>1, <1>3, <1>5, <1>6, SeqEqual
<1>8. \A x \in Range(s) : Before(t, x, e)
  BY <1>0, <1>1, <1>4 DEF Range
<1> QED
  BY <1>4, <1>7, <1>8

LEMMA InsertBeforeFacts ==
    ASSUME NEW s, Doc(s), NEW e \in Elms, NEW f \in Range(s), f # e
    PROVE  LET t == InsertBefore(s, e, f)
           IN  /\ Adds(t, s, e)
               /\ Before(t, e, f)
               /\ \A x : Before(s, x, f) /\ x # e => Before(t, x, e)
               /\ \A y : Before(s, f, y) /\ y # e => Before(t, e, y)
<1> DEFINE r == Without(s, e)
           n == IndexIn(r, f)
           t == InsertAt(r, n, e)
<1>1. /\ Doc(r) /\ Range(r) = Range(s) \ {e}
      /\ \A x, y : Before(s, x, y) /\ x # e /\ y # e => Before(r, x, y)
  BY WithoutFacts
<1>2. f # NoElm
  BY ElmAssumption DEF Doc, Range
<1>3. InsertBefore(s, e, f) = t
  BY <1>2 DEF InsertBefore
<1> HIDE DEF r
<1>4. Len(r) \in Nat /\ DOMAIN r = 1 .. Len(r)
  BY <1>1 DEF Doc
<1>5. n \in DOMAIN r /\ r[n] = f
  BY <1>1, IndexInFacts
<1> HIDE DEF n
<1>6. n \in 1 .. Len(r) + 1 /\ n >= n
  BY <1>4, <1>5
<1>7. /\ Adds(t, r, e)
      /\ \A k \in DOMAIN r : k < n => Before(t, r[k], e)
      /\ \A k \in DOMAIN r : k >= n => Before(t, e, r[k])
  BY <1>1, <1>6, PutFacts
<1> HIDE DEF t
<1>8. Before(t, e, f)
  BY <1>5, <1>6, <1>7
<1>9. ASSUME NEW x, Before(s, x, f), x # e PROVE Before(t, x, e)
  <2>1. Before(r, x, f)
    BY <1>1, <1>9
  <2>2. PICK i \in DOMAIN r, j \in DOMAIN r : i < j /\ r[i] = x /\ r[j] = f
    BY <2>1 DEF Before
  <2>3. j = n
    BY <1>1, <1>5, <2>2 DEF Doc, IsInjective
  <2> QED
    BY <1>7, <2>2, <2>3
<1>10. Adds(t, s, e)
  BY <1>1, <1>7 DEF Adds
<1>11. ASSUME NEW y, Before(s, f, y), y # e PROVE Before(t, e, y)
  BY <1>8, <1>10, <1>11, BeforeFacts DEF Adds
<1> QED
  BY <1>3, <1>8, <1>9, <1>10, <1>11

LEMMA InsertLastFacts ==
    ASSUME NEW s, Doc(s), NEW e \in Elms
    PROVE  /\ Adds(InsertBefore(s, e, NoElm), s, e)
           /\ \A x \in Range(s) : x # e => Before(InsertBefore(s, e, NoElm), x, e)
<1> DEFINE r == Without(s, e)
<1>1. /\ Doc(r) /\ Range(r) = Range(s) \ {e}
      /\ \A x, y : Before(s, x, y) /\ x # e /\ y # e => Before(r, x, y)
  BY WithoutFacts
<1>2. InsertBefore(s, e, NoElm) = Append(r, e)
  BY ElmAssumption DEF InsertBefore
<1> HIDE DEF r
<1>3. Adds(Append(r, e), r, e) /\ \A x \in Range(r) : Before(Append(r, e), x, e)
  BY <1>1, LastFacts
<1> QED
  BY <1>1, <1>2, <1>3 DEF Adds

\* The element is put behind f, before which it stands.
LEMMA InsertBehindFacts ==
    ASSUME NEW s, Doc(s), NEW e, NEW f, Before(s, e, f)
    PROVE  LET t == InsertBefore(s, e, NextSibling(s, f))
           IN  /\ Adds(t, s, e)
               /\ Before(t, f, e)
               /\ \A y : Before(s, f, y) => Before(t, e, y)
<1> DEFINE n == IndexIn(s, f)
           t == InsertBefore(s, e, NextSibling(s, f))
<1>1. Len(s) \in Nat /\ DOMAIN s = 1 .. Len(s)
  BY DEF Doc
<1>2. e \in Range(s) /\ f \in Range(s) /\ e # f
  BY BeforeFacts
<1>3. e \in Elms
  BY <1>2 DEF Doc, Range
<1>4. n \in DOMAIN s /\ s[n] = f
  BY <1>2, IndexInFacts
<1>5. NextSibling(s, f) = IF n = Len(s) THEN NoElm ELSE s[n + 1]
  BY DEF NextSibling
<1> HIDE DEF n
<1>6. \A i, j \in DOMAIN s : s[i] = s[j] => i = j
  BY DEF Doc, IsInjective
<1>7. \A y : Before(s, f, y) => \E j \in DOMAIN s : n < j /\ s[j] = y
  BY <1>4, <1>6 DEF Before
<1>8. CASE n = Len(s)
  <2>1. \A y : ~ Before(s, f, y)
    BY <1>1, <1>7, <1>8
  <2> QED
    BY <1>2, <1>3, <1>5, <1>8, <2>1, InsertLastFacts
<1>9. CASE n # Len(s)
  <2> DEFINE g == s[n + 1]
  <2>1. n + 1 \in DOMAIN s
    BY <1>1, <1>4, <1>9
  <2>2. g \in Range(s) /\ Before(s, f, g)
    BY <1>1, <1>4, <2>1 DEF Range, Before
  <2>3. g # e
    BY <2>2, BeforeFacts
  <2> HIDE DEF g
  <2>4. t = InsertBefore(s, e, g)
    BY <1>5, <1>9 DEF g
  <2> HIDE DEF t
  <2>5. /\ Adds(t, s, e)
        /\ Before(t, e, g)
        /\ \A x : Before(s, x, g) /\ x # e => Before(t, x, e)
        /\ \A y : Before(s, g, y) /\ y # e => Before(t, e, y)
    BY <1>3, <2>2, <2>3, <2>4, InsertBeforeFacts
  <2>6. ASSUME NEW y, Before(s, f, y) PROVE Before(t, e, y)
    <3>1. PICK j \in DOMAIN s : n < j /\ s[j] = y
      BY <1>7, <2>6
    <3>2. y # e
      BY <2>6, BeforeFacts
    <3>3. CASE j = n + 1
      BY <2>5, <3>1, <3>3 DEF g
    <3>4. CASE j # n + 1
      <4>1. Before(s, g, y)
        BY <1>1, <1>4, <2>1, <3>1, <3>4 DEF g, Before
      <4> QED
        BY <2>5, <3>2, <4>1
    <3> QED
      BY <3>3, <3>4
  <2>7. Before(t, f, e)
    BY <1>2, <2>2, <2>5
  <2> QED
    BY <2>5, <2>6, <2>7 DEF t
<1> QED
  BY <1>8, <1>9

-----------------------------------------------------------------------------
(* The lists *)

LEMMA ElmsAreNumbers == Elms \subseteq Nat \ {0}
BY ElmAssumption DEF Elms

LEMMA ListFacts ==
    ASSUME Typed, Bounds
    PROVE  /\ Len(old) \in Nat /\ DOMAIN old = 1 .. Len(old)
           /\ Len(new) \in Nat /\ DOMAIN new = 1 .. Len(new)
           /\ \A i \in DOMAIN old : old[i] \in VnodeSet
           /\ \A j \in DOMAIN new : new[j] \in VnodeSet
           /\ oldStart \in Nat /\ oldEnd \in Nat /\ newStart \in Nat /\ newEnd \in Nat
           /\ Mid \subseteq DOMAIN old /\ Mid \subseteq Nat
           /\ Undone \subseteq DOMAIN new /\ Done \subseteq DOMAIN new /\ DOMAIN new \subseteq Nat
           /\ \A j \in DOMAIN new : j \in Done <=> (j < newStart \/ j > newEnd)
<1>1. Len(old) \in Nat /\ DOMAIN old = 1 .. Len(old) /\ \A i \in DOMAIN old : old[i] \in VnodeSet
  BY DEF Typed, Children
<1>2. Len(new) \in Nat /\ DOMAIN new = 1 .. Len(new) /\ \A j \in DOMAIN new : new[j] \in VnodeSet
  BY DEF Typed, Children
<1>3. oldStart \in Nat /\ oldEnd \in Nat /\ newStart \in Nat /\ newEnd \in Nat
  BY <1>1, <1>2 DEF Bounds
<1>4. Mid \subseteq DOMAIN old /\ Mid \subseteq Nat
  BY <1>1, <1>3 DEF Mid, Bounds
<1>5. /\ Undone \subseteq DOMAIN new /\ Done \subseteq DOMAIN new /\ DOMAIN new \subseteq Nat
      /\ \A j \in DOMAIN new : j \in Done <=> (j < newStart \/ j > newEnd)
  BY <1>2, <1>3 DEF Undone, Done, Bounds
<1> QED
  BY <1>1, <1>2, <1>3, <1>4, <1>5

\* What has been dealt with and what remains share no element.
Apart ==
    /\ \A i, l \in Mid : old[i].elm = old[l].elm => i = l
    /\ \A j, l \in Done : new[j].elm = new[l].elm => j = l
    /\ \A i \in Mid, j \in Done : old[i].elm # new[j].elm

LEMMA OrderIsApart == ASSUME Typed, Bounds, Lists, Order PROVE Apart
<1>1. Doc(dom)
  BY DEF Typed, Doc
<1>2. \A x, y : Before(dom, x, y) => x # y
  BY <1>1, BeforeFacts
<1>3. \A i \in Mid : i \in Nat /\ old[i].elm \in Nat
  BY ListFacts, ElmsAreNumbers DEF Lists, Mid
<1>4. \A j \in Done : j \in Nat /\ new[j].elm \in Nat /\ (j < newStart \/ j > newEnd)
  BY ListFacts, ElmsAreNumbers DEF Lists
<1>5. CASE removeOnly
  <2>1. \A i, l \in Mid : i < l => old[i].elm < old[l].elm
    BY <1>5 DEF Order, Increasing
  <2>2. \A i, l \in Done : i < l => new[i].elm < new[l].elm
    BY <1>5, ListFacts DEF Order, Increasing
  <2>3. \A i \in Mid, j \in Done : old[i].elm # new[j].elm
    BY <1>5 DEF Order, Increasing
  <2>4. \A i, l \in Mid : old[i].elm = old[l].elm => i = l
    BY <1>3, <2>1
  <2>5. \A i, l \in Done : new[i].elm = new[l].elm => i = l
    BY <1>4, <2>2
  <2> QED
    BY <2>3, <2>4, <2>5 DEF Apart
<1>6. CASE ~ removeOnly
  <2>1. Sorted
    BY <1>6 DEF Order
  <2>2. \A i, l \in Mid : old[i].elm = old[l].elm => i = l
    <3>1. \A i, l \in Mid : i < l => old[i].elm # old[l].elm
      BY <1>2, <2>1 DEF Sorted
    <3> QED
      BY <1>3, <3>1
  <2>3. \A i, l \in Done : new[i].elm = new[l].elm => i = l
    <3>1. \A i, l \in Done : i < l => new[i].elm # new[l].elm
      BY <1>2, <2>1 DEF Sorted
    <3> QED
      BY <1>4, <3>1
  <2>4. ASSUME NEW i \in Mid, NEW j \in Done PROVE old[i].elm # new[j].elm
    <3>1. CASE j < newStart
      BY <1>2, <2>1, <3>1 DEF Sorted
    <3>2. CASE j > newEnd
      BY <1>2, <2>1, <3>2 DEF Sorted
    <3> QED
      BY <1>4, <3>1, <3>2
  <2> QED
    BY <2>2, <2>3, <2>4 DEF Apart
<1> QED
  BY <1>5, <1>6

Changes(t, s, n, x, S) == s \in Seq(S) /\ x \in S /\ t = [s EXCEPT ![n] = x]

LEMMA ChangesFacts ==
    ASSUME NEW S, NEW s, NEW n, NEW x, NEW t, Changes(t, s, n, x, S)
    PROVE  /\ t \in Seq(S)
           /\ Len(t) = Len(s)
           /\ DOMAIN t = DOMAIN s
           /\ \A i \in DOMAIN s : t[i] = IF i = n THEN x ELSE s[i]
<1>1. s \in Seq(S) /\ Len(s) \in Nat /\ s \in [1 .. Len(s) -> S]
  BY DEF Changes
<1>2. t \in [1 .. Len(s) -> S] /\ \A i \in DOMAIN s : t[i] = IF i = n THEN x ELSE s[i]
  BY <1>1 DEF Changes
<1>3. t \in Seq(S)
  BY <1>1, <1>2
<1>4. Len(t) = Len(s) /\ DOMAIN t = DOMAIN s
  BY <1>1, <1>2, <1>3
<1> QED
  BY <1>2, <1>3, <1>4

LEMMA LenDomain ==
    ASSUME NEW S, NEW s \in Seq(S), NEW T, NEW t \in Seq(T), DOMAIN s = DOMAIN t
    PROVE  Len(s) = Len(t)
<1>1. Len(s) \in Nat /\ Len(t) \in Nat /\ 1 .. Len(s) = 1 .. Len(t)
  OBVIOUS
<1>2. PICK m \in Nat, n \in Nat : m = Len(s) /\ n = Len(t)
  BY <1>1
<1>3. 1 .. m = 1 .. n
  BY <1>1, <1>2
<1>4. (m \in 1 .. m <=> m \in 1 .. n) /\ (n \in 1 .. m <=> n \in 1 .. n)
  BY <1>3
<1>5. m = n
  BY <1>4
<1> QED
  BY <1>2, <1>5

LEMMA MovedFacts == Moved \in VnodeSet /\ Moved.key = NoKey /\ ~ Has(Moved)
<1>1. NoKey \in Keys /\ Text \in Tags /\ "moved" \in Texts
  BY DEF Keys, Tags, Texts
<1> QED
  BY <1>1 DEF Moved, VnodeSet, Has

-----------------------------------------------------------------------------
(* patchVnode *)

\* The old vnode i is patched into the new vnode j.
Pairs(i, j) ==
    /\ i \in Mid /\ j \in Undone
    /\ SameVnode(old[i], new[j])
    /\ PatchVnode(i, j)
    /\ Mid' = Mid \ {i} /\ Undone' = Undone \ {j}
    /\ old' = old \/ old' = [old EXCEPT ![i] = Moved]
    /\ UNCHANGED <<leaving, goal, removeOnly, mode, prev>>

\* The new vnode j is the old one's, whatever else has become of it.
Takes(j, e) ==
    /\ DOMAIN new' = DOMAIN new
    /\ \A l \in DOMAIN new : l # j => new'[l] = new[l]
    /\ \A l \in DOMAIN new : /\ new'[l].key = new[l].key /\ new'[l].tag = new[l].tag
                             /\ new'[l].text = new[l].text /\ new'[l].ref = new[l].ref
    /\ new'[j].elm = e
    /\ Children(new')
    /\ Done' = Done \cup {j}

Gets(j, e) == new' = [new EXCEPT ![j] = [new[j] EXCEPT !.elm = e]]

LEMMA TakesFacts ==
    ASSUME Typed, Bounds, NEW j \in Undone, NEW e \in Elms, Gets(j, e), Undone' = Undone \ {j}
    PROVE  Takes(j, e)
<1>0. PICK v : v = [new[j] EXCEPT !.elm = e]
  OBVIOUS
<1>1. j \in DOMAIN new /\ new[j] \in VnodeSet
  BY ListFacts
<1>2. /\ v \in VnodeSet /\ v.elm = e
      /\ v.key = new[j].key /\ v.tag = new[j].tag /\ v.text = new[j].text /\ v.ref = new[j].ref
  BY <1>0, <1>1 DEF VnodeSet
<1>3. new \in Seq(VnodeSet) /\ Len(new) <= MaxChildren
  BY DEF Typed, Children
<1>4. Changes(new', new, j, v, VnodeSet)
  BY <1>0, <1>2, <1>3 DEF Gets, Changes
<1>5. /\ new' \in Seq(VnodeSet) /\ Len(new') = Len(new) /\ DOMAIN new' = DOMAIN new
      /\ \A l \in DOMAIN new : new'[l] = IF l = j THEN v ELSE new[l]
  BY <1>4, ChangesFacts
<1>6. Done' = Done \cup {j}
  BY <1>1, <1>5 DEF Done
<1> QED
  BY <1>1, <1>2, <1>3, <1>5, <1>6 DEF Takes, Children

RefTargets == [Refs -> Elms \cup {NoElm}]

LEMMA UnregisterFacts ==
    ASSUME NEW r \in RefTargets, NEW v \in VnodeSet
    PROVE  /\ Unregister(r, v) \in RefTargets
           /\ \A k \in Refs : Unregister(r, v)[k] =
                 IF k = v.ref /\ r[k] = v.elm THEN NoElm ELSE r[k]
<1>1. v.ref \in Refs \cup {NoRef} /\ NoRef \notin Refs
  BY DEF VnodeSet, Refs
<1>2. CASE v.ref # NoRef /\ r[v.ref] = v.elm
  BY <1>1, <1>2 DEF Unregister, RefTargets
<1>3. CASE ~ (v.ref # NoRef /\ r[v.ref] = v.elm)
  BY <1>1, <1>3 DEF Unregister
<1> QED
  BY <1>2, <1>3

LEMMA RegisterFacts ==
    ASSUME NEW r \in RefTargets, NEW v \in VnodeSet
    PROVE  /\ Register(r, v) \in RefTargets
           /\ \A k \in Refs : Register(r, v)[k] = IF k = v.ref THEN v.elm ELSE r[k]
<1>1. v.ref \in Refs \cup {NoRef} /\ NoRef \notin Refs /\ v.elm \in Elms \cup {NoElm}
  BY DEF VnodeSet, Refs
<1>2. CASE v.ref # NoRef
  BY <1>1, <1>2 DEF Register, RefTargets
<1>3. CASE v.ref = NoRef
  BY <1>1, <1>3 DEF Register
<1> QED
  BY <1>2, <1>3

LEMMA UpdateRefFacts ==
    ASSUME NEW r \in RefTargets, NEW u \in VnodeSet, NEW v \in VnodeSet
    PROVE  /\ UpdateRef(r, u, v) \in RefTargets
           /\ \A k \in Refs : UpdateRef(r, u, v)[k] =
                 IF u.ref = v.ref THEN r[k]
                 ELSE IF k = v.ref THEN v.elm
                 ELSE IF k = u.ref /\ r[k] = u.elm THEN NoElm ELSE r[k]
<1>1. CASE u.ref = v.ref
  BY <1>1 DEF UpdateRef
<1>2. CASE u.ref # v.ref
  <2> DEFINE s == Unregister(r, u)
  <2>1. s \in RefTargets /\ \A k \in Refs : s[k] = IF k = u.ref /\ r[k] = u.elm THEN NoElm ELSE r[k]
    BY UnregisterFacts
  <2>2. UpdateRef(r, u, v) = Register(s, v)
    BY <1>2 DEF UpdateRef
  <2> HIDE DEF s
  <2>3. Register(s, v) \in RefTargets /\ \A k \in Refs : Register(s, v)[k] = IF k = v.ref THEN v.elm ELSE s[k]
    BY <2>1, RegisterFacts
  <2> QED
    BY <1>2, <2>1, <2>2, <2>3
<1> QED
  BY <1>1, <1>2

NodeShows == [Elms -> [tag : Tags, text : Texts]]

\* What patching old vnode i into new vnode j has done.
Paired(i, j) ==
    /\ i \in Mid /\ j \in Undone /\ i \in DOMAIN old /\ j \in DOMAIN new
    /\ Has(old[i]) /\ old[i].elm \in Elms
    /\ new[j].key = old[i].key /\ new[j].tag = old[i].tag
    /\ Takes(j, old[i].elm)
    /\ removeOnly => old[i] = new[j]
    /\ Mid' = Mid \ {i} /\ Undone' = Undone \ {j}
    /\ DOMAIN old' = DOMAIN old /\ Children(old')
    /\ \A l \in DOMAIN old : old'[l] = old[l] \/ (l = i /\ old'[l] = Moved)
    /\ shown' \in NodeShows
    /\ \A e \in Elms : shown'[e] = IF e = old[i].elm
                                   THEN [tag |-> shown[e].tag, text |-> new[j].text]
                                   ELSE shown[e]
    /\ refs' \in RefTargets
    /\ \A k \in Refs : refs'[k] = IF old[i].ref = new[j].ref THEN refs[k]
                                  ELSE IF k = new[j].ref THEN old[i].elm
                                  ELSE IF k = old[i].ref /\ refs[k] = old[i].elm THEN NoElm
                                  ELSE refs[k]
    /\ UNCHANGED <<leaving, goal, removeOnly, mode, prev>>

LEMMA PairsFacts ==
    ASSUME Typed, Bounds, Lists, NEW i, NEW j, Pairs(i, j)
    PROVE  Paired(i, j)
<1>1. i \in Mid /\ j \in Undone /\ i \in DOMAIN old /\ j \in DOMAIN new
  BY ListFacts DEF Pairs
<1>2. old[i] \in VnodeSet /\ new[j] \in VnodeSet /\ Has(old[i]) /\ old[i].elm \in Elms
  BY <1>1, ListFacts DEF Lists, Mid
<1>3. new[j].key = old[i].key /\ new[j].tag = old[i].tag
  BY DEF Pairs, SameVnode
<1>4. Mid' = Mid \ {i} /\ Undone' = Undone \ {j}
  BY DEF Pairs
<1>5. UNCHANGED <<leaving, goal, removeOnly, mode, prev>>
  BY DEF Pairs
<1>6. Takes(j, old[i].elm)
  <2>1. Gets(j, old[i].elm)
    BY DEF Pairs, PatchVnode, Gets
  <2> QED
    BY <1>1, <1>2, <1>4, <2>1, TakesFacts
<1>7. removeOnly => old[i] = new[j]
  <2> SUFFICES ASSUME removeOnly PROVE old[i] = new[j]
    OBVIOUS
  <2>1. PICK l \in Mid : old[l] = new[j] /\ new[j].key # NoKey
    BY <1>1 DEF Lists
  <2>2. l \in DOMAIN old
    BY ListFacts
  <2>3. l = i
    BY <1>1, <1>3, <2>1, <2>2 DEF Lists, OwnKeys
  <2> QED
    BY <2>1, <2>3
<1>8. /\ DOMAIN old' = DOMAIN old /\ Children(old')
      /\ \A l \in DOMAIN old : old'[l] = old[l] \/ (l = i /\ old'[l] = Moved)
  <2>1. old \in Seq(VnodeSet) /\ Len(old) <= MaxChildren
    BY DEF Typed, Children
  <2>2. CASE old' = old
    BY <2>1, <2>2 DEF Children
  <2>3. CASE old' = [old EXCEPT ![i] = Moved]
    <3>1. Changes(old', old, i, Moved, VnodeSet)
      BY <2>1, <2>3, MovedFacts DEF Changes
    <3>2. /\ old' \in Seq(VnodeSet) /\ Len(old') = Len(old) /\ DOMAIN old' = DOMAIN old
          /\ \A l \in DOMAIN old : old'[l] = IF l = i THEN Moved ELSE old[l]
      BY ONLY <3>1, ChangesFacts
    <3> QED
      BY <2>1, <3>2 DEF Children
  <2> QED
    BY <2>2, <2>3 DEF Pairs
<1>9. PICK v : v = [new[j] EXCEPT !.elm = old[i].elm]
  OBVIOUS
<1>10. /\ v \in VnodeSet /\ v.elm = old[i].elm
       /\ v.key = new[j].key /\ v.tag = new[j].tag /\ v.text = new[j].text /\ v.ref = new[j].ref
  BY <1>2, <1>9 DEF VnodeSet
<1>11. shown' = [shown EXCEPT ![v.elm] = [tag |-> @.tag, text |-> v.text]]
  BY <1>9 DEF Pairs, PatchVnode
<1>12. /\ shown' \in NodeShows
       /\ \A e \in Elms : shown'[e] = IF e = old[i].elm
                                      THEN [tag |-> shown[e].tag, text |-> new[j].text]
                                      ELSE shown[e]
  <2>1. shown \in NodeShows
    BY DEF Typed, NodeShows
  <2>2. [tag |-> shown[v.elm].tag, text |-> v.text] \in [tag : Tags, text : Texts]
    <3>1. shown[v.elm].tag \in Tags
      BY <1>2, <1>10, <2>1 DEF NodeShows
    <3>2. v.text \in Texts
      BY <1>10 DEF VnodeSet
    <3> QED
      BY <3>1, <3>2
  <2>3. shown' = [shown EXCEPT ![v.elm] = [tag |-> shown[v.elm].tag, text |-> v.text]]
    BY <1>11
  <2> QED
    BY <1>2, <1>10, <2>1, <2>2, <2>3 DEF NodeShows
<1>13. refs \in RefTargets
  BY DEF Typed, RefTargets
<1>14. /\ refs' \in RefTargets
       /\ \A k \in Refs : refs'[k] = IF old[i].ref = v.ref THEN refs[k]
                                     ELSE IF k = v.ref THEN v.elm
                                     ELSE IF k = old[i].ref /\ refs[k] = old[i].elm THEN NoElm
                                     ELSE refs[k]
  <2>1. refs' = UpdateRef(refs, old[i], v)
    BY <1>9 DEF Pairs, PatchVnode
  <2>2. PICK r \in RefTargets : r = refs
    BY <1>13
  <2>3. PICK u \in VnodeSet : u = old[i]
    BY <1>2
  <2>4. v \in VnodeSet
    BY <1>10
  <2>5. /\ UpdateRef(r, u, v) \in RefTargets
        /\ \A k \in Refs : UpdateRef(r, u, v)[k] =
              IF u.ref = v.ref THEN r[k]
              ELSE IF k = v.ref THEN v.elm
              ELSE IF k = u.ref /\ r[k] = u.elm THEN NoElm
              ELSE r[k]
    BY ONLY <2>4, UpdateRefFacts
  <2> QED
    BY <2>1, <2>2, <2>3, <2>5
<1> QED
  BY <1>1, <1>2, <1>3, <1>4, <1>5, <1>6, <1>7, <1>8, <1>10, <1>12, <1>14 DEF Paired

LEMMA PairTyped ==
    ASSUME Typed, NEW i, NEW j, Paired(i, j), Doc(dom'), Range(dom') = Range(dom)
    PROVE  Typed'
<1>1. dom' \in Seq(Elms) /\ IsInjective(dom')
  BY DEF Doc
<1>2. shown' \in [Elms -> [tag : Tags, text : Texts]] /\ refs' \in [Refs -> Elms \cup {NoElm}]
  BY DEF Paired, NodeShows, RefTargets
<1>3. leaving' \subseteq Range(dom') /\ Cardinality(leaving') <= MaxLeaving
  <2>1. leaving' = leaving
    BY DEF Paired
  <2> QED
    BY <2>1 DEF Typed
<1>4. Children(old)' /\ Children(new)' /\ Children(goal)' /\ Children(prev)'
  BY DEF Typed, Paired, Takes, Children
<1>5. removeOnly' \in BOOLEAN
  BY DEF Typed, Paired
<1> QED
  BY <1>1, <1>2, <1>3, <1>4, <1>5 DEF Typed

LEMMA PairFacts ==
    ASSUME Typed, Bounds, Lists, NEW i, NEW j, Paired(i, j)
    PROVE  /\ \A l \in Mid' : l \in Mid /\ l # i /\ l \in DOMAIN old /\ old'[l] = old[l]
           /\ \A l \in Mid : l = i \/ l \in Mid'
           /\ \A l \in Undone' : l \in Undone /\ l # j /\ l \in DOMAIN new /\ new'[l] = new[l]
           /\ \A l \in Done : l # j /\ l \in DOMAIN new /\ l \in Done' /\ new'[l] = new[l]
           /\ \A l \in Done' : l = j \/ l \in Done
           /\ j \in Done' /\ i \notin Mid'
           /\ \A l \in Undone : l = j \/ l \in Undone'
BY ListFacts DEF Paired, Takes, Done

LEMMA PairLists ==
    ASSUME Typed, Bounds, Lists, NEW i, NEW j, Paired(i, j)
    PROVE  Lists'
<1>1. OwnKeys(old')
  <2> SUFFICES ASSUME NEW k \in DOMAIN old', NEW l \in DOMAIN old', k # l,
                      old'[k].key = old'[l].key
               PROVE  old'[k].key = NoKey
    BY DEF OwnKeys
  <2>1. k \in DOMAIN old /\ l \in DOMAIN old
    BY DEF Paired
  <2>2. old'[k] = Moved \/ old'[l] = Moved \/ (old'[k] = old[k] /\ old'[l] = old[l])
    BY <2>1 DEF Paired
  <2> QED
    BY <2>1, <2>2, MovedFacts DEF Lists, OwnKeys
<1>2. Distinct(new')
  BY DEF Lists, Distinct, Paired, Takes
<1>3. Distinct(goal')
  BY DEF Lists, Paired
<1>4. \A k \in DOMAIN old' : Has(old'[k]) => old'[k].elm \in Elms
  <2> SUFFICES ASSUME NEW k \in DOMAIN old', Has(old'[k]) PROVE old'[k].elm \in Elms
    OBVIOUS
  <2>1. k \in DOMAIN old /\ (old'[k] = old[k] \/ old'[k] = Moved)
    BY DEF Paired
  <2> QED
    BY <2>1, MovedFacts DEF Lists
<1>5. \A l \in Done' : new'[l].elm \in Elms
  <2>1. new'[j].elm \in Elms
    BY DEF Paired, Takes
  <2> QED
    BY <2>1, PairFacts DEF Lists
<1>6. ASSUME NEW l \in Undone'
      PROVE  IF removeOnly' THEN new'[l].key # NoKey /\ \E k \in Mid' : old'[k] = new'[l]
             ELSE new'[l].elm = NoElm
  <2>1. l \in Undone /\ l # j /\ l \in DOMAIN new /\ new'[l] = new[l] /\ removeOnly' = removeOnly
    BY PairFacts DEF Paired
  <2>2. CASE ~ removeOnly
    BY <2>1, <2>2 DEF Lists
  <2>3. CASE removeOnly
    <3>1. PICK k \in Mid : old[k] = new[l] /\ new[l].key # NoKey
      BY <2>1, <2>3 DEF Lists
    <3>2. k # i
      <4>1. SUFFICES ASSUME k = i PROVE FALSE
        OBVIOUS
      <4>2. new[l].key = new[j].key /\ j \in DOMAIN new
        BY <3>1, <4>1 DEF Paired
      <4> QED
        BY <2>1, <3>1, <4>2 DEF Lists, Distinct
    <3>3. k \in Mid' /\ old'[k] = old[k]
      BY <3>1, <3>2, PairFacts
    <3> QED
      BY <2>1, <2>3, <3>1, <3>3
  <2> QED
    BY <2>2, <2>3
<1>7. removeOnly' => \A l \in DOMAIN goal' : goal'[l].elm = NoElm
  BY DEF Lists, Paired
<1> QED
  BY <1>1, <1>2, <1>3, <1>4, <1>5, <1>6, <1>7 DEF Lists

\* A map of keys that serves.
Leads(map) ==
    /\ \A k \in DOMAIN map : map[k] \in DOMAIN old
    /\ map # <<>> =>
          \A i \in Mid : old[i].key # NoKey =>
             old[i].key \in DOMAIN map /\ map[old[i].key] = i

LEMMA PairMapped ==
    ASSUME Typed, Bounds, Lists, Mapped, NEW i, NEW j, Paired(i, j), Leads(keyToOld')
    PROVE  Mapped'
<1>1. DOMAIN old' = DOMAIN old
  BY DEF Paired
<1>2. \A k \in DOMAIN keyToOld' : keyToOld'[k] \in DOMAIN old'
  BY <1>1 DEF Leads
<1>3. keyToOld' # <<>> =>
         \A k \in Mid' : old'[k].key # NoKey =>
             old'[k].key \in DOMAIN keyToOld' /\ keyToOld'[old'[k].key] = k
  BY PairFacts DEF Leads
<1>4. ASSUME NEW k \in DOMAIN old', NEW l \in Undone', old'[k].key = new'[l].key, new'[l].key # NoKey
      PROVE  k \in Mid'
  <2>1. l \in Undone /\ l # j /\ l \in DOMAIN new /\ new'[l] = new[l]
    BY PairFacts
  <2>2. k \in DOMAIN old /\ old'[k] = old[k]
    BY <1>1, <1>4, MovedFacts DEF Paired
  <2>3. k \in Mid
    BY <1>4, <2>1, <2>2 DEF Mapped
  <2>4. k # i
    <3>1. SUFFICES ASSUME k = i PROVE FALSE
      OBVIOUS
    <3>2. new[l].key = new[j].key /\ j \in DOMAIN new
      BY <1>4, <2>1, <2>2, <3>1 DEF Paired
    <3> QED
      BY <1>4, <2>1, <3>2 DEF Lists, Distinct
  <2> QED
    BY <2>3, <2>4, PairFacts
<1> QED
  BY <1>2, <1>3, <1>4 DEF Mapped

LEMMA PairPresent ==
    ASSUME Typed, Bounds, Lists, Present, NEW i, NEW j, Paired(i, j), Range(dom') = Range(dom)
    PROVE  Present'
<1>1. leaving' = leaving
  BY DEF Paired
<1>2. {old[l].elm : l \in Mid} \cup {new[l].elm : l \in Done}
      = {old'[l].elm : l \in Mid'} \cup {new'[l].elm : l \in Done'}
  <2>1. new'[j].elm = old[i].elm /\ i \in Mid
    BY DEF Paired, Takes
  <2> QED
    BY <2>1, PairFacts
<1> QED
  BY <1>1, <1>2 DEF Present

LEMMA PairShows ==
    ASSUME Typed, Bounds, Lists, Apart, Shows, NEW i, NEW j, Paired(i, j)
    PROVE  Shows'
<1>1. ASSUME NEW l \in Mid' PROVE shown'[old'[l].elm] = [tag |-> old'[l].tag, text |-> old'[l].text]
  <2>1. l \in Mid /\ l # i /\ l \in DOMAIN old /\ old'[l] = old[l] /\ i \in Mid
    BY PairFacts DEF Paired
  <2>2. old[l].elm \in Elms /\ old[l].elm # old[i].elm
    BY <2>1 DEF Lists, Mid, Apart
  <2>3. shown'[old[l].elm] = shown[old[l].elm]
    BY <2>2 DEF Paired
  <2>4. shown[old[l].elm] = [tag |-> old[l].tag, text |-> old[l].text]
    BY <2>1 DEF Shows
  <2> QED
    BY <2>1, <2>3, <2>4
<1>2. ASSUME NEW l \in Done' PROVE shown'[new'[l].elm] = [tag |-> new'[l].tag, text |-> new'[l].text]
  <2>1. CASE l = j
    <3>1. /\ new'[j].elm = old[i].elm /\ old[i].elm \in Elms /\ i \in Mid
          /\ new'[j].tag = old[i].tag /\ new'[j].text = new[j].text
      BY DEF Paired, Takes
    <3>2. shown[old[i].elm].tag = old[i].tag
      <4>1. shown[old[i].elm] = [tag |-> old[i].tag, text |-> old[i].text]
        BY <3>1 DEF Shows
      <4> QED
        BY <4>1
    <3>3. shown'[old[i].elm] = [tag |-> shown[old[i].elm].tag, text |-> new[j].text]
      BY <3>1 DEF Paired
    <3> QED
      BY <2>1, <3>1, <3>2, <3>3
  <2>2. CASE l # j
    <3>1. l \in Done /\ new'[l] = new[l] /\ i \in Mid
      BY <2>2, PairFacts DEF Paired
    <3>2. new[l].elm \in Elms /\ new[l].elm # old[i].elm
      BY <3>1 DEF Lists, Apart
    <3>3. shown'[new[l].elm] = shown[new[l].elm]
      BY <3>2 DEF Paired
    <3>4. shown[new[l].elm] = [tag |-> new[l].tag, text |-> new[l].text]
      BY <3>1 DEF Shows
    <3> QED
      BY <3>1, <3>3, <3>4
  <2> QED
    BY <2>1, <2>2
<1> QED
  BY <1>1, <1>2 DEF Shows

\* The reference of a vnode that has one is a reference of the page.
LEMMA RefFacts ==
    ASSUME Typed, Bounds
    PROVE  /\ \A l \in DOMAIN new : new[l].ref # NoRef => new[l].ref \in Refs
           /\ \A l \in DOMAIN old : old[l].ref # NoRef => old[l].ref \in Refs
BY ListFacts DEF VnodeSet

LEMMA PairNames ==
    ASSUME Typed, Bounds, Lists, Apart, Names, NEW i, NEW j, Paired(i, j)
    PROVE  Names'
<1> DEFINE e == old[i].elm
           u == old[i].ref
           v == new[j].ref
<1>1. /\ i \in Mid /\ i \in DOMAIN old /\ j \in Undone /\ j \in DOMAIN new
      /\ new'[j].ref = v /\ new'[j].elm = e
  BY DEF Paired, Takes
<1>2. \A k \in Refs : refs'[k] = IF u = v THEN refs[k] ELSE IF k = v THEN e
                                 ELSE IF k = u /\ refs[k] = e THEN NoElm ELSE refs[k]
  BY DEF Paired
<1> HIDE DEF e, u, v
<1>3. \A l \in Done : new[l].ref # NoRef => new[l].ref # v
  BY PairFacts, <1>1 DEF Lists, Distinct, v
<1>4. ASSUME NEW l \in Done', new'[l].ref # NoRef PROVE refs'[new'[l].ref] = new'[l].elm
  <2>1. CASE l = j
    <3>1. v # NoRef /\ v \in Refs
      BY <1>1, <1>4, <2>1, RefFacts DEF v
    <3>2. CASE u = v
      <4>1. ~ \E m \in Done : new[m].ref = u
        BY <1>3, <3>1, <3>2
      <4>2. refs[u] = e
        BY <1>1, <3>1, <3>2, <4>1 DEF Names, u, e
      <4> QED
        BY <1>1, <1>2, <2>1, <3>1, <3>2, <4>2
    <3>3. CASE u # v
      BY <1>1, <1>2, <2>1, <3>1, <3>3
    <3> QED
      BY <3>2, <3>3
  <2>2. CASE l # j
    <3>1. l \in Done /\ new'[l] = new[l] /\ l \in DOMAIN new
      BY <2>2, PairFacts
    <3>2. new[l].ref \in Refs /\ new[l].ref # v
      BY <1>3, <1>4, <3>1, RefFacts
    <3>3. refs[new[l].ref] = new[l].elm
      BY <1>4, <3>1 DEF Names
    <3>4. new[l].elm # e
      BY <1>1, <3>1 DEF Apart, e
    <3> QED
      BY <1>2, <3>1, <3>2, <3>3, <3>4
  <2> QED
    BY <2>1, <2>2
<1>5. ASSUME NEW l \in Mid', old'[l].ref # NoRef
      PROVE  refs'[old'[l].ref] = old'[l].elm \/ \E m \in Done' : new'[m].ref = old'[l].ref
  <2>1. l \in Mid /\ l # i /\ l \in DOMAIN old /\ old'[l] = old[l]
    BY PairFacts
  <2>2. old[l].ref \in Refs
    BY <1>5, <2>1, RefFacts
  <2>3. CASE old[l].ref = v
    BY <1>1, <2>1, <2>3, PairFacts
  <2>4. CASE \E m \in Done : new[m].ref = old[l].ref
    BY <2>1, <2>4, PairFacts
  <2>5. CASE old[l].ref # v /\ refs[old[l].ref] = old[l].elm
    <3>1. old[l].elm # e
      BY <1>1, <2>1 DEF Apart, e
    <3> QED
      BY <1>2, <2>1, <2>2, <2>5, <3>1
  <2> QED
    BY <1>5, <2>1, <2>3, <2>4, <2>5 DEF Names
<1>6. ASSUME NEW r \in Refs, refs'[r] # NoElm
      PROVE  \/ \E m \in Done' : new'[m].ref = r
             \/ \E l \in Mid' : old'[l].ref = r /\ old'[l].elm = refs'[r]
  <2>1. CASE r = v
    BY <1>1, <2>1, PairFacts
  <2>2. CASE r # v
    <3>1. refs'[r] = refs[r] /\ (r = u => refs[r] # e)
      BY <1>2, <1>6, <2>2
    <3>2. CASE \E m \in Done : new[m].ref = r
      BY <3>2, PairFacts
    <3>3. CASE \E l \in Mid : old[l].ref = r /\ old[l].elm = refs[r]
      <4>1. PICK l \in Mid : old[l].ref = r /\ old[l].elm = refs[r]
        BY <3>3
      <4>2. l # i
        BY <3>1, <4>1 DEF u, e
      <4>3. l \in Mid' /\ old'[l] = old[l]
        BY <4>1, <4>2, PairFacts
      <4> QED
        BY <3>1, <4>1, <4>3
    <3> QED
      BY <1>6, <3>1, <3>2, <3>3 DEF Names
  <2> QED
    BY <2>1, <2>2
<1> QED
  BY <1>4, <1>5, <1>6 DEF Names

LEMMA PairReuses ==
    ASSUME Typed, Bounds, Lists, Reuses, NEW i, NEW j, Paired(i, j)
    PROVE  Reuses'
<1>1. /\ prev' = prev /\ goal' = goal /\ removeOnly' = removeOnly
      /\ DOMAIN new' = DOMAIN new
      /\ i \in Mid /\ i \in DOMAIN old /\ j \in Undone /\ j \in DOMAIN new
      /\ new[j].key = old[i].key /\ new[j].tag = old[i].tag
      /\ new'[j].elm = old[i].elm
  BY DEF Paired, Takes
<1>2. \A l \in DOMAIN new : new'[l].key = new[l].key /\ new'[l].tag = new[l].tag
  BY DEF Paired, Takes
<1>3. CASE removeOnly
  <2>1. \A l \in DOMAIN new : new'[l].elm = new[l].elm
    <3>1. old[i] = new[j]
      BY <1>3 DEF Paired
    <3>2. \A l \in DOMAIN new : l # j => new'[l] = new[l]
      BY DEF Paired, Takes
    <3> QED
      BY <1>1, <3>1, <3>2
  <2> QED
    BY <1>1, <1>2, <1>3, <2>1 DEF Reuses, SameElement
<1>4. CASE ~ removeOnly
  <2> SUFFICES ASSUME NEW k \in DOMAIN prev, NEW l \in DOMAIN new, SameChild(prev[k], new'[l])
               PROVE  IF l \in Undone' THEN \E m \in Mid' : SameElement(old'[m], prev[k])
                      ELSE new'[l].elm = prev[k].elm
    BY <1>1, <1>4 DEF Reuses
  <2>1. SameChild(prev[k], new[l])
    BY <1>2 DEF SameChild
  <2>2. CASE l \notin Undone
    <3>1. l \in Done /\ new[l].elm = prev[k].elm
      BY <1>4, <2>1, <2>2 DEF Reuses, Done
    <3>2. l \notin Undone' /\ new'[l] = new[l]
      BY <2>2, <3>1, PairFacts
    <3> QED
      BY <3>1, <3>2
  <2>3. CASE l \in Undone
    <3>1. PICK m \in Mid : SameElement(old[m], prev[k])
      BY <1>4, <2>1, <2>3 DEF Reuses
    <3>2. m \in DOMAIN old
      BY ListFacts
    <3>3. CASE l = j
      <4>1. old[m].key = old[i].key /\ old[i].key # NoKey
        BY <1>1, <2>1, <3>1, <3>3 DEF SameChild, SameElement
      <4>2. m = i
        BY <1>1, <3>2, <4>1 DEF Lists, OwnKeys
      <4>3. l \notin Undone'
        BY <3>3 DEF Paired
      <4> QED
        BY <1>1, <3>1, <3>3, <4>2, <4>3 DEF SameElement
    <3>4. CASE l # j
      <4>1. l \in Undone'
        BY <2>3, <3>4, PairFacts
      <4>2. m # i
        <5>1. SUFFICES ASSUME m = i PROVE FALSE
          OBVIOUS
        <5>2. new[l].key = new[j].key /\ new[l].key # NoKey
          BY <1>1, <2>1, <3>1, <5>1 DEF SameChild, SameElement
        <5> QED
          BY <1>1, <3>4, <5>2 DEF Lists, Distinct
      <4>3. m \in Mid' /\ old'[m] = old[m]
        BY <3>1, <4>2, PairFacts
      <4> QED
        BY <3>1, <4>1, <4>3
    <3> QED
      BY <3>3, <3>4
  <2> QED
    BY <2>2, <2>3
<1> QED
  BY <1>3, <1>4

\* In the pass that only removes nothing moves.
LEMMA PairIncreasing ==
    ASSUME Typed, Bounds, Lists, removeOnly, Increasing, NEW i, NEW j, Paired(i, j), dom' = dom
    PROVE  Increasing'
<1>1. i \in Mid /\ j \in DOMAIN new /\ DOMAIN new' = DOMAIN new /\ old[i] = new[j]
  BY DEF Paired, Takes
<1>2. \A l \in DOMAIN new : new'[l].elm = new[l].elm
  BY <1>1 DEF Paired, Takes
<1>3. \A k, l \in DOMAIN dom' : k < l => dom'[k] < dom'[l]
  BY DEF Increasing
<1>4. \A k, l \in DOMAIN new' : k < l => new'[k].elm < new'[l].elm
  BY <1>1, <1>2 DEF Increasing
<1>5. \A k, l \in Mid' : k < l => old'[k].elm < old'[l].elm
  BY PairFacts DEF Increasing
<1>6. ASSUME NEW k \in Mid', NEW l \in Done' PROVE old'[k].elm # new'[l].elm
  <2>1. k \in Mid /\ k # i /\ old'[k] = old[k]
    BY PairFacts
  <2>2. CASE l \in Done
    BY <2>1, <2>2, PairFacts DEF Increasing
  <2>3. CASE l = j
    <3>1. k \in Nat /\ i \in Nat /\ old[k].elm \in Nat /\ old[i].elm \in Nat
      BY <1>1, <2>1, ListFacts, ElmsAreNumbers DEF Lists, Mid
    <3>2. old[k].elm # old[i].elm
      BY <1>1, <2>1, <3>1 DEF Increasing
    <3> QED
      BY <1>1, <1>2, <2>1, <2>3, <3>2
  <2> QED
    BY <2>2, <2>3, PairFacts
<1> QED
  BY <1>3, <1>4, <1>5, <1>6 DEF Increasing

-----------------------------------------------------------------------------
(* The search for an old vnode *)

Less == {p \in Nat \X Nat : p[1] < p[2]}

LEMMA LeastElement ==
    ASSUME NEW T, T \subseteq Nat, T # {}
    PROVE  \E n \in T : \A m \in T : n <= m
<1> DEFINE R == Less
<1>1. IsWellFoundedOn(R, Nat)
  BY NatLessThanWellFounded DEF Less, OpToRel
<1> HIDE DEF R
<1>2. PICK n \in T : \A m \in T : ~ <<m, n>> \in R
  BY <1>1, WFMin
<1>3. ASSUME NEW m \in T PROVE n <= m
  <2>1. m \in Nat /\ n \in Nat
    OBVIOUS
  <2>2. m < n => <<m, n>> \in R
    BY <2>1 DEF R, Less
  <2> QED
    BY <1>2, <2>1, <2>2
<1> QED
  BY <1>3

LEMMA KeyMapFacts ==
    ASSUME Typed, Bounds, Lists, Mapped
    PROVE  /\ Leads(KeyMap) /\ Leads(keyToOld)
           /\ \A l \in Mid : old[l].key # NoKey =>
                 old[l].key \in DOMAIN KeyMap /\ KeyMap[old[l].key] = l
<1>1. Leads(keyToOld)
  BY DEF Mapped, Leads
<1>2. CASE keyToOld # <<>>
  <2>1. KeyMap = keyToOld
    BY <1>2 DEF KeyMap
  <2> QED
    BY <1>1, <1>2, <2>1 DEF Leads
<1>3. CASE keyToOld = <<>>
  <2> DEFINE held == {old[i].key : i \in oldStart .. oldEnd} \ {NoKey}
             map == [k \in held |-> CHOOSE i \in oldStart .. oldEnd :
                        old[i].key = k /\ \A j \in i + 1 .. oldEnd : old[j].key # k]
  <2>1. KeyMap = map
    BY <1>3 DEF KeyMap, CreateKeyToOldIdx
  <2>2. /\ \A i \in oldStart .. oldEnd : i \in DOMAIN old
        /\ oldStart \in Nat /\ oldEnd \in Nat
    BY ListFacts DEF Bounds
  <2>3. ASSUME NEW k \in held
        PROVE  map[k] \in oldStart .. oldEnd /\ old[map[k]].key = k
    <3>1. PICK i \in oldStart .. oldEnd : old[i].key = k
      OBVIOUS
    <3>2. \A j \in i + 1 .. oldEnd : old[j].key # k
      <4> SUFFICES ASSUME NEW j \in i + 1 .. oldEnd, old[j].key = k PROVE FALSE
        OBVIOUS
      <4>1. j \in oldStart .. oldEnd /\ j # i
        BY <2>2
      <4> QED
        BY <2>2, <3>1, <4>1 DEF Lists, OwnKeys
    <3> QED
      BY <3>1, <3>2
  <2>4. DOMAIN map = held
    OBVIOUS
  <2> HIDE DEF map
  <2>5. ASSUME NEW l \in Mid, old[l].key # NoKey
        PROVE  old[l].key \in held /\ map[old[l].key] = l
    <3>1. l \in oldStart .. oldEnd
      BY DEF Mid
    <3>2. old[l].key \in held
      BY <2>5, <3>1
    <3>3. map[old[l].key] \in oldStart .. oldEnd /\ old[map[old[l].key]].key = old[l].key
      BY <2>3, <3>2
    <3> QED
      BY <2>2, <2>5, <3>1, <3>2, <3>3 DEF Lists, OwnKeys
  <2> HIDE DEF held
  <2> QED
    BY <1>1, <2>1, <2>2, <2>3, <2>4, <2>5 DEF Leads
<1> QED
  BY <1>2, <1>3

\* An old vnode that is found remains to be dealt with.
LEMMA FoundFacts ==
    ASSUME Typed, Bounds, Lists, Mapped, newStart <= newEnd, Found
    PROVE  IdxInOld \in Mid /\ SameVnode(old[IdxInOld], NewStart)
<1>1. SameVnode(old[IdxInOld], NewStart) /\ IdxInOld # 0
  BY DEF Found
<1>2. CASE NewStart.key = NoKey
  <2> DEFINE found == {i \in oldStart .. oldEnd - 1 : Has(old[i]) /\ SameVnode(NewStart, old[i])}
  <2>1. IdxInOld = IF found = {} THEN 0 ELSE CHOOSE i \in found : \A j \in found : i <= j
    BY <1>2 DEF IdxInOld, FindIdxInOld
  <2>2. found # {}
    BY <1>1, <2>1
  <2>3. oldStart \in Nat /\ oldEnd \in Nat
    BY ListFacts
  <2>4. found \subseteq Nat
    BY <2>3
  <2>5. \A i \in found : i \in Mid
    BY <2>3 DEF Mid
  <2> HIDE DEF found
  <2>6. \E i \in found : \A j \in found : i <= j
    BY <2>2, <2>4, LeastElement
  <2> QED
    BY <1>1, <2>1, <2>2, <2>5, <2>6
<1>3. CASE NewStart.key # NoKey
  <2>1. NewStart.key \in DOMAIN KeyMap /\ IdxInOld = KeyMap[NewStart.key]
    BY <1>1, <1>3 DEF IdxInOld
  <2>2. IdxInOld \in DOMAIN old
    BY <2>1, KeyMapFacts DEF Leads
  <2>3. newStart \in Undone
    BY ListFacts DEF Undone
  <2> QED
    BY <1>1, <1>3, <2>2, <2>3 DEF Mapped, SameVnode, NewStart
<1> QED
  BY <1>2, <1>3

\* When none is found, no old vnode that remains is the same child.
LEMMA NotFoundFacts ==
    ASSUME Typed, Bounds, Lists, Mapped, newStart <= newEnd, ~ Found,
           NEW l \in Mid, NewStart.key # NoKey, old[l].key = NewStart.key
    PROVE  old[l].tag # NewStart.tag
<1>1. NewStart.key \in DOMAIN KeyMap /\ KeyMap[NewStart.key] = l
  BY KeyMapFacts
<1>2. IdxInOld = l
  BY <1>1 DEF IdxInOld
<1>3. l # 0
  <2>1. l \in DOMAIN old /\ DOMAIN old = 1 .. Len(old) /\ Len(old) \in Nat
    BY ListFacts
  <2> QED
    BY <2>1
<1>4. ~ SameVnode(old[l], NewStart)
  BY <1>2, <1>3 DEF Found
<1> QED
  BY <1>4 DEF SameVnode, HasData

-----------------------------------------------------------------------------
(* The order of the document *)

AtStart(j) == j = newStart /\ newStart' = newStart + 1 /\ newEnd' = newEnd

AtEnd(j) == j = newEnd /\ newEnd' = newEnd - 1 /\ newStart' = newStart

\* The new vnode j is dealt with and its element e is where it belongs.
Places(j, e) ==
    /\ j \in Undone /\ Takes(j, e)
    /\ \A m \in Mid' : m \in Mid /\ old'[m] = old[m] /\ old[m].elm # e
    /\ \A l \in Done : new[l].elm # e
    /\ Adds(dom', dom, e)
    /\ \A l \in Done : l < j => Before(dom', new[l].elm, e)
    /\ \A l \in Done : l > j => Before(dom', e, new[l].elm)
    /\ \/ AtStart(j) /\ \A m \in Mid' : Before(dom', e, old[m].elm)
       \/ AtEnd(j) /\ \A m \in Mid' : Before(dom', old[m].elm, e)

LEMMA PlacesSorted ==
    ASSUME Typed, Bounds, Sorted, NEW j, NEW e, Places(j, e)
    PROVE  Sorted'
<1>1. /\ j \in Undone /\ j \in DOMAIN new /\ j \in Nat /\ newStart \in Nat /\ newEnd \in Nat
      /\ newStart <= j /\ j <= newEnd
  BY ListFacts DEF Places, Undone
<1>2. /\ Done' = Done \cup {j} /\ new'[j].elm = e
      /\ \A l \in Done : l # j /\ l \in Nat /\ new'[l] = new[l] /\ (l < newStart \/ l > newEnd)
  BY <1>1, ListFacts DEF Places, Takes, Done
<1>3. \A m \in Mid' : m \in Mid /\ old'[m] = old[m] /\ old[m].elm # e
  BY DEF Places
<1>4. \A x, y : Before(dom, x, y) /\ x # e /\ y # e => Before(dom', x, y)
  BY DEF Places, Adds
<1>5. \A l \in Done : new[l].elm # e
  BY DEF Places
<1>6. /\ \A l \in Done : l < j => Before(dom', new[l].elm, e)
      /\ \A l \in Done : l > j => Before(dom', e, new[l].elm)
  BY DEF Places
<1>7. \A k, l \in Mid' : k < l => Before(dom', old'[k].elm, old'[l].elm)
  BY <1>3, <1>4 DEF Sorted
<1>8. \A k, l \in Done' : k < l => Before(dom', new'[k].elm, new'[l].elm)
  <2>1. \A k, l \in Done : k < l => Before(dom', new'[k].elm, new'[l].elm)
    BY <1>2, <1>4, <1>5 DEF Sorted
  <2> QED
    BY <1>1, <1>2, <1>6, <2>1
<1>9. CASE AtStart(j) /\ \A m \in Mid' : Before(dom', e, old[m].elm)
  <2>1. j = newStart /\ newStart' = newStart + 1 /\ newEnd' = newEnd
    BY <1>9 DEF AtStart
  <2>2. ASSUME NEW m \in Mid', NEW l \in Done', l < newStart' PROVE Before(dom', new'[l].elm, old'[m].elm)
    <3>1. CASE l = j
      BY <1>2, <1>3, <1>9, <3>1
    <3>2. CASE l # j
      <4>1. l \in Done /\ l < newStart
        BY <1>1, <1>2, <2>1, <2>2, <3>2
      <4>2. Before(dom, new[l].elm, old[m].elm)
        BY <1>3, <4>1 DEF Sorted
      <4> QED
        BY <1>2, <1>3, <1>4, <1>5, <4>1, <4>2
    <3> QED
      BY <3>1, <3>2
  <2>3. ASSUME NEW m \in Mid', NEW l \in Done', l > newEnd' PROVE Before(dom', old'[m].elm, new'[l].elm)
    <3>1. l \in Done /\ l > newEnd
      BY <1>1, <1>2, <2>1, <2>3
    <3>2. Before(dom, old[m].elm, new[l].elm)
      BY <1>3, <3>1 DEF Sorted
    <3> QED
      BY <1>2, <1>3, <1>4, <1>5, <3>1, <3>2
  <2> QED
    BY <1>7, <1>8, <2>2, <2>3 DEF Sorted
<1>10. CASE AtEnd(j) /\ \A m \in Mid' : Before(dom', old[m].elm, e)
  <2>1. j = newEnd /\ newEnd' = newEnd - 1 /\ newStart' = newStart
    BY <1>10 DEF AtEnd
  <2>2. ASSUME NEW m \in Mid', NEW l \in Done', l > newEnd' PROVE Before(dom', old'[m].elm, new'[l].elm)
    <3>1. CASE l = j
      BY <1>2, <1>3, <1>10, <3>1
    <3>2. CASE l # j
      <4>1. l \in Done /\ l > newEnd
        BY <1>1, <1>2, <2>1, <2>2, <3>2
      <4>2. Before(dom, old[m].elm, new[l].elm)
        BY <1>3, <4>1 DEF Sorted
      <4> QED
        BY <1>2, <1>3, <1>4, <1>5, <4>1, <4>2
    <3> QED
      BY <3>1, <3>2
  <2>3. ASSUME NEW m \in Mid', NEW l \in Done', l < newStart' PROVE Before(dom', new'[l].elm, old'[m].elm)
    <3>1. l \in Done /\ l < newStart
      BY <1>1, <1>2, <2>1, <2>3
    <3>2. Before(dom, new[l].elm, old[m].elm)
      BY <1>3, <3>1 DEF Sorted
    <3> QED
      BY <1>2, <1>3, <1>4, <1>5, <3>1, <3>2
  <2> QED
    BY <1>7, <1>8, <2>2, <2>3 DEF Sorted
<1> QED
  BY <1>9, <1>10 DEF Places

\* An element put before that of the first old vnode that remains.
LEMMA PutAtStart ==
    ASSUME Typed, Bounds, Lists, Present, Sorted, oldStart \in Mid,
           NEW e \in Elms, e # old[oldStart].elm
    PROVE  LET t == InsertBefore(dom, e, old[oldStart].elm)
           IN  /\ Adds(t, dom, e)
               /\ \A l \in Done : new[l].elm # e /\ l < newStart => Before(t, new[l].elm, e)
               /\ \A l \in Done : new[l].elm # e /\ l > newEnd => Before(t, e, new[l].elm)
               /\ \A m \in Mid : old[m].elm # e => Before(t, e, old[m].elm)
<1> DEFINE f == old[oldStart].elm
           t == InsertBefore(dom, e, f)
<1>1. Doc(dom)
  BY DEF Typed, Doc
<1>2. f \in Range(dom)
  BY DEF Present
<1>3. \A l \in Done : l < newStart => Before(dom, new[l].elm, f)
  BY DEF Sorted
<1>4. \A l \in Done : l > newEnd => Before(dom, f, new[l].elm)
  BY DEF Sorted
<1>5. \A m \in Mid : m = oldStart \/ Before(dom, f, old[m].elm)
  <2>1. \A m \in Mid : m = oldStart \/ oldStart < m
    BY ListFacts DEF Mid
  <2> QED
    BY <2>1 DEF Sorted
<1> HIDE DEF f
<1>6. /\ Adds(t, dom, e)
      /\ Before(t, e, f)
      /\ \A x : Before(dom, x, f) /\ x # e => Before(t, x, e)
      /\ \A y : Before(dom, f, y) /\ y # e => Before(t, e, y)
  BY <1>1, <1>2, InsertBeforeFacts DEF f
<1> HIDE DEF t
<1>7. \A m \in Mid : old[m].elm # e => Before(t, e, old[m].elm)
  <2> SUFFICES ASSUME NEW m \in Mid, old[m].elm # e PROVE Before(t, e, old[m].elm)
    OBVIOUS
  <2>1. CASE m = oldStart
    BY <1>6, <2>1 DEF f
  <2> QED
    BY <1>5, <1>6, <2>1
<1> QED
  BY <1>3, <1>4, <1>6, <1>7 DEF t, f

\* An element put behind that of the last old vnode that remains.
LEMMA PutAtEnd ==
    ASSUME Typed, Bounds, Lists, Present, Sorted, oldStart \in Mid, oldEnd \in Mid, oldStart < oldEnd
    PROVE  LET e == old[oldStart].elm
               t == InsertBefore(dom, e, NextSibling(dom, old[oldEnd].elm))
           IN  /\ Adds(t, dom, e)
               /\ \A l \in Done : new[l].elm # e /\ l < newStart => Before(t, new[l].elm, e)
               /\ \A l \in Done : l > newEnd => Before(t, e, new[l].elm)
               /\ \A m \in Mid : old[m].elm # e => Before(t, old[m].elm, e)
<1> DEFINE e == old[oldStart].elm
           f == old[oldEnd].elm
           t == InsertBefore(dom, e, NextSibling(dom, f))
<1>1. Doc(dom)
  BY DEF Typed, Doc
<1>2. Before(dom, e, f)
  BY DEF Sorted
<1>3. \A l \in Done : l < newStart => Before(dom, new[l].elm, f)
  BY DEF Sorted
<1>4. \A l \in Done : l > newEnd => Before(dom, f, new[l].elm)
  BY DEF Sorted
<1>5. \A m \in Mid : m = oldEnd \/ Before(dom, old[m].elm, f)
  <2>1. \A m \in Mid : m = oldEnd \/ m < oldEnd
    BY ListFacts DEF Mid
  <2> QED
    BY <2>1 DEF Sorted
<1> HIDE DEF e, f
<1>6. /\ Adds(t, dom, e)
      /\ Before(t, f, e)
      /\ \A y : Before(dom, f, y) => Before(t, e, y)
  BY <1>1, <1>2, InsertBehindFacts
<1> HIDE DEF t
<1>7. f # e
  BY <1>1, <1>2, BeforeFacts
<1>8. \A x : Before(dom, x, f) /\ x # e => Before(t, x, e)
  <2> SUFFICES ASSUME NEW x, Before(dom, x, f), x # e PROVE Before(t, x, e)
    OBVIOUS
  <2>1. Before(t, x, f)
    BY <1>6, <1>7 DEF Adds
  <2> QED
    BY <1>6, <2>1, BeforeFacts DEF Adds
<1>9. \A m \in Mid : old[m].elm # e => Before(t, old[m].elm, e)
  <2> SUFFICES ASSUME NEW m \in Mid, old[m].elm # e PROVE Before(t, old[m].elm, e)
    OBVIOUS
  <2>1. CASE m = oldEnd
    BY <1>6, <2>1 DEF f
  <2> QED
    BY <1>5, <1>8, <2>1
<1> QED
  BY <1>3, <1>4, <1>6, <1>8, <1>9 DEF t, f, e

-----------------------------------------------------------------------------
(* The turns of the loop that find an old vnode *)

LEMMA SameDocument ==
    ASSUME Typed, NEW e \in Range(dom), dom' = dom
    PROVE  Adds(dom', dom, e)
BY DEF Adds, Typed, Doc

LEMMA PairKeeps ==
    ASSUME Inv, mode = "loop", NEW i, NEW j, Pairs(i, j), Bounds', Leads(keyToOld'),
           Adds(dom', dom, old[i].elm), Order'
    PROVE  Inv'
<1>1. Typed /\ Bounds /\ Lists /\ Mapped /\ Present /\ Order /\ Shows /\ Names /\ Reuses
  BY DEF Inv
<1>2. Paired(i, j)
  BY <1>1, PairsFacts
<1>3. Apart
  BY <1>1, OrderIsApart
<1>4. old[i].elm \in Range(dom)
  BY <1>1, <1>2 DEF Present, Paired
<1>5. Doc(dom') /\ Range(dom') = Range(dom)
  BY <1>4 DEF Adds
<1>6. Typed'
  BY <1>1, <1>2, <1>5, PairTyped
<1>7. Lists'
  BY <1>1, <1>2, PairLists
<1>8. Mapped'
  BY <1>1, <1>2, PairMapped
<1>9. Present'
  BY <1>1, <1>2, <1>5, PairPresent
<1>10. Shows'
  BY <1>1, <1>2, <1>3, PairShows
<1>11. Names'
  BY <1>1, <1>2, <1>3, PairNames
<1>12. Reuses'
  BY <1>1, <1>2, PairReuses
<1>13. mode' = "loop"
  BY DEF Pairs
<1>14. Phase'
  BY <1>13 DEF Phase
<1> QED
  BY <1>6, <1>7, <1>8, <1>9, <1>10, <1>11, <1>12, <1>14 DEF Inv

\* The order after a turn, when the element is where it belongs.
LEMMA PairOrder ==
    ASSUME Inv, NEW i, NEW j, Pairs(i, j), Adds(dom', dom, old[i].elm),
           removeOnly => dom' = dom,
           ~ removeOnly =>
              /\ \A l \in Done : new[l].elm # old[i].elm /\ l < j => Before(dom', new[l].elm, old[i].elm)
              /\ \A l \in Done : new[l].elm # old[i].elm /\ l > j => Before(dom', old[i].elm, new[l].elm)
              /\ \/ /\ AtStart(j)
                    /\ \A m \in Mid : old[m].elm # old[i].elm => Before(dom', old[i].elm, old[m].elm)
                 \/ /\ AtEnd(j)
                    /\ \A m \in Mid : old[m].elm # old[i].elm => Before(dom', old[m].elm, old[i].elm)
    PROVE  Order'
<1>1. Typed /\ Bounds /\ Lists /\ Mapped /\ Present /\ Order
  BY DEF Inv
<1>2. Paired(i, j)
  BY <1>1, PairsFacts
<1>3. Apart
  BY <1>1, OrderIsApart
<1>4. removeOnly' = removeOnly /\ removeOnly \in BOOLEAN
  BY <1>1, <1>2 DEF Paired, Typed
<1>5. CASE removeOnly
  <2>1. Increasing /\ dom' = dom
    BY <1>1, <1>5 DEF Order
  <2>2. Increasing'
    BY <1>1, <1>2, <1>5, <2>1, PairIncreasing
  <2> QED
    BY <1>4, <1>5, <2>2 DEF Order
<1>6. CASE ~ removeOnly
  <2>1. Sorted
    BY <1>1, <1>6 DEF Order
  <2>2. j \in Undone /\ Takes(j, old[i].elm) /\ i \in Mid
    BY <1>2 DEF Paired
  <2>3. \A m \in Mid' : m \in Mid /\ old'[m] = old[m] /\ old[m].elm # old[i].elm
    <3>1. \A m \in Mid' : m \in Mid /\ old'[m] = old[m] /\ m # i
      BY <1>1, <1>2, PairFacts
    <3> QED
      BY <1>3, <2>2, <3>1 DEF Apart
  <2>4. \A l \in Done : new[l].elm # old[i].elm
    BY <1>3, <2>2 DEF Apart
  <2>5. Places(j, old[i].elm)
    BY <1>6, <2>2, <2>3, <2>4 DEF Places
  <2>6. Sorted'
    BY <1>1, <2>1, <2>5, PlacesSorted
  <2> QED
    BY <1>4, <1>6, <2>6 DEF Order
<1> QED
  BY <1>5, <1>6

LEMMA EndsFacts ==
    ASSUME Inv, Turn
    PROVE  /\ mode = "loop" /\ newStart \in Undone /\ newEnd \in Undone
           /\ oldStart \in Nat /\ oldEnd \in Nat /\ newStart \in Nat /\ newEnd \in Nat
           /\ Has(OldStart) => oldStart \in Mid
           /\ Has(OldEnd) => oldEnd \in Mid
           /\ \A m \in Mid : oldStart <= m /\ m <= oldEnd /\ m \in Nat
           /\ \A l \in Done : l \in Nat /\ (l < newStart \/ l > newEnd)
<1>1. Typed /\ Bounds /\ mode = "loop" /\ oldStart <= oldEnd /\ newStart <= newEnd
  BY DEF Inv, Turn
<1>2. oldStart \in Nat /\ oldEnd \in Nat /\ newStart \in Nat /\ newEnd \in Nat
  BY <1>1, ListFacts
<1>3. newStart \in Undone /\ newEnd \in Undone
  BY <1>1, <1>2 DEF Undone
<1>4. (Has(OldStart) => oldStart \in Mid) /\ (Has(OldEnd) => oldEnd \in Mid)
  BY <1>1, <1>2 DEF Mid, OldStart, OldEnd
<1>5. \A m \in Mid : oldStart <= m /\ m <= oldEnd /\ m \in Nat
  BY <1>2 DEF Mid
<1>6. \A l \in Done : l \in Nat /\ (l < newStart \/ l > newEnd)
  BY <1>1, ListFacts
<1> QED
  BY <1>1, <1>2, <1>3, <1>4, <1>5, <1>6

LEMMA PairLengths ==
    ASSUME Typed, NEW i, NEW j, Paired(i, j)
    PROVE  Len(old') = Len(old) /\ Len(new') = Len(new)
<1>1. DOMAIN new' = DOMAIN new /\ Children(new') /\ Children(new)
  BY DEF Paired, Takes, Typed
<1>2. DOMAIN old' = DOMAIN old /\ Children(old') /\ Children(old)
  BY DEF Paired, Typed
<1>3. Len(new') = Len(new)
  BY <1>1, LenDomain DEF Children
<1>4. Len(old') = Len(old)
  BY <1>2, LenDomain DEF Children
<1> QED
  BY <1>3, <1>4

LEMMA MatchStartsKeeps == ASSUME Inv, MatchStarts PROVE Inv'
<1> DEFINE i == oldStart
           j == newStart
<1>1. Turn /\ Has(OldStart) /\ SameVnode(old[i], new[j])
  BY DEF MatchStarts, StartsMatch, Ends, OldStart, NewStart
<1>2. /\ mode = "loop" /\ i \in Mid /\ j \in Undone
      /\ oldStart \in Nat /\ oldEnd \in Nat /\ newStart \in Nat /\ newEnd \in Nat
  BY <1>1, EndsFacts
<1>3. /\ oldStart' = oldStart + 1 /\ newStart' = newStart + 1
      /\ dom' = dom /\ old' = old /\ oldEnd' = oldEnd /\ newEnd' = newEnd /\ keyToOld' = keyToOld
  BY DEF MatchStarts
<1>4. Mid' = Mid \ {i} /\ Undone' = Undone \ {j}
  BY <1>2, <1>3 DEF Mid, Undone
<1>5. Pairs(i, j)
  BY <1>1, <1>2, <1>3, <1>4 DEF Pairs, MatchStarts, Turn
<1>6. Typed /\ Bounds /\ Lists /\ Mapped /\ Present /\ Order
  BY DEF Inv
<1>7. Adds(dom', dom, old[i].elm)
  BY <1>2, <1>3, <1>6, SameDocument DEF Present
<1>8. Leads(keyToOld')
  BY <1>3, <1>6, KeyMapFacts
<1>9. Bounds'
  <2>1. Paired(i, j)
    BY <1>5, <1>6, PairsFacts
  <2>2. Len(old') = Len(old) /\ Len(new') = Len(new)
    BY <1>6, <2>1, PairLengths
  <2> QED
    BY <1>1, <1>2, <1>3, <1>6, <2>2 DEF Bounds, Turn
<1>10. Order'
  <2>1. ~ removeOnly => Sorted
    BY <1>6 DEF Order
  <2>2. AtStart(j)
    BY <1>3 DEF AtStart
  <2>3. ~ removeOnly => \A l \in Done : l < j => Before(dom', new[l].elm, old[i].elm)
    BY <1>2, <1>3, <2>1 DEF Sorted
  <2>4. ~ removeOnly => \A l \in Done : l > j => Before(dom', old[i].elm, new[l].elm)
    BY <1>1, <1>2, <1>3, <2>1, EndsFacts DEF Sorted
  <2>5. ~ removeOnly => \A m \in Mid : old[m].elm # old[i].elm => Before(dom', old[i].elm, old[m].elm)
    BY <1>1, <1>2, <1>3, <2>1, EndsFacts DEF Sorted
  <2> HIDE DEF i, j
  <2> QED
    BY <1>3, <1>5, <1>7, <2>2, <2>3, <2>4, <2>5, PairOrder
<1> HIDE DEF i, j
<1> QED
  BY <1>2, <1>5, <1>7, <1>8, <1>9, <1>10, PairKeeps

LEMMA MatchEndsKeeps == ASSUME Inv, MatchEnds PROVE Inv'
<1> DEFINE i == oldEnd
           j == newEnd
<1>1. Turn /\ Has(OldEnd) /\ SameVnode(old[i], new[j])
  BY DEF MatchEnds, EndsMatch, Ends, OldEnd, NewEnd
<1>2. /\ mode = "loop" /\ i \in Mid /\ j \in Undone
      /\ oldStart \in Nat /\ oldEnd \in Nat /\ newStart \in Nat /\ newEnd \in Nat
  BY <1>1, EndsFacts
<1>3. /\ oldEnd' = oldEnd - 1 /\ newEnd' = newEnd - 1
      /\ dom' = dom /\ old' = old /\ oldStart' = oldStart /\ newStart' = newStart /\ keyToOld' = keyToOld
  BY DEF MatchEnds
<1>4. Mid' = Mid \ {i} /\ Undone' = Undone \ {j}
  BY <1>2, <1>3 DEF Mid, Undone
<1>5. Pairs(i, j)
  BY <1>1, <1>2, <1>3, <1>4 DEF Pairs, MatchEnds, Turn
<1>6. Typed /\ Bounds /\ Lists /\ Mapped /\ Present /\ Order
  BY DEF Inv
<1>7. removeOnly \in BOOLEAN /\ Doc(dom) /\ old[i].elm \in Range(dom)
  BY <1>2, <1>6 DEF Present, Typed, Doc
<1>8. Leads(keyToOld')
  BY <1>3, <1>6, KeyMapFacts
<1>9. Bounds'
  <2>1. Paired(i, j)
    BY <1>5, <1>6, PairsFacts
  <2>2. Len(old') = Len(old) /\ Len(new') = Len(new)
    BY <1>6, <2>1, PairLengths
  <2> QED
    BY <1>1, <1>2, <1>3, <1>6, <2>2 DEF Bounds, Turn
<1>10. Adds(dom', dom, old[i].elm)
  BY <1>3, <1>6, <1>7, SameDocument
<1>11. Order'
  <2>1. ~ removeOnly => Sorted
    BY <1>6 DEF Order
  <2>2. AtEnd(j)
    BY <1>3 DEF AtEnd
  <2>3. ~ removeOnly => \A l \in Done : l < j => Before(dom', new[l].elm, old[i].elm)
    BY <1>1, <1>2, <1>3, <2>1, EndsFacts DEF Sorted
  <2>4. ~ removeOnly => \A l \in Done : l > j => Before(dom', old[i].elm, new[l].elm)
    BY <1>2, <1>3, <2>1 DEF Sorted
  <2>5. ~ removeOnly => \A m \in Mid : old[m].elm # old[i].elm => Before(dom', old[m].elm, old[i].elm)
    BY <1>1, <1>2, <1>3, <2>1, EndsFacts DEF Sorted
  <2> HIDE DEF i, j
  <2> QED
    BY <1>3, <1>5, <1>10, <2>2, <2>3, <2>4, <2>5, PairOrder
<1> HIDE DEF i, j
<1> QED
  BY <1>2, <1>5, <1>8, <1>9, <1>10, <1>11, PairKeeps

LEMMA MoveRightKeeps == ASSUME Inv, MoveRight PROVE Inv'
<1> DEFINE i == oldStart
           j == newEnd
<1>1. Turn /\ Has(OldStart) /\ Has(OldEnd) /\ SameVnode(old[i], new[j]) /\ ~ SameVnode(old[oldEnd], new[j])
  BY DEF MoveRight, EndsMatch, StartMatchesEnd, Ends, OldStart, OldEnd, NewEnd
<1>2. /\ mode = "loop" /\ i \in Mid /\ j \in Undone /\ oldEnd \in Mid /\ oldStart < oldEnd
      /\ oldStart \in Nat /\ oldEnd \in Nat /\ newStart \in Nat /\ newEnd \in Nat
  <2>1. /\ mode = "loop" /\ i \in Mid /\ j \in Undone /\ oldEnd \in Mid
        /\ oldStart \in Nat /\ oldEnd \in Nat /\ newStart \in Nat /\ newEnd \in Nat
    BY <1>1, EndsFacts
  <2>2. oldStart # oldEnd /\ oldStart <= oldEnd
    BY <1>1 DEF Turn
  <2> QED
    BY <2>1, <2>2
<1>3. /\ oldStart' = oldStart + 1 /\ newEnd' = newEnd - 1
      /\ old' = old /\ oldEnd' = oldEnd /\ newStart' = newStart /\ keyToOld' = keyToOld
  BY DEF MoveRight
<1>4. Mid' = Mid \ {i} /\ Undone' = Undone \ {j}
  BY <1>2, <1>3 DEF Mid, Undone
<1>5. Pairs(i, j)
  BY <1>1, <1>2, <1>3, <1>4 DEF Pairs, MoveRight, Turn
<1>6. Typed /\ Bounds /\ Lists /\ Mapped /\ Present /\ Order
  BY DEF Inv
<1>7. removeOnly \in BOOLEAN /\ Doc(dom) /\ old[i].elm \in Range(dom)
  BY <1>2, <1>6 DEF Present, Typed, Doc
<1>8. Leads(keyToOld')
  BY <1>3, <1>6, KeyMapFacts
<1>9. Bounds'
  <2>1. Paired(i, j)
    BY <1>5, <1>6, PairsFacts
  <2>2. Len(old') = Len(old) /\ Len(new') = Len(new)
    BY <1>6, <2>1, PairLengths
  <2> QED
    BY <1>1, <1>2, <1>3, <1>6, <2>2 DEF Bounds, Turn
<1> DEFINE t == InsertBefore(dom, old[oldStart].elm, NextSibling(dom, old[oldEnd].elm))
<1>10. dom' = IF removeOnly THEN dom ELSE t
  BY DEF MoveRight, OldStart, OldEnd
<1>11. ~ removeOnly =>
          /\ Adds(t, dom, old[i].elm)
          /\ \A l \in Done : new[l].elm # old[i].elm /\ l < newStart => Before(t, new[l].elm, old[i].elm)
          /\ \A l \in Done : l > newEnd => Before(t, old[i].elm, new[l].elm)
          /\ \A m \in Mid : old[m].elm # old[i].elm => Before(t, old[m].elm, old[i].elm)
  BY <1>2, <1>6, PutAtEnd DEF Order
<1> HIDE DEF t
<1>12. Adds(dom', dom, old[i].elm)
  BY <1>6, <1>7, <1>10, <1>11, SameDocument
<1>13. Order'
  <2>1. AtEnd(j)
    BY <1>3 DEF AtEnd
  <2>2. \A l \in Done : (l < j => l < newStart) /\ (l > j => l > newEnd)
    BY <1>1, <1>2, EndsFacts
  <2> HIDE DEF i, j
  <2> QED
    BY <1>5, <1>12, <1>10, <1>11, <2>1, <2>2, PairOrder
<1> HIDE DEF i, j
<1> QED
  BY <1>2, <1>5, <1>8, <1>9, <1>12, <1>13, PairKeeps

LEMMA MoveLeftKeeps == ASSUME Inv, MoveLeft PROVE Inv'
<1> DEFINE i == oldEnd
           j == newStart
<1>1. Turn /\ Has(OldStart) /\ Has(OldEnd) /\ SameVnode(old[i], new[j]) /\ ~ SameVnode(old[oldStart], new[j])
  BY DEF MoveLeft, StartsMatch, EndMatchesStart, Ends, OldStart, OldEnd, NewStart
<1>2. /\ mode = "loop" /\ i \in Mid /\ j \in Undone /\ oldStart \in Mid /\ i # oldStart
      /\ oldStart \in Nat /\ oldEnd \in Nat /\ newStart \in Nat /\ newEnd \in Nat
  BY <1>1, EndsFacts
<1>3. /\ oldEnd' = oldEnd - 1 /\ newStart' = newStart + 1
      /\ old' = old /\ oldStart' = oldStart /\ newEnd' = newEnd /\ keyToOld' = keyToOld
  BY DEF MoveLeft
<1>4. Mid' = Mid \ {i} /\ Undone' = Undone \ {j}
  BY <1>2, <1>3 DEF Mid, Undone
<1>5. Pairs(i, j)
  BY <1>1, <1>2, <1>3, <1>4 DEF Pairs, MoveLeft, Turn
<1>6. Typed /\ Bounds /\ Lists /\ Mapped /\ Present /\ Order
  BY DEF Inv
<1>7. removeOnly \in BOOLEAN /\ Doc(dom) /\ old[i].elm \in Range(dom)
  BY <1>2, <1>6 DEF Present, Typed, Doc
<1>8. Leads(keyToOld')
  BY <1>3, <1>6, KeyMapFacts
<1>9. Bounds'
  <2>1. Paired(i, j)
    BY <1>5, <1>6, PairsFacts
  <2>2. Len(old') = Len(old) /\ Len(new') = Len(new)
    BY <1>6, <2>1, PairLengths
  <2> QED
    BY <1>1, <1>2, <1>3, <1>6, <2>2 DEF Bounds, Turn
<1> DEFINE t == InsertBefore(dom, old[i].elm, old[oldStart].elm)
<1>10. dom' = IF removeOnly THEN dom ELSE t
  BY DEF MoveLeft, OldStart, OldEnd
<1>11. old[i].elm \in Elms /\ old[i].elm # old[oldStart].elm
  <2>1. Apart
    BY <1>6, OrderIsApart
  <2>2. old[i].elm # old[oldStart].elm
    BY <1>2, <2>1 DEF Apart
  <2>3. old[i].elm \in Elms
    BY <1>7 DEF Doc, Range
  <2> QED
    BY <2>2, <2>3
<1>12. ~ removeOnly =>
          /\ Adds(t, dom, old[i].elm)
          /\ \A l \in Done : new[l].elm # old[i].elm /\ l < newStart => Before(t, new[l].elm, old[i].elm)
          /\ \A l \in Done : new[l].elm # old[i].elm /\ l > newEnd => Before(t, old[i].elm, new[l].elm)
          /\ \A m \in Mid : old[m].elm # old[i].elm => Before(t, old[i].elm, old[m].elm)
  BY <1>2, <1>6, <1>11, PutAtStart DEF Order
<1> HIDE DEF t
<1>13. Adds(dom', dom, old[i].elm)
  BY <1>6, <1>7, <1>10, <1>12, SameDocument
<1>14. Order'
  <2>1. AtStart(j)
    BY <1>3 DEF AtStart
  <2>2. \A l \in Done : (l < j => l < newStart) /\ (l > j => l > newEnd)
    BY <1>1, <1>2, EndsFacts
  <2> HIDE DEF i, j
  <2> QED
    BY <1>5, <1>13, <1>10, <1>12, <2>1, <2>2, PairOrder
<1> HIDE DEF i, j
<1> QED
  BY <1>2, <1>5, <1>8, <1>9, <1>13, <1>14, PairKeeps

LEMMA MoveFoundKeeps == ASSUME Inv, MoveFound PROVE Inv'
<1> DEFINE i == IdxInOld
           j == newStart
<1>1. Turn /\ Has(OldStart) /\ SameVnode(old[i], new[j]) /\ ~ SameVnode(old[oldStart], new[j])
      /\ i \in Mid
  <2>1. Turn /\ Found /\ Has(OldStart) /\ ~ SameVnode(old[oldStart], new[j])
    BY DEF MoveFound, NoEndsMatch, StartsMatch, Ends, OldStart, NewStart
  <2> QED
    BY <2>1, FoundFacts DEF Turn, Inv, NewStart
<1>2. /\ mode = "loop" /\ i \in Mid /\ j \in Undone /\ oldStart \in Mid /\ i # oldStart
      /\ oldStart \in Nat /\ oldEnd \in Nat /\ newStart \in Nat /\ newEnd \in Nat
  BY <1>1, EndsFacts
<1>3. old' = [old EXCEPT ![i] = Moved]
  BY DEF MoveFound
<1>4. /\ newStart' = newStart + 1
      /\ oldStart' = oldStart /\ oldEnd' = oldEnd /\ newEnd' = newEnd /\ keyToOld' = KeyMap
  BY DEF MoveFound
<1>5. Mid' = Mid \ {i} /\ Undone' = Undone \ {j}
  <2>1. Undone' = Undone \ {j}
    BY <1>2, <1>4 DEF Undone
  <2>2. Changes(old', old, i, Moved, VnodeSet)
    BY <1>3, MovedFacts DEF Changes, Inv, Typed, Children
  <2>3. \A l \in DOMAIN old : old'[l] = IF l = i THEN Moved ELSE old[l]
    BY ONLY <2>2, ChangesFacts
  <2>4. \A l \in oldStart .. oldEnd : l \in DOMAIN old
    BY <1>2, ListFacts DEF Inv, Bounds
  <2>5. i \in oldStart .. oldEnd /\ ~ Has(Moved)
    BY <1>2, MovedFacts DEF Mid
  <2>6. Mid' = {l \in oldStart .. oldEnd : Has(old'[l])}
    BY <1>4 DEF Mid
  <2>7. Mid' = Mid \ {i}
    BY <2>3, <2>4, <2>5, <2>6 DEF Mid
  <2> QED
    BY <2>1, <2>7
<1>6. Pairs(i, j)
  BY <1>1, <1>2, <1>4, <1>5 DEF Pairs, MoveFound, Turn
<1>7. Typed /\ Bounds /\ Lists /\ Mapped /\ Present /\ Order
  BY DEF Inv
<1>8. removeOnly \in BOOLEAN /\ Doc(dom) /\ old[i].elm \in Range(dom)
  BY <1>2, <1>7 DEF Present, Typed, Doc
<1>9. Leads(keyToOld')
  BY <1>4, <1>7, KeyMapFacts
<1>10. Bounds'
  <2>1. Paired(i, j)
    BY <1>6, <1>7, PairsFacts
  <2>2. Len(old') = Len(old) /\ Len(new') = Len(new)
    BY <1>7, <2>1, PairLengths
  <2> QED
    BY <1>1, <1>2, <1>4, <1>7, <2>2 DEF Bounds, Turn
<1> DEFINE t == InsertBefore(dom, old[i].elm, old[oldStart].elm)
<1>11. dom' = IF removeOnly THEN dom ELSE t
  BY DEF MoveFound, OldStart
<1>12. old[i].elm \in Elms /\ old[i].elm # old[oldStart].elm
  <2>1. Apart
    BY <1>7, OrderIsApart
  <2>2. old[i].elm # old[oldStart].elm
    BY <1>2, <2>1 DEF Apart
  <2>3. old[i].elm \in Elms
    BY <1>8 DEF Doc, Range
  <2> QED
    BY <2>2, <2>3
<1>13. ~ removeOnly =>
          /\ Adds(t, dom, old[i].elm)
          /\ \A l \in Done : new[l].elm # old[i].elm /\ l < newStart => Before(t, new[l].elm, old[i].elm)
          /\ \A l \in Done : new[l].elm # old[i].elm /\ l > newEnd => Before(t, old[i].elm, new[l].elm)
          /\ \A m \in Mid : old[m].elm # old[i].elm => Before(t, old[i].elm, old[m].elm)
  BY <1>2, <1>7, <1>12, PutAtStart DEF Order
<1> HIDE DEF t
<1>14. Adds(dom', dom, old[i].elm)
  BY <1>7, <1>8, <1>11, <1>13, SameDocument
<1>15. Order'
  <2>1. AtStart(j)
    BY <1>4 DEF AtStart
  <2>2. \A l \in Done : (l < j => l < newStart) /\ (l > j => l > newEnd)
    BY <1>1, <1>2, EndsFacts
  <2> HIDE DEF i, j
  <2> QED
    BY <1>6, <1>14, <1>11, <1>13, <2>1, <2>2, PairOrder
<1> HIDE DEF i, j
<1> QED
  BY <1>2, <1>6, <1>9, <1>10, <1>14, <1>15, PairKeeps

-----------------------------------------------------------------------------
(* Turns that change nothing but a position *)

LEMMA NothingKeeps ==
    ASSUME Inv, Mid' = Mid, Bounds', Phase',
           UNCHANGED <<dom, shown, leaving, refs, old, new, goal, newStart, newEnd,
                       keyToOld, removeOnly, prev>>
    PROVE  Inv'
<1>1. Undone' = Undone
  BY DEF Undone
<1>2. Done' = Done
  BY <1>1 DEF Done
<1>3. Typed'
  BY DEF Inv, Typed, Children
<1>4. Lists'
  BY <1>1, <1>2 DEF Inv, Lists
<1>5. Mapped'
  BY <1>1 DEF Inv, Mapped
<1>6. Present'
  BY <1>2 DEF Inv, Present
<1>7. Order'
  <2>1. CASE removeOnly
    BY <1>2, <2>1 DEF Inv, Order, Increasing
  <2>2. CASE ~ removeOnly
    BY <1>2, <2>2 DEF Inv, Order, Sorted
  <2> QED
    BY <2>1, <2>2
<1>8. Shows'
  BY <1>2 DEF Inv, Shows
<1>9. Names'
  BY <1>2 DEF Inv, Names
<1>10. Reuses'
  BY <1>1 DEF Inv, Reuses
<1> QED
  BY <1>3, <1>4, <1>5, <1>6, <1>7, <1>8, <1>9, <1>10 DEF Inv

LEMMA SkipMovedKeeps == ASSUME Inv, SkipMoved PROVE Inv'
<1>1. Turn /\ UNCHANGED <<dom, shown, refs, old, new, newStart, newEnd, keyToOld>>
  BY DEF SkipMoved
<1>2. /\ mode = "loop" /\ oldStart \in Nat /\ oldEnd \in Nat /\ oldStart <= oldEnd
      /\ UNCHANGED <<leaving, goal, removeOnly, mode, prev>>
  BY <1>1, EndsFacts DEF Turn
<1>3. Phase'
  BY <1>2 DEF Phase
<1>4. CASE ~ Has(OldStart) /\ oldStart' = oldStart + 1 /\ oldEnd' = oldEnd
  <2>1. Mid' = Mid
    BY <1>1, <1>2, <1>4 DEF Mid, OldStart
  <2>2. Bounds'
    BY <1>1, <1>2, <1>4 DEF Inv, Bounds
  <2> QED
    BY <1>1, <1>2, <1>3, <2>1, <2>2, NothingKeeps
<1>5. CASE ~ Has(OldEnd) /\ oldEnd' = oldEnd - 1 /\ oldStart' = oldStart
  <2>1. Mid' = Mid
    BY <1>1, <1>2, <1>5 DEF Mid, OldEnd
  <2>2. Bounds'
    BY <1>1, <1>2, <1>5 DEF Inv, Bounds
  <2> QED
    BY <1>1, <1>2, <1>3, <2>1, <2>2, NothingKeeps
<1> QED
  BY <1>4, <1>5 DEF SkipMoved

LEMMA EndLoopKeeps == ASSUME Inv, EndLoop PROVE Inv'
<1>1. /\ UNCHANGED <<dom, shown, leaving, refs, old, new, goal, newStart, newEnd,
                     keyToOld, removeOnly, prev>>
      /\ UNCHANGED <<oldStart, oldEnd>>
      /\ mode' = "rest" /\ (oldStart > oldEnd \/ newStart > newEnd)
  BY DEF EndLoop
<1>2. Phase'
  BY <1>1 DEF Phase
<1>3. Bounds'
  BY <1>1 DEF Inv, Bounds
<1>4. Mid' = Mid
  BY <1>1 DEF Mid
<1> QED
  BY <1>1, <1>2, <1>3, <1>4, NothingKeeps

-----------------------------------------------------------------------------
(* createElm *)

LEMMA ImageBound ==
    ASSUME NEW S, IsFiniteSet(S), NEW f, DOMAIN f = S, f = [x \in S |-> f[x]]
    PROVE  IsFiniteSet(Range(f)) /\ Cardinality(Range(f)) <= Cardinality(S)
<1>1. f \in Surjection(S, Range(f))
  BY DEF Surjection, Range
<1> QED
  BY <1>1, FS_Surjection

LEMMA Counted == ASSUME NEW n \in Nat PROVE IsFiniteSet(1 .. n) /\ Cardinality(1 .. n) = n
<1>1. 1 \in Int /\ n \in Int
  OBVIOUS
<1>2. IsFiniteSet(1 .. n) /\ Cardinality(1 .. n) = IF 1 > n THEN 0 ELSE n - 1 + 1
  BY ONLY <1>1, FS_Interval
<1> QED
  BY <1>2

LEMMA ElmsCounted == IsFiniteSet(Elms) /\ Cardinality(Elms) = 2 * MaxChildren + MaxLeaving
<1>1. PICK n \in Nat : n = 2 * MaxChildren + MaxLeaving
  BY ElmAssumption
<1> QED
  BY <1>1, Counted DEF Elms

LEMMA DocFinite == ASSUME NEW s, Doc(s) PROVE IsFiniteSet(Range(s)) /\ Len(s) <= 2 * MaxChildren + MaxLeaving
<1>1. Len(s) \in Nat /\ DOMAIN s = 1 .. Len(s) /\ s = [i \in 1 .. Len(s) |-> s[i]] /\ s \in [1 .. Len(s) -> Elms]
  BY DEF Doc
<1>2. IsFiniteSet(1 .. Len(s)) /\ Cardinality(1 .. Len(s)) = Len(s)
  BY <1>1, Counted
<1>3. IsFiniteSet(Range(s))
  BY <1>1, <1>2, ImageBound
<1>4. IsFiniteSet(Elms) /\ Cardinality(Elms) = 2 * MaxChildren + MaxLeaving
  BY ElmsCounted
<1>5. s \in Injection(1 .. Len(s), Elms)
  BY <1>1 DEF Injection, Doc, IsInjective
<1>6. Cardinality(1 .. Len(s)) <= Cardinality(Elms)
  BY <1>4, <1>5, FS_Injection
<1> QED
  BY <1>2, <1>3, <1>4, <1>6

\* There is always a node to make: the old children, the new ones made so far and
\* what is leaving are fewer than the nodes there are.
LEMMA FreshFacts ==
    ASSUME Typed, Bounds, Lists, Present, ~ removeOnly, NEW j \in Undone
    PROVE  Fresh(Used) \in Elms \ Used
<1> DEFINE O == {old[i].elm : i \in DOMAIN old}
           D == DOMAIN new \ {j}
           N == {new[l].elm : l \in D}
<1>1. Elms \cap Used \subseteq leaving \cup O \cup N
  <2>1. new[j].elm \notin Elms
    BY ElmAssumption DEF Lists
  <2>2. \A l \in Done : l \in D
    BY ListFacts DEF Done
  <2>3. \A x \in Range(dom) : x \in leaving \/ x \in O \/ x \in N
    <3>1. \A i \in Mid : old[i].elm \in O
      BY ListFacts
    <3>2. \A l \in Done : new[l].elm \in N
      BY <2>2
    <3> HIDE DEF O, N
    <3> QED
      BY <3>1, <3>2 DEF Present
  <2>4. \A l \in DOMAIN new : l = j \/ new[l].elm \in N
    OBVIOUS
  <2> QED
    BY <2>1, <2>3, <2>4 DEF Used
<1>2. /\ Len(old) \in Nat /\ DOMAIN old = 1 .. Len(old) /\ Len(old) <= MaxChildren
      /\ Len(new) \in Nat /\ DOMAIN new = 1 .. Len(new) /\ Len(new) <= MaxChildren
  BY DEF Typed, Children
<1>3. IsFiniteSet(leaving) /\ Cardinality(leaving) \in Nat /\ Cardinality(leaving) <= MaxLeaving
  <2>1. IsFiniteSet(Range(dom))
    BY DocFinite DEF Typed, Doc
  <2>2. leaving \in SUBSET Range(dom)
    BY DEF Typed
  <2>3. IsFiniteSet(leaving)
    BY <2>1, <2>2, FS_Subset
  <2> QED
    BY <2>3, FS_CardinalityType DEF Typed
<1>4. IsFiniteSet(O) /\ Cardinality(O) \in Nat /\ Cardinality(O) <= MaxChildren
  <2> DEFINE f == [i \in DOMAIN old |-> old[i].elm]
  <2>1. IsFiniteSet(DOMAIN old) /\ Cardinality(DOMAIN old) = Len(old)
    BY <1>2, Counted
  <2>2. DOMAIN f = DOMAIN old /\ f = [x \in DOMAIN old |-> f[x]] /\ Range(f) = O
    BY DEF Range
  <2> HIDE DEF f, O
  <2>3. IsFiniteSet(O) /\ Cardinality(O) <= Cardinality(DOMAIN old)
    BY <2>1, <2>2, ImageBound
  <2>4. Cardinality(O) \in Nat
    BY <2>3, FS_CardinalityType
  <2> QED
    BY <1>2, <2>1, <2>3, <2>4, ElmAssumption
<1>5. IsFiniteSet(N) /\ Cardinality(N) \in Nat /\ Cardinality(N) <= MaxChildren - 1
  <2> DEFINE f == [i \in D |-> new[i].elm]
  <2>1. IsFiniteSet(DOMAIN new) /\ Cardinality(DOMAIN new) = Len(new)
    BY <1>2, Counted
  <2>2. IsFiniteSet(D) /\ Cardinality(D) = Len(new) - 1
    <3>1. j \in DOMAIN new
      BY ListFacts
    <3> QED
      BY <2>1, <3>1, FS_RemoveElement
  <2>3. DOMAIN f = D /\ f = [x \in D |-> f[x]] /\ Range(f) = N
    BY DEF Range
  <2> HIDE DEF f, N, D
  <2>4. IsFiniteSet(N) /\ Cardinality(N) <= Cardinality(D)
    BY <2>2, <2>3, ImageBound
  <2>5. Cardinality(N) \in Nat
    BY <2>4, FS_CardinalityType
  <2> QED
    BY <1>2, <2>2, <2>4, <2>5, ElmAssumption
<1> HIDE DEF O, N, D
<1>6. IsFiniteSet(leaving \cup O) /\ Cardinality(leaving \cup O) \in Nat
      /\ Cardinality(leaving \cup O) <= MaxLeaving + MaxChildren
  <2>1. /\ IsFiniteSet(leaving \cup O)
        /\ Cardinality(leaving \cup O) = Cardinality(leaving) + Cardinality(O) - Cardinality(leaving \cap O)
    BY <1>3, <1>4, FS_Union
  <2>2. Cardinality(leaving \cap O) \in Nat /\ Cardinality(leaving \cup O) \in Nat
    BY <1>3, <2>1, FS_Intersection, FS_CardinalityType
  <2> QED
    BY <1>3, <1>4, <2>1, <2>2, ElmAssumption
<1>7. IsFiniteSet(leaving \cup O \cup N)
      /\ Cardinality(leaving \cup O \cup N) < 2 * MaxChildren + MaxLeaving
  <2>1. /\ IsFiniteSet(leaving \cup O \cup N)
        /\ Cardinality(leaving \cup O \cup N)
           = Cardinality(leaving \cup O) + Cardinality(N) - Cardinality((leaving \cup O) \cap N)
    BY <1>5, <1>6, FS_Union
  <2>2. Cardinality((leaving \cup O) \cap N) \in Nat
    BY <1>6, FS_Intersection, FS_CardinalityType
  <2> QED
    BY <1>5, <1>6, <2>1, <2>2, ElmAssumption
<1>8. Elms \ Used # {}
  <2> SUFFICES ASSUME Elms \subseteq Used PROVE FALSE
    OBVIOUS
  <2>1. Elms \in SUBSET (leaving \cup O \cup N)
    BY <1>1
  <2>2. Cardinality(Elms) <= Cardinality(leaving \cup O \cup N)
    BY <1>7, <2>1, FS_Subset
  <2>3. Cardinality(Elms) = 2 * MaxChildren + MaxLeaving
    BY ElmsCounted
  <2>4. IsFiniteSet(leaving \cup O \cup N) => Cardinality(leaving \cup O \cup N) \in Nat
    BY FS_CardinalityType
  <2> QED
    BY <1>7, <2>2, <2>3, <2>4, ElmAssumption
<1>9. \E e \in Elms \ Used : \A f \in Elms \ Used : e <= f
  <2> DEFINE T == Elms \ Used
  <2>1. T \subseteq Nat /\ T # {}
    BY <1>8, ElmsAreNumbers
  <2> HIDE DEF T
  <2>2. \E e \in T : \A f \in T : e <= f
    BY <2>1, LeastElement
  <2> QED
    BY <2>2 DEF T
<1> QED
  BY <1>9 DEF Fresh

\* What making an element e for the new vnode j has done.
Created(j, e) ==
    /\ j \in Undone /\ j \in DOMAIN new /\ ~ removeOnly
    /\ e \in Elms /\ e \notin Used
    /\ Takes(j, e)
    /\ Mid' = Mid /\ Undone' = Undone \ {j} /\ old' = old
    /\ shown' \in NodeShows
    /\ \A x \in Elms : shown'[x] = IF x = e THEN [tag |-> new[j].tag, text |-> new[j].text] ELSE shown[x]
    /\ refs' \in RefTargets
    /\ \A k \in Refs : refs'[k] = IF k = new[j].ref THEN e ELSE refs[k]
    /\ \A l \in Mid : ~ SameChild(old[l], new[j])
    /\ UNCHANGED <<leaving, goal, removeOnly, prev>>

LEMMA CreateFacts ==
    ASSUME Inv, NEW j \in Undone, ~ removeOnly, NEW ref, CreateElm(j, ref),
           Mid' = Mid, Undone' = Undone \ {j}, old' = old,
           \A l \in Mid : ~ SameChild(old[l], new[j]),
           UNCHANGED <<leaving, goal, removeOnly, prev>>
    PROVE  \E e : Created(j, e) /\ dom' = Insert(dom, e, ref)
<1>1. Typed /\ Bounds /\ Lists /\ Present
  BY DEF Inv
<1>2. PICK e : e = Fresh(Used)
  OBVIOUS
<1>3. e \in Elms /\ e \notin Used
  BY <1>1, <1>2, FreshFacts
<1>4. j \in DOMAIN new /\ new[j] \in VnodeSet
  BY <1>1, ListFacts
<1>5. Takes(j, e)
  <2>1. Gets(j, e)
    BY <1>2 DEF CreateElm, Gets
  <2> QED
    BY <1>1, <1>3, <2>1, TakesFacts
<1>6. PICK v : v = [new[j] EXCEPT !.elm = e]
  OBVIOUS
<1>7. /\ v \in VnodeSet /\ v.elm = e
      /\ v.key = new[j].key /\ v.tag = new[j].tag /\ v.text = new[j].text /\ v.ref = new[j].ref
  BY <1>3, <1>4, <1>6 DEF VnodeSet
<1>8. /\ shown' \in NodeShows
      /\ \A x \in Elms : shown'[x] = IF x = e THEN [tag |-> new[j].tag, text |-> new[j].text] ELSE shown[x]
  <2>1. shown' = [shown EXCEPT ![e] = [tag |-> v.tag, text |-> v.text]]
    BY <1>2, <1>6 DEF CreateElm
  <2>2. shown \in NodeShows
    BY <1>1 DEF Typed, NodeShows
  <2>3. v.tag \in Tags /\ v.text \in Texts
    BY <1>7 DEF VnodeSet
  <2> QED
    BY <1>3, <1>7, <2>1, <2>2, <2>3 DEF NodeShows
<1>9. /\ refs' \in RefTargets
      /\ \A k \in Refs : refs'[k] = IF k = new[j].ref THEN e ELSE refs[k]
  <2>1. refs' = Register(refs, v)
    BY <1>2, <1>6 DEF CreateElm
  <2>2. PICK r \in RefTargets : r = refs
    BY <1>1 DEF Typed, RefTargets
  <2>3. /\ Register(r, v) \in RefTargets
        /\ \A k \in Refs : Register(r, v)[k] = IF k = v.ref THEN v.elm ELSE r[k]
    BY <1>7, RegisterFacts
  <2> QED
    BY <1>7, <2>1, <2>2, <2>3
<1>10. dom' = Insert(dom, e, ref)
  BY <1>2 DEF CreateElm
<1>11. Created(j, e)
  BY <1>3, <1>4, <1>5, <1>8, <1>9 DEF Created
<1> QED
  BY <1>10, <1>11

LEMMA CreatedFacts ==
    ASSUME Typed, Bounds, Lists, NEW j, NEW e, Created(j, e)
    PROVE  /\ \A l \in Undone' : l \in Undone /\ l # j /\ l \in DOMAIN new /\ new'[l] = new[l]
           /\ \A l \in Done : l # j /\ l \in DOMAIN new /\ l \in Done' /\ new'[l] = new[l] /\ new[l].elm # e
           /\ \A l \in Done' : l = j \/ l \in Done
           /\ j \in Done' /\ new'[j].elm = e
           /\ \A l \in Undone : l = j \/ l \in Undone'
           /\ \A m \in Mid : m \in DOMAIN old /\ old[m].elm # e
           /\ e \notin Range(dom)
<1>1. \A l \in DOMAIN new : new[l].elm # e
  BY DEF Created, Used
<1>2. \A m \in Mid : m \in DOMAIN old /\ old[m].elm # e
  BY ListFacts DEF Created, Used
<1>3. e \notin Range(dom)
  BY DEF Created, Used
<1> QED
  BY <1>1, <1>2, <1>3, ListFacts DEF Created, Takes, Done

LEMMA CreateTyped ==
    ASSUME Typed, NEW j, NEW e, Created(j, e), Doc(dom'), Range(dom') = Range(dom) \cup {e}
    PROVE  Typed'
<1>1. dom' \in Seq(Elms) /\ IsInjective(dom')
  BY DEF Doc
<1>2. shown' \in [Elms -> [tag : Tags, text : Texts]] /\ refs' \in [Refs -> Elms \cup {NoElm}]
  BY DEF Created, NodeShows, RefTargets
<1>3. leaving' \subseteq Range(dom') /\ Cardinality(leaving') <= MaxLeaving
  <2>1. leaving' = leaving
    BY DEF Created
  <2> QED
    BY <2>1 DEF Typed
<1>4. Children(old)' /\ Children(new)' /\ Children(goal)' /\ Children(prev)'
  BY DEF Typed, Created, Takes, Children
<1>5. removeOnly' \in BOOLEAN
  BY DEF Typed, Created
<1> QED
  BY <1>1, <1>2, <1>3, <1>4, <1>5 DEF Typed

LEMMA CreateLists ==
    ASSUME Typed, Bounds, Lists, NEW j, NEW e, Created(j, e)
    PROVE  Lists'
<1>1. old' = old /\ goal' = goal /\ removeOnly' = removeOnly /\ Mid' = Mid /\ ~ removeOnly
  BY DEF Created
<1>2. Distinct(new')
  BY DEF Lists, Distinct, Created, Takes
<1>3. \A l \in Done' : new'[l].elm \in Elms
  <2>1. e \in Elms
    BY DEF Created
  <2> QED
    BY <2>1, CreatedFacts DEF Lists
<1>4. \A l \in Undone' : new'[l].elm = NoElm
  BY <1>1, CreatedFacts DEF Lists
<1> QED
  BY <1>1, <1>2, <1>3, <1>4 DEF Lists

LEMMA CreateMapped ==
    ASSUME Typed, Bounds, Lists, Mapped, NEW j, NEW e, Created(j, e), Leads(keyToOld')
    PROVE  Mapped'
<1>1. old' = old /\ Mid' = Mid
  BY DEF Created
<1>2. \A k \in DOMAIN old', l \in Undone' :
         old'[k].key = new'[l].key /\ new'[l].key # NoKey => k \in Mid'
  BY <1>1, CreatedFacts DEF Mapped
<1> QED
  BY <1>1, <1>2 DEF Mapped, Leads

LEMMA CreatePresent ==
    ASSUME Typed, Bounds, Lists, Present, NEW j, NEW e, Created(j, e), Range(dom') = Range(dom) \cup {e}
    PROVE  Present'
<1>1. leaving' = leaving /\ old' = old /\ Mid' = Mid
  BY DEF Created
<1>2. e \notin leaving
  BY CreatedFacts DEF Typed
<1>3. {new'[l].elm : l \in Done'} = {new[l].elm : l \in Done} \cup {e}
  BY CreatedFacts
<1> QED
  BY <1>1, <1>2, <1>3 DEF Present

LEMMA CreateShows ==
    ASSUME Typed, Bounds, Lists, Shows, NEW j, NEW e, Created(j, e)
    PROVE  Shows'
<1>1. old' = old /\ Mid' = Mid /\ e \in Elms
  BY DEF Created
<1>2. \A x \in Elms : x # e => shown'[x] = shown[x]
  BY DEF Created
<1>3. ASSUME NEW l \in Mid' PROVE shown'[old'[l].elm] = [tag |-> old'[l].tag, text |-> old'[l].text]
  <2>1. l \in Mid /\ old[l].elm \in Elms /\ old[l].elm # e
    BY <1>1, CreatedFacts DEF Lists, Mid
  <2>2. shown[old[l].elm] = [tag |-> old[l].tag, text |-> old[l].text]
    BY <2>1 DEF Shows
  <2> QED
    BY <1>1, <1>2, <2>1, <2>2
<1>4. ASSUME NEW l \in Done' PROVE shown'[new'[l].elm] = [tag |-> new'[l].tag, text |-> new'[l].text]
  <2>1. CASE l = j
    <3>1. shown'[e] = [tag |-> new[j].tag, text |-> new[j].text]
      BY <1>1 DEF Created
    <3>2. new'[j].elm = e /\ new'[j].tag = new[j].tag /\ new'[j].text = new[j].text
      BY DEF Created, Takes
    <3> QED
      BY <2>1, <3>1, <3>2
  <2>2. CASE l # j
    <3>1. l \in Done /\ new'[l] = new[l] /\ new[l].elm # e /\ new[l].elm \in Elms
      BY <2>2, CreatedFacts DEF Lists
    <3>2. shown[new[l].elm] = [tag |-> new[l].tag, text |-> new[l].text]
      BY <3>1 DEF Shows
    <3> QED
      BY <1>2, <3>1, <3>2
  <2> QED
    BY <2>1, <2>2
<1> QED
  BY <1>3, <1>4 DEF Shows

LEMMA CreateNames ==
    ASSUME Typed, Bounds, Lists, Names, NEW j, NEW e, Created(j, e)
    PROVE  Names'
<1> DEFINE v == new[j].ref
<1>1. old' = old /\ Mid' = Mid /\ j \in DOMAIN new /\ j \in Undone
  BY DEF Created
<1>2. new'[j].elm = e /\ new'[j].ref = v
  BY DEF Created, Takes
<1>3. \A k \in Refs : refs'[k] = IF k = v THEN e ELSE refs[k]
  BY DEF Created
<1> HIDE DEF v
<1>4. \A l \in Done : new[l].ref # NoRef => new[l].ref # v
  BY <1>1, CreatedFacts DEF Lists, Distinct, v
<1>5. ASSUME NEW l \in Done', new'[l].ref # NoRef PROVE refs'[new'[l].ref] = new'[l].elm
  <2>1. CASE l = j
    <3>1. v \in Refs
      BY <1>1, <1>2, <1>5, <2>1, RefFacts DEF v
    <3> QED
      BY <1>2, <1>3, <2>1, <3>1
  <2>2. CASE l # j
    <3>1. l \in Done /\ new'[l] = new[l] /\ l \in DOMAIN new
      BY <2>2, CreatedFacts
    <3>2. new[l].ref \in Refs /\ new[l].ref # v
      BY <1>4, <1>5, <3>1, RefFacts
    <3>3. refs[new[l].ref] = new[l].elm
      BY <1>5, <3>1 DEF Names
    <3> QED
      BY <1>3, <3>1, <3>2, <3>3
  <2> QED
    BY <2>1, <2>2
<1>6. ASSUME NEW l \in Mid', old'[l].ref # NoRef
      PROVE  refs'[old'[l].ref] = old'[l].elm \/ \E m \in Done' : new'[m].ref = old'[l].ref
  <2>1. l \in Mid /\ l \in DOMAIN old /\ old[l].ref \in Refs
    BY <1>1, <1>6, CreatedFacts, RefFacts
  <2>2. CASE old[l].ref = v
    BY <1>1, <1>2, <2>2, CreatedFacts
  <2>3. CASE \E m \in Done : new[m].ref = old[l].ref
    BY <1>1, <2>3, CreatedFacts
  <2>4. CASE old[l].ref # v /\ refs[old[l].ref] = old[l].elm
    BY <1>1, <1>3, <2>1, <2>4
  <2> QED
    BY <1>1, <1>6, <2>1, <2>2, <2>3, <2>4 DEF Names
<1>7. ASSUME NEW r \in Refs, refs'[r] # NoElm
      PROVE  \/ \E m \in Done' : new'[m].ref = r
             \/ \E l \in Mid' : old'[l].ref = r /\ old'[l].elm = refs'[r]
  <2>1. CASE r = v
    BY <1>2, <2>1, CreatedFacts
  <2>2. CASE r # v
    <3>1. refs'[r] = refs[r]
      BY <1>3, <2>2
    <3>2. CASE \E m \in Done : new[m].ref = r
      BY <3>2, CreatedFacts
    <3>3. CASE \E l \in Mid : old[l].ref = r /\ old[l].elm = refs[r]
      BY <1>1, <3>1, <3>3
    <3> QED
      BY <1>7, <3>1, <3>2, <3>3 DEF Names
  <2> QED
    BY <2>1, <2>2
<1> QED
  BY <1>5, <1>6, <1>7 DEF Names

LEMMA CreateReuses ==
    ASSUME Typed, Bounds, Lists, Reuses, NEW j, NEW e, Created(j, e)
    PROVE  Reuses'
<1>1. /\ old' = old /\ Mid' = Mid /\ prev' = prev /\ removeOnly' = removeOnly /\ ~ removeOnly
      /\ DOMAIN new' = DOMAIN new
      /\ \A l \in DOMAIN new : new'[l].key = new[l].key /\ new'[l].tag = new[l].tag
  BY DEF Created, Takes
<1> SUFFICES ASSUME NEW k \in DOMAIN prev, NEW l \in DOMAIN new, SameChild(prev[k], new'[l])
             PROVE  IF l \in Undone' THEN \E m \in Mid : SameElement(old[m], prev[k])
                    ELSE new'[l].elm = prev[k].elm
  BY <1>1 DEF Reuses
<1>2. SameChild(prev[k], new[l])
  BY <1>1 DEF SameChild
<1>3. CASE l \notin Undone
  <2>1. l \in Done /\ new[l].elm = prev[k].elm
    BY <1>1, <1>2, <1>3 DEF Reuses, Done
  <2> QED
    BY <1>3, <2>1, CreatedFacts
<1>4. CASE l \in Undone
  <2>1. PICK m \in Mid : SameElement(old[m], prev[k])
    BY <1>1, <1>2, <1>4 DEF Reuses
  <2>2. l # j
    <3>1. l = j => SameChild(old[m], new[j])
      BY <1>2, <2>1 DEF SameChild, SameElement
    <3> QED
      BY <2>1, <3>1 DEF Created
  <2> QED
    BY <1>4, <2>1, <2>2, CreatedFacts
<1> QED
  BY <1>3, <1>4

\* A new element where it belongs.
Put(t, j, e) ==
    /\ Adds(t, dom, e)
    /\ \A l \in Done : new[l].elm # e /\ l < j => Before(t, new[l].elm, e)
    /\ \A l \in Done : new[l].elm # e /\ l > j => Before(t, e, new[l].elm)
    /\ \A m \in Mid : old[m].elm # e => Before(t, e, old[m].elm)

LEMMA CreateKeeps ==
    ASSUME Inv, NEW j, NEW e, Created(j, e), Bounds', Phase', Leads(keyToOld'),
           AtStart(j), Put(dom', j, e)
    PROVE  Inv'
<1>1. Typed /\ Bounds /\ Lists /\ Mapped /\ Present /\ Order /\ Shows /\ Names /\ Reuses
  BY DEF Inv
<1>2. Doc(dom') /\ Range(dom') = Range(dom) \cup {e}
  BY DEF Adds, Put
<1>3. Typed'
  BY <1>1, <1>2, CreateTyped
<1>4. Lists'
  BY <1>1, CreateLists
<1>5. Mapped'
  BY <1>1, CreateMapped
<1>6. Present'
  BY <1>1, <1>2, CreatePresent
<1>7. Shows'
  BY <1>1, CreateShows
<1>8. Names'
  BY <1>1, CreateNames
<1>9. Reuses'
  BY <1>1, CreateReuses
<1>10. Order'
  <2>1. ~ removeOnly /\ removeOnly' = removeOnly /\ Mid' = Mid /\ old' = old
    BY DEF Created
  <2>2. Sorted
    BY <1>1, <2>1 DEF Order
  <2>3. j \in Undone /\ Takes(j, e)
    BY DEF Created
  <2>4. \A m \in Mid' : m \in Mid /\ old'[m] = old[m] /\ old[m].elm # e
    BY <1>1, <2>1, CreatedFacts
  <2>5. \A l \in Done : new[l].elm # e
    BY <1>1, CreatedFacts
  <2>6. /\ Adds(dom', dom, e)
        /\ \A l \in Done : l < j => Before(dom', new[l].elm, e)
        /\ \A l \in Done : l > j => Before(dom', e, new[l].elm)
        /\ \A m \in Mid' : Before(dom', e, old[m].elm)
    BY <2>4, <2>5 DEF Put
  <2>7. Places(j, e)
    BY <2>3, <2>4, <2>5, <2>6 DEF Places
  <2>8. Sorted'
    BY <1>1, <2>2, <2>7, PlacesSorted
  <2> QED
    BY <2>1, <2>8 DEF Order
<1> QED
  BY <1>3, <1>4, <1>5, <1>6, <1>7, <1>8, <1>9, <1>10 DEF Inv

LEMMA CreatedLengths ==
    ASSUME Typed, NEW j, NEW e, Created(j, e)
    PROVE  Len(old') = Len(old) /\ Len(new') = Len(new)
<1>1. DOMAIN new' = DOMAIN new /\ Children(new') /\ Children(new) /\ old' = old
  BY DEF Created, Takes, Typed
<1>2. Len(new') = Len(new)
  BY <1>1, LenDomain DEF Children
<1> QED
  BY <1>1, <1>2

\* The pass that only removes finds every new vnode among the old ones.
LEMMA CreateNewFacts ==
    ASSUME Inv, CreateNew
    PROVE  ~ removeOnly /\ \A l \in Mid : ~ SameChild(old[l], new[newStart])
<1>1. Typed /\ Bounds /\ Lists /\ Mapped
  BY DEF Inv
<1>2. Turn /\ ~ Found /\ newStart \in Undone /\ newStart <= newEnd
  BY EndsFacts DEF CreateNew, Turn, NoEndsMatch
<1>3. \A l \in Mid : ~ SameChild(old[l], new[newStart])
  BY <1>1, <1>2, NotFoundFacts DEF SameChild, NewStart
<1>4. ~ removeOnly
  <2> SUFFICES ASSUME removeOnly PROVE FALSE
    OBVIOUS
  <2>1. PICK l \in Mid : old[l] = new[newStart] /\ new[newStart].key # NoKey
    BY <1>1, <1>2 DEF Lists
  <2> QED
    BY <1>3, <2>1 DEF SameChild
<1> QED
  BY <1>3, <1>4

LEMMA CreateNewKeeps == ASSUME Inv, CreateNew PROVE Inv'
<1> DEFINE j == newStart
           f == OldStart.elm
<1>1. Typed /\ Bounds /\ Lists /\ Mapped /\ Present /\ Order
  BY DEF Inv
<1>2. /\ Turn /\ Has(OldStart) /\ ~ Found /\ CreateElm(j, f)
      /\ keyToOld' = KeyMap /\ newStart' = newStart + 1
      /\ old' = old /\ oldStart' = oldStart /\ oldEnd' = oldEnd /\ newEnd' = newEnd
  BY DEF CreateNew, NoEndsMatch, Ends
<1>3. /\ mode = "loop" /\ j \in Undone /\ oldStart \in Mid
      /\ oldStart \in Nat /\ oldEnd \in Nat /\ newStart \in Nat /\ newEnd \in Nat
      /\ newStart <= newEnd
      /\ UNCHANGED <<leaving, goal, removeOnly, mode, prev>>
  BY <1>2, EndsFacts DEF Turn
<1>4. \A l \in Mid : ~ SameChild(old[l], new[j])
  BY CreateNewFacts
<1>5. ~ removeOnly
  BY CreateNewFacts
<1>6. Mid' = Mid /\ Undone' = Undone \ {j}
  BY <1>2, <1>3 DEF Mid, Undone
<1>7. PICK e : Created(j, e) /\ dom' = Insert(dom, e, f)
  <2> HIDE DEF j, f
  <2> QED
    BY <1>2, <1>3, <1>4, <1>5, <1>6, CreateFacts
<1>8. e \in Elms /\ e # f /\ f \in Range(dom)
  <2>1. e \in Elms /\ e \notin Range(dom)
    BY <1>7 DEF Created, Used
  <2> QED
    BY <1>1, <1>3, <2>1 DEF Present, OldStart
<1>9. dom' = InsertBefore(dom, e, old[oldStart].elm)
  <2>1. Contains(dom, f)
    BY <1>1, <1>8, ContainsFacts DEF Typed, Doc
  <2> QED
    BY <1>7, <2>1 DEF Insert, OldStart
<1>10. Put(dom', j, e)
  <2>1. \A l \in Done : (l < j => l < newStart) /\ (l > j => l > newEnd)
    BY <1>2, <1>3, EndsFacts
  <2>2. Sorted
    BY <1>1, <1>5 DEF Order
  <2>3. e # old[oldStart].elm
    BY <1>8 DEF OldStart
  <2> HIDE DEF j
  <2> QED
    BY <1>1, <1>3, <1>8, <1>9, <2>1, <2>2, <2>3, PutAtStart DEF Put
<1>11. Bounds'
  <2>1. Len(old') = Len(old) /\ Len(new') = Len(new)
    BY <1>1, <1>7, CreatedLengths
  <2> QED
    BY <1>1, <1>2, <1>3, <2>1 DEF Bounds, Turn
<1>12. Phase'
  BY <1>3 DEF Phase
<1>13. Leads(keyToOld')
  BY <1>1, <1>2, KeyMapFacts
<1>14. AtStart(j)
  BY <1>2 DEF AtStart
<1> HIDE DEF j
<1> QED
  BY <1>7, <1>10, <1>11, <1>12, <1>13, <1>14, CreateKeeps

\* The pass that only removes leaves nothing to be added.
LEMMA AddVnodeFacts == ASSUME Inv, AddVnode PROVE ~ removeOnly /\ Mid = {} /\ newStart \in Undone
<1>1. oldStart > oldEnd /\ newStart <= newEnd
  BY DEF AddVnode
<1>2. Lists /\ oldStart \in Nat /\ oldEnd \in Nat /\ newStart \in Nat /\ newEnd \in Nat
  BY ListFacts DEF Inv
<1>3. Mid = {} /\ newStart \in Undone
  BY ONLY <1>1, <1>2 DEF Mid, Undone
<1> QED
  BY <1>2, <1>3 DEF Lists

LEMMA AddVnodeKeeps == ASSUME Inv, AddVnode PROVE Inv'
<1> DEFINE j == newStart
           f == IF newEnd = Len(new) THEN NoElm ELSE new[newEnd + 1].elm
<1>1. Typed /\ Bounds /\ Lists /\ Mapped /\ Present /\ Order
  BY DEF Inv
<1>2. /\ mode = "rest" /\ oldStart > oldEnd /\ newStart <= newEnd /\ CreateElm(j, f)
      /\ newStart' = newStart + 1
      /\ leaving' = leaving /\ old' = old /\ goal' = goal /\ oldStart' = oldStart
      /\ oldEnd' = oldEnd /\ newEnd' = newEnd /\ keyToOld' = keyToOld
      /\ removeOnly' = removeOnly /\ mode' = mode /\ prev' = prev
  BY DEF AddVnode
<1>3. /\ oldStart \in Nat /\ oldEnd \in Nat /\ newStart \in Nat /\ newEnd \in Nat
      /\ Len(new) \in Nat /\ DOMAIN new = 1 .. Len(new) /\ newEnd <= Len(new)
  BY <1>1, ListFacts DEF Bounds
<1>4. j \in Undone /\ Mid = {} /\ Mid' = Mid /\ Undone' = Undone \ {j}
  <2>1. oldStart > oldEnd /\ newStart <= newEnd
    BY <1>2
  <2>2. Mid = {}
    BY ONLY <1>3, <2>1 DEF Mid
  <2>3. Mid' = Mid
    BY <1>2 DEF Mid
  <2>4. newStart' = newStart + 1 /\ newEnd' = newEnd
    BY <1>2
  <2>5. j \in Undone /\ Undone' = Undone \ {j}
    BY ONLY <1>3, <2>1, <2>4 DEF Undone
  <2> QED
    BY <2>2, <2>3, <2>5
<1>5. ~ removeOnly
  BY AddVnodeFacts
<1>6. PICK e : Created(j, e) /\ dom' = Insert(dom, e, f)
  <2>1. \A l \in Mid : ~ SameChild(old[l], new[j])
    BY <1>4
  <2> HIDE DEF j, f
  <2> QED
    BY <1>2, <1>4, <1>5, <2>1, CreateFacts
<1>7. e \in Elms /\ e \notin Range(dom)
  BY <1>6 DEF Created, Used
<1>8. Doc(dom) /\ Sorted
  BY <1>1, <1>5 DEF Typed, Doc, Order
<1>9. Put(dom', j, e)
  <2>1. \A l \in Done : l \in DOMAIN new /\ l \in Nat /\ (l < newStart \/ l > newEnd) /\ l <= Len(new)
    BY <1>1, <1>3, ListFacts
  <2>2. \A l \in Done : new[l].elm \in Range(dom)
    BY <1>1 DEF Present
  <2>3. CASE newEnd = Len(new)
    <3>1. dom' = InsertBefore(dom, e, NoElm)
      BY <1>6, <2>3 DEF Insert
    <3>2. Adds(dom', dom, e) /\ \A x \in Range(dom) : x # e => Before(dom', x, e)
      BY <1>7, <1>8, <3>1, InsertLastFacts
    <3>3. \A l \in Done : ~ l > j
      BY <1>2, <1>3, <2>1, <2>3
    <3> HIDE DEF j
    <3> QED
      BY <1>4, <2>2, <3>2, <3>3 DEF Put
  <2>4. CASE newEnd # Len(new)
    <3> DEFINE n == newEnd + 1
    <3>1. n \in Done
      BY <1>1, <1>3, <2>4, ListFacts
    <3>2. f = new[n].elm
      BY <2>4
    <3> HIDE DEF f
    <3>3. f \in Range(dom) /\ f # e
      BY <1>7, <2>2, <3>1, <3>2
    <3>4. dom' = InsertBefore(dom, e, f)
      BY <1>6, <1>8, <3>3, ContainsFacts DEF Insert
    <3>5. /\ Adds(dom', dom, e)
          /\ Before(dom', e, f)
          /\ \A x : Before(dom, x, f) /\ x # e => Before(dom', x, e)
          /\ \A y : Before(dom, f, y) /\ y # e => Before(dom', e, y)
      BY <1>7, <1>8, <3>3, <3>4, InsertBeforeFacts
    <3>6. \A l \in Done : l < n => Before(dom, new[l].elm, f)
      BY <1>8, <3>1, <3>2 DEF Sorted
    <3>7. \A l \in Done : l > n => Before(dom, f, new[l].elm)
      BY <1>8, <3>1, <3>2 DEF Sorted
    <3>8. \A l \in Done : (l < j => l < n) /\ (l > j => l > n \/ l = n)
      BY <1>2, <1>3, <2>1
    <3> HIDE DEF n, j
    <3> QED
      BY <1>4, <3>2, <3>5, <3>6, <3>7, <3>8 DEF Put
  <2> QED
    BY <2>3, <2>4
<1>10. Bounds'
  <2>1. Len(old') = Len(old) /\ Len(new') = Len(new)
    BY <1>1, <1>6, CreatedLengths
  <2>2. /\ newStart <= newEnd /\ newStart' = newStart + 1 /\ newEnd' = newEnd
        /\ oldStart' = oldStart /\ oldEnd' = oldEnd
    BY <1>2
  <2>3. Bounds
    BY <1>1
  <2> QED
    BY ONLY <1>3, <2>1, <2>2, <2>3 DEF Bounds
<1>11. Phase'
  BY <1>2 DEF Phase
<1>12. Leads(keyToOld')
  BY <1>1, <1>2, KeyMapFacts
<1>13. AtStart(j)
  BY <1>2 DEF AtStart
<1> HIDE DEF j
<1> QED
  BY <1>6, <1>9, <1>10, <1>11, <1>12, <1>13, CreateKeeps

-----------------------------------------------------------------------------
(* removeVnodes *)

\* The element of an old vnode is out of the document, or leaving.
Drops(e) ==
    \/ dom' = Without(dom, e) /\ leaving' = leaving
    \/ dom' = dom /\ leaving' = leaving \cup {e} /\ Cardinality(leaving) < MaxLeaving

LEMMA DropsFacts ==
    ASSUME Typed, NEW e \in Range(dom) \ leaving, Drops(e)
    PROVE  /\ Doc(dom')
           /\ leaving' \subseteq Range(dom') /\ Cardinality(leaving') <= MaxLeaving
           /\ Range(dom') \ leaving' = (Range(dom) \ leaving) \ {e}
           /\ \A x, y : Before(dom, x, y) /\ x # e /\ y # e => Before(dom', x, y)
           /\ \A x, y : Before(dom', x, y) => Before(dom, x, y)
<1>1. Doc(dom) /\ leaving \subseteq Range(dom) /\ Cardinality(leaving) <= MaxLeaving
  BY DEF Typed, Doc
<1>2. CASE dom' = Without(dom, e) /\ leaving' = leaving
  <2>1. PICK t : t = Without(dom, e)
    OBVIOUS
  <2>2. /\ Doc(t) /\ Range(t) = Range(dom) \ {e}
        /\ \A x, y : Before(dom, x, y) /\ x # e /\ y # e => Before(t, x, y)
        /\ \A x, y : Before(t, x, y) => Before(dom, x, y)
    BY <1>1, <2>1, WithoutFacts
  <2>3. dom' = t /\ leaving' = leaving
    BY <1>2, <2>1
  <2> QED
    BY <1>1, <2>2, <2>3
<1>3. CASE dom' = dom /\ leaving' = leaving \cup {e} /\ Cardinality(leaving) < MaxLeaving
  <2>1. IsFiniteSet(leaving)
    BY <1>1, DocFinite, FS_Subset
  <2>2. Cardinality(leaving \cup {e}) = Cardinality(leaving) + 1 /\ Cardinality(leaving) \in Nat
    BY <2>1, FS_AddElement, FS_CardinalityType
  <2>3. Cardinality(leaving') <= MaxLeaving
    BY <1>3, <2>2, ElmAssumption
  <2> QED
    BY <1>1, <1>3, <2>3
<1> QED
  BY <1>2, <1>3 DEF Drops

LEMMA RemoveVnodeKeeps == ASSUME Inv, RemoveVnode PROVE Inv'
<1>1. Typed /\ Bounds /\ Phase /\ Lists /\ Mapped /\ Present /\ Order /\ Shows /\ Names /\ Reuses /\ Apart
  BY OrderIsApart DEF Inv
<1>2. /\ mode = "rest" /\ oldStart <= oldEnd /\ newStart > newEnd
      /\ oldStart' = oldStart + 1
      /\ shown' = shown /\ old' = old /\ new' = new /\ goal' = goal /\ oldEnd' = oldEnd
      /\ newStart' = newStart /\ newEnd' = newEnd /\ keyToOld' = keyToOld
      /\ removeOnly' = removeOnly /\ mode' = mode /\ prev' = prev
  BY DEF RemoveVnode
<1>3. /\ Len(old) \in Nat /\ DOMAIN old = 1 .. Len(old)
      /\ oldStart \in Nat /\ oldEnd \in Nat /\ newStart \in Nat /\ newEnd \in Nat
      /\ oldStart \in DOMAIN old
      /\ \A i \in DOMAIN old : old[i] \in VnodeSet
  BY <1>1, <1>2, ListFacts DEF Bounds
<1>4. Bounds'
  <2>1. Bounds /\ oldStart <= oldEnd /\ oldStart' = oldStart + 1
        /\ old' = old /\ new' = new /\ oldEnd' = oldEnd /\ newStart' = newStart /\ newEnd' = newEnd
    BY <1>1, <1>2
  <2> QED
    BY ONLY <1>3, <2>1 DEF Bounds
<1>5. Phase'
  BY <1>2 DEF Phase
<1>6. Undone = {} /\ Undone' = {} /\ Done' = Done
  <2>1. Undone = {}
    BY <1>2, <1>3 DEF Undone
  <2>2. Undone' = Undone
    BY <1>2 DEF Undone
  <2> QED
    BY <1>2, <2>1, <2>2 DEF Done
<1>7. Mid' = Mid \ {oldStart} /\ (Has(OldStart) => oldStart \in Mid)
  <2>1. oldStart <= oldEnd /\ oldStart' = oldStart + 1 /\ oldEnd' = oldEnd /\ old' = old
    BY <1>2
  <2> QED
    BY ONLY <1>3, <2>1 DEF Mid, OldStart
<1>8. CASE ~ Has(OldStart)
  <2>1. Mid' = Mid
    BY <1>7, <1>8 DEF Mid, OldStart
  <2>2. dom' = dom /\ leaving' = leaving /\ refs' = refs
    BY <1>8 DEF RemoveVnode
  <2> QED
    BY <1>2, <1>4, <1>5, <2>1, <2>2, NothingKeeps
<1>9. CASE Has(OldStart)
  <2>1. PICK v, e : v = old[oldStart] /\ e = v.elm
    OBVIOUS
  <2>2. Drops(e) /\ refs' = Unregister(refs, v)
    BY <1>9, <2>1 DEF RemoveVnode, OldStart, Drops
  <2>3. e \in Range(dom) \ leaving
    BY <1>1, <1>7, <1>9, <2>1 DEF Present
  <2>4. /\ Doc(dom')
        /\ leaving' \subseteq Range(dom') /\ Cardinality(leaving') <= MaxLeaving
        /\ Range(dom') \ leaving' = (Range(dom) \ leaving) \ {e}
        /\ \A x, y : Before(dom, x, y) /\ x # e /\ y # e => Before(dom', x, y)
        /\ \A x, y : Before(dom', x, y) => Before(dom, x, y)
    BY <1>1, <2>2, <2>3, DropsFacts
  <2>5. refs \in RefTargets /\ v \in VnodeSet
    BY <1>1, <1>3, <2>1 DEF Typed, RefTargets
  <2>6. /\ refs' \in RefTargets
        /\ \A k \in Refs : refs'[k] = IF k = v.ref /\ refs[k] = e THEN NoElm ELSE refs[k]
    BY <2>1, <2>2, <2>5, UnregisterFacts
  <2>7. /\ \A i \in Mid : i # oldStart => old[i].elm # e
        /\ \A j \in Done : new[j].elm # e
        /\ oldStart \in Mid
    BY <1>1, <1>7, <1>9, <2>1 DEF Apart
  <2>8. Typed'
    BY <1>1, <1>2, <2>4, <2>6 DEF Typed, Doc, RefTargets, Children
  <2>9. Lists'
    BY <1>1, <1>2, <1>6 DEF Lists
  <2>10. Mapped'
    BY <1>1, <1>2, <1>6, <1>7 DEF Mapped
  <2>11. Present'
    <3>1. Range(dom') \ leaving' = ({old[i].elm : i \in Mid} \cup {new[j].elm : j \in Done}) \ {e}
      BY <1>1, <2>4 DEF Present
    <3>2. {old[i].elm : i \in Mid} \ {e} = {old[i].elm : i \in Mid \ {oldStart}}
      BY <2>1, <2>7
    <3>3. {new[j].elm : j \in Done} \ {e} = {new[j].elm : j \in Done}
      BY <2>7
    <3>4. Range(dom') \ leaving' = {old[i].elm : i \in Mid \ {oldStart}} \cup {new[j].elm : j \in Done}
      BY <3>1, <3>2, <3>3
    <3> QED
      BY <1>2, <1>6, <1>7, <3>4 DEF Present
  <2>12. Order'
    <3>1. CASE removeOnly
      <4>1. Increasing
        BY <1>1, <3>1 DEF Order
      <4>2. \A i, j \in DOMAIN dom' : i < j => dom'[i] < dom'[j]
        <5> SUFFICES ASSUME NEW i \in DOMAIN dom', NEW j \in DOMAIN dom', i < j PROVE dom'[i] < dom'[j]
          OBVIOUS
        <5>1. Before(dom, dom'[i], dom'[j])
          BY <2>4 DEF Before
        <5>2. PICK k \in DOMAIN dom, l \in DOMAIN dom : k < l /\ dom[k] = dom'[i] /\ dom[l] = dom'[j]
          BY <5>1 DEF Before
        <5> QED
          BY <4>1, <5>2 DEF Increasing
      <4>3. /\ \A i, j \in DOMAIN new' : i < j => new'[i].elm < new'[j].elm
            /\ \A i, j \in Mid' : i < j => old'[i].elm < old'[j].elm
            /\ \A i \in Mid', j \in Done' : old'[i].elm # new'[j].elm
        BY <1>2, <1>6, <1>7, <4>1 DEF Increasing
      <4> QED
        BY <1>2, <3>1, <4>2, <4>3 DEF Order, Increasing
    <3>2. CASE ~ removeOnly
      <4>1. Sorted
        BY <1>1, <3>2 DEF Order
      <4>2. Sorted'
        <5>1. \A i, j \in Mid' : i < j => Before(dom', old'[i].elm, old'[j].elm)
          BY <1>2, <1>7, <2>4, <2>7, <4>1 DEF Sorted
        <5>2. \A i, j \in Done' : i < j => Before(dom', new'[i].elm, new'[j].elm)
          BY <1>2, <1>6, <2>4, <2>7, <4>1 DEF Sorted
        <5>3. \A i \in Mid', j \in Done' : j < newStart' => Before(dom', new'[j].elm, old'[i].elm)
          BY <1>2, <1>6, <1>7, <2>4, <2>7, <4>1 DEF Sorted
        <5>4. \A i \in Mid', j \in Done' : j > newEnd' => Before(dom', old'[i].elm, new'[j].elm)
          BY <1>2, <1>6, <1>7, <2>4, <2>7, <4>1 DEF Sorted
        <5> QED
          BY <5>1, <5>2, <5>3, <5>4 DEF Sorted
      <4> QED
        BY <1>2, <3>2, <4>2 DEF Order
    <3> QED
      BY <3>1, <3>2
  <2>13. Shows'
    BY <1>1, <1>2, <1>6, <1>7 DEF Shows
  <2>14. Names'
    <3>1. /\ \A l \in DOMAIN new : new[l].ref # NoRef => new[l].ref \in Refs
          /\ \A l \in DOMAIN old : old[l].ref # NoRef => old[l].ref \in Refs
          /\ Mid \subseteq DOMAIN old /\ Done \subseteq DOMAIN new
      BY <1>1, RefFacts, ListFacts
    <3>2. \A j \in Done' : new'[j].ref # NoRef => refs'[new'[j].ref] = new'[j].elm
      BY <1>1, <1>2, <1>6, <2>6, <2>7, <3>1 DEF Names
    <3>3. \A i \in Mid' : old'[i].ref # NoRef =>
             refs'[old'[i].ref] = old'[i].elm \/ \E j \in Done' : new'[j].ref = old'[i].ref
      BY <1>1, <1>2, <1>6, <1>7, <2>6, <2>7, <3>1 DEF Names
    <3>4. \A r \in Refs' : refs'[r] # NoElm =>
             \/ \E j \in Done' : new'[j].ref = r
             \/ \E i \in Mid' : old'[i].ref = r /\ old'[i].elm = refs'[r]
      <4> SUFFICES ASSUME NEW r \in Refs, refs'[r] # NoElm
                   PROVE  \/ \E j \in Done : new[j].ref = r
                          \/ \E i \in Mid \ {oldStart} : old[i].ref = r /\ old[i].elm = refs'[r]
        BY <1>2, <1>6, <1>7 DEF Refs
      <4>1. refs'[r] = refs[r] /\ ~ (r = v.ref /\ refs[r] = e)
        BY <2>6
      <4>2. (\E j \in Done : new[j].ref = r) \/ (\E i \in Mid : old[i].ref = r /\ old[i].elm = refs[r])
        BY <1>1, <4>1 DEF Names
      <4> QED
        BY <2>1, <4>1, <4>2
    <3> QED
      BY <3>2, <3>3, <3>4 DEF Names
  <2>15. Reuses'
    <3>1. CASE removeOnly
      BY <1>1, <1>2, <3>1 DEF Reuses
    <3>2. CASE ~ removeOnly
      BY <1>1, <1>2, <1>6, <3>2 DEF Reuses
    <3> QED
      BY <3>1, <3>2
  <2> QED
    BY <1>4, <1>5, <2>8, <2>9, <2>10, <2>11, <2>12, <2>13, <2>14, <2>15 DEF Inv
<1> QED
  BY <1>8, <1>9

-----------------------------------------------------------------------------
(* The end of a pass and the beginning of the next *)

\* Every new vnode has been dealt with and no old one remains.
Settled ==
    /\ Mid = {} /\ Undone = {} /\ Done = DOMAIN new
    /\ Distinct(new)
    /\ \A j \in DOMAIN new : new[j].elm \in Elms
    /\ Range(dom) \ leaving = {new[j].elm : j \in DOMAIN new}
    /\ \A i, j \in DOMAIN new : i < j => Before(dom, new[i].elm, new[j].elm)
    /\ \A j \in DOMAIN new : shown[new[j].elm] = [tag |-> new[j].tag, text |-> new[j].text]
    /\ \A j \in DOMAIN new : new[j].ref # NoRef => refs[new[j].ref] = new[j].elm
    /\ \A r \in Refs : refs[r] # NoElm =>
          \E j \in DOMAIN new : new[j].ref = r /\ new[j].elm = refs[r]

LEMMA IncreasingIsBefore ==
    ASSUME Doc(dom), \A i, j \in DOMAIN dom : i < j => dom[i] < dom[j],
           NEW x \in Range(dom), NEW y \in Range(dom), x < y
    PROVE  Before(dom, x, y)
<1>1. PICK i \in DOMAIN dom, j \in DOMAIN dom : dom[i] = x /\ dom[j] = y
  BY DEF Range
<1>2. i \in Nat /\ j \in Nat /\ x \in Nat /\ y \in Nat
  <2>1. DOMAIN dom = 1 .. Len(dom) /\ Len(dom) \in Nat /\ dom[i] \in Elms /\ dom[j] \in Elms
    BY DEF Doc
  <2>2. Elms \subseteq Nat
    BY ElmsAreNumbers
  <2>3. i \in Nat /\ j \in Nat
    BY <1>1, <2>1
  <2>4. x \in Elms /\ y \in Elms
    BY ONLY <1>1, <2>1
  <2> QED
    BY <2>2, <2>3, <2>4
<1>3. i # j /\ ~ j < i
  BY <1>1, <1>2
<1>4. i < j
  BY <1>2, <1>3
<1> QED
  BY <1>1, <1>4 DEF Before

LEMMA DoneFacts == ASSUME Inv, oldStart > oldEnd, newStart > newEnd PROVE Settled
<1>1. Typed /\ Bounds /\ Lists /\ Present /\ Order /\ Shows /\ Names
  BY DEF Inv
<1>2. oldStart \in Nat /\ oldEnd \in Nat /\ newStart \in Nat /\ newEnd \in Nat
  BY <1>1, ListFacts
<1>3. Mid = {} /\ Undone = {}
  <2>1. Mid = {}
    BY ONLY <1>2, oldStart > oldEnd DEF Mid
  <2>2. Undone = {}
    BY ONLY <1>2, newStart > newEnd DEF Undone
  <2> QED
    BY <2>1, <2>2
<1>4. Done = DOMAIN new
  BY <1>3 DEF Done
<1>5. Distinct(new) /\ \A j \in DOMAIN new : new[j].elm \in Elms
  BY <1>1, <1>4 DEF Lists
<1>6. Range(dom) \ leaving = {new[j].elm : j \in DOMAIN new}
  BY <1>1, <1>3, <1>4 DEF Present
<1>7. ASSUME NEW i \in DOMAIN new, NEW j \in DOMAIN new, i < j
      PROVE  Before(dom, new[i].elm, new[j].elm)
  <2>1. CASE removeOnly
    <3>1. new[i].elm < new[j].elm
      BY <1>1, <1>7, <2>1 DEF Order, Increasing
    <3>2. new[i].elm \in Range(dom) /\ new[j].elm \in Range(dom)
      BY <1>6
    <3>3. Doc(dom) /\ \A k, l \in DOMAIN dom : k < l => dom[k] < dom[l]
      BY <1>1, <2>1 DEF Order, Increasing, Typed, Doc
    <3> QED
      BY <3>1, <3>2, <3>3, IncreasingIsBefore
  <2>2. CASE ~ removeOnly
    BY <1>1, <1>4, <1>7, <2>2 DEF Order, Sorted
  <2> QED
    BY <2>1, <2>2
<1>8. \A j \in DOMAIN new : shown[new[j].elm] = [tag |-> new[j].tag, text |-> new[j].text]
  BY <1>1, <1>4 DEF Shows
<1>9. \A j \in DOMAIN new : new[j].ref # NoRef => refs[new[j].ref] = new[j].elm
  BY <1>1, <1>4 DEF Names
<1>10. ASSUME NEW r \in Refs, refs[r] # NoElm
       PROVE  \E j \in DOMAIN new : new[j].ref = r /\ new[j].elm = refs[r]
  <2>1. PICK j \in DOMAIN new : new[j].ref = r
    BY <1>1, <1>3, <1>4, <1>10 DEF Names
  <2>2. r # NoRef
    BY DEF Refs
  <2> QED
    BY <1>9, <2>1, <2>2
<1> QED
  BY <1>3, <1>4, <1>5, <1>6, <1>7, <1>8, <1>9, <1>10 DEF Settled

\* The pass over the children `from`, to become `to`, may begin.
Ready(from, to, only) ==
    /\ Children(from) /\ Children(to) /\ Children(goal') /\ Children(prev')
    /\ only \in BOOLEAN
    /\ OwnKeys(from) /\ Distinct(to) /\ Distinct(goal')
    /\ \A i \in DOMAIN from : from[i].elm \in Elms
    /\ \A j \in DOMAIN to :
          IF only THEN to[j].key # NoKey /\ \E i \in DOMAIN from : from[i] = to[j]
          ELSE to[j].elm = NoElm
    /\ only => \A j \in DOMAIN goal' : goal'[j].elm = NoElm
    /\ Range(dom) \ leaving = {from[i].elm : i \in DOMAIN from}
    /\ \A i, j \in DOMAIN from : i < j => Before(dom, from[i].elm, from[j].elm)
    /\ only =>
          /\ \A i, j \in DOMAIN dom : i < j => dom[i] < dom[j]
          /\ \A i, j \in DOMAIN to : i < j => to[i].elm < to[j].elm
    /\ \A i \in DOMAIN from : shown[from[i].elm] = [tag |-> from[i].tag, text |-> from[i].text]
    /\ \A i \in DOMAIN from : from[i].ref # NoRef => refs[from[i].ref] = from[i].elm
    /\ \A r \in Refs : refs[r] # NoElm =>
          \E i \in DOMAIN from : from[i].ref = r /\ from[i].elm = refs[r]
    /\ IF only
       THEN \A i \in DOMAIN prev', j \in DOMAIN goal' : SameChild(prev'[i], goal'[j]) =>
               \E l \in DOMAIN to : SameElement(to[l], prev'[i])
       ELSE \A i \in DOMAIN prev', j \in DOMAIN to : SameChild(prev'[i], to[j]) =>
               \E l \in DOMAIN from : SameElement(from[l], prev'[i])

LEMMA BeginKeeps ==
    ASSUME Typed, NEW from, NEW to, NEW only, Ready(from, to, only), Begin(from, to, only),
           UNCHANGED <<dom, shown, leaving, refs>>
    PROVE  Inv'
<1>1. /\ old' = from /\ new' = to
      /\ oldStart' = 1 /\ oldEnd' = Len(from) /\ newStart' = 1 /\ newEnd' = Len(to)
      /\ keyToOld' = <<>> /\ removeOnly' = only /\ mode' = "loop"
      /\ dom' = dom /\ shown' = shown /\ leaving' = leaving /\ refs' = refs
  BY DEF Begin
<1>2. /\ Len(from) \in Nat /\ DOMAIN from = 1 .. Len(from)
      /\ Len(to) \in Nat /\ DOMAIN to = 1 .. Len(to)
  BY DEF Ready, Children
<1>3. Mid' = DOMAIN from
  <2>1. \A i \in DOMAIN from : Has(from[i])
    BY ElmAssumption DEF Ready, Has, Moved
  <2>2. Mid' = {i \in 1 .. Len(from) : Has(from[i])}
    BY <1>1 DEF Mid
  <2> QED
    BY <1>2, <2>1, <2>2
<1>4. Undone' = DOMAIN to /\ Done' = {}
  BY <1>1, <1>2 DEF Undone, Done
<1>5. Typed'
  BY <1>1 DEF Typed, Ready, Children
<1>6. Bounds'
  BY <1>1, <1>2 DEF Bounds
<1>7. Phase'
  BY <1>1 DEF Phase
<1>8. Lists'
  BY <1>1, <1>3, <1>4 DEF Lists, Ready
<1>9. Mapped'
  BY <1>1, <1>3 DEF Mapped
<1>10. Present'
  BY <1>1, <1>3, <1>4 DEF Present, Ready
<1>11. Order'
  <2>1. CASE only
    <3>1. \A i, j \in DOMAIN dom' : i < j => dom'[i] < dom'[j]
      BY <1>1, <2>1 DEF Ready
    <3>2. \A i, j \in DOMAIN new' : i < j => new'[i].elm < new'[j].elm
      BY <1>1, <2>1 DEF Ready
    <3>3. \A i, j \in Mid' : i < j => old'[i].elm < old'[j].elm
      <4> SUFFICES ASSUME NEW i \in DOMAIN from, NEW j \in DOMAIN from, i < j
                   PROVE  from[i].elm < from[j].elm
        BY <1>1, <1>3
      <4>1. Before(dom, from[i].elm, from[j].elm)
        BY DEF Ready
      <4> QED
        BY <2>1, <4>1 DEF Before, Ready
    <3> QED
      BY <1>1, <1>4, <2>1, <3>1, <3>2, <3>3 DEF Order, Increasing
  <2>2. CASE ~ only
    <3>1. Sorted'
      BY <1>1, <1>3, <1>4 DEF Sorted, Ready
    <3> QED
      BY <1>1, <2>2, <3>1 DEF Order
  <2> QED
    BY <2>1, <2>2
<1>12. Shows'
  BY <1>1, <1>3, <1>4 DEF Shows, Ready
<1>13. Names'
  BY <1>1, <1>3, <1>4 DEF Names, Ready
<1>14. Reuses'
  <2>1. CASE only
    BY <1>1, <2>1 DEF Reuses, Ready
  <2>2. CASE ~ only
    BY <1>1, <1>3, <1>4, <2>2 DEF Reuses, Ready
  <2> QED
    BY <2>1, <2>2
<1> QED
  BY <1>5, <1>6, <1>7, <1>8, <1>9, <1>10, <1>11, <1>12, <1>13, <1>14 DEF Inv

LEMMA EmptyFacts == Children(<<>>) /\ Distinct(<<>>) /\ OwnKeys(<<>>)
BY ElmAssumption DEF Children, Distinct, OwnKeys

LEMMA OverFacts == ASSUME Inv, RestDone PROVE oldStart > oldEnd /\ newStart > newEnd
<1>1. Bounds /\ Len(old) \in Nat /\ Len(new) \in Nat
  BY ListFacts DEF Inv
<1>2. CASE Len(old) + Len(new) = 0
  <2>1. Len(old) = 0 /\ Len(new) = 0
    BY <1>1, <1>2
  <2> QED
    BY <1>1, <2>1 DEF Bounds
<1> QED
  BY <1>2 DEF RestDone

LEMMA SecondPassKeeps == ASSUME Inv, SecondPass PROVE Inv'
<1>1. /\ Begin(new, goal, FALSE) /\ goal' = <<>> /\ prev' = prev /\ removeOnly
      /\ UNCHANGED <<dom, shown, leaving, refs>>
  BY DEF SecondPass
<1>2. Settled
  BY OverFacts, DoneFacts DEF SecondPass
<1>3. Typed /\ Lists /\ Reuses
  BY DEF Inv
<1>4. OwnKeys(new)
  BY <1>3 DEF Lists, Distinct, OwnKeys
<1>5. Ready(new, goal, FALSE)
  <2>1. Children(new) /\ Children(goal) /\ Children(goal') /\ Children(prev') /\ Distinct(goal')
    BY <1>1, <1>3, EmptyFacts DEF Typed
  <2>2. Distinct(goal) /\ \A j \in DOMAIN goal : goal[j].elm = NoElm
    BY <1>1, <1>3 DEF Lists
  <2>3. \A i \in DOMAIN prev', j \in DOMAIN goal : SameChild(prev'[i], goal[j]) =>
           \E l \in DOMAIN new : SameElement(new[l], prev'[i])
    BY <1>1, <1>3 DEF Reuses
  <2> QED
    BY <1>2, <1>4, <2>1, <2>2, <2>3 DEF Ready, Settled
<1> QED
  BY <1>1, <1>3, <1>5, BeginKeeps

-----------------------------------------------------------------------------
(* Between the patches *)

LEMMA NumberFacts ==
    ASSUME NEW d, Doc(d)
    PROVE  /\ DOMAIN d = 1 .. Len(d) /\ Len(d) \in Nat /\ DOMAIN d \subseteq Elms
           /\ \A x \in Range(d) : Number(d, x) \in DOMAIN d /\ d[Number(d, x)] = x
           /\ \A x : x \notin Range(d) => Number(d, x) = NoElm
           /\ \A x : Number(d, x) \in DOMAIN d \cup {NoElm}
           /\ \A i \in DOMAIN d : Number(d, d[i]) = i
<1>1. DOMAIN d = 1 .. Len(d) /\ Len(d) \in Nat /\ IsInjective(d)
  BY DEF Doc
<1>2. DOMAIN d \subseteq Elms
  BY <1>1, DocFinite, ElmAssumption DEF Elms
<1>3. \A x \in Range(d) : Number(d, x) \in DOMAIN d /\ d[Number(d, x)] = x
  BY IndexInFacts, ContainsFacts DEF Number
<1>4. \A x : x \notin Range(d) => Number(d, x) = NoElm
  BY ContainsFacts DEF Number
<1>5. \A i \in DOMAIN d : Number(d, d[i]) = i
  BY <1>1, <1>3 DEF Range, IsInjective
<1> QED
  BY <1>1, <1>2, <1>3, <1>4, <1>5

\* The document keeps its nodes but for those that were leaving.
Tidies(d) ==
    /\ Doc(d)
    /\ Range(d) \subseteq Range(dom)
    /\ Range(d) \ leaving = Range(dom) \ leaving
    /\ \A x, y : Before(dom, x, y) /\ x \notin leaving /\ y \notin leaving => Before(d, x, y)

LEMMA RenumberedList ==
    ASSUME Typed, Settled, NEW d, Tidies(d), Renumber(d)
    PROVE  /\ Children(new') /\ DOMAIN new' = DOMAIN new
           /\ \A j \in DOMAIN new :
                 /\ new[j].elm \in Range(d) \ leaving
                 /\ new'[j].elm = Number(d, new[j].elm)
                 /\ new'[j].key = new[j].key /\ new'[j].tag = new[j].tag
                 /\ new'[j].text = new[j].text /\ new'[j].ref = new[j].ref
<1>1. PICK t : t = [i \in DOMAIN new |-> [new[i] EXCEPT !.elm = Number(d, new[i].elm)]]
  OBVIOUS
<1>2. new' = t
  BY <1>1 DEF Renumber
<1>3. new \in Seq(VnodeSet) /\ Len(new) <= MaxChildren /\ \A j \in DOMAIN new : new[j] \in VnodeSet
  BY DEF Typed, Children
<1>4. \A x : Number(d, x) \in Elms \cup {NoElm}
  BY NumberFacts DEF Tidies
<1>5. ASSUME NEW j \in DOMAIN new
      PROVE  /\ t[j] \in VnodeSet /\ t[j].elm = Number(d, new[j].elm)
             /\ t[j].key = new[j].key /\ t[j].tag = new[j].tag
             /\ t[j].text = new[j].text /\ t[j].ref = new[j].ref
  <2>1. t[j] = [new[j] EXCEPT !.elm = Number(d, new[j].elm)]
    BY <1>1
  <2>2. PICK n \in Elms \cup {NoElm} : n = Number(d, new[j].elm)
    BY <1>4
  <2>3. new[j] \in VnodeSet
    BY <1>3
  <2>4. t[j] = [new[j] EXCEPT !.elm = n]
    BY <2>1, <2>2
  <2> QED
    BY ONLY <2>2, <2>3, <2>4 DEF VnodeSet
<1>6. DOMAIN t = DOMAIN new
  BY <1>1
<1>7. t \in Seq(VnodeSet) /\ Len(t) = Len(new)
  <2>1. DOMAIN new = 1 .. Len(new) /\ Len(new) \in Nat
    BY <1>3
  <2>2. t = [i \in 1 .. Len(new) |-> t[i]]
    BY <1>1, <2>1
  <2>3. t \in [1 .. Len(new) -> VnodeSet]
    BY <1>5, <2>1, <2>2
  <2>4. t \in Seq(VnodeSet)
    BY <2>1, <2>3
  <2> QED
    BY <1>3, <1>6, <2>4, LenDomain
<1>8. \A j \in DOMAIN new : new[j].elm \in Range(d) \ leaving
  BY DEF Settled, Tidies
<1> QED
  BY <1>2, <1>3, <1>5, <1>6, <1>7, <1>8 DEF Children

LEMMA RenumberKeeps ==
    ASSUME Typed, Settled, NEW d, Tidies(d), Renumber(d)
    PROVE  Inv'
<1>1. /\ DOMAIN d = 1 .. Len(d) /\ Len(d) \in Nat /\ DOMAIN d \subseteq Elms
      /\ \A x \in Range(d) : Number(d, x) \in DOMAIN d /\ d[Number(d, x)] = x
      /\ \A x : x \notin Range(d) => Number(d, x) = NoElm
      /\ \A x : Number(d, x) \in DOMAIN d \cup {NoElm}
      /\ \A i \in DOMAIN d : Number(d, d[i]) = i
  BY NumberFacts DEF Tidies
<1>2. /\ Children(new') /\ DOMAIN new' = DOMAIN new
      /\ \A j \in DOMAIN new :
            /\ new[j].elm \in Range(d) \ leaving
            /\ new'[j].elm = Number(d, new[j].elm)
            /\ new'[j].key = new[j].key /\ new'[j].tag = new[j].tag
            /\ new'[j].text = new[j].text /\ new'[j].ref = new[j].ref
  BY RenumberedList
<1>3. /\ dom' = [i \in DOMAIN d |-> i]
      /\ leaving' = {i \in DOMAIN d : d[i] \in leaving}
      /\ old' = <<>> /\ goal' = <<>> /\ prev' = <<>> /\ keyToOld' = <<>>
      /\ oldStart' = 1 /\ oldEnd' = 0 /\ newStart' = 1 /\ newEnd' = 0
      /\ removeOnly' = FALSE /\ mode' = "idle"
  BY DEF Renumber
<1>4. \A e \in Elms : shown'[e] = IF e \in DOMAIN d THEN shown[d[e]] ELSE NoNode
  BY DEF Renumber
<1>5. \A r \in Refs : refs'[r] = Number(d, refs[r])
  BY DEF Renumber
<1>6. dom' \in Seq(Elms) /\ DOMAIN dom' = DOMAIN d /\ Range(dom') = DOMAIN d /\ \A i \in DOMAIN d : dom'[i] = i
  <2>1. dom' \in Seq(Elms)
    <3>1. dom' \in [1 .. Len(d) -> Elms]
      BY <1>1, <1>3
    <3> QED
      BY <1>1, <3>1
  <2> QED
    BY <1>3, <2>1 DEF Range
<1>7. Mid' = {} /\ Undone' = {} /\ Done' = DOMAIN new'
  <2>1. Mid' = {i \in 1 .. 0 : Has(old'[i])} /\ Undone' = 1 .. 0
    BY <1>3 DEF Mid, Undone
  <2> QED
    BY <2>1 DEF Done
<1>8. Cardinality(leaving') <= MaxLeaving
  <2>1. IsFiniteSet(leaving) /\ Cardinality(leaving) <= MaxLeaving
    <3>1. Doc(dom) /\ leaving \in SUBSET Range(dom)
      BY DEF Typed, Doc
    <3> QED
      BY <3>1, DocFinite, FS_Subset DEF Typed
  <2>2. PICK f : f = [i \in leaving' |-> d[i]]
    OBVIOUS
  <2>3. f \in Injection(leaving', leaving)
    BY <1>3, <2>2 DEF Injection, Tidies, Doc, IsInjective
  <2>4. IsFiniteSet(leaving') /\ Cardinality(leaving') <= Cardinality(leaving)
    BY <2>1, <2>3, FS_Injection
  <2>5. Cardinality(leaving) \in Nat /\ Cardinality(leaving') \in Nat
    BY <2>1, <2>4, FS_CardinalityType
  <2> QED
    BY <2>1, <2>4, <2>5, ElmAssumption
<1>9. shown' \in NodeShows
  <2>1. NoNode \in [tag : Tags, text : Texts]
    BY DEF NoNode, Tags, Texts
  <2>2. \A e \in DOMAIN d : shown[d[e]] \in [tag : Tags, text : Texts]
    BY DEF Typed, Tidies, Doc
  <2>3. \A e \in Elms : shown'[e] \in [tag : Tags, text : Texts]
    BY <1>4, <2>1, <2>2
  <2>4. shown' = [e \in Elms |-> IF e \in DOMAIN d THEN shown[d[e]] ELSE NoNode]
    BY DEF Renumber
  <2> QED
    BY <2>3, <2>4 DEF NodeShows
<1>10. refs' \in RefTargets
  BY <1>1 DEF Renumber, RefTargets
<1>11. Typed'
  <2>1. IsInjective(dom')
    BY <1>6 DEF IsInjective
  <2>2. leaving' \subseteq Range(dom')
    BY <1>3, <1>6
  <2>3. Children(old') /\ Children(goal') /\ Children(prev')
    BY <1>3, EmptyFacts
  <2>4. removeOnly' \in BOOLEAN
    BY <1>3
  <2>5. shown' \in [Elms -> [tag : Tags, text : Texts]] /\ refs' \in [Refs -> Elms \cup {NoElm}]
    BY <1>9, <1>10 DEF NodeShows, RefTargets
  <2> QED
    BY <1>2, <1>6, <1>8, <2>1, <2>2, <2>3, <2>4, <2>5 DEF Typed
<1>12. Bounds'
  <2>1. Len(new') \in Nat
    BY <1>2 DEF Children
  <2> QED
    BY <1>3, <2>1 DEF Bounds
<1>13. Phase'
  BY <1>3, <1>6 DEF Phase
<1>14. Lists'
  <2>1. Distinct(new')
    BY <1>2 DEF Settled, Distinct
  <2>2. \A j \in DOMAIN new' : new'[j].elm \in Elms
    BY <1>1, <1>2
  <2>3. OwnKeys(old') /\ Distinct(goal')
    BY <1>3, EmptyFacts
  <2> QED
    BY <1>3, <1>7, <2>1, <2>2, <2>3 DEF Lists
<1>15. Mapped'
  BY <1>3, <1>7 DEF Mapped
<1>16. Present'
  <2>1. ASSUME NEW x \in Range(dom') \ leaving' PROVE \E j \in DOMAIN new : new'[j].elm = x
    <3>1. x \in DOMAIN d /\ d[x] \notin leaving /\ d[x] \in Range(d)
      BY <1>3, <1>6 DEF Range
    <3>2. PICK j \in DOMAIN new : new[j].elm = d[x]
      BY <3>1 DEF Settled, Tidies
    <3>3. new'[j].elm = x
      BY <1>1, <1>2, <3>1, <3>2
    <3> QED
      BY <3>3
  <2>2. ASSUME NEW j \in DOMAIN new PROVE new'[j].elm \in Range(dom') \ leaving'
    BY <1>1, <1>2, <1>3, <1>6
  <2> QED
    BY <1>2, <1>7, <2>1, <2>2 DEF Present
<1>17. Order'
  <2>1. ASSUME NEW i \in DOMAIN new, NEW j \in DOMAIN new, i < j
        PROVE  Before(dom', new'[i].elm, new'[j].elm)
    <3>1. Before(d, new[i].elm, new[j].elm)
      BY <1>2, <2>1 DEF Settled, Tidies
    <3>2. PICK k \in DOMAIN d, l \in DOMAIN d : k < l /\ d[k] = new[i].elm /\ d[l] = new[j].elm
      BY <3>1 DEF Before
    <3>3. new'[i].elm = k /\ new'[j].elm = l
      BY <1>1, <1>2, <3>2
    <3> QED
      BY <1>6, <3>2, <3>3 DEF Before
  <2>2. Sorted'
    BY <1>2, <1>7, <2>1 DEF Sorted
  <2> QED
    BY <1>3, <2>2 DEF Order
<1>18. Shows'
  <2>1. ASSUME NEW j \in DOMAIN new
        PROVE  shown'[new'[j].elm] = [tag |-> new'[j].tag, text |-> new'[j].text]
    <3>1. shown'[new'[j].elm] = shown[new[j].elm]
      BY <1>1, <1>2, <1>4
    <3> QED
      BY <1>2, <3>1 DEF Settled
  <2> QED
    BY <1>2, <1>7, <2>1 DEF Shows
<1>19. Names'
  <2>1. \A j \in DOMAIN new : new'[j].ref # NoRef => refs'[new'[j].ref] = new'[j].elm
    <3> SUFFICES ASSUME NEW j \in DOMAIN new, new[j].ref # NoRef
                 PROVE  refs'[new[j].ref] = new'[j].elm
      BY <1>2
    <3>1. new[j].ref \in Refs
      <4>1. new[j] \in VnodeSet
        BY DEF Typed, Children
      <4> QED
        BY <4>1 DEF VnodeSet
    <3>2. refs[new[j].ref] = new[j].elm
      BY DEF Settled
    <3> QED
      BY <1>2, <1>5, <3>1, <3>2
  <2>2. \A r \in Refs : refs'[r] # NoElm => \E j \in DOMAIN new : new'[j].ref = r
    <3> SUFFICES ASSUME NEW r \in Refs, refs'[r] # NoElm PROVE \E j \in DOMAIN new : new'[j].ref = r
      OBVIOUS
    <3>1. refs[r] \in Range(d)
      BY <1>1, <1>5
    <3>2. refs[r] # NoElm
      BY <3>1, ElmAssumption DEF Tidies, Doc, Range
    <3> QED
      BY <1>2, <3>2 DEF Settled
  <2> QED
    BY <1>2, <1>7, <2>1, <2>2 DEF Names, Refs
<1>20. Reuses'
  BY <1>3 DEF Reuses
<1> QED
  BY <1>11, <1>12, <1>13, <1>14, <1>15, <1>16, <1>17, <1>18, <1>19, <1>20 DEF Inv

LEMMA EndPatchKeeps == ASSUME Inv, EndPatch PROVE Inv'
<1>1. Settled /\ Typed
  BY OverFacts, DoneFacts DEF EndPatch, Patched, Inv
<1>2. Tidies(dom)
  BY <1>1 DEF Tidies, Typed, Doc
<1> QED
  BY <1>1, <1>2, RenumberKeeps DEF EndPatch

LEMMA IdleFacts == ASSUME Inv, mode = "idle" PROVE Settled
<1>1. oldStart > oldEnd /\ newStart > newEnd
  BY DEF Inv, Phase
<1> QED
  BY <1>1, DoneFacts

LEMMA LeaveEndsKeeps == ASSUME Inv, NEW e \in leaving, LeaveEnds(e) PROVE Inv'
<1>1. Settled /\ Typed /\ Doc(dom)
  BY IdleFacts DEF LeaveEnds, Inv, Typed, Doc
<1>2. PICK d : d = Without(dom, e)
  OBVIOUS
<1>3. /\ Doc(d) /\ Range(d) = Range(dom) \ {e}
      /\ \A x, y : Before(dom, x, y) /\ x # e /\ y # e => Before(d, x, y)
  BY <1>1, <1>2, WithoutFacts
<1>4. Tidies(d)
  BY <1>3 DEF Tidies
<1> QED
  BY <1>1, <1>2, <1>4, RenumberKeeps DEF LeaveEnds

\* A list that describes children of which none is made yet.
LEMMA BlankFacts ==
    ASSUME NEW ds \in Renders
    PROVE  /\ Children(Blank(ds)) /\ Distinct(Blank(ds)) /\ DOMAIN Blank(ds) = DOMAIN ds
           /\ \A j \in DOMAIN ds : Blank(ds)[j].elm = NoElm /\ Blank(ds)[j].key = ds[j].key
<1>1. PICK n \in 0 .. MaxChildren : ds \in [1 .. n -> Descriptions]
  BY DEF Renders
<1>2. PICK t : t = Blank(ds)
  OBVIOUS
<1>3. n \in Nat /\ n <= MaxChildren /\ DOMAIN ds = 1 .. n /\ t = [j \in 1 .. n |-> Vnode(ds[j], NoElm)]
  BY <1>1, <1>2, ElmAssumption DEF Blank
<1>4. \A d \in Descriptions : Vnode(d, NoElm) \in VnodeSet
  BY DEF Vnode, VnodeSet, Keys, Tags, Texts, Refs
<1>5. t \in [1 .. n -> VnodeSet]
  BY <1>1, <1>3, <1>4
<1>6. t \in Seq(VnodeSet) /\ Len(t) = n
  BY <1>3, <1>5
<1>7. \A j \in 1 .. n : t[j].elm = NoElm /\ t[j].key = ds[j].key /\ t[j].ref = ds[j].ref
  BY <1>3 DEF Vnode
<1>8. Distinct(ds) /\ DOMAIN t = 1 .. n
  BY <1>3 DEF Renders
<1>9. Distinct(t)
  BY <1>3, <1>7, <1>8 DEF Distinct
<1> QED
  BY <1>2, <1>3, <1>6, <1>7, <1>9 DEF Children

LEMMA RenderKeeps == ASSUME Inv, NEW ds \in Renders, Render(ds) PROVE Inv'
<1>1. /\ mode = "idle" /\ prev' = new /\ goal' = goal /\ Begin(new, Blank(ds), FALSE)
      /\ UNCHANGED <<dom, shown, leaving, refs>>
  BY DEF Render
<1>2. Typed /\ Settled /\ Distinct(goal)
  BY <1>1, IdleFacts DEF Inv, Lists
<1>3. OwnKeys(new)
  BY <1>2 DEF Settled, Distinct, OwnKeys
<1>4. PICK to : to = Blank(ds)
  OBVIOUS
<1>5. Children(to) /\ Distinct(to) /\ \A j \in DOMAIN to : to[j].elm = NoElm
  BY <1>4, BlankFacts
<1>6. Ready(new, to, FALSE)
  <2>1. Children(new) /\ Children(goal') /\ Children(prev') /\ Distinct(goal')
    BY <1>1, <1>2 DEF Typed
  <2>2. \A i \in DOMAIN prev', j \in DOMAIN to : SameChild(prev'[i], to[j]) =>
           \E l \in DOMAIN new : SameElement(new[l], prev'[i])
    BY <1>1 DEF SameElement
  <2> QED
    BY <1>2, <1>3, <1>5, <2>1, <2>2 DEF Ready, Settled
<1>7. Begin(new, to, FALSE)
  BY <1>1, <1>4
<1> QED
  BY <1>1, <1>2, <1>6, <1>7, BeginKeeps

\* The children that stay, in their order.
LEMMA KeptFacts ==
    ASSUME Children(new), NEW P \in SUBSET DOMAIN new, NEW f \in InOrder(P),
           NEW to, to = [i \in DOMAIN f |-> new[f[i]]]
    PROVE  /\ Children(to) /\ DOMAIN to = DOMAIN f
           /\ \A i \in DOMAIN f : f[i] \in P /\ to[i] = new[f[i]]
           /\ \A i, j \in DOMAIN f : i < j => f[i] < f[j]
           /\ \A i, j \in DOMAIN f : i # j => f[i] # f[j]
           /\ \A p \in P : \E i \in DOMAIN f : f[i] = p
<1>1. /\ Len(new) \in Nat /\ DOMAIN new = 1 .. Len(new) /\ Len(new) <= MaxChildren
      /\ \A i \in DOMAIN new : new[i] \in VnodeSet
  BY DEF Children
<1>2. IsFiniteSet(P) /\ Cardinality(P) \in Nat /\ Cardinality(P) <= MaxChildren
  <2>1. IsFiniteSet(1 .. Len(new)) /\ Cardinality(1 .. Len(new)) = Len(new)
    BY <1>1, Counted
  <2>2. IsFiniteSet(P) /\ Cardinality(P) <= Cardinality(1 .. Len(new))
    BY <1>1, <2>1, FS_Subset
  <2> QED
    BY <1>1, <2>1, <2>2, FS_CardinalityType, ElmAssumption
<1>3. /\ f \in [1 .. Cardinality(P) -> P] /\ Range(f) = P
      /\ \A i, j \in DOMAIN f : i < j => f[i] < f[j]
  BY DEF InOrder
<1>4. PICK n \in Nat : n = Cardinality(P)
  BY <1>2
<1>5. DOMAIN f = 1 .. n /\ n <= MaxChildren /\ \A i \in DOMAIN f : f[i] \in P
  BY <1>2, <1>3, <1>4
<1>6. to \in Seq(VnodeSet) /\ Len(to) = n
  <2>1. to \in [1 .. n -> VnodeSet]
    BY <1>1, <1>5
  <2> QED
    BY <2>1
<1>7. \A i, j \in DOMAIN f : i # j => f[i] # f[j]
  <2>1. \A i, j \in DOMAIN f : f[i] \in Nat /\ i \in Nat
    BY <1>1, <1>5
  <2> QED
    BY <1>3, <2>1
<1>8. \A p \in P : \E i \in DOMAIN f : f[i] = p
  BY <1>3 DEF Range
<1> QED
  BY <1>3, <1>5, <1>6, <1>7, <1>8 DEF Children

LEMMA RenderGroupKeeps == ASSUME Inv, NEW ds \in Renders, RenderGroup(ds) PROVE Inv'
<1>1. PICK P : P = {i \in DOMAIN new : \E j \in DOMAIN ds : ds[j].key = new[i].key}
  OBVIOUS
<1>2. PICK f \in InOrder(P) : Begin(new, [i \in DOMAIN f |-> new[f[i]]], TRUE)
  BY <1>1 DEF RenderGroup
<1>3. /\ mode = "idle" /\ prev' = new /\ goal' = Blank(ds) /\ Keyed(new)
      /\ UNCHANGED <<dom, shown, leaving, refs>>
  BY DEF RenderGroup
<1>4. Typed /\ Settled /\ dom = [i \in DOMAIN dom |-> i] /\ Children(new)
  BY <1>3, IdleFacts DEF Inv, Phase, Typed
<1>5. OwnKeys(new)
  BY <1>4 DEF Settled, Distinct, OwnKeys
<1>6. PICK to : to = [i \in DOMAIN f |-> new[f[i]]]
  OBVIOUS
<1>7. /\ Children(to) /\ DOMAIN to = DOMAIN f
      /\ \A i \in DOMAIN f : f[i] \in P /\ to[i] = new[f[i]]
      /\ \A i, j \in DOMAIN f : i < j => f[i] < f[j]
      /\ \A i, j \in DOMAIN f : i # j => f[i] # f[j]
      /\ \A p \in P : \E i \in DOMAIN f : f[i] = p
  BY <1>1, <1>4, <1>6, KeptFacts
<1>8. /\ Children(goal') /\ Distinct(goal') /\ DOMAIN goal' = DOMAIN ds
      /\ \A j \in DOMAIN ds : goal'[j].elm = NoElm /\ goal'[j].key = ds[j].key
  BY <1>3, BlankFacts
<1>9. Distinct(to)
  <2> SUFFICES ASSUME NEW i \in DOMAIN f, NEW j \in DOMAIN f, i # j
               PROVE  /\ to[i].key = to[j].key => to[i].key = NoKey
                      /\ to[i].ref = to[j].ref => to[i].ref = NoRef
    BY <1>7 DEF Distinct
  <2>1. f[i] \in DOMAIN new /\ f[j] \in DOMAIN new /\ f[i] # f[j]
    BY <1>1, <1>7
  <2> QED
    BY <1>4, <1>7, <2>1 DEF Settled, Distinct
<1>10. \A j \in DOMAIN to : to[j].key # NoKey /\ \E i \in DOMAIN new : new[i] = to[j]
  BY <1>1, <1>3, <1>7 DEF Keyed
<1>11. \A i, j \in DOMAIN dom : i < j => dom[i] < dom[j]
  BY <1>4
<1>12. \A i, j \in DOMAIN to : i < j => to[i].elm < to[j].elm
  <2> SUFFICES ASSUME NEW i \in DOMAIN f, NEW j \in DOMAIN f, i < j
               PROVE  new[f[i]].elm < new[f[j]].elm
    BY <1>7
  <2>1. f[i] \in DOMAIN new /\ f[j] \in DOMAIN new /\ f[i] < f[j]
    BY <1>1, <1>7
  <2>2. Before(dom, new[f[i]].elm, new[f[j]].elm)
    BY <1>4, <2>1 DEF Settled
  <2> QED
    BY <1>11, <2>2 DEF Before
<1>13. ASSUME NEW i \in DOMAIN prev', NEW j \in DOMAIN goal', SameChild(prev'[i], goal'[j])
       PROVE  \E l \in DOMAIN to : SameElement(to[l], prev'[i])
  <2>1. i \in P
    BY <1>1, <1>3, <1>8, <1>13 DEF SameChild
  <2>2. PICK l \in DOMAIN f : f[l] = i
    BY <1>7, <2>1
  <2>3. to[l] = prev'[i]
    BY <1>3, <1>7, <2>2
  <2> QED
    BY <1>7, <2>3 DEF SameElement
<1>14. Ready(new, to, TRUE)
  <2>1. Children(prev')
    BY <1>3, <1>4
  <2>2. \A j \in DOMAIN goal' : goal'[j].elm = NoElm
    BY <1>8
  <2> QED
    BY <1>4, <1>5, <1>7, <1>8, <1>9, <1>10, <1>11, <1>12, <1>13, <2>1, <2>2 DEF Ready, Settled
<1>15. Begin(new, to, TRUE)
  BY <1>2, <1>6
<1> QED
  BY <1>3, <1>4, <1>14, <1>15, BeginKeeps

-----------------------------------------------------------------------------
(* The theorems *)

LEMMA InitInv == ASSUME Init PROVE Inv
<1>1. /\ dom = <<>> /\ leaving = {} /\ old = <<>> /\ new = <<>> /\ goal = <<>> /\ prev = <<>>
      /\ oldStart = 1 /\ oldEnd = 0 /\ newStart = 1 /\ newEnd = 0
      /\ keyToOld = <<>> /\ removeOnly = FALSE /\ mode = "idle"
      /\ shown = [e \in Elms |-> NoNode] /\ refs = [r \in Refs |-> NoElm]
  BY DEF Init
<1>2. Mid = {} /\ Undone = {} /\ Done = {}
  BY <1>1 DEF Mid, Undone, Done
<1>3. Typed
  <2>1. dom \in Seq(Elms) /\ IsInjective(dom) /\ leaving \subseteq Range(dom)
    BY <1>1 DEF IsInjective
  <2>2. Cardinality(leaving) <= MaxLeaving
    BY <1>1, FS_EmptySet, ElmAssumption
  <2>3. shown \in [Elms -> [tag : Tags, text : Texts]]
    BY <1>1 DEF NoNode, Tags, Texts
  <2>4. refs \in [Refs -> Elms \cup {NoElm}]
    BY <1>1
  <2>5. Children(old) /\ Children(new) /\ Children(goal) /\ Children(prev)
    BY <1>1, EmptyFacts
  <2> QED
    BY <1>1, <2>1, <2>2, <2>3, <2>4, <2>5 DEF Typed
<1>4. Bounds /\ Phase
  BY <1>1 DEF Bounds, Phase
<1>5. Lists
  BY <1>1, <1>2, EmptyFacts DEF Lists
<1>6. Mapped
  BY <1>1, <1>2 DEF Mapped
<1>7. Present
  BY <1>1, <1>2 DEF Present, Range
<1>8. Order
  BY <1>1, <1>2 DEF Order, Sorted
<1>9. Shows /\ Names
  BY <1>1, <1>2 DEF Shows, Names
<1>10. Reuses
  BY <1>1 DEF Reuses
<1> QED
  BY <1>3, <1>4, <1>5, <1>6, <1>7, <1>8, <1>9, <1>10 DEF Inv

LEMMA NextKeeps == ASSUME Inv, [Next]_vars PROVE Inv'
<1>1. CASE SkipMoved
  BY <1>1, SkipMovedKeeps
<1>2. CASE MatchStarts
  BY <1>2, MatchStartsKeeps
<1>3. CASE MatchEnds
  BY <1>3, MatchEndsKeeps
<1>4. CASE MoveRight
  BY <1>4, MoveRightKeeps
<1>5. CASE MoveLeft
  BY <1>5, MoveLeftKeeps
<1>6. CASE MoveFound
  BY <1>6, MoveFoundKeeps
<1>7. CASE CreateNew
  BY <1>7, CreateNewKeeps
<1>8. CASE EndLoop
  BY <1>8, EndLoopKeeps
<1>9. CASE AddVnode
  BY <1>9, AddVnodeKeeps
<1>10. CASE RemoveVnode
  BY <1>10, RemoveVnodeKeeps
<1>11. CASE SecondPass
  BY <1>11, SecondPassKeeps
<1>12. CASE EndPatch
  BY <1>12, EndPatchKeeps
<1>13. CASE \E ds \in Renders : Render(ds)
  BY <1>13, RenderKeeps
<1>14. CASE \E ds \in Renders : RenderGroup(ds)
  BY <1>14, RenderGroupKeeps
<1>15. CASE \E e \in leaving : LeaveEnds(e)
  BY <1>15, LeaveEndsKeeps
<1>16. CASE UNCHANGED vars
  <2>1. /\ UNCHANGED <<dom, shown, leaving, refs, old, new, goal, newStart, newEnd,
                       keyToOld, removeOnly, prev>>
        /\ UNCHANGED <<oldStart, oldEnd, mode>>
    BY <1>16 DEF vars
  <2>2. Mid' = Mid
    BY <2>1 DEF Mid
  <2>3. Bounds' /\ Phase'
    BY <2>1 DEF Inv, Bounds, Phase
  <2> QED
    BY <2>1, <2>2, <2>3, NothingKeeps
<1> QED
  BY <1>1, <1>2, <1>3, <1>4, <1>5, <1>6, <1>7, <1>8, <1>9, <1>10, <1>11, <1>12,
     <1>13, <1>14, <1>15, <1>16 DEF Next, Patch

\* In every state of a patch and between the patches the invariant holds: what is
\* done, what remains, the document and the references fit together.
THEOREM PatchInvariant == Spec => []Inv
<1>1. Init => Inv
  BY InitInv
<1>2. Inv /\ [Next]_vars => Inv'
  BY NextKeeps
<1> QED
  BY <1>1, <1>2, PTL DEF Spec

\* After any patch the document shows what was rendered, in its order, and beside
\* it only elements that are leaving: updateChildren is correct for lists of any
\* length, whatever transitions end when.
THEOREM ListShowsRender == Spec => []ShowsRender
<1>1. ASSUME Inv PROVE ShowsRender
  <2> SUFFICES ASSUME mode = "idle" PROVE ShowsRender
    BY DEF ShowsRender
  <2>1. Settled /\ Typed
    BY <1>1, IdleFacts DEF Inv
  <2>2. Range(dom) = {new[i].elm : i \in DOMAIN new} \cup leaving
    BY <2>1 DEF Settled, Typed
  <2>3. \A i \in DOMAIN new : new[i].elm \notin leaving
    BY <2>1 DEF Settled
  <2> QED
    BY <2>1, <2>2, <2>3 DEF ShowsRender, Settled, Typed
<1> QED
  BY <1>1, PatchInvariant, PTL

\* A child with a key keeps its element from one render to the next, in the two
\* passes of <transition-group> as well.
THEOREM KeyedKeepTheirElement == Spec => []KeyedReused
<1>1. ASSUME Inv PROVE KeyedReused
  <2> SUFFICES ASSUME Patched, NEW i \in DOMAIN prev, NEW j \in DOMAIN new,
                      prev[i].key # NoKey, prev[i].key = new[j].key, prev[i].tag = new[j].tag
               PROVE  prev[i].elm = new[j].elm
    BY DEF KeyedReused
  <2>1. Undone = {} /\ Reuses /\ ~ removeOnly
    BY <1>1, OverFacts, DoneFacts DEF Patched, Settled, Inv
  <2> QED
    BY <2>1 DEF Reuses, SameChild
<1> QED
  BY <1>1, PatchInvariant, PTL

\* Between the patches every reference names the element of the child that bears
\* it, and none if no child does.
THEOREM ReferencesAreTrue == Spec => []RefsNameElements
<1>1. ASSUME Inv PROVE RefsNameElements
  <2> SUFFICES ASSUME mode = "idle", NEW r \in Refs
               PROVE  refs[r] = IF \E i \in DOMAIN new : new[i].ref = r
                                THEN new[CHOOSE i \in DOMAIN new : new[i].ref = r].elm
                                ELSE NoElm
    BY DEF RefsNameElements
  <2>1. Settled /\ r # NoRef
    BY <1>1, IdleFacts DEF Refs
  <2>2. CASE \E i \in DOMAIN new : new[i].ref = r
    <3>1. PICK j : j = CHOOSE i \in DOMAIN new : new[i].ref = r
      OBVIOUS
    <3>2. j \in DOMAIN new /\ new[j].ref = r
      BY <2>2, <3>1
    <3>3. refs[r] = new[j].elm
      BY <2>1, <3>2 DEF Settled
    <3> QED
      BY <2>2, <3>1, <3>3
  <2>3. CASE ~ \E i \in DOMAIN new : new[i].ref = r
    BY <2>1, <2>3 DEF Settled
  <2> QED
    BY <2>2, <2>3
<1> QED
  BY <1>1, PatchInvariant, PTL

LEMMA RemovingKeepsOrder ==
    ASSUME Inv, [Next]_vars, dom' # dom, removeOnly,
           NEW i \in DOMAIN dom', NEW j \in DOMAIN dom', i < j
    PROVE  Before(dom, dom'[i], dom'[j])
<1>1. mode # "idle" /\ Typed
  BY DEF Inv, Phase
<1>2. ~ CreateNew
  BY CreateNewFacts
<1>3. ~ AddVnode
  BY AddVnodeFacts
<1>4. RemoveVnode
  <2>1. ~ SkipMoved /\ ~ MatchStarts /\ ~ MatchEnds /\ ~ EndLoop /\ ~ SecondPass
    BY DEF SkipMoved, MatchStarts, MatchEnds, EndLoop, SecondPass
  <2>2. ~ MoveRight /\ ~ MoveLeft /\ ~ MoveFound /\ ~ EndPatch
    BY DEF MoveRight, MoveLeft, MoveFound, EndPatch, Patched
  <2>3. /\ ~ \E ds \in Renders : Render(ds) \/ RenderGroup(ds)
        /\ ~ \E e \in leaving : LeaveEnds(e)
    BY <1>1 DEF Render, RenderGroup, LeaveEnds
  <2>4. ~ UNCHANGED vars
    BY DEF vars
  <2> QED
    BY <1>2, <1>3, <2>1, <2>2, <2>3, <2>4 DEF Next, Patch
<1>5. PICK e : dom' = Without(dom, e)
  BY <1>4 DEF RemoveVnode
<1>6. Doc(dom)
  BY <1>1 DEF Typed, Doc
<1>7. Before(dom', dom'[i], dom'[j])
  BY DEF Before
<1> QED
  BY <1>5, <1>6, <1>7, WithoutFacts

\* The first pass of <transition-group> moves nothing: in every step of it the
\* elements that remain in the document keep their order.
THEOREM FirstPassMovesNothing == Spec => FirstPassKeepsOrder
<1>1. Inv /\ [Next]_vars =>
         [removeOnly => \A i, j \in DOMAIN dom' : i < j => Before(dom, dom'[i], dom'[j])]_dom
  BY RemovingKeepsOrder
<1> QED
  BY <1>1, PatchInvariant, PTL DEF Spec, FirstPassKeepsOrder
-----------------------------------------------------------------------------
(* A patch ends.  What it has still to do: the old and the new children not *)
(* dealt with, the ends of the loop and of the pass, and, in the pass that  *)
(* only removes, the whole pass that follows it.                            *)

ToGo ==
    IF mode = "idle" THEN 0
    ELSE (oldEnd + 1 - oldStart) + (newEnd + 1 - newStart)
         + (IF mode = "loop" THEN 2 ELSE 1)
         + (IF removeOnly THEN Len(new) + Len(goal) + 2 ELSE 0)

LEMMA SizeFacts ==
    ASSUME Typed
    PROVE  /\ Len(old) \in 0 .. MaxChildren /\ Len(new) \in 0 .. MaxChildren
           /\ Len(goal) \in 0 .. MaxChildren
BY ElmAssumption DEF Typed, Children

LEMMA ToGoType ==
    ASSUME Inv
    PROVE  ToGo \in 0 .. 4 * MaxChildren + 4 /\ (ToGo = 0 <=> mode = "idle")
<1>1. /\ Len(old) \in 0 .. MaxChildren /\ Len(new) \in 0 .. MaxChildren
      /\ Len(goal) \in 0 .. MaxChildren /\ MaxChildren \in Nat
  BY SizeFacts, ElmAssumption DEF Inv
<1>2. Bounds
  BY DEF Inv
<1>3. CASE mode = "idle"
  BY <1>1, <1>3 DEF ToGo
<1>4. CASE mode # "idle"
  <2> DEFINE o == oldEnd + 1 - oldStart
             n == newEnd + 1 - newStart
             m == IF mode = "loop" THEN 2 ELSE 1
             r == IF removeOnly THEN Len(new) + Len(goal) + 2 ELSE 0
  <2>1. o \in 0 .. MaxChildren /\ n \in 0 .. MaxChildren
    BY <1>1, <1>2 DEF Bounds
  <2>2. m \in 1 .. 2 /\ r \in 0 .. 2 * MaxChildren + 2
    BY <1>1
  <2>3. ToGo = o + n + m + r
    BY <1>4 DEF ToGo
  <2> HIDE DEF o, n, m, r
  <2> QED
    BY <1>1, <1>4, <2>1, <2>2, <2>3
<1> QED
  BY <1>3, <1>4

\* The lists of a pass keep their length while it is under way.
LEMMA PassKeepsLength ==
    ASSUME Inv, Inv', DOMAIN new' = DOMAIN new
    PROVE  Len(new') = Len(new)
<1>1. Children(new) /\ Children(new')
  BY DEF Inv, Typed
<1> QED
  BY <1>1, LenDomain DEF Children

\* A span that loses at one of its ends and gains at none is shorter.
LEMMA SpanShrinks ==
    ASSUME NEW a \in Nat, NEW b \in Nat, NEW c \in Nat, NEW d \in Nat, c >= a, d <= b
    PROVE  /\ d + 1 - c <= b + 1 - a
           /\ c > a \/ d < b => d + 1 - c < b + 1 - a
           /\ d + 1 - c \in Int /\ b + 1 - a \in Int
OBVIOUS

LEMMA SumShrinks ==
    ASSUME NEW o \in Int, NEW n \in Int, NEW m \in Nat, NEW r \in Nat,
           NEW oo \in Int, NEW nn \in Int, NEW mm \in Nat,
           oo <= o, nn <= n, mm <= m, oo < o \/ nn < n \/ mm < m
    PROVE  oo + nn + mm + r < o + n + m + r
OBVIOUS

\* A step within a pass that leaves fewer children to deal with, or ends the loop.
LEMMA LessOfPass ==
    ASSUME Inv, Inv', DOMAIN new' = DOMAIN new,
           mode \in {"loop", "rest"}, mode' \in {"loop", "rest"},
           goal' = goal, removeOnly' = removeOnly,
           oldStart' >= oldStart, newStart' >= newStart,
           oldEnd' <= oldEnd, newEnd' <= newEnd,
           \/ mode = "loop" /\ mode' = "rest"
           \/ /\ mode' = mode
              /\ \/ oldStart' > oldStart \/ newStart' > newStart
                 \/ oldEnd' < oldEnd \/ newEnd' < newEnd
    PROVE  ToGo' < ToGo
<1> DEFINE r == IF removeOnly THEN Len(new) + Len(goal) + 2 ELSE 0
           m == IF mode = "loop" THEN 2 ELSE 1
           mm == IF mode' = "loop" THEN 2 ELSE 1
<1>1. Bounds /\ Bounds' /\ Typed
  BY DEF Inv
<1>2. /\ oldStart \in Nat /\ oldEnd \in Nat /\ newStart \in Nat /\ newEnd \in Nat
      /\ oldStart' \in Nat /\ oldEnd' \in Nat /\ newStart' \in Nat /\ newEnd' \in Nat
  BY <1>1, SizeFacts, ElmAssumption DEF Bounds
<1>3. Len(new') = Len(new)
  BY PassKeepsLength
<1>4. r \in Nat
  BY <1>1, SizeFacts, ElmAssumption
<1>5. ToGo = (oldEnd + 1 - oldStart) + (newEnd + 1 - newStart) + m + r
  BY DEF ToGo
<1>6. ToGo' = (oldEnd' + 1 - oldStart') + (newEnd' + 1 - newStart') + mm + r
  BY <1>3 DEF ToGo
<1>7. m \in 1 .. 2 /\ mm \in 1 .. 2 /\ (mode' = mode => mm = m)
      /\ (mode = "loop" /\ mode' = "rest" => mm < m)
  OBVIOUS
<1>8. mode # mode' => mode = "loop" /\ mode' = "rest"
  OBVIOUS
<1> HIDE DEF r, m, mm
<1> DEFINE o == oldEnd + 1 - oldStart
           n == newEnd + 1 - newStart
           oo == oldEnd' + 1 - oldStart'
           nn == newEnd' + 1 - newStart'
<1>9. /\ o \in Int /\ oo \in Int /\ oo <= o
      /\ oldStart' > oldStart \/ oldEnd' < oldEnd => oo < o
  BY <1>2, SpanShrinks
<1>10. /\ n \in Int /\ nn \in Int /\ nn <= n
       /\ newStart' > newStart \/ newEnd' < newEnd => nn < n
  BY <1>2, SpanShrinks
<1>11. ToGo = o + n + m + r /\ ToGo' = oo + nn + mm + r
  BY <1>5, <1>6
<1> HIDE DEF o, n, oo, nn
<1>12. m \in Nat /\ mm \in Nat /\ mm <= m
  BY <1>7, <1>8
<1>13. oo < o \/ nn < n \/ mm < m
  BY <1>7, <1>9, <1>10
<1> QED
  BY <1>4, <1>9, <1>10, <1>11, <1>12, <1>13, SumShrinks

\* Every step of a patch leaves less to do.
LEMMA PatchLess == ASSUME Inv, Inv', Patch PROVE ToGo' < ToGo
<1>0. /\ Typed /\ Bounds /\ mode \in {"idle", "loop", "rest"}
      /\ oldStart \in Nat /\ oldEnd \in Nat /\ newStart \in Nat /\ newEnd \in Nat
  BY SizeFacts, ElmAssumption DEF Inv, Phase, Bounds
<1>1. CASE SkipMoved
  BY <1>0, <1>1, LessOfPass DEF SkipMoved, Turn
<1>2. CASE MatchStarts
  BY <1>0, <1>2, LessOfPass DEF MatchStarts, Turn, PatchVnode
<1>3. CASE MatchEnds
  BY <1>0, <1>3, LessOfPass DEF MatchEnds, Turn, PatchVnode
<1>4. CASE MoveRight
  BY <1>0, <1>4, LessOfPass DEF MoveRight, Turn, PatchVnode
<1>5. CASE MoveLeft
  BY <1>0, <1>5, LessOfPass DEF MoveLeft, Turn, PatchVnode
<1>6. CASE MoveFound
  BY <1>0, <1>6, LessOfPass DEF MoveFound, Turn, PatchVnode
<1>7. CASE CreateNew
  BY <1>0, <1>7, LessOfPass DEF CreateNew, Turn, CreateElm
<1>8. CASE EndLoop
  BY <1>0, <1>8, LessOfPass DEF EndLoop
<1>9. CASE AddVnode
  BY <1>0, <1>9, LessOfPass DEF AddVnode, CreateElm
<1>10. CASE RemoveVnode
  BY <1>0, <1>10, LessOfPass DEF RemoveVnode
<1>11. CASE SecondPass
  <2>1. /\ mode = "rest" /\ removeOnly /\ Begin(new, goal, FALSE)
    BY <1>11 DEF SecondPass, RestDone
  <2>2. ToGo' = Len(new) + Len(goal) + 2
    <3>1. Len(new) \in Nat /\ Len(goal) \in Nat
      BY <1>0, SizeFacts
    <3>2. ToGo' = (Len(new) + 1 - 1) + (Len(goal) + 1 - 1) + 2 + 0
      BY <2>1 DEF Begin, ToGo
    <3> QED
      BY <3>1, <3>2
  <2>3. ToGo >= Len(new) + Len(goal) + 3
    <3>1. Len(new) \in Nat /\ Len(goal) \in Nat
      BY <1>0, SizeFacts
    <3>2. oldEnd + 1 - oldStart \in Nat /\ newEnd + 1 - newStart \in Nat
      BY <1>0 DEF Bounds
    <3>3. ToGo = (oldEnd + 1 - oldStart) + (newEnd + 1 - newStart) + 1
                 + (Len(new) + Len(goal) + 2)
      BY <2>1 DEF ToGo
    <3> QED
      BY <3>1, <3>2, <3>3
  <2>4. ToGo \in Nat /\ Len(new) + Len(goal) \in Nat
    BY <1>0, ToGoType, SizeFacts, ElmAssumption
  <2> QED
    BY <2>2, <2>3, <2>4
<1>12. CASE EndPatch
  <2>1. ToGo' = 0
    BY <1>12 DEF EndPatch, Renumber, ToGo
  <2>2. mode # "idle"
    BY <1>12 DEF EndPatch, Patched, RestDone
  <2> QED
    BY <2>1, <2>2, ToGoType, ElmAssumption
<1> QED
  BY <1>1, <1>2, <1>3, <1>4, <1>5, <1>6, <1>7, <1>8, <1>9, <1>10, <1>11, <1>12
     DEF Patch

\* A patch ends: between a render and the end of its patch nothing else happens,
\* and every turn of the loop, every vnode added or removed afterwards and the
\* passage to the second pass bring it nearer, in four steps for each child that
\* an element may have and four more at the most.
THEOREM PatchEnds ==
    Spec => /\ [](ToGo \in 0 .. 4 * MaxChildren + 4 /\ (ToGo = 0 <=> mode = "idle"))
            /\ [][mode # "idle" => ToGo' < ToGo]_vars
<1>1. Inv => ToGo \in 0 .. 4 * MaxChildren + 4 /\ (ToGo = 0 <=> mode = "idle")
  BY ToGoType
<1>2. Inv /\ Inv' /\ [Next]_vars => [mode # "idle" => ToGo' < ToGo]_vars
  BY PatchLess DEF Next, Render, RenderGroup, LeaveEnds
<1> QED
  BY <1>1, <1>2, PatchInvariant, PTL DEF Spec
=============================================================================
