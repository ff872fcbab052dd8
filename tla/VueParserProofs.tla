--------------------------- MODULE VueParserProofs ---------------------------
(***************************************************************************)
(* That the parser of templates keeps its two stacks together, for every   *)
(* sequence of tokens: parseHTML's stack of tags and parse's stack of      *)
(* elements, which the hooks push and pop on their own; and that what it   *)
(* makes of the tokens is a tree.                                          *)
(***************************************************************************)
EXTENDS VueParser, SequenceTheorems, WellFoundedInduction, TLAPS

-----------------------------------------------------------------------------
(* Sequences of anything *)

IsSeq(q) == \E S : q \in Seq(S)

LEMMA SeqFacts ==
    ASSUME NEW q, IsSeq(q)
    PROVE  Len(q) \in Nat /\ DOMAIN q = 1 .. Len(q)
BY DEF IsSeq

LEMMA AppendFacts ==
    ASSUME NEW q, IsSeq(q), NEW x
    PROVE  /\ IsSeq(Append(q, x))
           /\ Len(Append(q, x)) = Len(q) + 1
           /\ DOMAIN Append(q, x) = 1 .. Len(q) + 1
           /\ \A i \in 1 .. Len(q) : Append(q, x)[i] = q[i]
           /\ Append(q, x)[Len(q) + 1] = x
<1>1. PICK S : q \in Seq(S)
  BY DEF IsSeq
<1>2. PICK T : T = S \cup {x}
  OBVIOUS
<1>3. q \in Seq(T)
  <2>1. Len(q) \in Nat /\ q \in [1 .. Len(q) -> S]
    BY <1>1
  <2>2. q \in [1 .. Len(q) -> T]
    BY <1>2, <2>1
  <2> QED
    BY <2>1, <2>2
<1>4. Append(q, x) \in Seq(T)
  BY <1>2, <1>3
<1>5. /\ Len(Append(q, x)) = Len(q) + 1
      /\ \A i \in 1 .. Len(q) : Append(q, x)[i] = q[i]
      /\ Append(q, x)[Len(q) + 1] = x
  BY <1>2, <1>3
<1> QED
  BY <1>4, <1>5 DEF IsSeq

LEMMA ExceptFacts ==
    ASSUME NEW q, IsSeq(q), NEW n, NEW x
    PROVE  /\ IsSeq([q EXCEPT ![n] = x])
           /\ Len([q EXCEPT ![n] = x]) = Len(q)
           /\ DOMAIN [q EXCEPT ![n] = x] = DOMAIN q
           /\ \A i \in DOMAIN q : [q EXCEPT ![n] = x][i] = IF i = n THEN x ELSE q[i]
<1> DEFINE e == [q EXCEPT ![n] = x]
<1>1. PICK S : q \in Seq(S)
  BY DEF IsSeq
<1>2. PICK T : T = S \cup {x}
  OBVIOUS
<1>3. Len(q) \in Nat /\ q \in [1 .. Len(q) -> S]
  BY <1>1
<1>4. e \in [1 .. Len(q) -> T] /\ \A i \in DOMAIN q : e[i] = IF i = n THEN x ELSE q[i]
  BY <1>2, <1>3
<1> HIDE DEF e
<1>5. e \in Seq(T)
  BY <1>3, <1>4
<1>6. Len(e) = Len(q) /\ DOMAIN e = DOMAIN q
  BY <1>3, <1>4, <1>5
<1> QED
  BY <1>4, <1>5, <1>6 DEF IsSeq, e

\* The first k of a sequence.
LEMMA FirstFacts ==
    ASSUME NEW q, IsSeq(q), NEW k \in 0 .. Len(q)
    PROVE  /\ IsSeq(SubSeq(q, 1, k))
           /\ Len(SubSeq(q, 1, k)) = k
           /\ DOMAIN SubSeq(q, 1, k) = 1 .. k
           /\ \A i \in 1 .. k : SubSeq(q, 1, k)[i] = q[i]
<1>1. PICK S : q \in Seq(S)
  BY DEF IsSeq
<1>2. Len(q) \in Nat
  BY <1>1
<1>3. SubSeq(q, 1, k) \in Seq(S)
  BY <1>1, <1>2
<1>4. Len(SubSeq(q, 1, k)) = k /\ \A i \in 1 .. k : SubSeq(q, 1, k)[i] = q[i]
  BY <1>1, <1>2
<1> QED
  BY <1>3, <1>4 DEF IsSeq

-----------------------------------------------------------------------------
(* States of the parser *)

IsState(s) ==
    s = [open |-> s.open, lastTag |-> s.lastTag, nodes |-> s.nodes, stack |-> s.stack,
         inVPre |-> s.inVPre, inPre |-> s.inPre, root |-> s.root]

IsNode(m) ==
    m = [type |-> m.type, tag |-> m.tag, raw |-> m.raw, has |-> m.has, at |-> m.at,
         parent |-> m.parent, children |-> m.children, conds |-> m.conds]

Literal(s, n) == "pre" \in s.nodes[n].has

\* Nodes and stacks are sound, v-pre aside.
Formed(s) ==
    /\ IsState(s)
    /\ IsSeq(s.open) /\ IsSeq(s.nodes) /\ IsSeq(s.stack)
    /\ \A n \in DOMAIN s.nodes : IsNode(s.nodes[n])
    /\ \A i \in DOMAIN s.stack : s.stack[i] \in DOMAIN s.nodes

\* One element at most has the v-pre that is open.
PreOpen(s) ==
    /\ s.inVPre \in BOOLEAN
    /\ s.inVPre <=> \E i \in DOMAIN s.stack : Literal(s, s.stack[i])
    /\ \A i, j \in DOMAIN s.stack : Literal(s, s.stack[i]) /\ Literal(s, s.stack[j]) => i = j

Sound(s) == Formed(s) /\ PreOpen(s)

\* parseHTML's stack names the elements of parse's.
Agree(s) ==
    /\ s.open = [i \in DOMAIN s.stack |-> s.nodes[s.stack[i]].tag]
    /\ s.lastTag = Top(s.open, "")

\* The nodes of s are still there, whatever has been put into them.
Keeps(t, s) ==
    /\ DOMAIN s.nodes \subseteq DOMAIN t.nodes
    /\ \A n \in DOMAIN s.nodes : t.nodes[n].tag = s.nodes[n].tag /\ (Literal(t, n) <=> Literal(s, n))

\* Nothing but what is in the nodes has changed.
Like(t, s) ==
    /\ Formed(t)
    /\ t.open = s.open /\ t.lastTag = s.lastTag /\ t.stack = s.stack
    /\ t.inVPre = s.inVPre
    /\ DOMAIN t.nodes = DOMAIN s.nodes
    /\ Keeps(t, s)

LEMMA LikeItself == ASSUME NEW s, Formed(s) PROVE Like(s, s)
BY DEF Like, Keeps

LEMMA LikeTransitive ==
    ASSUME NEW r, NEW s, NEW t, Like(s, r), Like(t, s)
    PROVE  Like(t, r)
BY DEF Like, Keeps

\* A node gets other contents.
LEMMA NodeChanges ==
    ASSUME NEW s, Formed(s), NEW n, NEW m, IsNode(m), m.tag = s.nodes[n].tag,
           "pre" \in m.has <=> Literal(s, n)
    PROVE  Like([s EXCEPT !.nodes = [s.nodes EXCEPT ![n] = m]], s)
<1> DEFINE ns == [s.nodes EXCEPT ![n] = m]
           t == [s EXCEPT !.nodes = ns]
<1>1. /\ IsSeq(ns) /\ DOMAIN ns = DOMAIN s.nodes
      /\ \A i \in DOMAIN s.nodes : ns[i] = IF i = n THEN m ELSE s.nodes[i]
  BY ExceptFacts DEF Formed
<1> HIDE DEF ns
<1>2. /\ IsState(t) /\ t.nodes = ns /\ t.open = s.open /\ t.lastTag = s.lastTag
      /\ t.stack = s.stack /\ t.inVPre = s.inVPre
  BY DEF Formed, IsState
<1> HIDE DEF t
<1>3. \A i \in DOMAIN s.nodes : /\ IsNode(ns[i]) /\ ns[i].tag = s.nodes[i].tag
                               /\ ("pre" \in ns[i].has <=> "pre" \in s.nodes[i].has)
  BY <1>1 DEF Formed, Literal
<1>4. Formed(t)
  BY <1>1, <1>2, <1>3 DEF Formed
<1>5. Keeps(t, s)
  BY <1>1, <1>2, <1>3 DEF Keeps, Literal
<1>6. Like(t, s)
  BY <1>1, <1>2, <1>4, <1>5 DEF Like
<1> QED
  BY <1>6 DEF t, ns

\* Outside the nodes there is nothing to change.
LEMMA NoNodeChanges ==
    ASSUME NEW s, Formed(s), NEW n, n \notin DOMAIN s.nodes, NEW m
    PROVE  Like([s EXCEPT !.nodes = [s.nodes EXCEPT ![n] = m]], s)
<1>1. [s.nodes EXCEPT ![n] = m] = s.nodes
  <2>1. s.nodes = [i \in 1 .. Len(s.nodes) |-> s.nodes[i]]
    BY DEF Formed, IsSeq
  <2> QED
    BY <2>1
<1>2. [s EXCEPT !.nodes = s.nodes] = s
  BY DEF Formed, IsState
<1> QED
  BY <1>1, <1>2, LikeItself

LEMMA NodeExcept ==
    ASSUME NEW o, IsNode(o), NEW x
    PROVE  /\ LET m == [o EXCEPT !.children = x] IN IsNode(m) /\ m.tag = o.tag /\ m.has = o.has
           /\ LET m == [o EXCEPT !.conds = x] IN IsNode(m) /\ m.tag = o.tag /\ m.has = o.has
           /\ LET m == [o EXCEPT !.has = x] IN IsNode(m) /\ m.tag = o.tag /\ m.has = x
BY DEF IsNode

LEMMA ChildrenChange ==
    ASSUME NEW s, Formed(s), NEW n, NEW x
    PROVE  Like([s EXCEPT !.nodes[n].children = x], s)
<1> DEFINE m == [s.nodes[n] EXCEPT !.children = x]
<1>1. [s EXCEPT !.nodes[n].children = x] = [s EXCEPT !.nodes = [s.nodes EXCEPT ![n] = m]]
  BY DEF Formed, IsState
<1>2. CASE n \in DOMAIN s.nodes
  <2>1. IsNode(m) /\ m.tag = s.nodes[n].tag /\ m.has = s.nodes[n].has
    BY <1>2, NodeExcept DEF Formed
  <2> HIDE DEF m
  <2> QED
    BY <1>1, <2>1, NodeChanges DEF Literal
<1>3. CASE n \notin DOMAIN s.nodes
  BY <1>1, <1>3, NoNodeChanges
<1> QED
  BY <1>2, <1>3

LEMMA CondsChange ==
    ASSUME NEW s, Formed(s), NEW n, NEW block
    PROVE  Like(AddIfCondition(s, n, block), s)
<1> DEFINE x == Append(s.nodes[n].conds, block)
           m == [s.nodes[n] EXCEPT !.conds = x]
<1>1. AddIfCondition(s, n, block) = [s EXCEPT !.nodes = [s.nodes EXCEPT ![n] = m]]
  BY DEF AddIfCondition, Formed, IsState
<1> HIDE DEF x
<1>2. CASE n \in DOMAIN s.nodes
  <2>1. IsNode(m) /\ m.tag = s.nodes[n].tag /\ m.has = s.nodes[n].has
    BY <1>2, NodeExcept DEF Formed
  <2> HIDE DEF m
  <2> QED
    BY <1>1, <2>1, NodeChanges DEF Literal
<1>3. CASE n \notin DOMAIN s.nodes
  BY <1>1, <1>3, NoNodeChanges
<1> QED
  BY <1>2, <1>3

LEMMA HasChanges ==
    ASSUME NEW s, Formed(s), NEW n, NEW x, "pre" \notin x
    PROVE  Like([s EXCEPT !.nodes[n].has = @ \cup x], s)
<1> DEFINE h == s.nodes[n].has \cup x
           m == [s.nodes[n] EXCEPT !.has = h]
<1>1. [s EXCEPT !.nodes[n].has = @ \cup x] = [s EXCEPT !.nodes = [s.nodes EXCEPT ![n] = m]]
  BY DEF Formed, IsState
<1>2. "pre" \in h <=> Literal(s, n)
  BY DEF Literal
<1> HIDE DEF h
<1>3. CASE n \in DOMAIN s.nodes
  <2>1. IsNode(m) /\ m.tag = s.nodes[n].tag /\ m.has = h
    BY <1>3, NodeExcept DEF Formed
  <2> HIDE DEF m
  <2> QED
    BY <1>1, <1>2, <2>1, NodeChanges
<1>4. CASE n \notin DOMAIN s.nodes
  BY <1>1, <1>4, NoNodeChanges
<1> QED
  BY <1>3, <1>4

-----------------------------------------------------------------------------
(* Closing an element *)

LEMMA TrimLike == ASSUME NEW s, Formed(s), NEW n PROVE Like(TrimEndingWhitespace(s, n), s)
BY LikeItself, ChildrenChange DEF TrimEndingWhitespace

LEMMA PlaceLike == ASSUME NEW s, Formed(s), NEW n PROVE Like(PlaceElement(s, n), s)
<1>1. ASSUME NEW parent PROVE Like(ProcessIfConditions(s, n, parent), s)
  <2> DEFINE t == DropTexts(s, parent)
  <2>1. Like(t, s)
    BY ChildrenChange DEF DropTexts
  <2>2. Formed(t)
    BY <2>1 DEF Like
  <2>3. \E prev : ProcessIfConditions(s, n, parent) \in {t, AddIfCondition(t, prev, n)}
    BY DEF ProcessIfConditions
  <2> HIDE DEF t
  <2>4. \A prev : Like(AddIfCondition(t, prev, n), s)
    BY <2>1, <2>2, CondsChange, LikeTransitive
  <2> QED
    BY <2>1, <2>3, <2>4
<1>2. \A p : Like(AddIfCondition(s, p, n), s)
  BY CondsChange
<1>3. \A parent, x : Like([s EXCEPT !.nodes[parent].children = x], s)
  BY ChildrenChange
<1> QED
  BY <1>1, <1>2, <1>3, LikeItself DEF PlaceElement

LEMMA CloseFacts ==
    ASSUME NEW s, Formed(s), NEW n \in DOMAIN s.nodes
    PROVE  LET t == CloseElement(s, n)
           IN  /\ Formed(t)
               /\ t.open = s.open /\ t.lastTag = s.lastTag /\ t.stack = s.stack
               /\ t.inVPre = (s.inVPre /\ ~ Literal(s, n))
               /\ DOMAIN t.nodes = DOMAIN s.nodes
               /\ Keeps(t, s)
<1> DEFINE trimmed == TrimEndingWhitespace(s, n)
           x == s.nodes[n].raw \cap {"bind", "key"}
           processed == IF s.inVPre THEN trimmed ELSE [trimmed EXCEPT !.nodes[n].has = @ \cup x]
           placed == TrimEndingWhitespace(PlaceElement(processed, n), n)
           t == CloseElement(s, n)
<1>1. Like(trimmed, s)
  BY TrimLike
<1>2. "pre" \notin x
  OBVIOUS
<1>3. t = [placed EXCEPT !.inVPre = @ /\ "pre" \notin s.nodes[n].has,
                         !.inPre = @ /\ s.nodes[n].tag # "pre"]
  BY DEF CloseElement
<1> HIDE DEF trimmed, x, t
<1>4. Like(processed, trimmed)
  BY <1>1, <1>2, LikeItself, HasChanges DEF Like
<1> HIDE DEF processed
<1>5. Like(PlaceElement(processed, n), processed)
  BY <1>4, PlaceLike DEF Like
<1>6. Like(placed, PlaceElement(processed, n))
  BY <1>5, TrimLike DEF Like
<1> HIDE DEF placed
<1>7. Like(placed, s)
  BY <1>1, <1>4, <1>5, <1>6, LikeTransitive
<1>8. /\ IsState(t) /\ t.open = placed.open /\ t.lastTag = placed.lastTag
      /\ t.nodes = placed.nodes /\ t.stack = placed.stack
      /\ t.inVPre = (placed.inVPre /\ "pre" \notin s.nodes[n].has)
  BY <1>3, <1>7 DEF Like, Formed, IsState
<1>9. Formed(t)
  BY <1>7, <1>8 DEF Like, Formed
<1>10. Keeps(t, s)
  BY <1>7, <1>8 DEF Like, Keeps, Literal
<1> QED
  BY <1>7, <1>8, <1>9, <1>10 DEF Like, Literal, t

-----------------------------------------------------------------------------
(* Opening and closing *)

\* The stack of t is that of s, one element longer.
Pushed(t, s) ==
    /\ Len(t.stack) = Len(s.stack) + 1
    /\ \A i \in 1 .. Len(s.stack) : t.stack[i] = s.stack[i]

\* The stack of t is that of s without its k last.
Popped(t, s, k) ==
    /\ Len(t.stack) = Len(s.stack) - k
    /\ \A i \in 1 .. Len(t.stack) : t.stack[i] = s.stack[i]

LEMMA StructuralIsNotPre == \A raw : "pre" \notin Structural(raw)
BY DEF Structural

Made(t, s, ns, v, q, r) ==
    t = [s EXCEPT !.nodes = ns, !.inVPre = v, !.inPre = q, !.root = r]

LEMMA MadeFacts ==
    ASSUME NEW s, IsState(s), NEW ns, NEW v, NEW q, NEW r, NEW t, Made(t, s, ns, v, q, r)
    PROVE  /\ IsState(t) /\ t.open = s.open /\ t.lastTag = s.lastTag
           /\ t.stack = s.stack /\ t.nodes = ns /\ t.inVPre = v /\ t.root = r
BY DEF IsState, Made

\* An element that holds nothing, and one that is left open.
Single(s, tag, raw) == Start(s, tag, raw, TRUE)
Opened(s, tag, raw) == Start(s, tag, raw, FALSE)

LEMMA StartFacts ==
    ASSUME NEW s, Sound(s), NEW tag, NEW raw
    PROVE  /\ LET t == Single(s, tag, raw)
              IN  /\ Sound(t)
                  /\ t.open = s.open /\ t.lastTag = s.lastTag
                  /\ Keeps(t, s)
                  /\ t.stack = s.stack
           /\ LET t == Opened(s, tag, raw)
              IN  /\ Sound(t)
                  /\ t.open = s.open /\ t.lastTag = s.lastTag
                  /\ Keeps(t, s)
                  /\ Pushed(t, s) /\ t.nodes[t.stack[Len(t.stack)]].tag = tag
<1> DEFINE n == Len(s.nodes) + 1
           pre == ~ s.inVPre /\ "pre" \in raw
           has == IF pre THEN {"pre"} ELSE IF s.inVPre THEN {} ELSE Structural(raw)
           e == Element(s, tag, raw, has)
           ns == Append(s.nodes, e)
           v == s.inVPre \/ pre
           q == s.inPre \/ tag = "pre"
           r == IF s.root = 0 THEN n ELSE s.root
           made == [s EXCEPT !.nodes = ns, !.inVPre = v, !.inPre = q, !.root = r]
<1>1. /\ Single(s, tag, raw) = CloseElement(made, n)
      /\ Opened(s, tag, raw) = [made EXCEPT !.stack = Append(@, n)]
  BY DEF Start, Single, Opened
<1>2. /\ s.inVPre \in BOOLEAN /\ pre \in BOOLEAN
      /\ "pre" \in has <=> pre
      /\ pre => ~ s.inVPre
  BY StructuralIsNotPre DEF Sound, PreOpen
<1> HIDE DEF pre
<1>3. IsNode(e) /\ e.tag = tag /\ e.has = has
  BY DEF Element, IsNode
<1> HIDE DEF has, e
<1> HIDE DEF ns, v, q, r, made
<1>0. /\ IsState(made) /\ made.open = s.open /\ made.lastTag = s.lastTag
      /\ made.stack = s.stack /\ made.nodes = ns /\ made.inVPre = v
  <2>1. IsState(s)
    BY DEF Sound, Formed
  <2>2. Made(made, s, ns, v, q, r)
    BY DEF made, Made
  <2> QED
    BY <2>1, <2>2, MadeFacts
<1>4. /\ IsState(made) /\ made.open = s.open /\ made.lastTag = s.lastTag
      /\ made.stack = s.stack /\ made.nodes = Append(s.nodes, e)
      /\ made.inVPre = (s.inVPre \/ pre)
  BY <1>0 DEF ns, v
<1>5. /\ IsSeq(made.nodes) /\ DOMAIN s.nodes = 1 .. Len(s.nodes) /\ Len(s.nodes) \in Nat
      /\ DOMAIN made.nodes = 1 .. n
      /\ \A i \in DOMAIN s.nodes : made.nodes[i] = s.nodes[i]
      /\ made.nodes[n] = e
  BY <1>4, AppendFacts, SeqFacts DEF Sound, Formed
<1>6. \A i \in 1 .. n : i = n \/ i \in DOMAIN s.nodes
  BY <1>5
<1>7. Formed(made)
  BY <1>3, <1>4, <1>5, <1>6 DEF Sound, Formed
<1>8. Keeps(made, s) /\ n \in DOMAIN made.nodes /\ n \notin DOMAIN s.nodes /\ (Literal(made, n) <=> pre)
  BY <1>2, <1>3, <1>5 DEF Keeps, Literal
<1>9. LET t == Single(s, tag, raw)
      IN  /\ Sound(t)
          /\ t.open = s.open /\ t.lastTag = s.lastTag
          /\ Keeps(t, s)
          /\ t.stack = s.stack
  <2> DEFINE t == Single(s, tag, raw)
  <2>1. /\ Formed(t) /\ t.open = made.open /\ t.lastTag = made.lastTag /\ t.stack = made.stack
        /\ t.inVPre = (made.inVPre /\ ~ Literal(made, n))
        /\ DOMAIN t.nodes = DOMAIN made.nodes
        /\ Keeps(t, made)
    BY <1>1, <1>7, <1>8, CloseFacts
  <2> HIDE DEF t
  <2>2. Keeps(t, s)
    BY <1>8, <2>1 DEF Keeps
  <2>3. t.inVPre = s.inVPre
    BY <1>2, <1>4, <1>8, <2>1
  <2>4. PreOpen(t)
    BY <1>4, <2>1, <2>2, <2>3 DEF Sound, Formed, PreOpen, Keeps
  <2>5. Sound(t)
    BY <2>1, <2>4 DEF Sound
  <2> QED
    BY <1>4, <2>1, <2>2, <2>5 DEF t
<1>10. LET t == Opened(s, tag, raw)
       IN  /\ Sound(t)
           /\ t.open = s.open /\ t.lastTag = s.lastTag
           /\ Keeps(t, s)
           /\ Pushed(t, s) /\ t.nodes[t.stack[Len(t.stack)]].tag = tag
  <2> DEFINE k == Len(s.stack)
             t == Opened(s, tag, raw)
  <2>1. t = [made EXCEPT !.stack = Append(made.stack, n)]
    BY <1>1
  <2>2. /\ IsState(t) /\ t.open = made.open /\ t.lastTag = made.lastTag
        /\ t.nodes = made.nodes /\ t.inVPre = made.inVPre
        /\ t.stack = Append(s.stack, n)
    BY <1>4, <2>1 DEF IsState
  <2> HIDE DEF t
  <2>3. /\ IsSeq(t.stack) /\ Len(t.stack) = k + 1 /\ DOMAIN t.stack = 1 .. k + 1
        /\ DOMAIN s.stack = 1 .. k /\ k \in Nat
        /\ \A i \in 1 .. k : t.stack[i] = s.stack[i]
        /\ t.stack[k + 1] = n
    BY <2>2, AppendFacts, SeqFacts DEF Sound, Formed
  <2> HIDE DEF k
  <2>4. \A i \in 1 .. k + 1 : i = k + 1 \/ i \in 1 .. k
    BY <2>3
  <2>5. Keeps(t, s)
    BY <1>8, <2>2 DEF Keeps, Literal
  <2>6. Formed(t)
    BY <1>7, <1>8, <2>2, <2>3, <2>4 DEF Formed, Sound, Keeps
  <2>7. /\ \A i \in 1 .. k : Literal(t, t.stack[i]) <=> Literal(s, s.stack[i])
        /\ Literal(t, t.stack[k + 1]) <=> pre
    BY <1>8, <2>2, <2>3, <2>5 DEF Sound, Formed, Keeps, Literal
  <2>8. PreOpen(t)
    <3>1. s.inVPre <=> \E i \in 1 .. k : Literal(s, s.stack[i])
      BY <2>3 DEF Sound, PreOpen
    <3>2. t.inVPre \in BOOLEAN /\ (t.inVPre <=> \E i \in DOMAIN t.stack : Literal(t, t.stack[i]))
      <4>1. t.inVPre = (s.inVPre \/ pre)
        BY <1>4, <2>2
      <4>2. k + 1 \in 1 .. k + 1 /\ \A i \in 1 .. k : i \in 1 .. k + 1
        BY <2>3
      <4>3. (\E i \in 1 .. k + 1 : Literal(t, t.stack[i])) <=> pre \/ \E i \in 1 .. k : Literal(s, s.stack[i])
        BY <2>4, <2>7, <4>2
      <4> QED
        BY <1>2, <2>3, <3>1, <4>1, <4>3
    <3>3. ASSUME NEW i \in 1 .. k + 1, NEW j \in 1 .. k + 1, Literal(t, t.stack[i]), Literal(t, t.stack[j])
          PROVE  i = j
      <4>1. CASE i \in 1 .. k /\ j \in 1 .. k
        BY <2>3, <2>7, <3>3, <4>1 DEF Sound, PreOpen
      <4>2. CASE i = k + 1 \/ j = k + 1
        BY <1>2, <2>3, <2>4, <2>7, <3>1, <3>3, <4>2
      <4> QED
        BY <2>4, <4>1, <4>2
    <3> QED
      BY <2>3, <3>2, <3>3 DEF PreOpen
  <2>9. Sound(t) /\ Pushed(t, s) /\ t.nodes[t.stack[Len(t.stack)]].tag = tag
    BY <1>3, <1>5, <2>2, <2>3, <2>6, <2>8 DEF Sound, Pushed, k
  <2> QED
    BY <1>4, <2>2, <2>5, <2>9 DEF t
<1> QED
  BY <1>9, <1>10

LEMMA EndFacts ==
    ASSUME NEW s, Sound(s), Len(s.stack) # 0
    PROVE  LET t == End(s)
           IN  /\ Sound(t)
               /\ t.open = s.open /\ t.lastTag = s.lastTag
               /\ Keeps(t, s)
               /\ Popped(t, s, 1)
<1> DEFINE k == Len(s.stack)
           r == [s EXCEPT !.stack = Front(@)]
           n == s.stack[k]
           t == End(s)
<1>1. k \in Nat \ {0} /\ DOMAIN s.stack = 1 .. k /\ k - 1 \in 0 .. k
  BY SeqFacts DEF Sound, Formed
<1>2. t = CloseElement(r, n)
  BY DEF End, Last
<1>3. /\ IsState(r) /\ r.open = s.open /\ r.lastTag = s.lastTag
      /\ r.nodes = s.nodes /\ r.inVPre = s.inVPre /\ r.stack = SubSeq(s.stack, 1, k - 1)
  BY DEF Sound, Formed, IsState, Front
<1> HIDE DEF r, t
<1>4. /\ IsSeq(r.stack) /\ Len(r.stack) = k - 1 /\ DOMAIN r.stack = 1 .. k - 1
      /\ \A i \in 1 .. k - 1 : r.stack[i] = s.stack[i]
  BY <1>1, <1>3, FirstFacts DEF Sound, Formed
<1> HIDE DEF k
<1>5. /\ \A i \in 1 .. k - 1 : i \in 1 .. k /\ i # k
      /\ \A i \in 1 .. k : i = k \/ i \in 1 .. k - 1
      /\ k \in 1 .. k
  BY <1>1
<1>6. Formed(r) /\ n \in DOMAIN r.nodes
  BY <1>1, <1>3, <1>4, <1>5 DEF Sound, Formed
<1>7. /\ Formed(t)
      /\ t.open = r.open /\ t.lastTag = r.lastTag /\ t.stack = r.stack
      /\ t.inVPre = (r.inVPre /\ ~ Literal(r, n))
      /\ DOMAIN t.nodes = DOMAIN r.nodes
      /\ Keeps(t, r)
  BY <1>2, <1>6, CloseFacts
<1> HIDE DEF n
<1>8. Keeps(t, s)
  BY <1>3, <1>7 DEF Keeps, Literal
<1>9. Popped(t, s, 1)
  BY <1>4, <1>7 DEF Popped, k
<1>10. \A i \in 1 .. k - 1 : Literal(t, t.stack[i]) <=> Literal(s, s.stack[i])
  BY <1>1, <1>4, <1>5, <1>7, <1>8 DEF Sound, Formed, Keeps
<1>11. Literal(r, n) <=> Literal(s, s.stack[k])
  BY <1>3 DEF Literal, n
<1>12. PreOpen(t)
  <2>1. /\ s.inVPre \in BOOLEAN
        /\ s.inVPre <=> \E i \in 1 .. k : Literal(s, s.stack[i])
        /\ \A i, j \in 1 .. k : Literal(s, s.stack[i]) /\ Literal(s, s.stack[j]) => i = j
    BY <1>1 DEF Sound, PreOpen
  <2>2. t.inVPre <=> \E i \in 1 .. k - 1 : Literal(s, s.stack[i])
    BY <1>3, <1>5, <1>7, <1>11, <2>1
  <2>3. DOMAIN t.stack = 1 .. k - 1
    BY <1>4, <1>7
  <2>4. t.inVPre \in BOOLEAN
    BY <1>3, <1>7, <2>1
  <2>5. t.inVPre <=> \E i \in DOMAIN t.stack : Literal(t, t.stack[i])
    BY <1>10, <2>2, <2>3
  <2>6. \A i, j \in DOMAIN t.stack : Literal(t, t.stack[i]) /\ Literal(t, t.stack[j]) => i = j
    BY <1>5, <1>10, <2>1, <2>3
  <2> QED
    BY <2>4, <2>5, <2>6 DEF PreOpen
<1>13. Sound(t) /\ t.open = s.open /\ t.lastTag = s.lastTag
  BY <1>3, <1>7, <1>12 DEF Sound
<1> QED
  BY <1>8, <1>9, <1>13 DEF t

-----------------------------------------------------------------------------
(* Closing several elements *)

Less == {p \in Nat \X Nat : p[1] < p[2]}

\* A set that holds zero, and every number after one it holds, holds them all.
LEMMA Counting ==
    ASSUME NEW S, 0 \in S, \A n \in Nat : n \in S => n + 1 \in S
    PROVE  Nat \subseteq S
<1> SUFFICES ASSUME ~ Nat \subseteq S PROVE FALSE
  OBVIOUS
<1> DEFINE R == Less
<1>1. IsWellFoundedOn(R, Nat)
  BY NatLessThanWellFounded DEF Less, OpToRel
<1> HIDE DEF R
<1>2. PICK n \in Nat \ S : \A m \in Nat \ S : ~ <<m, n>> \in R
  <2> DEFINE T == Nat \ S
  <2>1. T \subseteq Nat /\ T # {}
    OBVIOUS
  <2> HIDE DEF T
  <2>2. \E n \in T : \A m \in T : ~ <<m, n>> \in R
    BY <1>1, <2>1, WFMin
  <2> QED
    BY <2>2 DEF T
<1>3. n # 0 /\ n - 1 \in Nat /\ <<n - 1, n>> \in R
  BY DEF R, Less
<1>4. n - 1 \in S
  BY <1>2, <1>3
<1> QED
  BY <1>3, <1>4

\* f takes the steps of Ends.
Steps(f, s, k) == f = [i \in 0 .. k |-> IF i = 0 THEN s ELSE End(f[i - 1])]

LEMMA StepsExist == ASSUME NEW s, NEW k \in Nat PROVE \E f : Steps(f, s, k)
<1> DEFINE S == {n \in Nat : \E f : Steps(f, s, n)}
<1>1. 0 \in S
  <2> DEFINE f == [i \in 0 .. 0 |-> s]
  <2>1. f = [i \in 0 .. 0 |-> IF i = 0 THEN s ELSE End(f[i - 1])]
    OBVIOUS
  <2> HIDE DEF f
  <2>2. Steps(f, s, 0)
    BY <2>1 DEF Steps
  <2> QED
    BY <2>2
<1>2. ASSUME NEW n \in Nat, n \in S PROVE n + 1 \in S
  <2>1. PICK f : Steps(f, s, n)
    BY <1>2
  <2> DEFINE g == [i \in 0 .. n + 1 |-> IF i = n + 1 THEN End(f[n]) ELSE f[i]]
  <2>2. \A i \in 0 .. n : g[i] = f[i]
    OBVIOUS
  <2>3. \A i \in 0 .. n : f[i] = IF i = 0 THEN s ELSE End(f[i - 1])
    BY <2>1 DEF Steps
  <2>4. ASSUME NEW i \in 0 .. n + 1
        PROVE  g[i] = IF i = 0 THEN s ELSE End(g[i - 1])
    <3>1. CASE i = n + 1
      <4>1. g[i] = End(f[n]) /\ n \in 0 .. n /\ i - 1 = n /\ i # 0
        BY <3>1
      <4> HIDE DEF g
      <4> QED
        BY <2>2, <4>1
    <3>2. CASE i # n + 1
      <4>1. i \in 0 .. n /\ (i # 0 => i - 1 \in 0 .. n)
        BY <3>2
      <4> HIDE DEF g
      <4> QED
        BY <2>2, <2>3, <4>1
    <3> QED
      BY <3>1, <3>2
  <2>5. g = [i \in 0 .. n + 1 |-> g[i]]
    OBVIOUS
  <2> HIDE DEF g
  <2>6. Steps(g, s, n + 1)
    BY <2>4, <2>5 DEF Steps
  <2> QED
    BY <2>6
<1> HIDE DEF S
<1>3. Nat \subseteq S
  BY <1>1, <1>2, Counting
<1> QED
  BY <1>3 DEF S

LEMMA EndsSteps ==
    ASSUME NEW s, NEW k \in Nat
    PROVE  \E f : Steps(f, s, k) /\ Ends(s, k) = f[k]
<1> DEFINE f == CHOOSE f : Steps(f, s, k)
<1>1. Steps(f, s, k)
  BY StepsExist
<1>2. Ends(s, k) = f[k]
  BY DEF Ends, Steps
<1> QED
  BY <1>1, <1>2

LEMMA EndsFacts ==
    ASSUME NEW s, Sound(s), NEW k \in 0 .. Len(s.stack)
    PROVE  LET t == Ends(s, k)
           IN  /\ Sound(t)
               /\ t.open = s.open /\ t.lastTag = s.lastTag
               /\ Keeps(t, s)
               /\ Popped(t, s, k)
<1>0. Len(s.stack) \in Nat /\ k \in Nat /\ k <= Len(s.stack)
  BY SeqFacts DEF Sound, Formed
<1>1. PICK f : Steps(f, s, k) /\ Ends(s, k) = f[k]
  BY <1>0, EndsSteps
<1> DEFINE Fine(t, i) == /\ Sound(t)
                         /\ t.open = s.open /\ t.lastTag = s.lastTag
                         /\ Keeps(t, s)
                         /\ Popped(t, s, i)
           S == {i \in Nat : i <= k => Fine(f[i], i)}
<1>2. f[0] = s /\ \A i \in 1 .. k : f[i] = End(f[i - 1])
  <2>1. /\ 0 \in 0 .. k
        /\ \A i \in 1 .. k : i \in 0 .. k /\ i # 0
    BY <1>0
  <2>2. \A i \in 0 .. k : f[i] = IF i = 0 THEN s ELSE End(f[i - 1])
    BY <1>1 DEF Steps
  <2> QED
    BY <2>1, <2>2
<1>3. 0 \in S
  <2>1. Keeps(s, s) /\ Popped(s, s, 0)
    BY <1>0 DEF Keeps, Popped
  <2> QED
    BY <1>2, <2>1
<1>4. ASSUME NEW n \in Nat, n \in S PROVE n + 1 \in S
  <2>1. CASE ~ n + 1 <= k
    BY <2>1
  <2>2. CASE n + 1 <= k
    <3>1. Fine(f[n], n) /\ f[n + 1] = End(f[n])
      <4>1. n <= k /\ n + 1 \in 1 .. k /\ (n + 1) - 1 = n
        BY <1>0, <2>2
      <4> QED
        BY <1>2, <1>4, <4>1
    <3> DEFINE t == f[n]
               u == f[n + 1]
    <3> HIDE DEF t, u
    <3>2. Sound(t) /\ Keeps(t, s) /\ Popped(t, s, n) /\ u = End(t)
          /\ t.open = s.open /\ t.lastTag = s.lastTag
      BY <3>1 DEF t, u
    <3>3. Len(t.stack) # 0
      BY <1>0, <2>2, <3>2 DEF Popped
    <3>4. Sound(u) /\ u.open = t.open /\ u.lastTag = t.lastTag /\ Keeps(u, t) /\ Popped(u, t, 1)
      BY <3>2, <3>3, EndFacts
    <3>5. Keeps(u, s)
      BY <3>2, <3>4 DEF Keeps
    <3>6. Popped(u, s, n + 1)
      <4>1. Len(t.stack) = Len(s.stack) - n /\ Len(u.stack) = Len(t.stack) - 1
        BY <3>2, <3>4 DEF Popped
      <4>2. Len(u.stack) = Len(s.stack) - (n + 1)
        BY <1>0, <4>1
      <4>3. \A i \in 1 .. Len(u.stack) : i \in 1 .. Len(t.stack)
        BY <1>0, <4>1
      <4>4. \A i \in 1 .. Len(u.stack) : u.stack[i] = s.stack[i]
        BY <3>2, <3>4, <4>3 DEF Popped
      <4> QED
        BY <4>2, <4>4 DEF Popped
    <3>7. Fine(u, n + 1)
      BY <3>2, <3>4, <3>5, <3>6
    <3> QED
      BY <3>7 DEF u
  <2> QED
    BY <2>1, <2>2
<1> HIDE DEF S
<1>5. Nat \subseteq S
  BY <1>3, <1>4, Counting
<1>6. Fine(f[k], k)
  BY <1>0, <1>5 DEF S
<1> QED
  BY <1>1, <1>6

\* What parseHTML's stack and its last tag say when its first m tags stay.
CutFacts(t, s, m) ==
    /\ Sound(t)
    /\ t.open = SubSeq(s.open, 1, m)
    /\ t.lastTag = Top(t.open, "")
    /\ Keeps(t, s)
    /\ Len(t.stack) = m
    /\ \A i \in 1 .. m : t.stack[i] = s.stack[i]

Reopened(t, s, q, l) == t = [s EXCEPT !.open = q, !.lastTag = l]

LEMMA ReopenedFacts ==
    ASSUME NEW s, Sound(s), NEW q, IsSeq(q), NEW l, NEW t, Reopened(t, s, q, l)
    PROVE  /\ Sound(t) /\ t.open = q /\ t.lastTag = l
           /\ t.stack = s.stack /\ t.nodes = s.nodes
<1>2. IsState(s)
  BY DEF Sound, Formed
<1>3. IsState(t) /\ t.open = q /\ t.lastTag = l /\ t.nodes = s.nodes /\ t.stack = s.stack
      /\ t.inVPre = s.inVPre
  BY <1>2 DEF IsState, Reopened
<1>4. Formed(t)
  BY <1>3 DEF Sound, Formed
<1>5. PreOpen(t)
  BY <1>3 DEF Sound, PreOpen, Literal
<1> QED
  BY <1>3, <1>4, <1>5 DEF Sound

LEMMA CloseFromFacts ==
    ASSUME NEW s, Sound(s), Agree(s), NEW pos \in 1 .. Len(s.open) + 1
    PROVE  CutFacts(CloseFrom(s, pos), s, pos - 1)
<1> DEFINE k == Len(s.open) - pos + 1
           left == SubSeq(s.open, 1, pos - 1)
           e == Ends(s, k)
<1>1. Len(s.open) = Len(s.stack) /\ Len(s.open) \in Nat
  <2>1. DOMAIN s.open = DOMAIN s.stack
    BY DEF Agree
  <2> QED
    BY <2>1, SeqFacts DEF Sound, Formed
<1>2. k \in 0 .. Len(s.stack) /\ Len(s.stack) - k = pos - 1 /\ pos - 1 \in 0 .. Len(s.open)
  BY <1>1
<1>3. IsSeq(left)
  BY <1>2, FirstFacts DEF Sound, Formed
<1> DEFINE l == Top(left, "")
           t == CloseFrom(s, pos)
<1>4. Reopened(t, e, left, l)
  BY DEF CloseFrom, Reopened
<1> HIDE DEF k, left, l, t
<1>5. Sound(e) /\ Keeps(e, s) /\ Popped(e, s, k)
  BY <1>2, EndsFacts
<1> HIDE DEF e
<1>6. /\ Sound(t) /\ t.open = left /\ t.lastTag = l
      /\ t.stack = e.stack /\ t.nodes = e.nodes
  BY <1>3, <1>4, <1>5, ReopenedFacts
<1>7. Keeps(t, s)
  BY <1>5, <1>6 DEF Keeps, Literal
<1>8. Len(t.stack) = pos - 1 /\ \A i \in 1 .. pos - 1 : t.stack[i] = s.stack[i]
  BY <1>2, <1>5, <1>6 DEF Popped
<1> QED
  BY <1>6, <1>7, <1>8 DEF CutFacts, left, l, t

-----------------------------------------------------------------------------
(* Tokens *)

Good(s) == Sound(s) /\ Agree(s)

\* The open tags of t are those of s.
LEMMA AgreeStays ==
    ASSUME NEW s, Good(s), NEW t, Sound(t), t.open = s.open, t.lastTag = s.lastTag,
           Keeps(t, s), Len(t.stack) = Len(s.stack),
           \A i \in 1 .. Len(s.stack) : t.stack[i] = s.stack[i]
    PROVE  Good(t)
<1>1. DOMAIN t.stack = DOMAIN s.stack /\ DOMAIN s.stack = 1 .. Len(s.stack)
  BY SeqFacts DEF Good, Sound, Formed
<1>2. \A i \in DOMAIN s.stack : t.nodes[t.stack[i]].tag = s.nodes[s.stack[i]].tag
  BY <1>1 DEF Good, Sound, Formed, Keeps
<1> QED
  BY <1>1, <1>2 DEF Good, Agree

LEMMA CutGood ==
    ASSUME NEW s, Good(s), NEW m \in 0 .. Len(s.open), NEW t, CutFacts(t, s, m)
    PROVE  Good(t)
<1>1. /\ DOMAIN s.open = DOMAIN s.stack /\ DOMAIN s.open = 1 .. Len(s.open)
      /\ DOMAIN s.stack = 1 .. Len(s.stack) /\ DOMAIN t.stack = 1 .. m
  BY SeqFacts DEF Good, Agree, Sound, Formed, CutFacts
<1>2. \A i \in 1 .. m : i \in DOMAIN s.stack
  BY <1>1, SeqFacts DEF Good, Sound, Formed
<1>3. \A i \in 1 .. m : t.nodes[t.stack[i]].tag = s.nodes[s.stack[i]].tag
  BY <1>2 DEF Good, Sound, Formed, Keeps, CutFacts
<1>4. /\ IsSeq(t.open) /\ DOMAIN t.open = 1 .. m
      /\ \A i \in 1 .. m : t.open[i] = s.open[i]
  BY FirstFacts DEF Good, Sound, Formed, CutFacts
<1>5. \A i \in 1 .. m : t.open[i] = t.nodes[t.stack[i]].tag
  BY <1>2, <1>3, <1>4 DEF Good, Agree
<1>6. t.open = [i \in 1 .. m |-> t.open[i]]
  <2>1. t.open = [i \in DOMAIN t.open |-> t.open[i]]
    BY <1>4 DEF IsSeq
  <2> QED
    BY <1>4, <2>1
<1>7. t.open = [i \in DOMAIN t.stack |-> t.nodes[t.stack[i]].tag]
  BY <1>1, <1>5, <1>6
<1> QED
  BY <1>7 DEF Good, Agree, CutFacts

\* A set of places has a last one.
LEMMA Greatest ==
    ASSUME NEW n \in Nat, NEW T \in SUBSET (1 .. n), T # {}
    PROVE  \E i \in T : \A j \in T : j <= i
<1> DEFINE S == {m \in Nat : \A U \in SUBSET (1 .. m) :
                                  U # {} => \E i \in U : \A j \in U : j <= i}
<1>1. 0 \in S
  <2>1. 1 .. 0 = {}
    OBVIOUS
  <2>2. \A U \in SUBSET (1 .. 0) : U = {}
    BY <2>1
  <2> QED
    BY <2>2
<1>2. ASSUME NEW m \in Nat, m \in S PROVE m + 1 \in S
  <2>1. ASSUME NEW U \in SUBSET (1 .. m + 1), U # {}
        PROVE  \E i \in U : \A j \in U : j <= i
    <3>1. CASE m + 1 \in U
      BY <3>1
    <3>2. CASE m + 1 \notin U
      <4>1. U \in SUBSET (1 .. m)
        BY <3>2
      <4> QED
        BY <1>2, <2>1, <4>1
    <3> QED
      BY <3>1, <3>2
  <2> QED
    BY <2>1
<1> HIDE DEF S
<1>3. Nat \subseteq S
  BY <1>1, <1>2, Counting
<1> QED
  BY <1>3 DEF S

LEMMA SameLength == \A m, n \in Nat : 1 .. m = 1 .. n => m = n
<1> SUFFICES ASSUME NEW m \in Nat, NEW n \in Nat, 1 .. m = 1 .. n PROVE m = n
  OBVIOUS
<1>1. m > 0 => m \in 1 .. n
  OBVIOUS
<1>2. n > 0 => n \in 1 .. m
  OBVIOUS
<1> QED
  BY <1>1, <1>2

LEMMA EndTagGood == ASSUME NEW s, Good(s), NEW tag PROVE Good(ParseEndTag(s, tag))
<1> DEFINE same == {i \in DOMAIN s.open : s.open[i] = tag}
<1>0. DOMAIN s.open = 1 .. Len(s.open) /\ Len(s.open) \in Nat /\ Sound(s) /\ Agree(s)
  BY SeqFacts DEF Good, Sound, Formed
<1>1. CASE same # {}
  <2> DEFINE pos == CHOOSE i \in same : \A j \in same : j <= i
  <2>1. same \in SUBSET (1 .. Len(s.open))
    BY <1>0
  <2> HIDE DEF same
  <2>2. \E i \in same : \A j \in same : j <= i
    BY <1>0, <1>1, <2>1, Greatest
  <2>3. pos \in same
    BY <2>2
  <2>4. ParseEndTag(s, tag) = CloseFrom(s, pos)
    BY <1>1 DEF ParseEndTag, same
  <2> HIDE DEF pos
  <2>5. pos \in 1 .. Len(s.open) + 1 /\ pos - 1 \in 0 .. Len(s.open)
    BY <1>0, <2>1, <2>3
  <2>6. CutFacts(CloseFrom(s, pos), s, pos - 1)
    BY <1>0, <2>5, CloseFromFacts
  <2>7. Good(CloseFrom(s, pos))
    BY <2>5, <2>6, CutGood
  <2> QED
    BY <2>4, <2>7
<1>2. CASE same = {} /\ tag = "br"
  <2> DEFINE raw == {}
             t == Single(s, tag, raw)
  <2>1. ParseEndTag(s, tag) = t
    BY <1>2 DEF ParseEndTag, Single
  <2> HIDE DEF raw
  <2>2. /\ Sound(t) /\ t.open = s.open /\ t.lastTag = s.lastTag
        /\ Keeps(t, s) /\ t.stack = s.stack
    BY <1>0, StartFacts
  <2> HIDE DEF t
  <2> QED
    BY <2>1, <2>2, AgreeStays
<1>3. CASE same = {} /\ tag = "p"
  <2> DEFINE raw == {}
             r == Opened(s, tag, raw)
             t == End(r)
  <2>1. ParseEndTag(s, tag) = t
    BY <1>3 DEF ParseEndTag, Opened
  <2> HIDE DEF raw
  <2>2. /\ Sound(r) /\ r.open = s.open /\ r.lastTag = s.lastTag
        /\ Keeps(r, s) /\ Pushed(r, s)
    BY <1>0, StartFacts
  <2> HIDE DEF r
  <2>3. Len(s.stack) \in Nat /\ Len(r.stack) = Len(s.stack) + 1
    BY <1>0, <2>2, SeqFacts DEF Sound, Formed, Pushed
  <2>4. /\ Sound(t) /\ t.open = r.open /\ t.lastTag = r.lastTag
        /\ Keeps(t, r) /\ Popped(t, r, 1)
    BY <2>2, <2>3, EndFacts
  <2> HIDE DEF t
  <2>5. Keeps(t, s)
    BY <2>2, <2>4 DEF Keeps
  <2>6. Len(t.stack) = Len(s.stack) /\ \A i \in 1 .. Len(s.stack) : t.stack[i] = s.stack[i]
    BY <2>2, <2>3, <2>4 DEF Pushed, Popped
  <2> QED
    BY <2>1, <2>2, <2>4, <2>5, <2>6, AgreeStays
<1>4. CASE same = {} /\ tag # "br" /\ tag # "p"
  BY <1>4 DEF ParseEndTag
<1> QED
  BY <1>1, <1>2, <1>3, <1>4

LEMMA StartTagGood == ASSUME NEW s, Good(s), NEW t PROVE Good(HandleStartTag(s, t))
<1> DEFINE phrased == IF s.lastTag = "p" /\ t.tag \in NonPhrasingTags
                      THEN ParseEndTag(s, "p") ELSE s
           ready == IF t.tag \in LeftOpenTags /\ phrased.lastTag = t.tag
                    THEN ParseEndTag(phrased, t.tag) ELSE phrased
           unary == t.tag \in UnaryTags \/ t.slash
           q == Append(ready.open, t.tag)
           r == [ready EXCEPT !.open = q, !.lastTag = t.tag]
<1>1. Good(phrased)
  BY EndTagGood
<1> HIDE DEF phrased
<1>2. Good(ready)
  BY <1>1, EndTagGood
<1>3. HandleStartTag(s, t) = Start(IF unary THEN ready ELSE r, t.tag, t.has, unary)
  BY DEF HandleStartTag, phrased
<1> HIDE DEF ready, unary
<1>5. CASE unary
  <2> DEFINE u == Single(ready, t.tag, t.has)
  <2>1. /\ Sound(u) /\ u.open = ready.open /\ u.lastTag = ready.lastTag
        /\ Keeps(u, ready) /\ u.stack = ready.stack
    BY <1>2, StartFacts DEF Good
  <2>2. HandleStartTag(s, t) = u
    BY <1>3, <1>5 DEF Start, Single
  <2> HIDE DEF u
  <2> QED
    BY <1>2, <2>1, <2>2, AgreeStays
<1>6. CASE ~ unary
  <2> DEFINE u == Opened(r, t.tag, t.has)
             k == Len(ready.stack)
  <2>1. HandleStartTag(s, t) = u
    BY <1>3, <1>6 DEF Start, Opened
  <2>2. IsSeq(ready.open) /\ DOMAIN ready.open = DOMAIN ready.stack
        /\ DOMAIN ready.open = 1 .. Len(ready.open) /\ Len(ready.open) \in Nat
        /\ DOMAIN ready.stack = 1 .. k /\ k \in Nat
    BY <1>2, SeqFacts DEF Good, Sound, Formed, Agree
  <2>3. Len(ready.open) = k
    BY <2>2, SameLength
  <2>4. /\ IsSeq(q) /\ Len(q) = k + 1 /\ DOMAIN q = 1 .. k + 1
        /\ \A i \in 1 .. k : q[i] = ready.open[i]
        /\ q[k + 1] = t.tag
    BY <2>2, <2>3, AppendFacts
  <2>5. Reopened(r, ready, q, t.tag)
    BY DEF Reopened
  <2> HIDE DEF q, r
  <2>6. /\ Sound(r) /\ r.open = q /\ r.lastTag = t.tag
        /\ r.stack = ready.stack /\ r.nodes = ready.nodes
    BY <1>2, <2>4, <2>5, ReopenedFacts DEF Good
  <2>7. /\ Sound(u) /\ u.open = r.open /\ u.lastTag = r.lastTag
        /\ Keeps(u, r) /\ Pushed(u, r)
        /\ u.nodes[u.stack[Len(u.stack)]].tag = t.tag
    BY <2>6, StartFacts
  <2> HIDE DEF u
  <2>8. Len(u.stack) = k + 1 /\ DOMAIN u.stack = 1 .. k + 1
    BY <2>6, <2>7, SeqFacts DEF Pushed, Sound, Formed
  <2> HIDE DEF k
  <2>9. ASSUME NEW i \in 1 .. k + 1
        PROVE  q[i] = u.nodes[u.stack[i]].tag
    <3>1. CASE i = k + 1
      BY <2>4, <2>7, <2>8, <3>1
    <3>2. CASE i # k + 1
      <4>1. i \in 1 .. k
        BY <2>2, <3>2
      <4>2. u.stack[i] = ready.stack[i] /\ ready.stack[i] \in DOMAIN ready.nodes
        BY <1>2, <2>2, <2>6, <2>7, <4>1 DEF Pushed, Good, Sound, Formed, k
      <4>3. u.nodes[u.stack[i]].tag = ready.nodes[ready.stack[i]].tag
        BY <2>6, <2>7, <4>2 DEF Keeps
      <4>4. ready.open[i] = ready.nodes[ready.stack[i]].tag
        BY <1>2, <2>2, <4>1 DEF Good, Agree
      <4> QED
        BY <2>4, <4>1, <4>3, <4>4
    <3> QED
      BY <3>1, <3>2
  <2>10. u.open = [i \in DOMAIN u.stack |-> u.nodes[u.stack[i]].tag]
    <3>1. q = [i \in 1 .. k + 1 |-> q[i]]
      <4>1. q = [i \in DOMAIN q |-> q[i]]
        BY <2>4 DEF IsSeq
      <4> QED
        BY <2>4, <4>1
    <3> QED
      BY <2>6, <2>7, <2>8, <2>9, <3>1
  <2>11. u.lastTag = Top(u.open, "")
    <3>1. Top(q, "") = q[k + 1]
      <4>1. q # <<>>
        BY <2>2, <2>4
      <4> QED
        BY <2>4, <4>1 DEF Top, Last
    <3> QED
      BY <2>4, <2>6, <2>7, <3>1
  <2> QED
    BY <2>1, <2>7, <2>10, <2>11 DEF Good, Agree
<1> QED
  BY <1>5, <1>6

Renoded(t, s, ns) == t = [s EXCEPT !.nodes = ns]

LEMMA RenodedFacts ==
    ASSUME NEW s, IsState(s), NEW ns, NEW t, Renoded(t, s, ns)
    PROVE  /\ IsState(t) /\ t.open = s.open /\ t.lastTag = s.lastTag
           /\ t.stack = s.stack /\ t.nodes = ns /\ t.inVPre = s.inVPre /\ t.root = s.root
BY DEF IsState, Renoded

LEMMA CharsGood == ASSUME NEW s, Good(s), NEW text PROVE Good(Chars(s, text))
<1> DEFINE parent == CurrentParent(s)
           n == Len(s.nodes) + 1
           type == IF text \in {"msg", "item"} /\ ~ s.inVPre THEN "expression" ELSE "text"
           e == Text(s, text, type)
           ns == Append(s.nodes, e)
           x == Append(ns[parent].children, n)
           r == [s EXCEPT !.nodes = ns]
           t == [r EXCEPT !.nodes[parent].children = x]
<1>1. Chars(s, text) = s \/ Chars(s, text) = t
  <2> DEFINE u == [r EXCEPT !.nodes[parent].children = Append(@, Len(r.nodes))]
  <2>1. Chars(s, text) = s \/ Chars(s, text) = u
    <3>1. r = [s EXCEPT !.nodes = Append(@, e)]
      OBVIOUS
    <3> QED
      BY <3>1 DEF Chars
  <2>2. /\ r.nodes = ns /\ Len(ns) = n
    BY AppendFacts DEF Good, Sound, Formed, IsState
  <2>3. u = [r EXCEPT !.nodes[parent].children = Append(r.nodes[parent].children, n)]
    BY <2>2
  <2> QED
    BY <2>1, <2>2, <2>3
<1>2. IsState(s)
  BY DEF Good, Sound, Formed
<1>4. IsNode(e)
  BY DEF IsNode, Text
<1>5. /\ IsSeq(ns) /\ DOMAIN ns = 1 .. n /\ DOMAIN s.nodes = 1 .. Len(s.nodes) /\ Len(s.nodes) \in Nat
      /\ \A i \in DOMAIN s.nodes : ns[i] = s.nodes[i]
      /\ ns[n] = e
  BY AppendFacts, SeqFacts DEF Good, Sound, Formed
<1>6. Renoded(r, s, ns)
  BY DEF Renoded
<1> HIDE DEF parent, e, x, ns, r
<1>7. /\ IsState(r) /\ r.open = s.open /\ r.lastTag = s.lastTag
      /\ r.stack = s.stack /\ r.nodes = ns /\ r.inVPre = s.inVPre
  BY <1>2, <1>6, RenodedFacts
<1>8. \A i \in 1 .. n : i = n \/ i \in DOMAIN s.nodes
  BY <1>5
<1>9. \A i \in DOMAIN s.nodes : i \in 1 .. n
  BY <1>5
<1>10. Formed(r)
  BY <1>4, <1>5, <1>7, <1>8, <1>9 DEF Good, Sound, Formed
<1>11. Keeps(r, s)
  BY <1>5, <1>7, <1>9 DEF Keeps, Literal
<1>12. Like(t, r)
  BY <1>10, ChildrenChange
<1> HIDE DEF t
<1>13. Keeps(t, s)
  BY <1>11, <1>12 DEF Like, Keeps
<1>14. /\ Formed(t) /\ t.open = s.open /\ t.lastTag = s.lastTag /\ t.stack = s.stack
       /\ t.inVPre = s.inVPre
  BY <1>7, <1>12 DEF Like
<1>15. PreOpen(t)
  BY <1>13, <1>14 DEF Good, Sound, Formed, PreOpen, Keeps
<1>16. Good(t)
  BY <1>13, <1>14, <1>15, AgreeStays DEF Sound
<1> QED
  BY <1>1, <1>16

-----------------------------------------------------------------------------
(* The parser *)

ParserInv == Good(State)

\* A state the hooks have brought about is the state of the parser.
LEMMA BecomesGood ==
    ASSUME NEW s, Good(s), Becomes(s)
    PROVE  ParserInv'
<1>1. State' = s
  BY DEF Becomes, State, Good, Sound, Formed, IsState
<1>2. Good(State')
  BY <1>1
<1> QED
  BY <1>2 DEF ParserInv

LEMMA ParserInvInit == ParserInit => ParserInv
<1> SUFFICES ASSUME ParserInit PROVE ParserInv
  OBVIOUS
<1> DEFINE s == State
<1>1. /\ s.open = <<>> /\ s.lastTag = "" /\ s.nodes = <<>> /\ s.stack = <<>>
      /\ s.inVPre = FALSE
  BY DEF State, ParserInit
<1>2. IsState(s)
  BY DEF State, IsState
<1> HIDE DEF s
<1>3. IsSeq(<<>>)
  <2> DEFINE S == {}
  <2>1. <<>> \in Seq(S)
    OBVIOUS
  <2> HIDE DEF S
  <2> QED
    BY <2>1 DEF IsSeq
<1>4. DOMAIN <<>> = {}
  BY <1>3
<1>5. Formed(s)
  BY <1>1, <1>2, <1>3, <1>4 DEF Formed
<1>6. PreOpen(s)
  BY <1>1, <1>4 DEF PreOpen
<1>7. s.open = [i \in DOMAIN s.stack |-> s.nodes[s.stack[i]].tag]
  <2> DEFINE g == [i \in DOMAIN s.stack |-> s.nodes[s.stack[i]].tag]
             z == <<>>
  <2>1. g = [i \in {} |-> s.nodes[s.stack[i]].tag]
    BY <1>1, <1>4
  <2>2. DOMAIN g = {}
    BY <2>1
  <2>3. g \in Seq({})
    <3>1. g \in [1 .. 0 -> {}]
      BY <2>1
    <3> QED
      BY <3>1, SeqDef
  <2>4. Len(g) = 0
    BY <2>2, <2>3
  <2>5. g = <<>>
    BY <2>3, <2>4
  <2> QED
    BY <1>1, <2>5
<1>8. Top(s.open, "") = ""
  BY <1>1 DEF Top
<1> QED
  BY <1>1, <1>5, <1>6, <1>7, <1>8 DEF ParserInv, Good, Sound, Agree, s

LEMMA ParserInvStep == ParserInv /\ [ParserNext]_<<vocabulary, template, mode, parser>> => ParserInv'
<1> SUFFICES ASSUME ParserInv, [ParserNext]_<<vocabulary, template, mode, parser>>
             PROVE  ParserInv'
  OBVIOUS
<1>1. Good(State)
  BY DEF ParserInv
<1>2. CASE UNCHANGED <<vocabulary, template, mode, parser>>
  <2>1. Becomes(State)
    BY <1>2 DEF Becomes, State, parser
  <2> QED
    BY <1>1, <2>1, BecomesGood
<1>3. ASSUME NEW t \in Tokens, Read(t) PROVE ParserInv'
  <2>1. \/ Becomes(HandleStartTag(State, t))
        \/ Becomes(ParseEndTag(State, t.tag))
        \/ Becomes(State)
        \/ Becomes(Chars(State, t.tag))
    BY <1>3 DEF Read
  <2> QED
    BY <1>1, <2>1, StartTagGood, EndTagGood, CharsGood, BecomesGood
<1>4. CASE Finish
  <2> DEFINE s == State
  <2>1. Becomes(CloseFrom(s, 1))
    BY <1>4 DEF Finish
  <2> HIDE DEF s
  <2>2. Len(s.open) \in Nat /\ Sound(s) /\ Agree(s) /\ Good(s)
    BY <1>1, SeqFacts DEF Good, Sound, Formed, s
  <2>3. CutFacts(CloseFrom(s, 1), s, 1 - 1)
    BY <2>2, CloseFromFacts
  <2>4. 1 - 1 \in 0 .. Len(s.open)
    BY <2>2
  <2>5. Good(CloseFrom(s, 1))
    BY <2>2, <2>3, <2>4, CutGood
  <2> QED
    BY <2>1, <2>5, BecomesGood
<1> QED
  BY <1>2, <1>3, <1>4 DEF ParserNext

-----------------------------------------------------------------------------
(* The tree *)

Rising(q) == \A i, j \in DOMAIN q : i < j => q[i] < q[j]

ChildOf(ns, c, n) == \E i \in DOMAIN ns[n].children : ns[n].children[i] = c

\* A further branch: the first of an element's branches is the element itself.
BranchOf(ns, c, n) == \E i \in DOMAIN ns[n].conds : i # 1 /\ ns[n].conds[i] = c

Placed(ns, c) == \E n \in DOMAIN ns : ChildOf(ns, c, n) \/ BranchOf(ns, c, n)

ChildrenFit(ns, n, ch) ==
    /\ IsSeq(ch) /\ Rising(ch)
    /\ \A i \in DOMAIN ch : /\ ch[i] \in DOMAIN ns
                           /\ ns[ch[i]].parent = n
                           /\ ~ Alternative(ns[ch[i]])

BranchesFit(ns, n, co) ==
    /\ IsSeq(co) /\ Rising(co)
    /\ "if" \in ns[n].has <=> co # <<>>
    /\ "if" \in ns[n].has => ~ Alternative(ns[n]) /\ co[1] = n
    /\ \A i \in DOMAIN co : i # 1 => /\ co[i] \in DOMAIN ns
                                    /\ ns[co[i]].parent = ns[n].parent
                                    /\ Alternative(ns[co[i]])

\* A node comes after the one it is in; its children and branches come in the
\* order of the template, and no node is a branch of two.
TreeOf(ns) ==
    /\ \A n \in DOMAIN ns : /\ ns[n].parent \in Nat /\ ns[n].parent < n
                            /\ ChildrenFit(ns, n, ns[n].children)
                            /\ BranchesFit(ns, n, ns[n].conds)
    /\ \A c, m, n \in DOMAIN ns : BranchOf(ns, c, m) /\ BranchOf(ns, c, n) => m = n

\* What is in the place where n belongs came before n.
Ripe(ns, n) == \A c \in DOMAIN ns : Placed(ns, c) /\ ns[c].parent = ns[n].parent => c < n

\* What decides where a node belongs is the same.
Same(u, ns) ==
    /\ DOMAIN u = DOMAIN ns
    /\ \A m \in DOMAIN ns : /\ u[m].parent = ns[m].parent
                            /\ (Alternative(u[m]) <=> Alternative(ns[m]))
                            /\ ("if" \in u[m].has <=> "if" \in ns[m].has)

\* Only node p has other children, branches or directives of no account.
Differs(u, ns, p, ch, co) ==
    /\ Same(u, ns)
    /\ \A m \in DOMAIN ns : m # p => u[m].children = ns[m].children /\ u[m].conds = ns[m].conds
    /\ u[p].children = ch /\ u[p].conds = co

LEMMA FitStays ==
    ASSUME NEW ns, NEW u, Same(u, ns), NEW n \in DOMAIN ns, NEW q
    PROVE  /\ ChildrenFit(ns, n, q) => ChildrenFit(u, n, q)
           /\ BranchesFit(ns, n, q) => BranchesFit(u, n, q)
<1>1. ChildrenFit(ns, n, q) => ChildrenFit(u, n, q)
  BY DEF Same, ChildrenFit
<1>2. BranchesFit(ns, n, q) => BranchesFit(u, n, q)
  BY DEF Same, BranchesFit
<1> QED
  BY <1>1, <1>2

LEMMA DiffersTree ==
    ASSUME NEW ns, TreeOf(ns), NEW p \in DOMAIN ns, NEW ch, ChildrenFit(ns, p, ch),
           NEW co, BranchesFit(ns, p, co), NEW u, Differs(u, ns, p, ch, co),
           \A i \in DOMAIN co : i # 1 => \A m \in DOMAIN ns : BranchOf(ns, co[i], m) => m = p
    PROVE  /\ TreeOf(u)
           /\ \A c : Placed(u, c) =>
                 \/ Placed(ns, c)
                 \/ \E i \in DOMAIN ch : ch[i] = c
                 \/ \E i \in DOMAIN co : i # 1 /\ co[i] = c
<1>0. DOMAIN u = DOMAIN ns /\ Same(u, ns)
  BY DEF Differs, Same
<1>1. ASSUME NEW n \in DOMAIN ns
      PROVE  /\ u[n].parent \in Nat /\ u[n].parent < n
             /\ ChildrenFit(u, n, u[n].children)
             /\ BranchesFit(u, n, u[n].conds)
  <2>1. u[n].parent \in Nat /\ u[n].parent < n
    BY <1>0 DEF Same, TreeOf
  <2>2. CASE n = p
    BY <1>0, <2>1, <2>2, FitStays DEF Differs
  <2>3. CASE n # p
    <3>1. u[n].children = ns[n].children /\ u[n].conds = ns[n].conds
      BY <2>3 DEF Differs
    <3>2. ChildrenFit(ns, n, ns[n].children) /\ BranchesFit(ns, n, ns[n].conds)
      BY DEF TreeOf
    <3> QED
      BY <1>0, <2>1, <3>1, <3>2, FitStays
  <2> QED
    BY <2>2, <2>3
<1>2. ASSUME NEW c, NEW n \in DOMAIN ns
      PROVE  /\ ChildOf(u, c, n) => IF n = p THEN \E i \in DOMAIN ch : ch[i] = c
                                             ELSE ChildOf(ns, c, n)
             /\ BranchOf(u, c, n) => IF n = p THEN \E i \in DOMAIN co : i # 1 /\ co[i] = c
                                              ELSE BranchOf(ns, c, n)
  BY DEF Differs, ChildOf, BranchOf
<1>3. ASSUME NEW c \in DOMAIN ns, NEW m \in DOMAIN ns, NEW n \in DOMAIN ns,
             BranchOf(u, c, m), BranchOf(u, c, n)
      PROVE  m = n
  <2>1. CASE m = p /\ n # p
    BY <1>2, <1>3, <2>1
  <2>2. CASE n = p /\ m # p
    BY <1>2, <1>3, <2>2
  <2>3. CASE m # p /\ n # p
    BY <1>2, <1>3, <2>3 DEF TreeOf
  <2> QED
    BY <2>1, <2>2, <2>3
<1>4. TreeOf(u)
  BY <1>0, <1>1, <1>3 DEF TreeOf
<1>5. ASSUME NEW c, Placed(u, c)
      PROVE  \/ Placed(ns, c)
             \/ \E i \in DOMAIN ch : ch[i] = c
             \/ \E i \in DOMAIN co : i # 1 /\ co[i] = c
  <2>1. PICK n \in DOMAIN ns : ChildOf(u, c, n) \/ BranchOf(u, c, n)
    BY <1>0, <1>5 DEF Placed
  <2> QED
    BY <1>2, <2>1 DEF Placed
<1> QED
  BY <1>4, <1>5

LEMMA RisingFirst ==
    ASSUME NEW q, IsSeq(q), Rising(q), NEW k \in 0 .. Len(q)
    PROVE  LET p == SubSeq(q, 1, k)
           IN  /\ IsSeq(p) /\ Rising(p) /\ DOMAIN p \subseteq DOMAIN q
               /\ \A i \in DOMAIN p : p[i] = q[i]
<1> DEFINE p == SubSeq(q, 1, k)
<1>1. /\ IsSeq(p) /\ DOMAIN p = 1 .. k /\ DOMAIN q = 1 .. Len(q) /\ Len(q) \in Nat
      /\ \A i \in 1 .. k : p[i] = q[i]
  BY FirstFacts, SeqFacts
<1> HIDE DEF p
<1>2. DOMAIN p \subseteq DOMAIN q
  BY <1>1
<1>3. Rising(p)
  BY <1>1, <1>2 DEF Rising
<1> QED
  BY <1>1, <1>2, <1>3 DEF p

LEMMA RisingAppend ==
    ASSUME NEW q, IsSeq(q), Rising(q), NEW x, \A i \in DOMAIN q : q[i] < x
    PROVE  LET p == Append(q, x)
           IN  /\ IsSeq(p) /\ Rising(p) /\ DOMAIN p = 1 .. Len(q) + 1
               /\ \A i \in DOMAIN p : p[i] = IF i \in DOMAIN q THEN q[i] ELSE x
               /\ DOMAIN q = 1 .. Len(q)
<1> DEFINE p == Append(q, x)
<1>1. /\ IsSeq(p) /\ DOMAIN p = 1 .. Len(q) + 1 /\ DOMAIN q = 1 .. Len(q) /\ Len(q) \in Nat
      /\ \A i \in 1 .. Len(q) : p[i] = q[i]
      /\ p[Len(q) + 1] = x
  BY AppendFacts, SeqFacts
<1> HIDE DEF p
<1>2. \A i \in DOMAIN p : i \in DOMAIN q \/ i = Len(q) + 1
  BY <1>1
<1>3. \A i \in DOMAIN p : p[i] = IF i \in DOMAIN q THEN q[i] ELSE x
  BY <1>1, <1>2
<1>4. Rising(p)
  <2> SUFFICES ASSUME NEW i \in DOMAIN p, NEW j \in DOMAIN p, i < j PROVE p[i] < p[j]
    BY DEF Rising
  <2>1. CASE j \in DOMAIN q
    <3>1. i \in DOMAIN q
      BY <1>1, <2>1
    <3> QED
      BY <1>3, <2>1, <3>1 DEF Rising
  <2>2. CASE j \notin DOMAIN q
    <3>1. j = Len(q) + 1 /\ i \in DOMAIN q
      BY <1>1, <1>2, <2>2
    <3> QED
      BY <1>3, <2>2, <3>1
  <2> QED
    BY <2>1, <2>2
<1> QED
  BY <1>1, <1>3, <1>4 DEF p

Holds(s) == Formed(s) /\ TreeOf(s.nodes)

\* t is s with nothing put in its place but what is in N.
Grown(t, s, N) ==
    /\ Holds(t)
    /\ Same(t.nodes, s.nodes)
    /\ t.stack = s.stack /\ t.root = s.root
    /\ \A c : Placed(t.nodes, c) => Placed(s.nodes, c) \/ c \in N

LEMMA GrownItself == ASSUME NEW s, Holds(s), NEW N PROVE Grown(s, s, N)
BY DEF Grown, Same

LEMMA GrownTransitive ==
    ASSUME NEW r, NEW s, NEW t, NEW M, NEW N, Grown(s, r, M), Grown(t, s, N)
    PROVE  Grown(t, r, M \cup N)
BY DEF Grown, Same

NodeIs(t, s, n, m) == t = [s EXCEPT !.nodes = [s.nodes EXCEPT ![n] = m]]

\* A node gets other contents, but those that decide where it belongs.
LEMMA NodeBecomes ==
    ASSUME NEW s, Formed(s), NEW n \in DOMAIN s.nodes, NEW m, NEW t, NodeIs(t, s, n, m),
           m.parent = s.nodes[n].parent,
           "if" \in m.has <=> "if" \in s.nodes[n].has,
           Alternative(m) <=> Alternative(s.nodes[n])
    PROVE  /\ Differs(t.nodes, s.nodes, n, m.children, m.conds)
           /\ t.stack = s.stack /\ t.root = s.root
<1> DEFINE ns == [s.nodes EXCEPT ![n] = m]
<1>0. IsState(s) /\ IsSeq(s.nodes)
  BY DEF Formed
<1>1. /\ DOMAIN ns = DOMAIN s.nodes
      /\ \A i \in DOMAIN s.nodes : ns[i] = IF i = n THEN m ELSE s.nodes[i]
  BY <1>0, ExceptFacts
<1>2. t = [s EXCEPT !.nodes = ns]
  BY DEF NodeIs
<1> HIDE DEF ns
<1>3. t.nodes = ns /\ t.stack = s.stack /\ t.root = s.root
  BY <1>0, <1>2 DEF IsState
<1>4. Same(ns, s.nodes)
  BY <1>1 DEF Same
<1>5. Differs(ns, s.nodes, n, m.children, m.conds)
  BY <1>1, <1>4 DEF Differs
<1> QED
  BY <1>3, <1>5

LEMMA ChildrenBecome ==
    ASSUME NEW s, Formed(s), NEW n \in DOMAIN s.nodes, NEW x
    PROVE  LET t == [s EXCEPT !.nodes[n].children = x]
           IN  /\ Formed(t) /\ Differs(t.nodes, s.nodes, n, x, s.nodes[n].conds)
               /\ t.stack = s.stack /\ t.root = s.root
<1> DEFINE m == [s.nodes[n] EXCEPT !.children = x]
           t == [s EXCEPT !.nodes[n].children = x]
<1>0. IsState(s) /\ IsNode(s.nodes[n])
  BY DEF Formed
<1>1. NodeIs(t, s, n, m)
  BY <1>0 DEF IsState, NodeIs
<1>2. /\ m.parent = s.nodes[n].parent /\ m.has = s.nodes[n].has
      /\ m.children = x /\ m.conds = s.nodes[n].conds
  BY <1>0 DEF IsNode
<1>3. Formed(t)
  BY ChildrenChange DEF Like
<1> HIDE DEF m, t
<1>4. Alternative(m) <=> Alternative(s.nodes[n])
  BY <1>2 DEF Alternative
<1>5. /\ Differs(t.nodes, s.nodes, n, m.children, m.conds)
      /\ t.stack = s.stack /\ t.root = s.root
  BY <1>1, <1>2, <1>4, NodeBecomes
<1> QED
  BY <1>2, <1>3, <1>5 DEF t

LEMMA BranchesBecome ==
    ASSUME NEW s, Formed(s), NEW n \in DOMAIN s.nodes, NEW c
    PROVE  LET t == AddIfCondition(s, n, c)
           IN  /\ Formed(t)
               /\ Differs(t.nodes, s.nodes, n, s.nodes[n].children, Append(s.nodes[n].conds, c))
               /\ t.stack = s.stack /\ t.root = s.root
<1> DEFINE x == Append(s.nodes[n].conds, c)
           m == [s.nodes[n] EXCEPT !.conds = x]
           t == AddIfCondition(s, n, c)
<1>0. IsState(s) /\ IsNode(s.nodes[n])
  BY DEF Formed
<1>1. NodeIs(t, s, n, m)
  BY <1>0 DEF IsState, AddIfCondition, NodeIs
<1> HIDE DEF x
<1>2. /\ m.parent = s.nodes[n].parent /\ m.has = s.nodes[n].has
      /\ m.children = s.nodes[n].children /\ m.conds = x
  BY <1>0 DEF IsNode
<1>3. Formed(t)
  BY CondsChange DEF Like
<1> HIDE DEF m, t
<1>4. Alternative(m) <=> Alternative(s.nodes[n])
  BY <1>2 DEF Alternative
<1>5. /\ Differs(t.nodes, s.nodes, n, m.children, m.conds)
      /\ t.stack = s.stack /\ t.root = s.root
  BY <1>1, <1>2, <1>4, NodeBecomes
<1> QED
  BY <1>2, <1>3, <1>5 DEF t, x

LEMMA HasBecomes ==
    ASSUME NEW s, Formed(s), NEW n \in DOMAIN s.nodes,
           NEW x, x \cap {"pre", "if", "elseif", "else"} = {}
    PROVE  LET t == [s EXCEPT !.nodes[n].has = @ \cup x]
           IN  /\ Formed(t)
               /\ Differs(t.nodes, s.nodes, n, s.nodes[n].children, s.nodes[n].conds)
               /\ t.stack = s.stack /\ t.root = s.root
<1> DEFINE h == s.nodes[n].has \cup x
           m == [s.nodes[n] EXCEPT !.has = h]
           t == [s EXCEPT !.nodes[n].has = @ \cup x]
<1>0. IsState(s) /\ IsNode(s.nodes[n])
  BY DEF Formed
<1>1. NodeIs(t, s, n, m)
  BY <1>0 DEF IsState, NodeIs
<1>2. /\ m.parent = s.nodes[n].parent /\ m.has = h
      /\ m.children = s.nodes[n].children /\ m.conds = s.nodes[n].conds
  BY <1>0 DEF IsNode
<1>3. Formed(t)
  <2>1. "pre" \notin x
    OBVIOUS
  <2> QED
    BY <2>1, HasChanges DEF Like
<1> HIDE DEF m, t
<1>4. (Alternative(m) <=> Alternative(s.nodes[n])) /\ ("if" \in m.has <=> "if" \in s.nodes[n].has)
  BY <1>2 DEF Alternative
<1>5. /\ Differs(t.nodes, s.nodes, n, m.children, m.conds)
      /\ t.stack = s.stack /\ t.root = s.root
  BY <1>1, <1>2, <1>4, NodeBecomes
<1> QED
  BY <1>2, <1>3, <1>5 DEF t

\* A node loses the last of its children.
LEMMA FewerGrown ==
    ASSUME NEW s, Holds(s), NEW n \in DOMAIN s.nodes,
           NEW k \in 0 .. Len(s.nodes[n].children)
    PROVE  LET t == [s EXCEPT !.nodes[n].children = SubSeq(s.nodes[n].children, 1, k)]
           IN  /\ Grown(t, s, {})
               /\ t.nodes[n].children = SubSeq(s.nodes[n].children, 1, k)
<1> DEFINE q == s.nodes[n].children
           x == SubSeq(q, 1, k)
           t == [s EXCEPT !.nodes[n].children = x]
           ns == s.nodes
           co == ns[n].conds
<1>1. TreeOf(ns) /\ ChildrenFit(ns, n, q) /\ BranchesFit(ns, n, co)
  BY DEF Holds, TreeOf
<1>2. /\ IsSeq(x) /\ Rising(x) /\ DOMAIN x \subseteq DOMAIN q
      /\ \A i \in DOMAIN x : x[i] = q[i]
  BY <1>1, RisingFirst DEF ChildrenFit
<1> HIDE DEF x
<1>3. ChildrenFit(ns, n, x)
  BY <1>1, <1>2 DEF ChildrenFit
<1>4. Formed(t) /\ Differs(t.nodes, ns, n, x, co) /\ t.stack = s.stack /\ t.root = s.root
  BY ChildrenBecome DEF Holds
<1> HIDE DEF t
<1>5. ASSUME NEW i \in DOMAIN co, i # 1, NEW m \in DOMAIN ns, BranchOf(ns, co[i], m)
      PROVE  m = n
  <2>1. co[i] \in DOMAIN ns /\ BranchOf(ns, co[i], n)
    BY <1>1, <1>5 DEF BranchesFit, BranchOf
  <2> QED
    BY <1>1, <1>5, <2>1 DEF TreeOf
<1>6. /\ TreeOf(t.nodes)
      /\ \A c : Placed(t.nodes, c) =>
            \/ Placed(ns, c)
            \/ \E i \in DOMAIN x : x[i] = c
            \/ \E i \in DOMAIN co : i # 1 /\ co[i] = c
  BY <1>1, <1>3, <1>4, <1>5, DiffersTree
<1>7. \A i \in DOMAIN x : Placed(ns, x[i])
  BY <1>2 DEF Placed, ChildOf
<1>8. \A i \in DOMAIN co : i # 1 => Placed(ns, co[i])
  BY DEF Placed, BranchOf
<1>9. \A c : Placed(t.nodes, c) => Placed(ns, c)
  BY <1>6, <1>7, <1>8
<1>10. Grown(t, s, {}) /\ t.nodes[n].children = x
  BY <1>4, <1>6, <1>9 DEF Grown, Holds, Differs
<1> QED
  BY <1>10 DEF t, x

\* A node whose turn it is becomes the last child of its parent.
LEMMA ChildGrown ==
    ASSUME NEW s, Holds(s), NEW n \in DOMAIN s.nodes, Ripe(s.nodes, n),
           ~ Alternative(s.nodes[n]),
           NEW p \in DOMAIN s.nodes, s.nodes[n].parent = p
    PROVE  Grown([s EXCEPT !.nodes[p].children = Append(@, n)], s, {n})
<1> DEFINE ns == s.nodes
           q == ns[p].children
           x == Append(q, n)
           t == [s EXCEPT !.nodes[p].children = x]
           co == ns[p].conds
<1>0. [s EXCEPT !.nodes[p].children = Append(@, n)] = t
  OBVIOUS
<1>1. TreeOf(ns) /\ ChildrenFit(ns, p, q) /\ BranchesFit(ns, p, co)
  BY DEF Holds, TreeOf
<1>2. \A i \in DOMAIN q : q[i] < n
  <2> SUFFICES ASSUME NEW i \in DOMAIN q PROVE q[i] < n
    OBVIOUS
  <2>1. q[i] \in DOMAIN ns /\ ns[q[i]].parent = p
    BY <1>1 DEF ChildrenFit
  <2>2. Placed(ns, q[i])
    BY DEF Placed, ChildOf
  <2> QED
    BY <2>1, <2>2 DEF Ripe
<1>3. /\ IsSeq(x) /\ Rising(x)
      /\ \A i \in DOMAIN x : x[i] = IF i \in DOMAIN q THEN q[i] ELSE n
  BY <1>1, <1>2, RisingAppend DEF ChildrenFit
<1>4. Formed(t) /\ Differs(t.nodes, ns, p, x, co) /\ t.stack = s.stack /\ t.root = s.root
  <2>1. Formed(s)
    BY DEF Holds
  <2> HIDE DEF x
  <2> QED
    BY <2>1, ChildrenBecome
<1> HIDE DEF x, t
<1>5. ChildrenFit(ns, p, x)
  BY <1>1, <1>3 DEF ChildrenFit
<1>6. ASSUME NEW i \in DOMAIN co, i # 1, NEW m \in DOMAIN ns, BranchOf(ns, co[i], m)
      PROVE  m = p
  <2>1. co[i] \in DOMAIN ns /\ BranchOf(ns, co[i], p)
    BY <1>1, <1>6 DEF BranchesFit, BranchOf
  <2> QED
    BY <1>1, <1>6, <2>1 DEF TreeOf
<1>7. /\ TreeOf(t.nodes)
      /\ \A c : Placed(t.nodes, c) =>
            \/ Placed(ns, c)
            \/ \E i \in DOMAIN x : x[i] = c
            \/ \E i \in DOMAIN co : i # 1 /\ co[i] = c
  BY <1>1, <1>4, <1>5, <1>6, DiffersTree
<1>8. \A i \in DOMAIN x : Placed(ns, x[i]) \/ x[i] = n
  BY <1>3 DEF Placed, ChildOf
<1>9. \A i \in DOMAIN co : i # 1 => Placed(ns, co[i])
  BY DEF Placed, BranchOf
<1>10. \A c : Placed(t.nodes, c) => Placed(ns, c) \/ c \in {n}
  BY <1>7, <1>8, <1>9
<1>11. Grown(t, s, {n})
  BY <1>4, <1>7, <1>10 DEF Grown, Holds, Differs
<1> QED
  BY <1>0, <1>11

\* ... or a further branch of an element before it in the same place.
LEMMA BranchGrown ==
    ASSUME NEW s, Holds(s), NEW n \in DOMAIN s.nodes, Ripe(s.nodes, n),
           Alternative(s.nodes[n]),
           NEW p \in DOMAIN s.nodes, s.nodes[p].parent = s.nodes[n].parent, p < n,
           "if" \in s.nodes[p].has
    PROVE  Grown(AddIfCondition(s, p, n), s, {n})
<1> DEFINE ns == s.nodes
           q == ns[p].conds
           x == Append(q, n)
           t == AddIfCondition(s, p, n)
           ch == ns[p].children
<1>1. TreeOf(ns) /\ ChildrenFit(ns, p, ch) /\ BranchesFit(ns, p, q)
  BY DEF Holds, TreeOf
<1>2. \A i \in DOMAIN q : q[i] < n
  <2> SUFFICES ASSUME NEW i \in DOMAIN q PROVE q[i] < n
    OBVIOUS
  <2>1. CASE i = 1
    BY <1>1, <2>1 DEF BranchesFit
  <2>2. CASE i # 1
    <3>1. q[i] \in DOMAIN ns /\ ns[q[i]].parent = ns[n].parent
      BY <1>1, <2>2 DEF BranchesFit
    <3>2. Placed(ns, q[i])
      BY <2>2 DEF Placed, BranchOf
    <3> QED
      BY <3>1, <3>2 DEF Ripe
  <2> QED
    BY <2>1, <2>2
<1>3. /\ IsSeq(x) /\ Rising(x) /\ DOMAIN x = 1 .. Len(q) + 1 /\ DOMAIN q = 1 .. Len(q)
      /\ \A i \in DOMAIN x : x[i] = IF i \in DOMAIN q THEN q[i] ELSE n
  BY <1>1, <1>2, RisingAppend DEF BranchesFit
<1>4. Formed(s)
  BY DEF Holds
<1>5. Formed(t) /\ Differs(t.nodes, ns, p, ch, x) /\ t.stack = s.stack /\ t.root = s.root
  BY <1>4, BranchesBecome
<1> HIDE DEF x, t
<1>6. 1 \in DOMAIN q /\ x # <<>> /\ x[1] = p
  <2>1. q # <<>> /\ q[1] = p
    BY <1>1 DEF BranchesFit
  <2>2. Len(q) \in Nat /\ Len(q) # 0
    <3>1. Len(q) \in Nat
      BY <1>1, SeqFacts DEF BranchesFit
    <3>2. Len(q) = 0 => q = <<>>
      BY <1>1 DEF BranchesFit, IsSeq
    <3> QED
      BY <2>1, <3>1, <3>2
  <2>3. 1 \in DOMAIN q /\ 1 \in DOMAIN x
    BY <1>3, <2>2
  <2>4. x # <<>>
    BY <2>3
  <2> QED
    BY <1>3, <2>1, <2>3, <2>4
<1>7. BranchesFit(ns, p, x)
  BY <1>1, <1>3, <1>6 DEF BranchesFit
<1>8. ASSUME NEW i \in DOMAIN x, i # 1, NEW m \in DOMAIN ns, BranchOf(ns, x[i], m)
      PROVE  m = p
  <2>1. CASE i \in DOMAIN q
    <3>1. x[i] = q[i] /\ q[i] \in DOMAIN ns /\ BranchOf(ns, q[i], p)
      BY <1>1, <1>3, <1>8, <2>1 DEF BranchesFit, BranchOf
    <3> QED
      BY <1>1, <1>8, <3>1 DEF TreeOf
  <2>2. CASE i \notin DOMAIN q
    <3>1. x[i] = n
      BY <1>3, <2>2
    <3>2. Placed(ns, n)
      BY <1>8, <3>1 DEF Placed
    <3>3. n < n
      BY <3>2 DEF Ripe
    <3>4. n \in Nat
      BY SeqFacts DEF Holds, Formed
    <3> QED
      BY <3>3, <3>4
  <2> QED
    BY <2>1, <2>2
<1>9. /\ TreeOf(t.nodes)
      /\ \A c : Placed(t.nodes, c) =>
            \/ Placed(ns, c)
            \/ \E i \in DOMAIN ch : ch[i] = c
            \/ \E i \in DOMAIN x : i # 1 /\ x[i] = c
  BY <1>1, <1>5, <1>7, <1>8, DiffersTree
<1>10. \A i \in DOMAIN ch : Placed(ns, ch[i])
  BY DEF Placed, ChildOf
<1>11. \A i \in DOMAIN x : i # 1 => Placed(ns, x[i]) \/ x[i] = n
  BY <1>3 DEF Placed, BranchOf
<1>12. \A c : Placed(t.nodes, c) => Placed(ns, c) \/ c \in {n}
  BY <1>9, <1>10, <1>11
<1>13. Grown(t, s, {n})
  BY <1>5, <1>9, <1>12 DEF Grown, Holds, Differs
<1> QED
  BY <1>13 DEF t

LEMMA HasGrown ==
    ASSUME NEW s, Holds(s), NEW n \in DOMAIN s.nodes,
           NEW x, x \cap {"pre", "if", "elseif", "else"} = {}
    PROVE  Grown([s EXCEPT !.nodes[n].has = @ \cup x], s, {})
<1> DEFINE ns == s.nodes
           t == [s EXCEPT !.nodes[n].has = @ \cup x]
           ch == ns[n].children
           co == ns[n].conds
<1>1. TreeOf(ns) /\ ChildrenFit(ns, n, ch) /\ BranchesFit(ns, n, co)
  BY DEF Holds, TreeOf
<1>3. Formed(s)
  BY DEF Holds
<1>4. Formed(t) /\ Differs(t.nodes, ns, n, ch, co) /\ t.stack = s.stack /\ t.root = s.root
  BY <1>3, HasBecomes
<1> HIDE DEF t
<1>5. ASSUME NEW i \in DOMAIN co, i # 1, NEW m \in DOMAIN ns, BranchOf(ns, co[i], m)
      PROVE  m = n
  <2>1. co[i] \in DOMAIN ns /\ BranchOf(ns, co[i], n)
    BY <1>1, <1>5 DEF BranchesFit, BranchOf
  <2> QED
    BY <1>1, <1>5, <2>1 DEF TreeOf
<1>6. /\ TreeOf(t.nodes)
      /\ \A c : Placed(t.nodes, c) =>
            \/ Placed(ns, c)
            \/ \E i \in DOMAIN ch : ch[i] = c
            \/ \E i \in DOMAIN co : i # 1 /\ co[i] = c
  BY <1>1, <1>4, <1>5, DiffersTree
<1>7. /\ \A i \in DOMAIN ch : Placed(ns, ch[i])
      /\ \A i \in DOMAIN co : i # 1 => Placed(ns, co[i])
  BY DEF Placed, ChildOf, BranchOf
<1>8. \A c : Placed(t.nodes, c) => Placed(ns, c)
  BY <1>6, <1>7
<1>9. Grown(t, s, {})
  BY <1>4, <1>6, <1>8 DEF Grown, Holds, Differs
<1> QED
  BY <1>9 DEF t

\* The last place of a kind, 0 for none.
LEMMA LastOf ==
    ASSUME NEW q, IsSeq(q), NEW K \in SUBSET DOMAIN q
    PROVE  (IF K = {} THEN 0 ELSE CHOOSE i \in K : \A j \in K : j <= i) \in 0 .. Len(q)
<1>1. Len(q) \in Nat /\ DOMAIN q = 1 .. Len(q)
  BY SeqFacts
<1>2. CASE K = {}
  BY <1>1, <1>2
<1>3. CASE K # {}
  <2>1. \E i \in K : \A j \in K : j <= i
    BY <1>1, <1>3, Greatest
  <2>2. (CHOOSE i \in K : \A j \in K : j <= i) \in K
    BY <2>1
  <2> QED
    BY <1>1, <1>3, <2>2
<1> QED
  BY <1>2, <1>3

LEMMA TrimGrown ==
    ASSUME NEW s, Holds(s), NEW n \in DOMAIN s.nodes
    PROVE  Grown(TrimEndingWhitespace(s, n), s, {})
<1> DEFINE q == s.nodes[n].children
           kept == {i \in DOMAIN q : ~ Blank(s, q[i])}
           last == IF kept = {} THEN 0 ELSE CHOOSE i \in kept : \A j \in kept : j <= i
<1>1. IsSeq(q)
  BY DEF Holds, TreeOf, ChildrenFit
<1>2. kept \in SUBSET DOMAIN q
  OBVIOUS
<1>3. TrimEndingWhitespace(s, n) = IF s.inPre THEN s
                                   ELSE [s EXCEPT !.nodes[n].children = SubSeq(q, 1, last)]
  BY DEF TrimEndingWhitespace
<1> HIDE DEF kept
<1>4. last \in 0 .. Len(q)
  BY <1>1, <1>2, LastOf
<1> HIDE DEF last
<1>5. Grown([s EXCEPT !.nodes[n].children = SubSeq(q, 1, last)], s, {})
  BY <1>4, FewerGrown
<1> QED
  BY <1>3, <1>5, GrownItself

LEMMA DropGrown ==
    ASSUME NEW s, Holds(s), NEW n \in DOMAIN s.nodes
    PROVE  Grown(DropTexts(s, n), s, {})
<1> DEFINE q == s.nodes[n].children
           kept == {i \in DOMAIN q : s.nodes[q[i]].type = "element"}
           last == IF kept = {} THEN 0 ELSE CHOOSE i \in kept : \A j \in kept : j <= i
<1>1. IsSeq(q)
  BY DEF Holds, TreeOf, ChildrenFit
<1>2. kept \in SUBSET DOMAIN q
  OBVIOUS
<1>3. DropTexts(s, n) = [s EXCEPT !.nodes[n].children = SubSeq(q, 1, last)]
  BY DEF DropTexts
<1> HIDE DEF kept
<1>4. last \in 0 .. Len(q)
  BY <1>1, <1>2, LastOf
<1> HIDE DEF last
<1> QED
  BY <1>3, <1>4, FewerGrown

\* What was put in its place before n still came before it.
LEMMA RipeStays ==
    ASSUME NEW s, NEW t, NEW N, Grown(t, s, N), NEW n \in DOMAIN s.nodes, Ripe(s.nodes, n),
           \A c \in N : c \in DOMAIN s.nodes /\ s.nodes[c].parent = s.nodes[n].parent => c < n
    PROVE  Ripe(t.nodes, n)
BY DEF Grown, Same, Ripe

LEMMA IfConditionsGrown ==
    ASSUME NEW s, Holds(s), NEW n \in DOMAIN s.nodes, Ripe(s.nodes, n),
           Alternative(s.nodes[n]),
           NEW p \in DOMAIN s.nodes, s.nodes[n].parent = p
    PROVE  Grown(ProcessIfConditions(s, n, p), s, {n})
<1> DEFINE t == DropTexts(s, p)
           q == t.nodes[p].children
           prev == Top(q, 0)
<1>1. ProcessIfConditions(s, n, p) = IF prev # 0 /\ "if" \in t.nodes[prev].has
                                     THEN AddIfCondition(t, prev, n) ELSE t
  BY DEF ProcessIfConditions
<1>2. Grown(t, s, {})
  BY DropGrown
<1> HIDE DEF t
<1>3. /\ Holds(t) /\ n \in DOMAIN t.nodes /\ p \in DOMAIN t.nodes /\ t.nodes[n].parent = p
      /\ Alternative(t.nodes[n])
  BY <1>2 DEF Grown, Same
<1>4. Ripe(t.nodes, n)
  BY <1>2, RipeStays
<1>5. ASSUME prev # 0, "if" \in t.nodes[prev].has
      PROVE  Grown(AddIfCondition(t, prev, n), t, {n})
  <2>1. IsSeq(q) /\ ChildrenFit(t.nodes, p, q)
    BY <1>3 DEF Holds, TreeOf, ChildrenFit
  <2>2. q # <<>> /\ prev = q[Len(q)]
    BY <1>5 DEF Top, Last
  <2>3. Len(q) \in DOMAIN q
    <3>1. Len(q) \in Nat /\ DOMAIN q = 1 .. Len(q) /\ (Len(q) = 0 => q = <<>>)
      BY <2>1, SeqFacts DEF IsSeq
    <3> QED
      BY <2>2, <3>1
  <2>4. prev \in DOMAIN t.nodes /\ t.nodes[prev].parent = p
    BY <2>1, <2>2, <2>3 DEF ChildrenFit
  <2>5. Placed(t.nodes, prev)
    BY <1>3, <2>2, <2>3 DEF Placed, ChildOf
  <2> HIDE DEF prev
  <2>6. prev < n
    BY <1>3, <1>4, <2>4, <2>5 DEF Ripe
  <2> QED
    BY <1>3, <1>4, <1>5, <2>4, <2>6, BranchGrown
<1> HIDE DEF prev
<1>6. CASE prev # 0 /\ "if" \in t.nodes[prev].has
  <2>1. Grown(AddIfCondition(t, prev, n), s, {} \cup {n})
    BY <1>2, <1>5, <1>6, GrownTransitive
  <2>2. {} \cup {n} = {n}
    OBVIOUS
  <2> QED
    BY <1>1, <1>6, <2>1, <2>2
<1>7. CASE ~ (prev # 0 /\ "if" \in t.nodes[prev].has)
  <2>1. Grown(t, s, {n})
    BY <1>2 DEF Grown
  <2> QED
    BY <1>1, <1>7, <2>1
<1> QED
  BY <1>6, <1>7

\* The parent of what is closed is the innermost open element, and the first of
\* all nodes is the root.
LEMMA PlaceGrown ==
    ASSUME NEW s, Holds(s), NEW n \in DOMAIN s.nodes, Ripe(s.nodes, n),
           s.nodes[n].parent = CurrentParent(s), s.root = 1
    PROVE  Grown(PlaceElement(s, n), s, {n})
<1> DEFINE p == CurrentParent(s)
<1>0. n \in Nat \ {0} /\ DOMAIN s.nodes = 1 .. Len(s.nodes) /\ Len(s.nodes) \in Nat
  BY SeqFacts DEF Holds, Formed
<1>1. CASE p # 0
  <2>1. p \in DOMAIN s.nodes
    <3>1. s.nodes[n].parent \in Nat /\ s.nodes[n].parent < n
      BY DEF Holds, TreeOf
    <3> QED
      BY <1>0, <1>1, <3>1
  <2>2. CASE Alternative(s.nodes[n])
    BY <1>1, <2>1, <2>2, IfConditionsGrown DEF PlaceElement
  <2>3. CASE ~ Alternative(s.nodes[n])
    BY <1>1, <2>1, <2>3, ChildGrown DEF PlaceElement
  <2> QED
    BY <2>2, <2>3
<1>2. CASE p = 0
  <2>1. CASE n # 1 /\ "if" \in s.nodes[1].has /\ Alternative(s.nodes[n])
    <3>1. PlaceElement(s, n) = AddIfCondition(s, 1, n)
      BY <1>2, <2>1 DEF PlaceElement
    <3>2. 1 \in DOMAIN s.nodes /\ 1 < n
      BY <1>0, <2>1
    <3>3. s.nodes[1].parent = 0
      <4>1. s.nodes[1].parent \in Nat /\ s.nodes[1].parent < 1
        BY <3>2 DEF Holds, TreeOf
      <4> QED
        BY <4>1
    <3> QED
      BY <1>2, <2>1, <3>1, <3>2, <3>3, BranchGrown
  <2>2. CASE ~ (n # 1 /\ "if" \in s.nodes[1].has /\ Alternative(s.nodes[n]))
    <3>1. PlaceElement(s, n) = s
      BY <1>2, <2>2 DEF PlaceElement
    <3> QED
      BY <3>1, GrownItself
  <2> QED
    BY <2>1, <2>2
<1> QED
  BY <1>1, <1>2

LEMMA CloseGrown ==
    ASSUME NEW s, Holds(s), NEW n \in DOMAIN s.nodes, Ripe(s.nodes, n),
           s.nodes[n].parent = CurrentParent(s), s.root = 1
    PROVE  Grown(CloseElement(s, n), s, {n})
<1> DEFINE trimmed == TrimEndingWhitespace(s, n)
           x == s.nodes[n].raw \cap {"bind", "key"}
           processed == IF s.inVPre THEN trimmed ELSE [trimmed EXCEPT !.nodes[n].has = @ \cup x]
           placed == PlaceElement(processed, n)
           last == TrimEndingWhitespace(placed, n)
           t == CloseElement(s, n)
<1>1. Grown(trimmed, s, {})
  BY TrimGrown
<1>2. t = [last EXCEPT !.inVPre = @ /\ "pre" \notin s.nodes[n].has,
                       !.inPre = @ /\ s.nodes[n].tag # "pre"]
  BY DEF CloseElement
<1>3. x \cap {"pre", "if", "elseif", "else"} = {}
  OBVIOUS
<1> HIDE DEF x, trimmed
<1>4. Grown(processed, trimmed, {})
  <2>1. Holds(trimmed) /\ n \in DOMAIN trimmed.nodes
    BY <1>1 DEF Grown, Same
  <2> QED
    BY <1>3, <2>1, HasGrown, GrownItself
<1> HIDE DEF processed
<1>5. Grown(processed, s, {} \cup {})
  BY <1>1, <1>4, GrownTransitive
<1>6. Grown(placed, processed, {n})
  <2>1. /\ Holds(processed) /\ n \in DOMAIN processed.nodes
        /\ processed.nodes[n].parent = s.nodes[n].parent
        /\ processed.root = 1 /\ processed.stack = s.stack
    BY <1>5 DEF Grown, Same
  <2>2. Ripe(processed.nodes, n)
    BY <1>5, RipeStays
  <2>3. processed.nodes[n].parent = CurrentParent(processed)
    BY <2>1 DEF CurrentParent
  <2> QED
    BY <2>1, <2>2, <2>3, PlaceGrown
<1> HIDE DEF placed
<1>7. Grown(last, placed, {})
  BY <1>5, <1>6, TrimGrown DEF Grown, Same
<1> HIDE DEF last
<1>8. Grown(last, s, {n})
  BY <1>5, <1>6, <1>7 DEF Grown, Same
<1>9. t.nodes = last.nodes /\ t.stack = last.stack /\ t.root = last.root
  BY <1>2, <1>8 DEF Grown, Holds, Formed, IsState
<1>10. Formed(t)
  BY CloseFacts DEF Holds
<1> HIDE DEF t
<1>11. Grown(t, s, {n})
  BY <1>8, <1>9, <1>10 DEF Grown, Holds
<1> QED
  BY <1>11 DEF t

\* The open elements are the way from the root to where the parser is.
Tree(s) ==
    /\ TreeOf(s.nodes)
    /\ Rising(s.stack)
    /\ \A i \in DOMAIN s.stack :
          /\ Ripe(s.nodes, s.stack[i])
          /\ s.nodes[s.stack[i]].parent = IF i = 1 THEN 0 ELSE s.stack[i - 1]
    /\ s.root = IF Len(s.nodes) = 0 THEN 0 ELSE 1

\* What was put in its place below the innermost open element leaves the way to
\* it as it is.
LEMMA WayStays ==
    ASSUME NEW s, Formed(s), Tree(s), NEW t, NEW n, Grown(t, s, {n}),
           n \in DOMAIN s.nodes => s.nodes[n].parent = CurrentParent(s)
    PROVE  Tree(t)
<1>1. /\ DOMAIN s.nodes = 1 .. Len(s.nodes) /\ Len(s.nodes) \in Nat
      /\ DOMAIN s.stack = 1 .. Len(s.stack) /\ Len(s.stack) \in Nat
      /\ DOMAIN t.nodes = 1 .. Len(t.nodes) /\ Len(t.nodes) \in Nat
  BY SeqFacts DEF Formed, Grown, Holds
<1>2. Len(t.nodes) = Len(s.nodes)
  <2>1. DOMAIN t.nodes = DOMAIN s.nodes
    BY DEF Grown, Same
  <2> QED
    BY <1>1, <2>1, SameLength
<1>3. ASSUME NEW i \in DOMAIN s.stack
      PROVE  /\ Ripe(t.nodes, s.stack[i])
             /\ t.nodes[s.stack[i]].parent = IF i = 1 THEN 0 ELSE s.stack[i - 1]
  <2>0. s.stack[i] \in DOMAIN s.nodes
    BY DEF Formed
  <2>1. t.nodes[s.stack[i]].parent = s.nodes[s.stack[i]].parent
    BY <2>0 DEF Grown, Same
  <2>2. ASSUME n \in DOMAIN s.nodes PROVE s.nodes[n].parent # s.nodes[s.stack[i]].parent
    <3> DEFINE k == Len(s.stack)
    <3>1. k \in DOMAIN s.stack /\ s.nodes[n].parent = s.stack[k]
      <4>1. k # 0
        BY <1>1
      <4>2. s.stack # <<>>
        BY <1>1, <4>1
      <4> QED
        BY <1>1, <2>2, <4>1, <4>2 DEF CurrentParent, Top, Last
    <3>2. s.stack[k] \in Nat /\ s.stack[i] \in Nat
      BY <1>1, <2>0, <3>1 DEF Formed
    <3>3. s.stack[i] <= s.stack[k]
      <4>1. i < k \/ i = k
        BY <1>1
      <4> QED
        BY <3>1, <3>2, <4>1 DEF Tree, Rising
    <3>4. s.nodes[s.stack[i]].parent \in Nat /\ s.nodes[s.stack[i]].parent < s.stack[i]
      BY <2>0 DEF Tree, TreeOf
    <3> QED
      BY <3>1, <3>2, <3>3, <3>4
  <2>3. Ripe(t.nodes, s.stack[i])
    <3>1. Ripe(s.nodes, s.stack[i])
      BY DEF Tree
    <3>2. \A c \in {n} : c \in DOMAIN s.nodes /\ s.nodes[c].parent = s.nodes[s.stack[i]].parent => c < s.stack[i]
      BY <2>2
    <3> QED
      BY <2>0, <3>1, <3>2, RipeStays
  <2> QED
    BY <2>1, <2>3 DEF Tree
<1>4. TreeOf(t.nodes) /\ t.stack = s.stack /\ t.root = s.root
  BY DEF Grown, Holds
<1> QED
  BY <1>2, <1>3, <1>4 DEF Tree

\* A new node, the last of all.
LEMMA NodeAdded ==
    ASSUME NEW s, Formed(s), TreeOf(s.nodes), NEW e, NEW u, u = Append(s.nodes, e),
           e.parent \in 0 .. Len(s.nodes), e.children = <<>>,
           e.conds = IF "if" \in e.has THEN <<Len(s.nodes) + 1>> ELSE <<>>,
           "if" \in e.has => ~ Alternative(e)
    PROVE  /\ TreeOf(u)
           /\ Ripe(u, Len(s.nodes) + 1)
           /\ \A i \in DOMAIN s.nodes : Ripe(s.nodes, i) => Ripe(u, i)
<1> DEFINE ns == s.nodes
           n == Len(ns) + 1
<1>1. /\ IsSeq(u) /\ DOMAIN ns = 1 .. Len(ns) /\ Len(ns) \in Nat /\ DOMAIN u = 1 .. n
      /\ \A i \in DOMAIN ns : u[i] = ns[i]
      /\ u[n] = e
  BY AppendFacts, SeqFacts DEF Formed
<1>2. /\ \A i \in DOMAIN u : i \in DOMAIN ns \/ i = n
      /\ DOMAIN ns \subseteq DOMAIN u /\ n \in DOMAIN u /\ n \notin DOMAIN ns
  BY <1>1
<1>3. DOMAIN e.children = {} /\ IsSeq(e.children) /\ Rising(e.children)
  <2> DEFINE z == <<>>
             S == {}
  <2>1. z \in Seq(S) /\ DOMAIN z = {}
    OBVIOUS
  <2> HIDE DEF S
  <2>2. IsSeq(z)
    BY <2>1 DEF IsSeq
  <2> QED
    BY <2>1, <2>2 DEF Rising
<1>4. DOMAIN e.conds \subseteq {1} /\ IsSeq(e.conds) /\ Rising(e.conds)
      /\ ("if" \in e.has <=> e.conds # <<>>) /\ ("if" \in e.has => e.conds[1] = n)
  <2>1. CASE "if" \in e.has
    <3> DEFINE z == <<n>>
               S == {n}
    <3>1. z \in Seq(S) /\ DOMAIN z = {1} /\ z # <<>> /\ z[1] = n
      OBVIOUS
    <3> HIDE DEF S
    <3>2. IsSeq(z)
      BY <3>1 DEF IsSeq
    <3> QED
      BY <2>1, <3>1, <3>2 DEF Rising
  <2>2. CASE "if" \notin e.has
    BY <1>3, <2>2 DEF Rising
  <2> QED
    BY <2>1, <2>2
<1> HIDE DEF n
<1>5. ASSUME NEW c, NEW m \in DOMAIN u
      PROVE  /\ ChildOf(u, c, m) => m \in DOMAIN ns /\ ChildOf(ns, c, m)
             /\ BranchOf(u, c, m) => m \in DOMAIN ns /\ BranchOf(ns, c, m)
  BY <1>1, <1>2, <1>3, <1>4 DEF ChildOf, BranchOf
<1>6. \A c : Placed(u, c) => Placed(ns, c) /\ c \in DOMAIN ns
  <2> SUFFICES ASSUME NEW c, Placed(u, c) PROVE Placed(ns, c) /\ c \in DOMAIN ns
    OBVIOUS
  <2>1. PICK m \in DOMAIN ns : ChildOf(ns, c, m) \/ BranchOf(ns, c, m)
    BY <1>5 DEF Placed
  <2>2. ChildrenFit(ns, m, ns[m].children) /\ BranchesFit(ns, m, ns[m].conds)
    BY DEF TreeOf
  <2>3. c \in DOMAIN ns
    BY <2>1, <2>2 DEF ChildOf, BranchOf, ChildrenFit, BranchesFit
  <2> QED
    BY <2>1, <2>3 DEF Placed
<1>7. ASSUME NEW m \in DOMAIN u
      PROVE  /\ u[m].parent \in Nat /\ u[m].parent < m
             /\ ChildrenFit(u, m, u[m].children)
             /\ BranchesFit(u, m, u[m].conds)
  <2>1. CASE m \in DOMAIN ns
    <3>1. /\ u[m] = ns[m] /\ ns[m].parent \in Nat /\ ns[m].parent < m
          /\ ChildrenFit(ns, m, ns[m].children) /\ BranchesFit(ns, m, ns[m].conds)
      BY <1>1, <2>1 DEF TreeOf
    <3>2. ChildrenFit(u, m, ns[m].children)
      BY <1>1, <1>2, <3>1 DEF ChildrenFit
    <3>3. BranchesFit(u, m, ns[m].conds)
      BY <1>1, <1>2, <2>1, <3>1 DEF BranchesFit
    <3> QED
      BY <3>1, <3>2, <3>3
  <2>2. CASE m = n
    <3>1. u[m] = e
      BY <1>1, <2>2 DEF n
    <3>2. e.parent \in Nat /\ e.parent < m
      BY <1>1, <2>2 DEF n
    <3>3. ChildrenFit(u, m, e.children)
      BY <1>3 DEF ChildrenFit
    <3>4. BranchesFit(u, m, e.conds)
      BY <1>4, <2>2, <3>1 DEF BranchesFit
    <3> QED
      BY <3>1, <3>2, <3>3, <3>4
  <2> QED
    BY <1>2, <2>1, <2>2
<1>8. TreeOf(u)
  <2>1. \A c, m, i \in DOMAIN u : BranchOf(u, c, m) /\ BranchOf(u, c, i) => m = i
    <3> SUFFICES ASSUME NEW c \in DOMAIN u, NEW m \in DOMAIN u, NEW i \in DOMAIN u,
                        BranchOf(u, c, m), BranchOf(u, c, i)
                 PROVE  m = i
      OBVIOUS
    <3>1. m \in DOMAIN ns /\ i \in DOMAIN ns /\ BranchOf(ns, c, m) /\ BranchOf(ns, c, i)
      BY <1>5
    <3>2. c \in DOMAIN ns
      BY <1>6 DEF Placed
    <3> QED
      BY <3>1, <3>2 DEF TreeOf
  <2> QED
    BY <1>7, <2>1 DEF TreeOf
<1>9. Ripe(u, n)
  <2>1. \A c \in DOMAIN ns : c < n
    BY <1>1 DEF n
  <2> QED
    BY <1>6, <2>1 DEF Ripe
<1>10. \A i \in DOMAIN ns : Ripe(ns, i) => Ripe(u, i)
  BY <1>1, <1>6 DEF Ripe
<1> QED
  BY <1>8, <1>9, <1>10 DEF n

LEMMA StartTree ==
    ASSUME NEW s, Sound(s), Tree(s), NEW tag, NEW raw
    PROVE  Tree(Single(s, tag, raw)) /\ Tree(Opened(s, tag, raw))
<1> DEFINE n == Len(s.nodes) + 1
           pre == ~ s.inVPre /\ "pre" \in raw
           has == IF pre THEN {"pre"} ELSE IF s.inVPre THEN {} ELSE Structural(raw)
           e == Element(s, tag, raw, has)
           ns == Append(s.nodes, e)
           v == s.inVPre \/ pre
           q == s.inPre \/ tag = "pre"
           r == IF s.root = 0 THEN n ELSE s.root
           made == [s EXCEPT !.nodes = ns, !.inVPre = v, !.inPre = q, !.root = r]
           k == Len(s.stack)
<1>1. /\ Single(s, tag, raw) = CloseElement(made, n)
      /\ Opened(s, tag, raw) = [made EXCEPT !.stack = Append(@, n)]
  BY DEF Start, Single, Opened
<1>2. "if" \in has => has \cap {"elseif", "else"} = {}
  BY DEF Structural
<1> HIDE DEF pre, has
<1>3. /\ IsNode(e) /\ e.parent = CurrentParent(s) /\ e.children = <<>>
      /\ e.conds = IF "if" \in e.has THEN <<n>> ELSE <<>>
      /\ e.has = has
  BY DEF Element, IsNode
<1> HIDE DEF e
<1>4. "if" \in e.has => ~ Alternative(e)
  BY <1>2, <1>3 DEF Alternative
<1> HIDE DEF ns, v, q, r, made
<1>5. /\ IsState(made) /\ made.open = s.open
      /\ made.stack = s.stack /\ made.nodes = ns /\ made.root = r
  <2>1. IsState(s)
    BY DEF Sound, Formed
  <2>2. Made(made, s, ns, v, q, r)
    BY DEF made, Made
  <2> QED
    BY <2>1, <2>2, MadeFacts
<1>6. /\ IsSeq(ns) /\ DOMAIN s.nodes = 1 .. Len(s.nodes) /\ Len(s.nodes) \in Nat
      /\ DOMAIN ns = 1 .. n /\ Len(ns) = n
      /\ \A i \in DOMAIN s.nodes : ns[i] = s.nodes[i]
      /\ ns[n] = e
      /\ DOMAIN s.stack = 1 .. k /\ k \in Nat
  BY AppendFacts, SeqFacts DEF Sound, Formed, ns
<1>7. \A i \in 1 .. n : i = n \/ i \in DOMAIN s.nodes
  BY <1>6
<1>8. Formed(made)
  BY <1>3, <1>5, <1>6, <1>7 DEF Sound, Formed
<1>9. r = 1
  BY <1>6 DEF Tree, r
<1>10. CurrentParent(s) = (IF k = 0 THEN 0 ELSE s.stack[k]) /\ CurrentParent(s) \in 0 .. Len(s.nodes)
  <2>1. k = 0 <=> s.stack = <<>>
    BY <1>6 DEF Sound, Formed, IsSeq
  <2>2. CurrentParent(s) = IF k = 0 THEN 0 ELSE s.stack[k]
    BY <2>1 DEF CurrentParent, Top, Last
  <2>3. k # 0 => s.stack[k] \in DOMAIN s.nodes
    BY <1>6 DEF Sound, Formed
  <2> QED
    BY <1>6, <2>2, <2>3
<1>11. /\ TreeOf(ns) /\ Ripe(ns, n)
       /\ \A i \in DOMAIN s.nodes : Ripe(s.nodes, i) => Ripe(ns, i)
  <2>1. Formed(s) /\ TreeOf(s.nodes)
    BY DEF Sound, Tree
  <2> QED
    BY <1>3, <1>4, <1>10, <2>1, NodeAdded DEF ns
<1>12. ASSUME NEW i \in DOMAIN s.stack
       PROVE  /\ Ripe(ns, s.stack[i])
              /\ ns[s.stack[i]].parent = IF i = 1 THEN 0 ELSE s.stack[i - 1]
              /\ s.stack[i] < n /\ s.stack[i] \in DOMAIN s.nodes
  <2>1. s.stack[i] \in DOMAIN s.nodes
    BY DEF Sound, Formed
  <2> QED
    BY <1>6, <1>11, <2>1 DEF Tree
<1>13. Tree(made)
  BY <1>5, <1>6, <1>9, <1>11, <1>12 DEF Tree
<1>14. Tree(Single(s, tag, raw))
  <2> DEFINE t == Single(s, tag, raw)
  <2>1. /\ Holds(made) /\ n \in DOMAIN made.nodes /\ Ripe(made.nodes, n) /\ made.root = 1
    BY <1>5, <1>6, <1>8, <1>9, <1>11 DEF Holds
  <2>2. made.nodes[n].parent = CurrentParent(made)
    BY <1>3, <1>5, <1>6 DEF CurrentParent
  <2>3. t = CloseElement(made, n)
    BY <1>1
  <2> HIDE DEF t, n
  <2>4. Grown(t, made, {n})
    BY <2>1, <2>2, <2>3, CloseGrown
  <2>5. Tree(t)
    BY <1>8, <1>13, <2>2, <2>4, WayStays
  <2> QED
    BY <2>5 DEF t
<1>15. Tree(Opened(s, tag, raw))
  <2> DEFINE p == Append(s.stack, n)
             t == Opened(s, tag, raw)
  <2>1. t.nodes = ns /\ t.root = 1 /\ t.stack = p
    <3>1. t = [made EXCEPT !.stack = p]
      BY <1>1, <1>5
    <3> HIDE DEF t, p
    <3> QED
      BY <1>5, <1>9, <3>1 DEF IsState
  <2>2. /\ Rising(p) /\ DOMAIN p = 1 .. k + 1
        /\ \A i \in DOMAIN p : p[i] = IF i \in DOMAIN s.stack THEN s.stack[i] ELSE n
    <3>1. IsSeq(s.stack) /\ Rising(s.stack)
      BY DEF Sound, Formed, Tree
    <3> QED
      BY <1>12, <3>1, RisingAppend
  <2> HIDE DEF p, t
  <2>3. ASSUME NEW i \in DOMAIN p
        PROVE  Ripe(ns, p[i]) /\ ns[p[i]].parent = IF i = 1 THEN 0 ELSE p[i - 1]
    <3>1. CASE i \in DOMAIN s.stack
      <4>1. i # 1 => i - 1 \in DOMAIN s.stack /\ i - 1 \in DOMAIN p
        BY <1>6, <2>2, <3>1
      <4> QED
        BY <1>12, <2>2, <3>1, <4>1
    <3>2. CASE i \notin DOMAIN s.stack
      <4>1. i = k + 1 /\ p[i] = n /\ (k # 0 => k \in DOMAIN s.stack /\ k \in DOMAIN p)
        BY <1>6, <2>2, <3>2
      <4>2. ns[p[i]].parent = IF k = 0 THEN 0 ELSE s.stack[k]
        BY <1>3, <1>6, <1>10, <4>1
      <4>3. k # 0 => i # 1 /\ i - 1 = k /\ p[k] = s.stack[k]
        BY <1>6, <2>2, <4>1
      <4> HIDE DEF k, n
      <4> QED
        BY <1>11, <4>1, <4>2, <4>3
    <3> QED
      BY <3>1, <3>2
  <2>4. Len(t.nodes) # 0
    BY <1>6, <2>1
  <2>5. Tree(t)
    BY <1>11, <2>1, <2>2, <2>3, <2>4 DEF Tree
  <2> QED
    BY <2>5 DEF t
<1> QED
  BY <1>14, <1>15

LEMMA EndTree ==
    ASSUME NEW s, Sound(s), Tree(s), Len(s.stack) # 0
    PROVE  Tree(End(s))
<1> DEFINE k == Len(s.stack)
           p == SubSeq(s.stack, 1, k - 1)
           r == [s EXCEPT !.stack = Front(@)]
           n == s.stack[k]
           t == End(s)
<1>1. k \in Nat \ {0} /\ DOMAIN s.stack = 1 .. k /\ k - 1 \in 0 .. k
  BY SeqFacts DEF Sound, Formed
<1>2. t = CloseElement(r, n)
  BY DEF End, Last
<1>3. /\ IsState(r) /\ r.open = s.open /\ r.nodes = s.nodes /\ r.stack = p /\ r.root = s.root
  BY DEF Sound, Formed, IsState, Front
<1> HIDE DEF r, t, p
<1>4. /\ IsSeq(p) /\ Len(p) = k - 1 /\ DOMAIN p = 1 .. k - 1
      /\ \A i \in 1 .. k - 1 : p[i] = s.stack[i]
  BY <1>1, FirstFacts DEF Sound, Formed, p
<1> HIDE DEF k
<1>5. /\ \A i \in 1 .. k - 1 : i \in 1 .. k /\ (i # 1 => i - 1 \in 1 .. k - 1)
      /\ k \in 1 .. k
  BY <1>1
<1>6. Formed(r) /\ n \in DOMAIN r.nodes /\ Holds(r)
  BY <1>1, <1>3, <1>4, <1>5 DEF Sound, Formed, Holds, Tree
<1>7. Tree(r)
  <2>1. Rising(p)
    BY <1>1, <1>4, <1>5 DEF Tree, Rising
  <2>2. ASSUME NEW i \in DOMAIN p
        PROVE  /\ Ripe(s.nodes, p[i])
               /\ s.nodes[p[i]].parent = IF i = 1 THEN 0 ELSE p[i - 1]
    BY <1>1, <1>4, <1>5 DEF Tree
  <2> QED
    BY <1>3, <2>1, <2>2 DEF Tree
<1>8. r.nodes[n].parent = CurrentParent(r)
  <2>1. s.nodes[n].parent = IF k = 1 THEN 0 ELSE s.stack[k - 1]
    BY <1>1, <1>5 DEF Tree
  <2>2. p = <<>> <=> k = 1
    BY <1>1, <1>4 DEF IsSeq
  <2>3. k # 1 => p[k - 1] = s.stack[k - 1]
    BY <1>1, <1>4
  <2> QED
    BY <1>3, <1>4, <2>1, <2>2, <2>3 DEF CurrentParent, Top, Last
<1>9. Ripe(r.nodes, n) /\ r.root = 1
  <2>1. Ripe(s.nodes, n)
    BY <1>1, <1>5 DEF Tree
  <2>2. Len(s.nodes) # 0
    <3>1. DOMAIN s.nodes = 1 .. Len(s.nodes) /\ n \in DOMAIN s.nodes
      BY <1>3, <1>6, SeqFacts DEF Sound, Formed
    <3> QED
      BY <3>1
  <2> QED
    BY <1>3, <2>1, <2>2 DEF Tree
<1> HIDE DEF n
<1>10. Grown(t, r, {n})
  BY <1>2, <1>6, <1>8, <1>9, CloseGrown
<1>11. Tree(t)
  BY <1>6, <1>7, <1>8, <1>10, WayStays
<1> QED
  BY <1>11 DEF t

LEMMA EndsTree ==
    ASSUME NEW s, Sound(s), Tree(s), NEW k \in 0 .. Len(s.stack)
    PROVE  Tree(Ends(s, k))
<1>0. Len(s.stack) \in Nat /\ k \in Nat /\ k <= Len(s.stack)
  BY SeqFacts DEF Sound, Formed
<1>1. PICK f : Steps(f, s, k) /\ Ends(s, k) = f[k]
  BY <1>0, EndsSteps
<1> DEFINE Fine(t, i) == Sound(t) /\ Len(t.stack) = Len(s.stack) - i /\ Tree(t)
           S == {i \in Nat : i <= k => Fine(f[i], i)}
<1>2. f[0] = s /\ \A i \in 1 .. k : f[i] = End(f[i - 1])
  <2>1. /\ 0 \in 0 .. k
        /\ \A i \in 1 .. k : i \in 0 .. k /\ i # 0
    BY <1>0
  <2>2. \A i \in 0 .. k : f[i] = IF i = 0 THEN s ELSE End(f[i - 1])
    BY <1>1 DEF Steps
  <2> QED
    BY <2>1, <2>2
<1>3. 0 \in S
  BY <1>0, <1>2
<1>4. ASSUME NEW n \in Nat, n \in S PROVE n + 1 \in S
  <2>1. CASE ~ n + 1 <= k
    BY <2>1
  <2>2. CASE n + 1 <= k
    <3>1. Fine(f[n], n) /\ f[n + 1] = End(f[n])
      <4>1. n <= k /\ n + 1 \in 1 .. k /\ (n + 1) - 1 = n
        BY <1>0, <2>2
      <4> QED
        BY <1>2, <1>4, <4>1
    <3> DEFINE t == f[n]
               u == f[n + 1]
    <3> HIDE DEF t, u
    <3>2. Sound(t) /\ Len(t.stack) = Len(s.stack) - n /\ Tree(t) /\ u = End(t)
      BY <3>1 DEF t, u
    <3>3. Len(t.stack) # 0
      BY <1>0, <2>2, <3>2
    <3>4. Sound(u) /\ Popped(u, t, 1)
      BY <3>2, <3>3, EndFacts
    <3>5. Tree(u)
      BY <3>2, <3>3, EndTree
    <3>6. Len(u.stack) = Len(s.stack) - (n + 1)
      BY <1>0, <3>2, <3>4 DEF Popped
    <3>7. Fine(u, n + 1)
      BY <3>4, <3>5, <3>6
    <3> QED
      BY <3>7 DEF u
  <2> QED
    BY <2>1, <2>2
<1> HIDE DEF S
<1>5. Nat \subseteq S
  BY <1>3, <1>4, Counting
<1>6. Fine(f[k], k)
  BY <1>0, <1>5 DEF S
<1> QED
  BY <1>1, <1>6

\* parseHTML's own stack does not matter to the tree.
LEMMA ReopenedTree ==
    ASSUME NEW s, IsState(s), Tree(s), NEW q, NEW l, NEW t, Reopened(t, s, q, l)
    PROVE  Tree(t)
<1>1. t.nodes = s.nodes /\ t.stack = s.stack /\ t.root = s.root
  BY DEF Reopened, IsState
<1> QED
  BY <1>1 DEF Tree

LEMMA CloseFromTree ==
    ASSUME NEW s, Good(s), Tree(s), NEW pos \in 1 .. Len(s.open) + 1
    PROVE  Tree(CloseFrom(s, pos))
<1> DEFINE k == Len(s.open) - pos + 1
           left == SubSeq(s.open, 1, pos - 1)
           e == Ends(s, k)
           l == Top(left, "")
           t == CloseFrom(s, pos)
<1>1. Len(s.open) = Len(s.stack) /\ Len(s.open) \in Nat
  <2>1. DOMAIN s.open = DOMAIN s.stack
    BY DEF Good, Agree
  <2>2. /\ DOMAIN s.open = 1 .. Len(s.open) /\ Len(s.open) \in Nat
        /\ DOMAIN s.stack = 1 .. Len(s.stack) /\ Len(s.stack) \in Nat
    BY SeqFacts DEF Good, Sound, Formed
  <2> QED
    BY <2>1, <2>2, SameLength
<1>2. k \in 0 .. Len(s.stack)
  BY <1>1
<1>3. Reopened(t, e, left, l)
  BY DEF CloseFrom, Reopened
<1> HIDE DEF k, left, l, t
<1>4. Sound(e) /\ Tree(e)
  BY <1>2, EndsFacts, EndsTree DEF Good
<1> HIDE DEF e
<1>5. Tree(t)
  BY <1>3, <1>4, ReopenedTree DEF Sound, Formed
<1> QED
  BY <1>5 DEF t

LEMMA EndTagTree ==
    ASSUME NEW s, Good(s), Tree(s), NEW tag
    PROVE  Tree(ParseEndTag(s, tag))
<1> DEFINE same == {i \in DOMAIN s.open : s.open[i] = tag}
<1>0. DOMAIN s.open = 1 .. Len(s.open) /\ Len(s.open) \in Nat /\ Sound(s)
  BY SeqFacts DEF Good, Sound, Formed
<1>1. CASE same # {}
  <2> DEFINE pos == CHOOSE i \in same : \A j \in same : j <= i
  <2>1. same \in SUBSET (1 .. Len(s.open))
    BY <1>0
  <2>2. ParseEndTag(s, tag) = CloseFrom(s, pos)
    BY <1>1 DEF ParseEndTag
  <2> HIDE DEF same
  <2>3. \E i \in same : \A j \in same : j <= i
    BY <1>0, <1>1, <2>1, Greatest
  <2>4. pos \in same
    BY <2>3
  <2> HIDE DEF pos
  <2>5. pos \in 1 .. Len(s.open) + 1
    BY <1>0, <2>1, <2>4
  <2> QED
    BY <2>2, <2>5, CloseFromTree
<1>2. CASE same = {} /\ tag = "br"
  <2>1. ParseEndTag(s, tag) = Single(s, tag, {})
    BY <1>2 DEF ParseEndTag, Single
  <2> QED
    BY <1>0, <2>1, StartTree
<1>3. CASE same = {} /\ tag = "p"
  <2> DEFINE r == Opened(s, tag, {})
  <2>1. ParseEndTag(s, tag) = End(r)
    BY <1>3 DEF ParseEndTag, Opened
  <2>2. Sound(r) /\ Pushed(r, s)
    BY <1>0, StartFacts
  <2>3. Tree(r)
    BY <1>0, StartTree
  <2> HIDE DEF r
  <2>4. Len(r.stack) # 0
    <3>1. Len(s.stack) \in Nat
      BY SeqFacts DEF Good, Sound, Formed
    <3> QED
      BY <2>2, <3>1 DEF Pushed
  <2> QED
    BY <2>1, <2>2, <2>3, <2>4, EndTree
<1>4. CASE same = {} /\ tag # "br" /\ tag # "p"
  BY <1>4 DEF ParseEndTag
<1> QED
  BY <1>1, <1>2, <1>3, <1>4

LEMMA StartTagTree ==
    ASSUME NEW s, Good(s), Tree(s), NEW t
    PROVE  Tree(HandleStartTag(s, t))
<1> DEFINE phrased == IF s.lastTag = "p" /\ t.tag \in NonPhrasingTags
                      THEN ParseEndTag(s, "p") ELSE s
           ready == IF t.tag \in LeftOpenTags /\ phrased.lastTag = t.tag
                    THEN ParseEndTag(phrased, t.tag) ELSE phrased
           unary == t.tag \in UnaryTags \/ t.slash
           q == Append(ready.open, t.tag)
           r == [ready EXCEPT !.open = q, !.lastTag = t.tag]
<1>1. Good(phrased) /\ Tree(phrased)
  BY EndTagGood, EndTagTree
<1> HIDE DEF phrased
<1>2. Good(ready) /\ Tree(ready)
  BY <1>1, EndTagGood, EndTagTree
<1>3. HandleStartTag(s, t) = Start(IF unary THEN ready ELSE r, t.tag, t.has, unary)
  BY DEF HandleStartTag, phrased
<1> HIDE DEF ready, unary
<1>4. CASE unary
  <2>1. HandleStartTag(s, t) = Single(ready, t.tag, t.has)
    BY <1>3, <1>4 DEF Start, Single
  <2> QED
    BY <1>2, <2>1, StartTree DEF Good
<1>5. CASE ~ unary
  <2>1. HandleStartTag(s, t) = Opened(r, t.tag, t.has)
    BY <1>3, <1>5 DEF Start, Opened
  <2>2. Reopened(r, ready, q, t.tag)
    BY DEF Reopened
  <2>3. IsSeq(q)
    BY <1>2, AppendFacts DEF Good, Sound, Formed
  <2> HIDE DEF q, r
  <2>4. Sound(r)
    BY <1>2, <2>2, <2>3, ReopenedFacts DEF Good
  <2>5. IsState(ready)
    BY <1>2 DEF Good, Sound, Formed
  <2>6. Tree(r)
    BY <1>2, <2>2, <2>5, ReopenedTree
  <2> QED
    BY <2>1, <2>4, <2>6, StartTree
<1> QED
  BY <1>4, <1>5

LEMMA CharsTree == ASSUME NEW s, Good(s), Tree(s), NEW text PROVE Tree(Chars(s, text))
<1> DEFINE parent == CurrentParent(s)
           n == Len(s.nodes) + 1
           type == IF text \in {"msg", "item"} /\ ~ s.inVPre THEN "expression" ELSE "text"
           e == Text(s, text, type)
           ns == Append(s.nodes, e)
           r == [s EXCEPT !.nodes = ns]
           t == [r EXCEPT !.nodes[parent].children = Append(@, n)]
<1>1. Chars(s, text) = s \/ (parent # 0 /\ Chars(s, text) = t)
  <2> DEFINE u == [r EXCEPT !.nodes[parent].children = Append(@, Len(r.nodes))]
  <2>1. Chars(s, text) = s \/ (parent # 0 /\ Chars(s, text) = u)
    <3>1. r = [s EXCEPT !.nodes = Append(@, e)]
      OBVIOUS
    <3> QED
      BY <3>1 DEF Chars
  <2>2. Len(r.nodes) = n
    BY AppendFacts DEF Good, Sound, Formed, IsState
  <2> QED
    BY <2>1, <2>2
<1>2. /\ IsNode(e) /\ e.parent = parent /\ e.children = <<>> /\ e.conds = <<>> /\ e.has = {}
  BY DEF IsNode, Text
<1>3. IsState(s)
  BY DEF Good, Sound, Formed
<1>4. Renoded(r, s, ns)
  BY DEF Renoded
<1> HIDE DEF parent, e, r
<1>5. /\ IsSeq(ns) /\ DOMAIN ns = 1 .. n /\ DOMAIN s.nodes = 1 .. Len(s.nodes) /\ Len(s.nodes) \in Nat
      /\ \A i \in DOMAIN s.nodes : ns[i] = s.nodes[i]
      /\ ns[n] = e /\ Len(ns) = n
      /\ DOMAIN s.stack = 1 .. Len(s.stack) /\ Len(s.stack) \in Nat
  BY AppendFacts, SeqFacts DEF Good, Sound, Formed
<1> HIDE DEF ns
<1>6. /\ IsState(r) /\ r.open = s.open /\ r.stack = s.stack /\ r.nodes = ns /\ r.root = s.root
  BY <1>3, <1>4, RenodedFacts
<1>7. \A i \in 1 .. n : i = n \/ i \in DOMAIN s.nodes
  BY <1>5
<1>8. Formed(r)
  BY <1>2, <1>5, <1>6, <1>7 DEF Good, Sound, Formed
<1>9. ASSUME parent # 0 PROVE Tree(t)
  <2>1. parent \in DOMAIN s.nodes
    <3>1. s.stack # <<>> /\ parent = s.stack[Len(s.stack)]
      BY <1>9 DEF CurrentParent, Top, Last, parent
    <3>2. Len(s.stack) # 0
      BY <3>1 DEF Good, Sound, Formed, IsSeq
    <3>3. Len(s.stack) \in DOMAIN s.stack
      BY <1>5, <3>2
    <3> QED
      BY <3>1, <3>3 DEF Good, Sound, Formed
  <2>2. /\ TreeOf(ns) /\ Ripe(ns, n)
        /\ \A i \in DOMAIN s.nodes : Ripe(s.nodes, i) => Ripe(ns, i)
    <3>1. Formed(s) /\ TreeOf(s.nodes)
      BY DEF Good, Sound, Tree
    <3>2. /\ ns = Append(s.nodes, e) /\ e.parent \in 0 .. Len(s.nodes) /\ "if" \notin e.has
      BY <1>2, <1>5, <2>1 DEF ns
    <3> QED
      BY <1>2, <3>1, <3>2, NodeAdded
  <2>3. Tree(r)
    <3>1. ASSUME NEW i \in DOMAIN s.stack
          PROVE  /\ Ripe(ns, s.stack[i])
                 /\ ns[s.stack[i]].parent = IF i = 1 THEN 0 ELSE s.stack[i - 1]
      <4>1. s.stack[i] \in DOMAIN s.nodes
        BY DEF Good, Sound, Formed
      <4> QED
        BY <1>5, <2>2, <4>1 DEF Tree
    <3>2. Len(s.nodes) # 0 /\ Len(ns) # 0
      BY <1>5, <2>1
    <3> QED
      BY <1>6, <2>2, <3>1, <3>2 DEF Tree
  <2>4. ~ Alternative(ns[n])
    BY <1>2, <1>5 DEF Alternative
  <2>5. /\ Holds(r) /\ n \in DOMAIN r.nodes /\ Ripe(r.nodes, n) /\ ~ Alternative(r.nodes[n])
        /\ parent \in DOMAIN r.nodes /\ r.nodes[n].parent = parent
    BY <1>2, <1>5, <1>6, <1>8, <2>1, <2>2, <2>4 DEF Holds
  <2> HIDE DEF n
  <2>6. Grown(t, r, {n})
    BY <2>5, ChildGrown
  <2>7. parent = CurrentParent(r)
    BY <1>6 DEF parent, CurrentParent
  <2> HIDE DEF t
  <2> QED
    BY <1>8, <2>3, <2>5, <2>6, <2>7, WayStays
<1> QED
  BY <1>1, <1>9

TreeInv == ParserInv /\ Tree(State)

LEMMA BecomesTree ==
    ASSUME NEW s, Good(s), Tree(s), Becomes(s)
    PROVE  TreeInv'
<1>1. State' = s
  BY DEF Becomes, State, Good, Sound, Formed, IsState
<1>2. Tree(State')
  BY <1>1
<1> QED
  BY <1>2, BecomesGood DEF TreeInv

LEMMA TreeInvInit == ParserInit => TreeInv
<1> SUFFICES ASSUME ParserInit PROVE TreeInv
  OBVIOUS
<1> DEFINE s == State
<1>1. s.nodes = <<>> /\ s.stack = <<>> /\ s.root = 0
  BY DEF State, ParserInit
<1> HIDE DEF s
<1>2. DOMAIN <<>> = {} /\ Len(<<>>) = 0
  <2> DEFINE S == {}
  <2>1. <<>> \in Seq(S) /\ Len(<<>>) = 0
    OBVIOUS
  <2> QED
    BY <2>1
<1>3. Tree(s)
  BY <1>1, <1>2 DEF Tree, TreeOf, Rising
<1> QED
  BY <1>3, ParserInvInit DEF TreeInv, s

LEMMA TreeInvStep == TreeInv /\ [ParserNext]_<<vocabulary, template, mode, parser>> => TreeInv'
<1> SUFFICES ASSUME TreeInv, [ParserNext]_<<vocabulary, template, mode, parser>>
             PROVE  TreeInv'
  OBVIOUS
<1>1. Good(State) /\ Tree(State)
  BY DEF TreeInv, ParserInv
<1>2. CASE UNCHANGED <<vocabulary, template, mode, parser>>
  <2>1. Becomes(State)
    BY <1>2 DEF Becomes, State, parser
  <2> QED
    BY <1>1, <2>1, BecomesTree
<1>3. ASSUME NEW t \in Tokens, Read(t) PROVE TreeInv'
  <2>1. \/ Becomes(HandleStartTag(State, t))
        \/ Becomes(ParseEndTag(State, t.tag))
        \/ Becomes(State)
        \/ Becomes(Chars(State, t.tag))
    BY <1>3 DEF Read
  <2>2. \A tag : Good(ParseEndTag(State, tag)) /\ Tree(ParseEndTag(State, tag))
    BY <1>1, EndTagGood, EndTagTree
  <2>3. Good(HandleStartTag(State, t)) /\ Tree(HandleStartTag(State, t))
    BY <1>1, StartTagGood, StartTagTree
  <2>4. Good(Chars(State, t.tag)) /\ Tree(Chars(State, t.tag))
    BY <1>1, CharsGood, CharsTree
  <2> QED
    BY <1>1, <2>1, <2>2, <2>3, <2>4, BecomesTree
<1>4. CASE Finish
  <2> DEFINE s == State
  <2>1. Becomes(CloseFrom(s, 1))
    BY <1>4 DEF Finish
  <2> HIDE DEF s
  <2>2. Len(s.open) \in Nat /\ Sound(s) /\ Agree(s) /\ Good(s) /\ Tree(s)
    BY <1>1, SeqFacts DEF Good, Sound, Formed, s
  <2>3. CutFacts(CloseFrom(s, 1), s, 1 - 1)
    BY <2>2, CloseFromFacts
  <2>4. 1 - 1 \in 0 .. Len(s.open)
    BY <2>2
  <2>5. Good(CloseFrom(s, 1))
    BY <2>2, <2>3, <2>4, CutGood
  <2>6. Tree(CloseFrom(s, 1))
    BY <2>2, CloseFromTree
  <2> QED
    BY <2>1, <2>5, <2>6, BecomesTree
<1> QED
  BY <1>2, <1>3, <1>4 DEF ParserNext

\* What stands in n: its children, and the branches of its v-if after the first.
StandsIn(c, n) == ChildOf(nodes, c, n) \/ BranchOf(nodes, c, n)

TemplateTree ==
    /\ \A n \in DOMAIN nodes : nodes[n].parent \in Nat /\ nodes[n].parent < n
    /\ \A c, m, n \in DOMAIN nodes : StandsIn(c, m) /\ StandsIn(c, n) => m = n
    /\ \A c, n \in DOMAIN nodes :
          /\ ChildOf(nodes, c, n) => nodes[c].parent = n /\ ~ Alternative(nodes[c])
          /\ BranchOf(nodes, c, n) =>
                /\ nodes[c].parent = nodes[n].parent /\ n < c
                /\ Alternative(nodes[c]) /\ nodes[c].conds = <<>>
    /\ \A n \in DOMAIN nodes : Rising(nodes[n].children) /\ Rising(nodes[n].conds)
    /\ \A i \in DOMAIN stack :
          nodes[stack[i]].parent = IF i = 1 THEN 0 ELSE stack[i - 1]

-----------------------------------------------------------------------------
(* Theorems *)

\* The tags parseHTML takes for open are those of the elements parse takes for
\* open, and the last tag is the innermost: for every sequence of tokens, whatever
\* is left open, closed twice or closed by another tag.
THEOREM StacksAreOne == ParserSpec => []StacksAgree
<1>1. ParserInv => StacksAgree
  BY DEF ParserInv, Good, Agree, State, StacksAgree
<1> QED
  BY <1>1, ParserInvInit, ParserInvStep, PTL DEF ParserSpec

\* Directives are taken literally exactly while an element with v-pre is open.
\* One such element at most is open: what is below it is not looked at for v-pre.
THEOREM VPreIsItsElement == ParserSpec => []VPreIsOpen
<1>1. ParserInv => VPreIsOpen
  BY DEF ParserInv, Good, Sound, PreOpen, Literal, State, VPreIsOpen
<1> QED
  BY <1>1, ParserInvInit, ParserInvStep, PTL DEF ParserSpec

\* However a template is written, with tags left open, closed twice or closed by
\* others, and with a v-else without its v-if: its elements form a tree.  A node
\* stands in one place at most, after the element it is in, and what is in an
\* element is in the order of the template; a further branch of a v-if is a later
\* sibling, a v-else, and has no branches itself, so that what recurses over
\* children and branches comes to an end.  The open elements are the way from the
\* root to where the parser is.
THEOREM TemplateIsTree == ParserSpec => []TemplateTree
<1>1. TreeInv => TemplateTree
  <2> SUFFICES ASSUME TreeInv PROVE TemplateTree
    OBVIOUS
  <2>1. /\ TreeOf(nodes)
        /\ \A i \in DOMAIN stack :
              nodes[stack[i]].parent = IF i = 1 THEN 0 ELSE stack[i - 1]
    BY DEF TreeInv, Tree, State
  <2>2. ASSUME NEW c, NEW n \in DOMAIN nodes, ChildOf(nodes, c, n)
        PROVE  nodes[c].parent = n /\ ~ Alternative(nodes[c])
    BY <2>1, <2>2 DEF TreeOf, ChildrenFit, ChildOf
  <2>3. ASSUME NEW c \in DOMAIN nodes, NEW n \in DOMAIN nodes, BranchOf(nodes, c, n)
        PROVE  /\ nodes[c].parent = nodes[n].parent /\ n < c
               /\ Alternative(nodes[c]) /\ nodes[c].conds = <<>>
    <3> DEFINE q == nodes[n].conds
    <3>1. PICK i \in DOMAIN q : i # 1 /\ q[i] = c
      BY <2>3 DEF BranchOf
    <3>2. BranchesFit(nodes, n, q) /\ BranchesFit(nodes, c, nodes[c].conds)
      BY <2>1 DEF TreeOf
    <3> HIDE DEF q
    <3>3. nodes[c].parent = nodes[n].parent /\ Alternative(nodes[c])
      BY <3>1, <3>2 DEF BranchesFit
    <3>4. nodes[c].conds = <<>>
      BY <3>2, <3>3 DEF BranchesFit
    <3>5. 1 \in DOMAIN q /\ 1 < i /\ q[1] = n
      <4>1. DOMAIN q = 1 .. Len(q) /\ Len(q) \in Nat
        BY <3>2, SeqFacts DEF BranchesFit
      <4>2. 1 \in DOMAIN q /\ 1 < i
        BY <3>1, <4>1
      <4>3. q # <<>>
        BY <4>2
      <4> QED
        BY <3>2, <4>2, <4>3 DEF BranchesFit
    <3>6. n < c
      BY <3>1, <3>2, <3>5 DEF BranchesFit, Rising
    <3> QED
      BY <3>3, <3>4, <3>6
  <2>4. ASSUME NEW c \in DOMAIN nodes, NEW m \in DOMAIN nodes, NEW n \in DOMAIN nodes,
               StandsIn(c, m), StandsIn(c, n)
        PROVE  m = n
    <3>1. CASE ChildOf(nodes, c, m) /\ ChildOf(nodes, c, n)
      BY <2>2, <3>1
    <3>2. CASE BranchOf(nodes, c, m) /\ BranchOf(nodes, c, n)
      BY <2>1, <3>2 DEF TreeOf
    <3> QED
      BY <2>2, <2>3, <2>4, <3>1, <3>2 DEF StandsIn
  <2>5. ASSUME NEW n \in DOMAIN nodes
        PROVE  /\ nodes[n].parent \in Nat /\ nodes[n].parent < n
               /\ Rising(nodes[n].children) /\ Rising(nodes[n].conds)
    BY <2>1 DEF TreeOf, ChildrenFit, BranchesFit
  <2> QED
    BY <2>1, <2>2, <2>3, <2>4, <2>5 DEF TemplateTree
<1> QED
  BY <1>1, TreeInvInit, TreeInvStep, PTL DEF ParserSpec
=============================================================================
