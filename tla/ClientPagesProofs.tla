-------------------------- MODULE ClientPagesProofs --------------------------
(* What holds of the pages of a browser for every value of the constants.   *)
EXTENDS ClientPages, FiniteSetTheorems, SequenceTheorems, TLAPS

-----------------------------------------------------------------------------
(* The routes *)

\* The path p spells no value out.
IsPath(p) == \E S : p \in Seq(S) /\ Value \notin S

LEMMA Short ==
    /\ IsPath(<<>>)
    /\ \A a : a # Value => IsPath(<<a>>)
    /\ \A a, b : Value \notin {a, b} => IsPath(<<a, b>>)
    /\ \A a, b, c : Value \notin {a, b, c} => IsPath(<<a, b, c>>)
<1>1. IsPath(<<>>)
  <2> DEFINE S == {}
  <2>1. <<>> \in Seq(S) /\ Value \notin S
    OBVIOUS
  <2> HIDE DEF S
  <2> QED
    BY <2>1 DEF IsPath
<1>2. ASSUME NEW a, a # Value
      PROVE  IsPath(<<a>>)
  <2> DEFINE S == {a}
  <2>1. a \in S /\ Value \notin S
    BY <1>2
  <2> HIDE DEF S
  <2>2. <<a>> \in Seq(S)
    BY <2>1
  <2> QED
    BY <2>1, <2>2 DEF IsPath
<1>3. ASSUME NEW a, NEW b, NEW c
      PROVE  /\ Value \notin {a, b} => IsPath(<<a, b>>)
             /\ Value \notin {a, b, c} => IsPath(<<a, b, c>>)
  <2> DEFINE S == {a, b}
             T == {a, b, c}
  <2>1. a \in S /\ b \in S /\ a \in T /\ b \in T /\ c \in T
    OBVIOUS
  <2> HIDE DEF S, T
  <2>2. <<a, b>> \in Seq(S) /\ <<a, b, c>> \in Seq(T)
    BY <2>1
  <2>3. Value \notin S => IsPath(<<a, b>>)
    BY <2>2 DEF IsPath
  <2>4. Value \notin T => IsPath(<<a, b, c>>)
    BY <2>2 DEF IsPath
  <2> QED
    BY <2>3, <2>4 DEF S, T
<1> QED
  BY <1>1, <1>2, <1>3

LEMMA Below ==
    ASSUME NEW p, NEW q, IsPath(p), IsPath(q)
    PROVE  IsPath(p \o q)
<1>1. PICK S : p \in Seq(S) /\ Value \notin S
  BY DEF IsPath
<1>2. PICK T : q \in Seq(T) /\ Value \notin T
  BY DEF IsPath
<1> DEFINE U == S \cup T
<1>3. p \in Seq(U) /\ q \in Seq(U) /\ Value \notin U
  <2>1. S \subseteq U /\ T \subseteq U /\ Value \notin U
    BY <1>1, <1>2
  <2> HIDE DEF U
  <2> QED
    BY <1>1, <1>2, <2>1
<1> HIDE DEF U
<1>4. p \o q \in Seq(U)
  BY <1>3, ConcatProperties
<1> QED
  BY <1>3, <1>4 DEF IsPath

HasPath(r) == IsPath(r.path)

LEMMA RouteBelow ==
    ASSUME NEW p, IsPath(p), NEW m
    PROVE  /\ HasPath(Route(m, p \o <<>>))
           /\ \A a : a # Value => HasPath(Route(m, p \o <<a>>))
           /\ \A a, b : Value \notin {a, b} => HasPath(Route(m, p \o <<a, b>>))
           /\ \A a, b, c : Value \notin {a, b, c} => HasPath(Route(m, p \o <<a, b, c>>))
<1>1. ASSUME NEW q, IsPath(q) PROVE HasPath(Route(m, p \o q))
  BY <1>1, Below DEF HasPath, Route
<1> QED
  BY <1>1, Short

LEMMA PathsOfRoutes ==
    ASSUME NEW r \in Routes
    PROVE  HasPath(r)
<1>1. ASSUME r \in BusinessRoutes PROVE HasPath(r)
  <2>1. IsPath(<<"business">>)
    BY Short DEF Value
  <2> QED
    BY <1>1, <2>1, RouteBelow DEF BusinessRoutes, Var, Value
<1>2. ASSUME r \in BusinessTrackRecordRoutes PROVE HasPath(r)
  <2>1. IsPath(<<"business", "record">>)
    BY Short DEF Value
  <2> QED
    BY <1>2, <2>1, RouteBelow DEF BusinessTrackRecordRoutes, Var, Value
<1>3. ASSUME r \in ActivityRoutes PROVE HasPath(r)
  <2>1. IsPath(<<"clues", "activity">>)
    BY Short DEF Value
  <2> QED
    BY <1>3, <2>1, RouteBelow DEF ActivityRoutes, Var, Value
<1>4. ASSUME r \in ClueRoutes PROVE HasPath(r)
  <2>1. IsPath(<<"clues", "clue">>)
    BY Short DEF Value
  <2> QED
    BY <1>4, <2>1, RouteBelow DEF ClueRoutes, Var, Value
<1>5. ASSUME r \in ClueTrackRecordRoutes PROVE HasPath(r)
  <2>1. IsPath(<<"clues", "record">>)
    BY Short DEF Value
  <2> QED
    BY <1>5, <2>1, RouteBelow DEF ClueTrackRecordRoutes, Var, Value
<1>6. ASSUME r \in CourseRoutes PROVE HasPath(r)
  <2>1. IsPath(<<"clues", "course">>)
    BY Short DEF Value
  <2> QED
    BY <1>6, <2>1, RouteBelow DEF CourseRoutes, Var, Value
<1>7. ASSUME r \in CaptchaRoutes PROVE HasPath(r)
  BY <1>7, Short DEF CaptchaRoutes, Route, HasPath, Var, Value
<1>8. ASSUME r \in ContractRoutes PROVE HasPath(r)
  <2>1. IsPath(<<"contract">>)
    BY Short DEF Value
  <2> QED
    BY <1>8, <2>1, RouteBelow DEF ContractRoutes, Var, Value
<1>9. ASSUME r \in OperlogRoutes PROVE HasPath(r)
  <2>1. IsPath(<<"monitor", "operlog">>)
    BY Short DEF Value
  <2> QED
    BY <1>9, <2>1, RouteBelow DEF OperlogRoutes, Var, Value
<1>10. ASSUME r \in RulePoolRoutes PROVE HasPath(r)
  <2>1. IsPath(<<"rule", "pool">>)
    BY Short DEF Value
  <2> QED
    BY <1>10, <2>1, RouteBelow DEF RulePoolRoutes, Var, Value
<1>11. ASSUME r \in ConfigRoutes PROVE HasPath(r)
  <2>1. IsPath(<<"system", "config">>)
    BY Short DEF Value
  <2> QED
    BY <1>11, <2>1, RouteBelow DEF ConfigRoutes, Var, Value
<1>12. ASSUME r \in DeptRoutes PROVE HasPath(r)
  <2>1. IsPath(<<"system", "dept">>)
    BY Short DEF Value
  <2> QED
    BY <1>12, <2>1, RouteBelow DEF DeptRoutes, Var, Value
<1>13. ASSUME r \in DictDataRoutes PROVE HasPath(r)
  <2>1. IsPath(<<"system", "dict", "data">>)
    BY Short DEF Value
  <2> QED
    BY <1>13, <2>1, RouteBelow DEF DictDataRoutes, Var, Value
<1>14. ASSUME r \in DictTypeRoutes PROVE HasPath(r)
  <2>1. IsPath(<<"system", "dict", "type">>)
    BY Short DEF Value
  <2> QED
    BY <1>14, <2>1, RouteBelow DEF DictTypeRoutes, Var, Value
<1>15. ASSUME r \in LoginRoutes PROVE HasPath(r)
  BY <1>15, Short DEF LoginRoutes, Route, HasPath, Var, Value
<1>16. ASSUME r \in MenuRoutes PROVE HasPath(r)
  <2>1. IsPath(<<"system", "menu">>)
    BY Short DEF Value
  <2> QED
    BY <1>16, <2>1, RouteBelow DEF MenuRoutes, Var, Value
<1>17. ASSUME r \in NoticeRoutes PROVE HasPath(r)
  <2>1. IsPath(<<"system", "notice">>)
    BY Short DEF Value
  <2> QED
    BY <1>17, <2>1, RouteBelow DEF NoticeRoutes, Var, Value
<1>18. ASSUME r \in ProfileRoutes PROVE HasPath(r)
  <2>1. IsPath(<<"system", "user", "profile">>)
    BY Short DEF Value
  <2> QED
    BY <1>18, <2>1, RouteBelow DEF ProfileRoutes, Var, Value
<1>19. ASSUME r \in RoleRoutes PROVE HasPath(r)
  <2>1. IsPath(<<"system", "role">>)
    BY Short DEF Value
  <2> QED
    BY <1>19, <2>1, RouteBelow DEF RoleRoutes, Var, Value
<1>20. ASSUME r \in UserRoutes PROVE HasPath(r)
  <2>1. IsPath(<<"system", "user">>)
    BY Short DEF Value
  <2> QED
    BY <1>20, <2>1, RouteBelow DEF UserRoutes, Var, Value
<1>21. ASSUME r = Route("POST", <<"logout">>) PROVE HasPath(r)
  BY <1>21, Short DEF Route, HasPath, Value
<1> QED
  BY <1>1, <1>2, <1>3, <1>4, <1>5, <1>6, <1>7, <1>8, <1>9, <1>10, <1>11, <1>12, <1>13, <1>14, <1>15, <1>16, <1>17, <1>18, <1>19, <1>20, <1>21 DEF Routes

LEMMA VariablesNat ==
    ASSUME NEW r \in Routes
    PROVE  /\ DOMAIN r.path = 1 .. Len(r.path)
           /\ IsFiniteSet({i \in DOMAIN r.path : r.path[i] = Var})
           /\ \A i \in DOMAIN r.path : r.path[i] # Value
<1>1. PICK S : r.path \in Seq(S) /\ Value \notin S
  BY PathsOfRoutes DEF HasPath, IsPath
<1>2. DOMAIN r.path = 1 .. Len(r.path) /\ Len(r.path) \in Nat
      /\ \A i \in DOMAIN r.path : r.path[i] # Value
  BY <1>1
<1> DEFINE D == DOMAIN r.path
<1>3. IsFiniteSet(D)
  BY <1>2, FS_Interval
<1>4. {i \in D : r.path[i] = Var} \subseteq D
  OBVIOUS
<1>5. IsFiniteSet({i \in D : r.path[i] = Var})
  BY <1>3, <1>4, FS_Subset
<1> QED
  BY <1>2, <1>5

\* A call that has a handler of its own reaches it: any other route that matches
\* has a variable where the call fills in no value, so more of them.
LEMMA OwnIsBest ==
    ASSUME NEW c, Own(c) # {}
    PROVE  Best(c) = Own(c)
<1> DEFINE D == {i \in 1 .. Len(c.path) : c.path[i] = Value}
           V(r) == {i \in DOMAIN r.path : r.path[i] = Var}
<1>1. ASSUME NEW r \in Routes, Matches(r, c)
      PROVE  /\ DOMAIN r.path = 1 .. Len(c.path)
             /\ IsFiniteSet(V(r)) /\ D \subseteq V(r)
             /\ r \in Own(c) <=> V(r) = D
  <2>1. DOMAIN r.path = 1 .. Len(c.path)
    BY <1>1, VariablesNat DEF Matches
  <2>2. D \subseteq V(r)
    BY <1>1, <2>1, VariablesNat DEF Matches
  <2>3. IsFiniteSet(V(r))
    BY VariablesNat
  <2>4. r \in Own(c) <=> \A i \in 1 .. Len(c.path) : r.path[i] = Var <=> c.path[i] = Value
    BY <1>1, <2>1 DEF Own
  <2>5. V(r) = {i \in 1 .. Len(c.path) : r.path[i] = Var}
    BY <2>1
  <2>6. V(r) = D <=> \A i \in 1 .. Len(c.path) : r.path[i] = Var <=> c.path[i] = Value
    BY <2>5
  <2> QED
    BY <2>1, <2>2, <2>3, <2>4, <2>6
<1>2. \A r : Variables(r) = Cardinality(V(r))
  BY DEF Variables
<1> HIDE DEF V, D
<1>3. PICK o \in Routes : o \in Own(c) /\ Matches(o, c)
  BY DEF Own
<1>4. V(o) = D /\ IsFiniteSet(D)
  BY <1>1, <1>3
<1>5. ASSUME NEW r \in Routes, Matches(r, c)
      PROVE  /\ Cardinality(V(r)) \in Nat /\ Cardinality(D) <= Cardinality(V(r))
             /\ Cardinality(D) = Cardinality(V(r)) => V(r) = D
  BY <1>1, <1>5, FS_Subset, FS_CardinalityType
<1>6. Cardinality(D) \in Nat
  BY <1>4, FS_CardinalityType
<1>7. ASSUME NEW r \in Own(c)
      PROVE  r \in Best(c)
  <2>1. r \in Routes /\ Matches(r, c)
    BY DEF Own
  <2>2. V(r) = D
    BY <1>1, <2>1
  <2>3. \A s \in {s \in Routes : Matches(s, c)} : Variables(r) <= Variables(s)
    BY <1>2, <1>5, <2>2
  <2> QED
    BY <2>1, <2>3 DEF Best
<1>8. ASSUME NEW r \in Best(c)
      PROVE  r \in Own(c)
  <2>1. r \in Routes /\ Matches(r, c) /\ Variables(r) <= Variables(o)
    BY <1>3 DEF Best
  <2>2. Cardinality(V(r)) <= Cardinality(D)
    BY <1>2, <1>4, <2>1
  <2>3. V(r) = D
    BY <1>5, <1>6, <2>1, <2>2
  <2> QED
    BY <1>1, <2>1, <2>3
<1> QED
  BY <1>7, <1>8

-----------------------------------------------------------------------------
(* The calls of the pages *)

\* A route that spells out what the call spells out is the call's own.
LEMMA OwnShapes ==
    ASSUME NEW n, NEW m, NEW a, a \notin {Var, Value}
    PROVE  /\ Route(m, <<a>>) \in Routes => Own(Call(n, m, <<a>>)) # {}
           /\ \A b : b \notin {Var, Value} =>
                 /\ Route(m, <<a, b>> \o <<>>) \in Routes =>
                       Own(Call(n, m, <<a, b>> \o <<>>)) # {}
                 /\ Route(m, <<a, b>> \o <<Var>>) \in Routes =>
                       Own(Call(n, m, <<a, b>> \o <<Value>>)) # {}
                 /\ \A d : d \notin {Var, Value} =>
                       (Route(m, <<a, b>> \o <<d>>) \in Routes =>
                          Own(Call(n, m, <<a, b>> \o <<d>>)) # {})
<1>1. ASSUME NEW p, NEW q, Route(m, p) \in Routes, Len(p) = Len(q),
             \A i \in DOMAIN p : /\ p[i] = Var \/ p[i] = q[i]
                                 /\ p[i] = Var <=> q[i] = Value
      PROVE  Own(Call(n, m, q)) # {}
  <2> DEFINE r == Route(m, p)
             c == Call(n, m, q)
  <2>1. r.path = p /\ c.path = q /\ r.method = c.method
    BY DEF Route, Call
  <2> HIDE DEF r, c
  <2>2. r \in Own(c)
    BY <1>1, <2>1 DEF Own, Matches, r
  <2> QED
    BY <2>2 DEF c
<1>2. Route(m, <<a>>) \in Routes => Own(Call(n, m, <<a>>)) # {}
  <2> DEFINE p == <<a>>
  <2>1. \A i \in DOMAIN p : p[i] = a
    OBVIOUS
  <2> HIDE DEF p
  <2>2. \A i \in DOMAIN p : /\ p[i] = Var \/ p[i] = p[i]
                            /\ p[i] = Var <=> p[i] = Value
    BY <2>1
  <2>3. Route(m, p) \in Routes => Own(Call(n, m, p)) # {}
    BY <1>1, <2>2
  <2> QED
    BY <2>3 DEF p
<1>3. ASSUME NEW b, b \notin {Var, Value}
      PROVE  Route(m, <<a, b>> \o <<>>) \in Routes => Own(Call(n, m, <<a, b>> \o <<>>)) # {}
  <2> DEFINE p == <<a, b>> \o <<>>
  <2>1. \A i \in DOMAIN p : p[i] = a \/ p[i] = b
    OBVIOUS
  <2> HIDE DEF p
  <2>2. \A i \in DOMAIN p : /\ p[i] = Var \/ p[i] = p[i]
                            /\ p[i] = Var <=> p[i] = Value
    BY <1>3, <2>1
  <2>3. Route(m, p) \in Routes => Own(Call(n, m, p)) # {}
    BY <1>1, <2>2
  <2> QED
    BY <2>3 DEF p
<1>4. ASSUME NEW b, b \notin {Var, Value}, NEW d, NEW e,
             (d \notin {Var, Value} /\ e = d) \/ (d = Var /\ e = Value)
      PROVE  Route(m, <<a, b>> \o <<d>>) \in Routes => Own(Call(n, m, <<a, b>> \o <<e>>)) # {}
  <2> DEFINE p == <<a, b>> \o <<d>>
             q == <<a, b>> \o <<e>>
  <2>1. /\ DOMAIN p = 1 .. 3 /\ Len(p) = 3 /\ Len(q) = 3
        /\ p[1] = a /\ p[2] = b /\ p[3] = d /\ q[1] = a /\ q[2] = b /\ q[3] = e
    OBVIOUS
  <2> HIDE DEF p, q
  <2>2. Var # Value
    BY DEF Var, Value
  <2>3. \A i \in 1 .. 3 : i = 1 \/ i = 2 \/ i = 3
    OBVIOUS
  <2>4. \A i \in DOMAIN p : /\ p[i] = Var \/ p[i] = q[i]
                            /\ p[i] = Var <=> q[i] = Value
    BY <1>4, <2>1, <2>2, <2>3
  <2>5. Route(m, p) \in Routes => Own(Call(n, m, q)) # {}
    BY <1>1, <2>1, <2>4
  <2> QED
    BY <2>5 DEF p, q
<1>5. ASSUME NEW b, b \notin {Var, Value}
      PROVE  Route(m, <<a, b>> \o <<Var>>) \in Routes =>
                Own(Call(n, m, <<a, b>> \o <<Value>>)) # {}
  BY <1>4, <1>5
<1>6. ASSUME NEW b, b \notin {Var, Value}, NEW d, d \notin {Var, Value}
      PROVE  Route(m, <<a, b>> \o <<d>>) \in Routes => Own(Call(n, m, <<a, b>> \o <<d>>)) # {}
  BY <1>4, <1>6
<1> QED
  BY <1>2, <1>3, <1>5, <1>6

PageNames ==
    {"getCodeImg", "login",
     "listCourse", "getCourse", "addCourse", "updateCourse", "delCourse",
     "listActivity", "getActivity", "addActivity", "updateActivity", "delActivity"}

LEMMA PageNamesFound ==
    ASSUME NEW n \in PageNames
    PROVE  \E c \in Calls : c.name = n
<1>1. \A m, u, p : Call(m, u, p).name = m
  BY DEF Call
<1>2. LoginCalls \subseteq Calls /\ CourseCalls \subseteq Calls /\ ActivityCalls \subseteq Calls
  BY DEF Calls
<1>3. /\ \E u, p : Call("getCodeImg", u, p) \in LoginCalls
      /\ \E u, p : Call("login", u, p) \in LoginCalls
  BY DEF LoginCalls
<1>4. \E u, p : Call("listCourse", u, p) \in CourseCalls
  BY DEF CourseCalls
<1>5. \E u, p : Call("getCourse", u, p) \in CourseCalls
  BY DEF CourseCalls
<1>6. \E u, p : Call("addCourse", u, p) \in CourseCalls
  BY DEF CourseCalls
<1>7. \E u, p : Call("updateCourse", u, p) \in CourseCalls
  BY DEF CourseCalls
<1>8. \E u, p : Call("delCourse", u, p) \in CourseCalls
  BY DEF CourseCalls
<1>9. \E u, p : Call("listActivity", u, p) \in ActivityCalls
  BY DEF ActivityCalls
<1>10. \E u, p : Call("getActivity", u, p) \in ActivityCalls
  BY DEF ActivityCalls
<1>11. \E u, p : Call("addActivity", u, p) \in ActivityCalls
  BY DEF ActivityCalls
<1>12. \E u, p : Call("updateActivity", u, p) \in ActivityCalls
  BY DEF ActivityCalls
<1>13. \E u, p : Call("delActivity", u, p) \in ActivityCalls
  BY DEF ActivityCalls
<1> QED
  BY <1>1, <1>2, <1>3, <1>4, <1>5, <1>6, <1>7, <1>8, <1>9, <1>10, <1>11, <1>12, <1>13 DEF PageNames

\* Another api file has no function of one of these names.
LEMMA PageFiles ==
    ASSUME NEW c \in Calls, c.name \in PageNames
    PROVE  c \in CourseCalls \/ c \in ActivityCalls \/ c \in LoginCalls
<1>1. c \notin BusinessCalls /\ c \notin ClueCalls /\ c \notin ContractCalls
  BY DEF BusinessCalls, ClueCalls, ContractCalls, Call, PageNames
<1>2. c \notin CluePoolCalls /\ c \notin ClueRuleCalls /\ c \notin ConfigCalls
  BY DEF CluePoolCalls, ClueRuleCalls, ConfigCalls, Call, PageNames
<1>3. c \notin DeptCalls /\ c \notin DictDataCalls /\ c \notin DictTypeCalls
  BY DEF DeptCalls, DictDataCalls, DictTypeCalls, Call, PageNames
<1>4. c \notin MenuCalls /\ c \notin NoticeCalls /\ c \notin NoticeCenterCalls
  BY DEF MenuCalls, NoticeCalls, NoticeCenterCalls, Call, PageNames
<1>5. c \notin PostCalls /\ c \notin RoleCalls /\ c \notin OperLogCalls /\ c \notin UserCalls
  BY DEF PostCalls, RoleCalls, OperLogCalls, UserCalls, Call, PageNames
<1> QED
  BY <1>1, <1>2, <1>3, <1>4, <1>5 DEF Calls

LEMMA PageCalls ==
    ASSUME NEW c \in Calls, c.name \in PageNames
    PROVE  Own(c) # {}
<1>1. "clues" \notin {Var, Value} /\ "course" \notin {Var, Value}
      /\ "activity" \notin {Var, Value} /\ "list" \notin {Var, Value}
      /\ "login" \notin {Var, Value} /\ "captchaImage" \notin {Var, Value}
  BY DEF Var, Value
<1>2. CASE c \in CourseCalls
  <2>1. \/ \E n : c = Call(n, "GET", <<"clues", "course">> \o <<"list">>)
        \/ \E n, m : m \in {"GET", "DELETE"} /\ c = Call(n, m, <<"clues", "course">> \o <<Value>>)
        \/ \E n, m : m \in {"POST", "PUT"} /\ c = Call(n, m, <<"clues", "course">> \o <<>>)
    BY <1>2 DEF CourseCalls, PageNames, Call
  <2>2. /\ Route("GET", <<"clues", "course">> \o <<"list">>) \in CourseRoutes
        /\ Route("GET", <<"clues", "course">> \o <<Var>>) \in CourseRoutes
        /\ Route("DELETE", <<"clues", "course">> \o <<Var>>) \in CourseRoutes
        /\ Route("POST", <<"clues", "course">> \o <<>>) \in CourseRoutes
        /\ Route("PUT", <<"clues", "course">> \o <<>>) \in CourseRoutes
    BY DEF CourseRoutes
  <2>3. CourseRoutes \subseteq Routes
    BY DEF Routes
  <2> QED
    BY <1>1, <2>1, <2>2, <2>3, OwnShapes
<1>3. CASE c \in ActivityCalls
  <2>1. \/ \E n : c = Call(n, "GET", <<"clues", "activity">> \o <<"list">>)
        \/ \E n, m : m \in {"GET", "DELETE"} /\ c = Call(n, m, <<"clues", "activity">> \o <<Value>>)
        \/ \E n, m : m \in {"POST", "PUT"} /\ c = Call(n, m, <<"clues", "activity">> \o <<>>)
    BY <1>3 DEF ActivityCalls, PageNames, Call
  <2>2. /\ Route("GET", <<"clues", "activity">> \o <<"list">>) \in ActivityRoutes
        /\ Route("GET", <<"clues", "activity">> \o <<Var>>) \in ActivityRoutes
        /\ Route("DELETE", <<"clues", "activity">> \o <<Var>>) \in ActivityRoutes
        /\ Route("POST", <<"clues", "activity">> \o <<>>) \in ActivityRoutes
        /\ Route("PUT", <<"clues", "activity">> \o <<>>) \in ActivityRoutes
    BY DEF ActivityRoutes
  <2>3. ActivityRoutes \subseteq Routes
    BY DEF Routes
  <2> QED
    BY <1>1, <2>1, <2>2, <2>3, OwnShapes
<1>4. CASE c \in LoginCalls
  <2>1. \/ c = Call("login", "POST", <<"login">>)
        \/ c = Call("getCodeImg", "GET", <<"captchaImage">>)
    BY <1>4 DEF LoginCalls, PageNames, Call
  <2>2. Route("POST", <<"login">>) \in Routes /\ Route("GET", <<"captchaImage">>) \in Routes
    BY DEF Routes, LoginRoutes, CaptchaRoutes
  <2> QED
    BY <1>1, <2>1, <2>2, OwnShapes
<1> QED
  BY <1>2, <1>3, <1>4, PageFiles

Operations(p) ==
    IF p = "login" THEN {"code", "login"} ELSE {"list", "info", "add", "update", "delete"}

\* A handler is written for each function the pages use, and answers it.
LEMMA Functions ==
    ASSUME NEW p \in Pages \cup {"login"}, NEW op \in Operations(p)
    PROVE  LET q == Function[p][op]
           IN  q.meant # {} /\ q.leads = q.meant
<1>1. ASSUME NEW n \in PageNames, NEW q, q = CHOOSE x \in Requests : x.call.name = n
      PROVE  q.meant # {} /\ q.leads = q.meant
  <2>1. PICK d \in Calls : d.name = n
    BY PageNamesFound
  <2>2. \E x \in Requests : x.call.name = n
    <3> DEFINE x == [call |-> d, leads |-> Leads(d), meant |-> Own(d)]
    <3>1. x \in Requests /\ x.call.name = n
      BY <2>1 DEF Requests
    <3> QED
      BY <3>1
  <2>3. q \in Requests /\ q.call.name = n
    BY <1>1, <2>2
  <2>4. PICK c \in Calls : q = [call |-> c, leads |-> Leads(c), meant |-> Own(c)]
    BY <2>3 DEF Requests
  <2>5. q.leads = Best(c) /\ q.meant = Own(c) /\ Own(c) # {}
    BY <2>3, <2>4, PageCalls DEF Leads
  <2> QED
    BY <2>5, OwnIsBest
<1>2. \E n \in PageNames : Function[p][op] = CHOOSE x \in Requests : x.call.name = n
  <2> DEFINE named(name) == CHOOSE q \in Requests : q.call.name = name
  <2>1. CASE p = "login"
    <3>1. Function["login"]["code"] = named("getCodeImg") /\ Function["login"]["login"] = named("login")
      BY DEF Function
    <3> HIDE DEF named
    <3>2. \E n \in PageNames : Function[p][op] = named(n)
      BY <2>1, <3>1 DEF Operations, PageNames
    <3> QED
      BY <3>2 DEF named
  <2>2. CASE p = "course"
    <3>1. /\ Function["course"]["list"] = named("listCourse")
          /\ Function["course"]["info"] = named("getCourse")
          /\ Function["course"]["add"] = named("addCourse")
          /\ Function["course"]["update"] = named("updateCourse")
          /\ Function["course"]["delete"] = named("delCourse")
      BY DEF Function
    <3> HIDE DEF named
    <3>2. \E n \in PageNames : Function[p][op] = named(n)
      BY <2>2, <3>1 DEF Operations, PageNames
    <3> QED
      BY <3>2 DEF named
  <2>3. CASE p = "activity"
    <3>1. /\ Function["activity"]["list"] = named("listActivity")
          /\ Function["activity"]["info"] = named("getActivity")
          /\ Function["activity"]["add"] = named("addActivity")
          /\ Function["activity"]["update"] = named("updateActivity")
          /\ Function["activity"]["delete"] = named("delActivity")
      BY DEF Function
    <3> HIDE DEF named
    <3>2. \E n \in PageNames : Function[p][op] = named(n)
      BY <2>3, <3>1 DEF Operations, PageNames
    <3> QED
      BY <3>2 DEF named
  <2> QED
    BY <2>1, <2>2, <2>3 DEF Pages
<1> QED
  BY <1>1, <1>2

-----------------------------------------------------------------------------
(* The invariant *)

ToLogin == {"code", "login"}

IsCall(c) ==
    c = [id |-> c.id, page |-> c.page, op |-> c.op, leads |-> c.leads, meant |-> c.meant, arg |-> c.arg,
         bearer |-> c.bearer, here |-> c.here, out |-> c.out, got |-> c.got]

\* The login page waits for its own calls only, and while the session lives they
\* carry its token.
LoginCall(c) ==
    c.here /\ c.op \in ToLogin =>
        /\ at = "login"
        /\ token = "live" => c.bearer = "live" /\ c.out \in {"sent", "rejected"}

\* What a dialog has asked for is the row it was opened for.
DialogCall(c) == c.here /\ c.op = "info" => c.arg = opened

CallInv(c) == IsCall(c) /\ LoginCall(c) /\ (Patient => DialogCall(c))

PageInv ==
    /\ \A c \in calls : CallInv(c)
    /\ NoCaptchaInSession
    /\ form = [row |-> form.row, data |-> form.data]
    /\ Patient => DialogIsOpened

-----------------------------------------------------------------------------
(* Calls *)

\* A call that is answered, and one that is orphaned.
LEMMA AnsweredFacts ==
    ASSUME NEW c \in calls, IsCall(c), NEW out, NEW got, Answered(c, out, got)
    PROVE  \E e : /\ calls' = (calls \ {c}) \cup {e}
                  /\ IsCall(e) /\ e.op = c.op /\ e.arg = c.arg /\ e.bearer = c.bearer
                  /\ e.page = c.page /\ e.leads = c.leads /\ e.meant = c.meant
                  /\ e.here = c.here /\ e.out = out /\ e.got = got /\ e.id = c.id
<1> DEFINE f == [c EXCEPT !.out = out]
           e == [f EXCEPT !.got = got]
<1>1. /\ IsCall(f) /\ f.op = c.op /\ f.arg = c.arg /\ f.bearer = c.bearer
      /\ f.page = c.page /\ f.leads = c.leads /\ f.meant = c.meant /\ f.here = c.here /\ f.out = out
      /\ f.id = c.id
  BY DEF IsCall
<1>2. [c EXCEPT !.out = out, !.got = got] = e
  OBVIOUS
<1> HIDE DEF f
<1>3. /\ IsCall(e) /\ e.op = f.op /\ e.arg = f.arg /\ e.bearer = f.bearer
      /\ e.page = f.page /\ e.leads = f.leads /\ e.meant = f.meant /\ e.here = f.here /\ e.out = f.out
      /\ e.got = got /\ e.id = f.id
  BY <1>1 DEF IsCall
<1>4. calls' = (calls \ {c}) \cup {e}
  BY <1>2 DEF Answered
<1> HIDE DEF e
<1> QED
  BY <1>1, <1>3, <1>4

LEMMA OrphansFacts ==
    ASSUME NEW cs, \A c \in cs : IsCall(c)
    PROVE  \A e \in Orphans(cs) :
               /\ IsCall(e) /\ ~ e.here
               /\ \E c \in cs : e.op = c.op
BY DEF Orphans, IsCall

LEMMA SendFacts ==
    ASSUME NEW cs, NEW p, NEW op, NEW arg, Send(cs, p, op, arg)
    PROVE  \E e : /\ calls' = cs \cup {e}
                  /\ IsCall(e) /\ e.page = p /\ e.op = op /\ e.arg = arg /\ e.bearer = token
                  /\ e.leads = Function[p][op].leads /\ e.meant = Function[p][op].meant
                  /\ e.here /\ e.out = "sent" /\ e.got = "nothing"
                  /\ e.id = sent + 1 /\ sent' = sent + 1
<1>1. calls' = cs \cup {Request(p, op, Function[p][op], arg, token)} /\ sent' = sent + 1
  BY DEF Send
<1>2. PICK e : e = Request(p, op, Function[p][op], arg, token)
  OBVIOUS
<1>3. PICK l, m : /\ e = [id |-> sent + 1, page |-> p, op |-> op, leads |-> l, meant |-> m, arg |-> arg,
                          bearer |-> token, here |-> TRUE, out |-> "sent", got |-> "nothing"]
                  /\ l = Function[p][op].leads /\ m = Function[p][op].meant
  BY <1>2 DEF Request
<1>4. /\ IsCall(e) /\ e.page = p /\ e.op = op /\ e.arg = arg /\ e.bearer = token
      /\ e.leads = l /\ e.meant = m /\ e.here /\ e.out = "sent" /\ e.got = "nothing"
      /\ e.id = sent + 1
  BY <1>3 DEF IsCall
<1> QED
  BY <1>1, <1>2, <1>3, <1>4

-----------------------------------------------------------------------------
(* Steps *)

\* The page stays as it is.
LEMMA Stays ==
    ASSUME PageInv, UNCHANGED <<at, token, uuid, dialog>>, \A d \in calls' : CallInv(d)
    PROVE  PageInv'
BY DEF PageInv, CallInv, IsCall, LoginCall, DialogCall, NoCaptchaInSession,
   DialogIsOpened, dialog

LEMMA SendStays ==
    ASSUME PageInv, NEW cs \in SUBSET calls, NEW p, NEW op, NEW arg, Send(cs, p, op, arg),
           UNCHANGED <<at, token, uuid, dialog>>,
           op # "info", op \in ToLogin => at = "login"
    PROVE  PageInv'
<1>1. PICK e : /\ calls' = cs \cup {e}
               /\ IsCall(e) /\ e.op = op /\ e.arg = arg /\ e.bearer = token
               /\ e.here /\ e.out = "sent"
  BY SendFacts
<1>2. CallInv(e)
  BY <1>1 DEF CallInv, LoginCall, DialogCall
<1>3. \A d \in calls' : CallInv(d)
  BY <1>1, <1>2 DEF PageInv
<1> QED
  BY <1>3, Stays

\* A page is left for another one, or for the login page.
LEMMA Leaves ==
    ASSUME Blank, UNCHANGED token,
           \A d \in calls' : /\ IsCall(d)
                             /\ d.here => d.op # "info"
                             /\ d.here /\ d.op \in ToLogin =>
                                   at' = "login" /\ d.bearer = token /\ d.out = "sent"
    PROVE  PageInv'
<1>1. uuid' = 0 /\ visible' = FALSE /\ form' = [row |-> NoRow, data |-> "blank"]
  BY DEF Blank
<1>2. form' = [row |-> form'.row, data |-> form'.data]
  BY <1>1
<1> QED
  BY <1>1, <1>2 DEF PageInv, CallInv, IsCall, LoginCall, DialogCall, NoCaptchaInSession,
     DialogIsOpened

LEMMA Loads ==
    ASSUME PageInv, NEW cs \in SUBSET calls, NEW p \in Pages \cup {"login"},
           Load(p, cs), UNCHANGED token
    PROVE  PageInv'
<1>1. \A d \in Orphans(cs) : IsCall(d) /\ ~ d.here
  BY OrphansFacts DEF PageInv, CallInv
<1>2. PICK e : /\ calls' = Orphans(cs) \cup {e}
               /\ IsCall(e) /\ e.op = IF p = "login" THEN "code" ELSE "list"
               /\ e.bearer = token /\ e.here /\ e.out = "sent"
  BY SendFacts DEF Load
<1>3. Blank /\ at' = p
  BY DEF Load
<1>4. \A d \in calls' : /\ IsCall(d)
                        /\ d.here => d.op # "info"
                        /\ d.here /\ d.op \in ToLogin =>
                              at' = "login" /\ d.bearer = token /\ d.out = "sent"
  BY <1>1, <1>2, <1>3 DEF ToLogin
<1> QED
  BY <1>3, <1>4, Leaves

LEMMA Answers ==
    ASSUME PageInv, NEW c \in calls, NEW out, NEW got, Answered(c, out, got),
           UNCHANGED <<page, token>>,
           c.here /\ c.op \in ToLogin /\ token = "live" => out \in {"sent", "rejected"}
    PROVE  PageInv'
<1>1. CallInv(c)
  BY DEF PageInv
<1>2. PICK e : /\ calls' = (calls \ {c}) \cup {e}
               /\ IsCall(e) /\ e.op = c.op /\ e.arg = c.arg /\ e.bearer = c.bearer
               /\ e.here = c.here /\ e.out = out
  BY <1>1, AnsweredFacts DEF CallInv
<1>3. CallInv(e)
  BY <1>1, <1>2 DEF CallInv, LoginCall, DialogCall
<1>4. \A d \in calls' : CallInv(d)
  BY <1>2, <1>3 DEF PageInv
<1> QED
  BY <1>4, Stays DEF page, login

\* While the session lives no call of the login page gets past the filters.
LEMMA NobodyIn ==
    ASSUME PageInv, NEW c \in calls, Authorized(c) \/ c.out = "read"
    PROVE  ~ (c.here /\ c.op \in ToLogin /\ token = "live")
BY DEF PageInv, CallInv, LoginCall, Authorized, Forbidden, ToLogin

LEMMA ServeStep ==
    ASSUME PageInv, NEW c \in calls, Serve(c) \/ ServeFails(c)
    PROVE  PageInv'
<1>1. ASSUME NEW op, NEW out, NEW got, Reaches(c, op, out, got) PROVE PageInv'
  BY <1>1, NobodyIn, Answers DEF Reaches
<1>2. CASE Refuse(c)
  BY <1>2, Answers DEF Refuse, Authorized, Forbidden, ToLogin
<1>3. CASE ServeUnknown(c) \/ ServeFails(c)
  BY <1>3, NobodyIn, Answers DEF ServeUnknown, ServeFails
<1>4. CASE ServeLogin(c)
  BY <1>4, NobodyIn, Answers DEF ServeLogin
<1>5. CASE ServeCode(c) \/ ReadCaptcha(c) \/ ServeList(c) \/ ServeInfo(c) \/ ServeAdd(c)
           \/ ServeUpdate(c) \/ ServeDeleteCourse(c) \/ ServeDeleteActivity(c) \/ ServeOther(c)
  <2>1. \E op, out, got : Reaches(c, op, out, got)
    BY <1>5 DEF ServeCode, ReadCaptcha, ServeList, ServeInfo, ServeAdd, ServeUpdate,
       ServeDeleteCourse, ServeDeleteActivity,
       ServeOther
  <2> QED
    BY <1>1, <2>1
<1> QED
  BY <1>2, <1>3, <1>4, <1>5 DEF Serve

LEMMA UserStep == ASSUME PageInv, User PROVE PageInv'
<1>1. ASSUME NEW p \in Pages \cup {"login"}, Visit(p) PROVE PageInv'
  BY <1>1, Loads DEF Visit
<1>2. CASE VisitOther
  <2>1. \A d \in Orphans(calls) : IsCall(d) /\ ~ d.here
    BY OrphansFacts DEF PageInv, CallInv
  <2> QED
    BY <1>2, <2>1, Leaves DEF VisitOther
<1>3. ASSUME NEW q \in Requests, Ask(q) PROVE PageInv'
  <2>1. PICK e : calls' = {e} /\ e = Request("other", "other", q, "all", token)
    BY <1>3 DEF Ask
  <2>2. IsCall(e) /\ e.op = "other"
    BY <2>1 DEF Request, IsCall
  <2>3. CallInv(e)
    BY <2>2 DEF CallInv, LoginCall, DialogCall, ToLogin
  <2> QED
    BY <1>3, <2>1, <2>3, Stays DEF Ask, page, login
<1>4. CASE GetCode
  BY <1>4, SendStays DEF GetCode, page, login, ToLogin
<1>5. ASSUME NEW right \in BOOLEAN, HandleLogin(right) PROVE PageInv'
  BY <1>5, SendStays DEF HandleLogin, ToLogin
<1>6. ASSUME NEW f \in Filters, TypeQuery(f) PROVE PageInv'
  BY <1>6, Stays DEF TypeQuery, login, PageInv
<1>7. CASE HandleQuery
  BY <1>7, SendStays DEF HandleQuery, GetList, login, ToLogin
<1>8. ASSUME NEW r \in Rows, HandleDelete(r) PROVE PageInv'
  BY <1>8, SendStays DEF HandleDelete, page, login, ToLogin
<1>9. ASSUME NEW r \in Rows \cup {NoRow}, AddOrUpdateHandle(r) PROVE PageInv'
  <2>1. /\ UNCHANGED <<at, token, uuid>>
        /\ form' = [row |-> r, data |-> "blank"] /\ opened' = r
        /\ Patient => calls = {}
    BY <1>9 DEF AddOrUpdateHandle, Uncovered, Ready, login
  <2>2. form' = [row |-> form'.row, data |-> form'.data] /\ form'.row = r
    BY <2>1
  <2>3. \A d \in calls' : IsCall(d) /\ LoginCall(d) /\ (d \in calls \/ d.arg = r)
    <3>1. CASE UNCHANGED calls
      BY <3>1 DEF PageInv, CallInv
    <3>2. CASE Send(calls, at, "info", r)
      <4>1. PICK e : /\ calls' = calls \cup {e}
                     /\ IsCall(e) /\ e.op = "info" /\ e.arg = r
        BY <3>2, SendFacts
      <4> QED
        BY <4>1 DEF PageInv, CallInv, LoginCall, ToLogin
    <3> QED
      BY <1>9, <3>1, <3>2 DEF AddOrUpdateHandle
  <2> QED
    BY <2>1, <2>2, <2>3 DEF PageInv, CallInv, IsCall, LoginCall, DialogCall,
       NoCaptchaInSession, DialogIsOpened
<1>10. ASSUME NEW d \in Data, TypeForm(d) PROVE PageInv'
  <2>1. /\ form' = [form EXCEPT !.data = d]
        /\ UNCHANGED <<at, token, uuid, visible, opened, calls>>
    BY <1>10 DEF TypeForm, login
  <2>2. form' = [row |-> form.row, data |-> d]
    BY <2>1 DEF PageInv
  <2>3. form' = [row |-> form'.row, data |-> form'.data] /\ form'.row = form.row
    BY <2>2
  <2> QED
    BY <2>1, <2>3 DEF PageInv, CallInv, IsCall, LoginCall, DialogCall, NoCaptchaInSession,
       DialogIsOpened
<1>11. CASE SubmitForm
  BY <1>11, SendStays DEF SubmitForm, page, login, ToLogin
<1>12. CASE Cancel
  BY <1>12 DEF Cancel, login, PageInv, CallInv, IsCall, LoginCall, DialogCall,
     NoCaptchaInSession, DialogIsOpened
<1> QED
  BY <1>1, <1>2, <1>3, <1>4, <1>5, <1>6, <1>7, <1>8, <1>9, <1>10, <1>11, <1>12 DEF User

\* A call that is handled is no longer under way.
LEMMA HandledStays ==
    ASSUME PageInv, NEW c \in calls, Handled(c), UNCHANGED <<at, token, uuid, dialog>>
    PROVE  PageInv'
BY Stays DEF Handled, Rest, PageInv

LEMMA ReceiveStep == ASSUME PageInv, NEW c \in calls, Receive(c) PROVE PageInv'
<1>0. CallInv(c) /\ c.here
  BY DEF PageInv, Receive
<1>1. CASE ReceiveDenied(c)
  BY <1>1, Loads DEF ReceiveDenied, Rest
<1>2. CASE ReceiveCode(c)
  <2>1. at = "login" /\ (token = "live" => c.out \in {"sent", "rejected"})
    BY <1>0, <1>2 DEF ReceiveCode, CallInv, LoginCall, ToLogin
  <2>2. /\ UNCHANGED <<at, token, dialog>> /\ calls' = calls \ {c}
        /\ token = "live" => uuid' = uuid
    BY <1>2, <2>1 DEF ReceiveCode, Handled, Rest
  <2> QED
    BY <2>2 DEF PageInv, CallInv, IsCall, LoginCall, DialogCall, NoCaptchaInSession,
       DialogIsOpened, dialog
<1>3. CASE ReceiveLogin(c)
  <2>1. CASE at' = "other" /\ Blank /\ calls' = Orphans(Rest(c))
    <3>1. \A d \in calls' : IsCall(d) /\ ~ d.here
      BY <2>1, OrphansFacts DEF Rest, PageInv, CallInv
    <3>2. form' = [row |-> NoRow, data |-> "blank"] /\ visible' = FALSE
      BY <2>1 DEF Blank
    <3>3. form' = [row |-> form'.row, data |-> form'.data]
      BY <3>2
    <3> QED
      BY <2>1, <3>1, <3>2, <3>3 DEF PageInv, CallInv, IsCall, LoginCall, DialogCall,
         NoCaptchaInSession, DialogIsOpened
  <2>2. CASE Handled(c) /\ UNCHANGED <<at, token, uuid, dialog>>
    BY <2>2, HandledStays
  <2> QED
    BY <1>3, <2>1, <2>2 DEF ReceiveLogin, page, login
<1>4. CASE ReceiveList(c) \/ ReceiveOther(c)
  BY <1>4, HandledStays DEF ReceiveList, ReceiveOther, page, login
<1>5. CASE ReceiveInfo(c)
  <2>1. UNCHANGED <<at, token, uuid, visible, opened>> /\ calls' = calls \ {c} /\ c.op = "info"
    BY <1>5 DEF ReceiveInfo, Handled, Rest, login
  <2>2. form' = form \/ form' = [row |-> c.arg, data |-> c.got]
    BY <1>5 DEF ReceiveInfo
  <2>3. Patient => c.arg = opened
    BY <1>0, <2>1 DEF CallInv, DialogCall
  <2>4. /\ form' = [row |-> form'.row, data |-> form'.data]
        /\ form'.row = form.row \/ form'.row = c.arg
    BY <2>2 DEF PageInv
  <2>5. Patient => DialogIsOpened'
    BY <2>1, <2>3, <2>4 DEF PageInv, DialogIsOpened
  <2> QED
    BY <2>1, <2>4, <2>5 DEF PageInv, CallInv, IsCall, LoginCall, DialogCall,
       NoCaptchaInSession
<1>6. CASE ReceiveSaved(c)
  <2>1. /\ UNCHANGED <<at, token, uuid, form, opened>>
        /\ visible' => visible
        /\ \/ Handled(c)
           \/ Send(Rest(c), at, "list", query)
    BY <1>6 DEF ReceiveSaved, GetList, login
  <2>2. \A d \in calls' : CallInv(d)
    <3>1. CASE Handled(c)
      BY <3>1 DEF Handled, Rest, PageInv
    <3>2. CASE Send(Rest(c), at, "list", query)
      <4>1. PICK e : calls' = Rest(c) \cup {e} /\ IsCall(e) /\ e.op = "list"
        BY <3>2, SendFacts
      <4> QED
        BY <4>1 DEF Rest, PageInv, CallInv, LoginCall, DialogCall, ToLogin
    <3> QED
      BY <2>1, <3>1, <3>2
  <2> QED
    BY <2>1, <2>2 DEF PageInv, CallInv, IsCall, LoginCall, DialogCall, NoCaptchaInSession,
       DialogIsOpened
<1>7. CASE ReceiveDeleted(c)
  <2>1. Handled(c) \/ Send(Rest(c), at, "list", query)
    BY <1>7 DEF ReceiveDeleted, GetList
  <2>2. UNCHANGED <<at, token, uuid, dialog>>
    BY <1>7 DEF ReceiveDeleted, login
  <2> QED
    BY <2>1, <2>2, HandledStays, SendStays DEF Rest, ToLogin
<1> QED
  BY <1>1, <1>2, <1>3, <1>4, <1>5, <1>6, <1>7 DEF Receive

LEMMA TimeOutStep == ASSUME PageInv, NEW c \in calls, TimeOut(c) PROVE PageInv'
<1> DEFINE e == [c EXCEPT !.out = "rejected"]
<1>1. CallInv(c)
  BY DEF PageInv
<1>2. IsCall(e) /\ e.op = c.op /\ e.arg = c.arg /\ e.bearer = c.bearer /\ e.here = c.here
      /\ e.out = "rejected"
  BY <1>1 DEF CallInv, IsCall
<1>3. calls' = Rest(c) \cup {e} \cup Orphans({c})
  BY DEF TimeOut
<1> HIDE DEF e
<1>4. CallInv(e)
  BY <1>1, <1>2 DEF CallInv, LoginCall, DialogCall
<1>5. \A d \in Orphans({c}) : IsCall(d) /\ ~ d.here
  BY <1>1, OrphansFacts DEF CallInv
<1>6. \A d \in calls' : CallInv(d)
  BY <1>3, <1>4, <1>5 DEF Rest, PageInv, CallInv, LoginCall, DialogCall
<1> QED
  BY <1>6, Stays DEF TimeOut, page, login

LEMMA ExpireStep == ASSUME PageInv, Expire PROVE PageInv'
<1>1. /\ token' = "dead" /\ UNCHANGED <<at, uuid, visible, form, opened>>
      /\ calls' = {[c EXCEPT !.bearer = IF @ = "live" THEN "dead" ELSE @] : c \in calls}
  BY DEF Expire, page, login, dialog
<1>2. ASSUME NEW d \in calls'
      PROVE  \E c \in calls : /\ IsCall(d) /\ d.op = c.op /\ d.arg = c.arg /\ d.here = c.here
  <2>1. PICK c \in calls : d = [c EXCEPT !.bearer = IF @ = "live" THEN "dead" ELSE @]
    BY <1>1
  <2>2. IsCall(c)
    BY DEF PageInv, CallInv
  <2> QED
    BY <2>1, <2>2 DEF IsCall
<1>3. \A d \in calls' : IsCall(d) /\ (d.here /\ d.op \in ToLogin => at = "login")
                        /\ (Patient => DialogCall(d))
  BY <1>2 DEF PageInv, CallInv, LoginCall, DialogCall
<1> QED
  BY <1>1, <1>3 DEF PageInv, CallInv, IsCall, LoginCall, DialogCall, NoCaptchaInSession,
     DialogIsOpened

LEMMA PageInit == Init => PageInv
<1> SUFFICES ASSUME Init PROVE PageInv
  OBVIOUS
<1>1. PICK c : /\ calls = {[c EXCEPT !.id = 1]}
               /\ c = Request("login", "code", Function["login"]["code"], "all", token)
  BY DEF Init
<1>2. PICK i, l, m : c = [id |-> i, page |-> "login", op |-> "code", leads |-> l, meant |-> m, arg |-> "all",
                          bearer |-> token, here |-> TRUE, out |-> "sent", got |-> "nothing"]
  BY <1>1 DEF Request
<1>3. PICK e : calls = {e} /\ e = [c EXCEPT !.id = 1]
  BY <1>1
<1>4. IsCall(e) /\ e.op = "code" /\ e.bearer = token /\ e.here /\ e.out = "sent"
  BY <1>2, <1>3 DEF IsCall
<1>5. form = [row |-> NoRow, data |-> "blank"] /\ ~ visible /\ at = "login" /\ uuid = 0
  BY DEF Init
<1>6. form = [row |-> form.row, data |-> form.data]
  BY <1>5
<1> QED
  BY <1>3, <1>4, <1>5, <1>6 DEF PageInv, CallInv, LoginCall, DialogCall, NoCaptchaInSession,
     DialogIsOpened

LEMMA PageStep == PageInv /\ [Next]_vars => PageInv'
<1> SUFFICES ASSUME PageInv, [Next]_vars PROVE PageInv'
  OBVIOUS
<1>1. ASSUME NEW c \in calls, Drop(c) PROVE PageInv'
  BY <1>1, HandledStays DEF Drop, page, login
<1>2. ASSUME NEW u \in captchas, ExpireCaptcha(u) PROVE PageInv'
  BY <1>2, Stays DEF ExpireCaptcha, page, login, PageInv
<1>3. CASE UNCHANGED vars
  BY <1>3, Stays DEF vars, page, login, PageInv
<1> QED
  BY <1>1, <1>2, <1>3, UserStep, ServeStep, ReceiveStep, TimeOutStep, ExpireStep
     DEF Next, Network

-----------------------------------------------------------------------------
(* The calls of the page that is shown *)

\* A page of rows is there for what its rows and its dialog ask for.
OwnInv ==
    /\ at \in Pages \cup {"login", "other"}
    /\ visible => at \in Pages
    /\ \A c \in calls : IsCall(c) /\ (c.here /\ c.op = "delete" => at \in Pages)

\* A call that was under way before the step, and may have been left behind.
Kept(d) ==
    \E c \in calls : d.op = c.op /\ (d.here => c.here /\ at' = at)

Sound(d) ==
    /\ IsCall(d)
    /\ \/ Kept(d)
       \/ d.op = "delete" => at' \in Pages

LEMMA OwnMoves ==
    ASSUME OwnInv, at' \in Pages \cup {"login", "other"}, visible' => at' \in Pages,
           \A d \in calls' : Sound(d)
    PROVE  OwnInv'
<1>1. ASSUME NEW d \in calls'
      PROVE  IsCall(d) /\ (d.here /\ d.op = "delete" => at' \in Pages)
  BY DEF OwnInv, Kept, Sound
<1> QED
  BY <1>1 DEF OwnInv, IsCall

LEMMA OwnKeeps ==
    ASSUME OwnInv, UNCHANGED at, visible' => at \in Pages,
           \A d \in calls' : Sound(d)
    PROVE  OwnInv'
BY OwnMoves DEF OwnInv

LEMMA KeptSound == \A d : IsCall(d) /\ Kept(d) => Sound(d)
BY DEF Sound

LEMMA KeptCalls == ASSUME OwnInv, UNCHANGED at PROVE \A d \in calls : Sound(d)
<1>1. \A d \in calls : IsCall(d) /\ Kept(d)
  BY DEF OwnInv, Kept
<1> QED
  BY <1>1, KeptSound

LEMMA OrphansKept ==
    ASSUME OwnInv, NEW cs \in SUBSET calls
    PROVE  \A d \in Orphans(cs) : Sound(d)
<1>1. \A d \in Orphans(cs) : /\ IsCall(d) /\ ~ d.here /\ \E c \in cs : d.op = c.op
  BY OrphansFacts DEF OwnInv
<1>2. \A d \in Orphans(cs) : Kept(d)
  BY <1>1 DEF Kept
<1> QED
  BY <1>1, <1>2, KeptSound

\* The page sends a call and stays.
LEMMA SendKeeps ==
    ASSUME OwnInv, NEW cs \in SUBSET calls, NEW p \in Pages \cup {"login"},
           NEW op \in Operations(p), NEW arg, Send(cs, p, op, arg), UNCHANGED at, p = at,
           visible' => at \in Pages
    PROVE  OwnInv'
<1>1. PICK e : calls' = cs \cup {e} /\ IsCall(e) /\ e.op = op
  BY SendFacts
<1>2. op = "delete" => at \in Pages
  BY DEF Operations
<1>3. \A d \in calls' : Sound(d)
  BY <1>1, <1>2, KeptCalls DEF Sound
<1> QED
  BY <1>3, OwnKeeps

LEMMA LoadKeeps ==
    ASSUME OwnInv, NEW cs \in SUBSET calls, NEW p \in Pages \cup {"login"}, Load(p, cs)
    PROVE  OwnInv'
<1> DEFINE op == IF p = "login" THEN "code" ELSE "list"
<1>1. op # "delete"
  OBVIOUS
<1>2. at' = p /\ visible' = FALSE /\ Send(Orphans(cs), p, op, "all")
  BY DEF Load, Blank
<1> HIDE DEF op
<1>3. PICK e : calls' = Orphans(cs) \cup {e} /\ IsCall(e) /\ e.op = op
  BY <1>2, SendFacts
<1>4. \A d \in calls' : Sound(d)
  BY <1>1, <1>3, OrphansKept DEF Sound
<1> QED
  BY <1>2, <1>4, OwnMoves

LEMMA HandledKeeps ==
    ASSUME OwnInv, NEW c \in calls, Handled(c), UNCHANGED at, visible' => visible
    PROVE  OwnInv'
<1>1. \A d \in calls' : Sound(d)
  BY KeptCalls DEF Handled, Rest
<1> QED
  BY <1>1, OwnKeeps DEF OwnInv

LEMMA AnsweredKeeps ==
    ASSUME OwnInv, NEW c \in calls, NEW out, NEW got, Answered(c, out, got), UNCHANGED page
    PROVE  OwnInv'
<1>0. UNCHANGED <<at, visible>>
  BY DEF page, dialog
<1>1. IsCall(c)
  BY DEF OwnInv
<1>2. PICK e : /\ calls' = (calls \ {c}) \cup {e}
               /\ IsCall(e) /\ e.op = c.op /\ e.here = c.here
  BY <1>1, AnsweredFacts
<1>3. Sound(e)
  <2>1. Kept(e)
    BY <1>0, <1>2 DEF Kept
  <2> QED
    BY <1>2, <2>1, KeptSound
<1>4. \A d \in calls' : Sound(d)
  BY <1>0, <1>2, <1>3, KeptCalls
<1> QED
  BY <1>0, <1>4, OwnKeeps DEF OwnInv

LEMMA OwnServe ==
    ASSUME OwnInv, NEW c \in calls, Serve(c) \/ ServeFails(c)
    PROVE  OwnInv'
<1>1. UNCHANGED page /\ \E out, got : Answered(c, out, got)
  <2>1. CASE Refuse(c) \/ ServeUnknown(c) \/ ServeFails(c) \/ ServeLogin(c)
    BY <2>1 DEF Refuse, ServeUnknown, ServeFails, ServeLogin
  <2>2. CASE \E op, out, got : Reaches(c, op, out, got)
    BY <2>2 DEF Reaches
  <2>3. CASE ServeCode(c) \/ ReadCaptcha(c) \/ ServeList(c) \/ ServeInfo(c) \/ ServeAdd(c)
             \/ ServeUpdate(c) \/ ServeDeleteCourse(c) \/ ServeDeleteActivity(c) \/ ServeOther(c)
    <3>1. \E op, out, got : Reaches(c, op, out, got)
      BY <2>3 DEF ServeCode, ReadCaptcha, ServeList, ServeInfo, ServeAdd, ServeUpdate,
         ServeDeleteCourse, ServeDeleteActivity,
       ServeOther
    <3> QED
      BY <3>1, <2>2
  <2> QED
    BY <2>1, <2>3 DEF Serve
<1> QED
  BY <1>1, AnsweredKeeps

LEMMA OwnUser == ASSUME OwnInv, User PROVE OwnInv'
<1>1. ASSUME NEW p \in Pages \cup {"login"}, Visit(p) PROVE OwnInv'
  BY <1>1, LoadKeeps DEF Visit
<1>2. CASE VisitOther
  <2>1. at' = "other" /\ visible' = FALSE /\ calls' = Orphans(calls)
    BY <1>2 DEF VisitOther, Blank
  <2>2. \A d \in calls' : Sound(d)
    BY <2>1, OrphansKept
  <2> QED
    BY <2>1, <2>2, OwnMoves
<1>3. ASSUME NEW q \in Requests, Ask(q) PROVE OwnInv'
  <2>1. PICK e : calls' = {e} /\ e = Request("other", "other", q, "all", token)
    BY <1>3 DEF Ask
  <2>2. IsCall(e) /\ e.op = "other"
    BY <2>1 DEF Request, IsCall
  <2>3. UNCHANGED <<at, visible>>
    BY <1>3 DEF Ask, page, dialog
  <2> QED
    BY <2>1, <2>2, <2>3, OwnKeeps DEF OwnInv, Sound
<1>4. CASE GetCode
  <2>1. "code" \in Operations("login") /\ UNCHANGED <<at, visible>> /\ at = "login"
        /\ Send(calls, "login", "code", "all")
    BY <1>4 DEF Operations, GetCode, page, dialog
  <2> QED
    BY <2>1, SendKeeps DEF OwnInv
<1>5. ASSUME NEW right \in BOOLEAN, HandleLogin(right) PROVE OwnInv'
  <2>1. "login" \in Operations("login") /\ UNCHANGED <<at, visible>> /\ at = "login"
        /\ \E arg : Send(calls, "login", "login", arg)
    BY <1>5 DEF Operations, HandleLogin, dialog
  <2> QED
    BY <2>1, SendKeeps DEF OwnInv
<1>6. ASSUME NEW f \in Filters, TypeQuery(f) PROVE OwnInv'
  <2>1. UNCHANGED <<at, visible, calls>>
    BY <1>6 DEF TypeQuery, dialog
  <2> QED
    BY <2>1, KeptCalls, OwnKeeps DEF OwnInv
<1> DEFINE RowOps == {"list", "info", "add", "update", "delete"}
<1>0. ASSUME NEW op \in RowOps, NEW arg, at \in Pages, UNCHANGED at,
             Send(calls, at, op, arg)
      PROVE  OwnInv'
  <2>1. op \in Operations(at)
    BY <1>0 DEF Operations, Pages
  <2> QED
    BY <1>0, <2>1, SendKeeps
<1>7. CASE HandleQuery
  BY <1>0, <1>7 DEF HandleQuery, Uncovered, GetList
<1>8. ASSUME NEW r \in Rows, HandleDelete(r) PROVE OwnInv'
  BY <1>0, <1>8 DEF HandleDelete, Uncovered, page
<1>9. ASSUME NEW r \in Rows \cup {NoRow}, AddOrUpdateHandle(r) PROVE OwnInv'
  <2>1. at \in Pages /\ UNCHANGED at
    BY <1>9 DEF AddOrUpdateHandle, Uncovered
  <2>2. CASE UNCHANGED calls
    BY <2>1, <2>2, KeptCalls, OwnKeeps
  <2>3. CASE Send(calls, at, "info", r)
    BY <1>0, <2>1, <2>3
  <2> QED
    BY <1>9, <2>2, <2>3 DEF AddOrUpdateHandle
<1>10. ASSUME NEW d \in Data, TypeForm(d) PROVE OwnInv'
  <2>1. UNCHANGED <<at, visible, calls>>
    BY <1>10 DEF TypeForm
  <2> QED
    BY <2>1, KeptCalls, OwnKeeps DEF OwnInv
<1>11. CASE SubmitForm
  <2>1. at \in Pages /\ UNCHANGED at
    BY <1>11 DEF SubmitForm, page, OwnInv
  <2>2. \E op \in {"add", "update"} : Send(calls, at, op, form)
    BY <1>11 DEF SubmitForm
  <2> QED
    BY <1>0, <2>1, <2>2
<1>12. CASE Cancel
  <2>1. UNCHANGED <<at, calls>> /\ visible' = FALSE
    BY <1>12 DEF Cancel
  <2> QED
    BY <2>1, KeptCalls, OwnKeeps
<1> QED
  BY <1>1, <1>2, <1>3, <1>4, <1>5, <1>6, <1>7, <1>8, <1>9, <1>10, <1>11, <1>12 DEF User

LEMMA OwnReceive == ASSUME OwnInv, NEW c \in calls, Receive(c) PROVE OwnInv'
<1>0. c.here /\ Rest(c) \in SUBSET calls
  BY DEF Receive, Rest
<1>1. CASE ReceiveDenied(c)
  BY <1>0, <1>1, LoadKeeps DEF ReceiveDenied
<1>2. CASE ReceiveCode(c) \/ ReceiveList(c) \/ ReceiveInfo(c) \/ ReceiveOther(c)
  <2>1. Handled(c) /\ UNCHANGED <<at, visible>>
    BY <1>2 DEF ReceiveCode, ReceiveList, ReceiveInfo, ReceiveOther, page, dialog
  <2> QED
    BY <2>1, HandledKeeps
<1>3. CASE ReceiveLogin(c)
  <2>1. CASE at' = "other" /\ Blank /\ calls' = Orphans(Rest(c))
    <3>1. visible' = FALSE
      BY <2>1 DEF Blank
    <3>2. \A d \in calls' : Sound(d)
      BY <1>0, <2>1, OrphansKept
    <3> QED
      BY <2>1, <3>1, <3>2, OwnMoves
  <2>2. CASE Handled(c) /\ UNCHANGED <<at, visible>>
    BY <2>2, HandledKeeps
  <2> QED
    BY <1>3, <2>1, <2>2 DEF ReceiveLogin, page, dialog
<1>4. ASSUME Send(Rest(c), at, "list", query), at \in Pages, UNCHANGED at
      PROVE  OwnInv'
  <2>1. "list" \in Operations(at)
    BY <1>4 DEF Operations, Pages
  <2> QED
    BY <1>0, <1>4, <2>1, SendKeeps
<1>5. CASE ReceiveSaved(c)
  <2>1. UNCHANGED at /\ (visible' => visible)
    BY <1>5 DEF ReceiveSaved
  <2>2. Handled(c) \/ (at = "course" /\ Send(Rest(c), at, "list", query))
    BY <1>5 DEF ReceiveSaved, GetList
  <2> QED
    BY <1>4, <2>1, <2>2, HandledKeeps DEF Pages
<1>6. CASE ReceiveDeleted(c)
  <2>1. at \in Pages
    BY <1>0, <1>6 DEF ReceiveDeleted, OwnInv
  <2>2. UNCHANGED <<at, visible>> /\ (Handled(c) \/ Send(Rest(c), at, "list", query))
    BY <1>6 DEF ReceiveDeleted, GetList, dialog
  <2> QED
    BY <1>4, <2>1, <2>2, HandledKeeps
<1> QED
  BY <1>1, <1>2, <1>3, <1>5, <1>6 DEF Receive

LEMMA OwnTimeOut == ASSUME OwnInv, NEW c \in calls, TimeOut(c) PROVE OwnInv'
<1> DEFINE e == [c EXCEPT !.out = "rejected"]
<1>1. IsCall(c) /\ UNCHANGED <<at, visible>>
  BY DEF OwnInv, TimeOut, page, dialog
<1>2. IsCall(e) /\ e.op = c.op /\ e.here = c.here
  BY <1>1 DEF IsCall
<1>3. calls' = Rest(c) \cup {e} \cup Orphans({c})
  BY DEF TimeOut
<1> HIDE DEF e
<1>4. Sound(e)
  <2>1. Kept(e)
    BY <1>1, <1>2 DEF Kept
  <2> QED
    BY <1>2, <2>1, KeptSound
<1>5. \A d \in calls' : Sound(d)
  BY <1>1, <1>2, <1>3, <1>4, KeptCalls, OrphansKept DEF Rest
<1> QED
  BY <1>1, <1>5, OwnKeeps DEF OwnInv

LEMMA OwnExpire == ASSUME OwnInv, Expire PROVE OwnInv'
<1>1. /\ UNCHANGED <<at, visible>>
      /\ calls' = {[c EXCEPT !.bearer = IF @ = "live" THEN "dead" ELSE @] : c \in calls}
  BY DEF Expire, page, dialog
<1>2. ASSUME NEW d \in calls'
      PROVE  Sound(d)
  <2>1. PICK c \in calls : d = [c EXCEPT !.bearer = IF @ = "live" THEN "dead" ELSE @]
    BY <1>1
  <2>2. IsCall(c)
    BY DEF OwnInv
  <2>3. IsCall(d) /\ d.op = c.op /\ d.here = c.here
    BY <2>1, <2>2 DEF IsCall
  <2>4. Kept(d)
    BY <1>1, <2>3 DEF Kept
  <2> QED
    BY <2>3, <2>4, KeptSound
<1> QED
  BY <1>1, <1>2, OwnKeeps DEF OwnInv

LEMMA OwnInit == Init => OwnInv
<1> SUFFICES ASSUME Init PROVE OwnInv
  OBVIOUS
<1> DEFINE q == Function["login"]["code"]
<1>1. PICK c : calls = {[c EXCEPT !.id = 1]} /\ c = Request("login", "code", q, "all", token)
  BY DEF Init
<1> HIDE DEF q
<1>2. IsCall(c) /\ c.op = "code"
  BY <1>1 DEF Request, IsCall
<1>3. PICK e : calls = {e} /\ e = [c EXCEPT !.id = 1]
  BY <1>1
<1>4. IsCall(e) /\ e.op = c.op
  BY <1>2, <1>3 DEF IsCall
<1> QED
  BY <1>2, <1>3, <1>4 DEF Init, OwnInv

LEMMA OwnStep == OwnInv /\ [Next]_vars => OwnInv'
<1> SUFFICES ASSUME OwnInv, [Next]_vars PROVE OwnInv'
  OBVIOUS
<1>1. ASSUME NEW c \in calls, Drop(c) PROVE OwnInv'
  BY <1>1, HandledKeeps DEF Drop, page, dialog
<1>2. CASE UNCHANGED <<page, calls>>
  BY <1>2, KeptCalls, OwnKeeps DEF page, dialog, OwnInv
<1>3. CASE UNCHANGED vars \/ \E u \in captchas : ExpireCaptcha(u)
  BY <1>2, <1>3 DEF vars, ExpireCaptcha
<1> QED
  BY <1>1, <1>3, OwnUser, OwnServe, OwnReceive, OwnTimeOut, OwnExpire DEF Next, Network

-----------------------------------------------------------------------------
(* The list of courses, of a user who waits *)

Fresh == list = [of |-> asked, rows |-> Answer("course", asked)]

Saves == {"add", "update", "delete"}

\* What the one call under way makes of the list when it is handled.
Renews(c) ==
    IF c.op = "list"
    THEN /\ c.page = "course" /\ c.arg = asked /\ c.leads \cap c.meant # {}
         /\ \/ c.out \in {"sent", "denied"}
            \/ c.out = "ok" /\ c.got = Answer("course", asked)
    ELSE Fresh \/ (c.op \in Saves /\ c.out = "ok")

Waits(c) == IsCall(c) /\ c.here /\ (at = "course" => Renews(c))

\* Until something fails there is at most one call under way, and it brings the
\* list up to date.
ListInv ==
    /\ faults \in Nat
    /\ faults = 0 => \/ calls = {} /\ (at = "course" => Fresh)
                     \/ \E c : calls = {c} /\ Waits(c)

LEMMA AnswerStays ==
    ASSUME UNCHANGED <<table, flagged>>
    PROVE  \A p, q : Answer(p, q)' = Answer(p, q)
BY DEF Answer, Existing, IsDelete

LEMMA FreshStays == ASSUME UNCHANGED <<list, asked, table, flagged>>, Fresh PROVE Fresh'
BY AnswerStays DEF Fresh

LEMMA NoOrphans == Orphans({}) = {}
BY DEF Orphans

\* The list is asked for.
LEMMA ListAsked ==
    ASSUME faults \in Nat, UNCHANGED faults, NEW arg,
           Send({}, "course", "list", arg), asked' = arg
    PROVE  ListInv'
<1>1. PICK e : /\ calls' = {} \cup {e}
               /\ IsCall(e) /\ e.page = "course" /\ e.op = "list" /\ e.arg = arg
               /\ e.here /\ e.out = "sent"
               /\ e.leads = Function["course"]["list"].leads
               /\ e.meant = Function["course"]["list"].meant
  BY SendFacts
<1>2. e.leads \cap e.meant # {}
  BY <1>1, Functions DEF Operations, Pages
<1>3. calls' = {e}
  BY <1>1
<1>4. Waits(e)'
  BY <1>1, <1>2 DEF Waits, Renews, IsCall
<1> QED
  BY <1>3, <1>4 DEF ListInv

\* Another call is sent.
LEMMA OtherSent ==
    ASSUME ListInv, calls = {}, UNCHANGED <<at, faults, list, asked, table, flagged>>,
           NEW p, NEW op, NEW arg, Send({}, p, op, arg), op # "list"
    PROVE  ListInv'
<1>1. PICK e : /\ calls' = {} \cup {e}
               /\ IsCall(e) /\ e.op = op /\ e.here /\ e.out = "sent"
  BY SendFacts
<1>2. calls' = {e}
  BY <1>1
<1>3. faults = 0 /\ at = "course" => Fresh'
  BY FreshStays DEF ListInv
<1>4. faults = 0 => Waits(e)'
  BY <1>1, <1>3 DEF Waits, Renews, IsCall
<1> QED
  BY <1>2, <1>4 DEF ListInv

\* Nothing is under way, or no longer.
LEMMA Rests ==
    ASSUME ListInv, UNCHANGED <<faults, list, asked, table, flagged>>, calls' = {}, at' = "course" => at = "course",
           calls = {} \/ \E c : calls = {c} /\ ~ (c.op = "list" \/ (c.op \in Saves /\ c.out = "ok"))
    PROVE  ListInv'
<1>1. faults = 0 /\ at' = "course" => Fresh
  BY DEF ListInv, Waits, Renews
<1> QED
  BY <1>1, FreshStays DEF ListInv

LEMMA ListLoads ==
    ASSUME faults \in Nat, UNCHANGED faults, NEW p \in Pages \cup {"login"}, Load(p, {})
    PROVE  ListInv'
<1>1. at' = p /\ asked' = "all"
  BY DEF Load, Blank
<1>2. Send({}, p, IF p = "login" THEN "code" ELSE "list", "all")
  BY NoOrphans DEF Load
<1>3. CASE p = "course"
  BY <1>1, <1>2, <1>3, ListAsked
<1>4. CASE p # "course"
  <2>1. PICK e : calls' = {} \cup {e} /\ IsCall(e) /\ e.here
    BY <1>2, SendFacts
  <2>2. calls' = {e}
    BY <2>1
  <2>3. Waits(e)'
    BY <1>1, <1>4, <2>1 DEF Waits, IsCall
  <2> QED
    BY <2>2, <2>3 DEF ListInv
<1> QED
  BY <1>3, <1>4

LEMMA ListUser == ASSUME ListInv, Patient, User PROVE ListInv'
<1>0. calls = {} /\ faults \in Nat
  BY DEF User, Visit, VisitOther, Ask, GetCode, HandleLogin, TypeQuery, HandleQuery,
     HandleDelete, AddOrUpdateHandle, TypeForm, SubmitForm, Cancel, MayCall, Ready, Uncovered,
     ListInv
<1>1. ASSUME NEW p \in Pages \cup {"login"}, Visit(p) PROVE ListInv'
  BY <1>0, <1>1, ListLoads DEF Visit
<1>2. CASE VisitOther
  <2>1. at' = "other" /\ calls' = {} /\ UNCHANGED faults
    BY <1>0, <1>2, NoOrphans DEF VisitOther
  <2> QED
    BY <1>0, <2>1 DEF ListInv
<1>3. ASSUME NEW q \in Requests, Ask(q) PROVE ListInv'
  <2>1. PICK e : calls' = {e} /\ e = Request("other", "other", q, "all", token)
    BY <1>3 DEF Ask
  <2>2. IsCall(e) /\ e.here
    BY <2>1 DEF Request, IsCall
  <2>3. at' # "course" /\ UNCHANGED faults
    BY <1>3 DEF Ask, page
  <2>4. Waits(e)'
    BY <2>2, <2>3 DEF Waits, IsCall
  <2> QED
    BY <1>0, <2>1, <2>3, <2>4 DEF ListInv
<1>4. CASE GetCode \/ (\E right \in BOOLEAN : HandleLogin(right)) \/ SubmitForm
           \/ \E r \in Rows : HandleDelete(r)
  <2>1. UNCHANGED <<at, faults, list, asked, table, flagged>>
    BY <1>4 DEF GetCode, HandleLogin, SubmitForm, HandleDelete, page, lists
  <2>2. ASSUME NEW p, NEW op, NEW arg, Send(calls, p, op, arg), op # "list" PROVE ListInv'
    BY <1>0, <2>1, <2>2, OtherSent
  <2>3. CASE GetCode
    BY <2>2, <2>3 DEF GetCode
  <2>4. ASSUME NEW right \in BOOLEAN, HandleLogin(right) PROVE ListInv'
    BY <2>2, <2>4 DEF HandleLogin
  <2>5. CASE SubmitForm
    BY <2>2, <2>5 DEF SubmitForm
  <2>6. ASSUME NEW r \in Rows, HandleDelete(r) PROVE ListInv'
    BY <2>2, <2>6 DEF HandleDelete
  <2> QED
    BY <1>4, <2>3, <2>4, <2>5, <2>6
<1>5. CASE HandleQuery
  <2>1. UNCHANGED <<at, faults>> /\ asked' = query /\ Send({}, at, "list", query)
    BY <1>0, <1>5 DEF HandleQuery, GetList
  <2>2. CASE at = "course"
    BY <1>0, <2>1, <2>2, ListAsked
  <2>3. CASE at # "course"
    <3>1. PICK e : calls' = {} \cup {e} /\ IsCall(e) /\ e.here
      BY <2>1, SendFacts
    <3>2. calls' = {e}
      BY <3>1
    <3>3. Waits(e)'
      BY <2>1, <2>3, <3>1 DEF Waits, IsCall
    <3> QED
      BY <1>0, <2>1, <3>2, <3>3 DEF ListInv
  <2> QED
    BY <2>2, <2>3
<1>6. ASSUME NEW r \in Rows \cup {NoRow}, AddOrUpdateHandle(r) PROVE ListInv'
  <2>1. UNCHANGED <<at, faults, list, asked, table, flagged>>
    BY <1>6 DEF AddOrUpdateHandle, lists
  <2>2. UNCHANGED calls \/ Send({}, at, "info", r)
    BY <1>0, <1>6 DEF AddOrUpdateHandle
  <2> QED
    BY <1>0, <2>1, <2>2, OtherSent, Rests
<1>7. CASE (\E f \in Filters : TypeQuery(f)) \/ (\E d \in Data : TypeForm(d)) \/ Cancel
  <2>1. UNCHANGED <<at, faults, list, asked, table, flagged, calls>>
    BY <1>7 DEF TypeQuery, TypeForm, Cancel, lists
  <2> QED
    BY <1>0, <2>1, Rests
<1> QED
  BY <1>1, <1>2, <1>3, <1>4, <1>5, <1>6, <1>7 DEF User

\* The one call there is is answered.
LEMMA ListAnswered ==
    ASSUME ListInv, NEW c, calls = {c}, Waits(c), NEW out, NEW got, Answered(c, out, got),
           UNCHANGED <<at, list, asked, faults>>,
           c.op = "list" => UNCHANGED <<table, flagged>> /\ c.out = "sent"
                            /\ (out = "denied" \/ (out = "ok" /\ got = Answer(c.page, c.arg))),
           c.op # "list" => UNCHANGED <<table, flagged>> \/ (c.op \in Saves /\ out = "ok"),
           c.op \in Saves => c.out # "ok"
    PROVE  ListInv'
<1>0. c \in calls /\ IsCall(c)
  BY DEF Waits
<1>1. PICK e : /\ calls' = (calls \ {c}) \cup {e}
               /\ IsCall(e) /\ e.op = c.op /\ e.arg = c.arg
               /\ e.page = c.page /\ e.leads = c.leads /\ e.meant = c.meant
               /\ e.here = c.here /\ e.out = out /\ e.got = got
  BY <1>0, AnsweredFacts
<1>2. calls' = {e}
  BY <1>1
<1>3. ASSUME at = "course" PROVE Renews(e)'
  <2>1. Renews(c)
    BY <1>3 DEF Waits
  <2>2. CASE c.op = "list"
    <3>1. Answer("course", asked)' = Answer("course", asked)
      BY <2>2, AnswerStays
    <3> QED
      BY <1>1, <2>1, <2>2, <3>1 DEF Renews
  <2>3. CASE c.op # "list" /\ UNCHANGED <<table, flagged>>
    <3>1. Fresh'
      BY <2>1, <2>3, FreshStays DEF Renews
    <3> QED
      BY <1>1, <2>3, <3>1 DEF Renews
  <2>4. CASE c.op # "list" /\ c.op \in Saves /\ out = "ok"
    BY <1>1, <2>4 DEF Renews
  <2> QED
    BY <2>2, <2>3, <2>4
<1>4. Waits(e)'
  BY <1>1, <1>3 DEF Waits, IsCall
<1> QED
  BY <1>2, <1>4 DEF ListInv

LEMMA ListServe ==
    ASSUME ListInv, faults = 0, NEW c \in calls, Serve(c)
    PROVE  ListInv'
<1>1. calls = {c} /\ Waits(c)
  BY DEF ListInv
<1>2. UNCHANGED <<at, list, asked, faults>>
  <2>1. UNCHANGED <<page, faults>>
    BY DEF Serve, Refuse, ServeUnknown, ServeCode, ReadCaptcha, ServeLogin, ServeList,
       ServeInfo, ServeAdd, ServeUpdate, ServeDeleteCourse, ServeDeleteActivity,
       ServeOther, Reaches
  <2> QED
    BY <2>1 DEF page, lists
<1>3. CASE Refuse(c)
  <2>1. c.out = "sent" /\ UNCHANGED <<table, flagged>>
    BY <1>3 DEF Refuse
  <2>2. \E out : Answered(c, out, "nothing") /\ (c.op = "list" => out = "denied")
    BY <1>3 DEF Refuse, Forbidden
  <2> QED
    BY <1>1, <1>2, <2>1, <2>2, ListAnswered
<1>4. CASE ServeUnknown(c)
  <2>1. c.out = "sent" /\ UNCHANGED <<table, flagged>> /\ c.leads \cap c.meant = {}
        /\ \E out : Answered(c, out, "nothing")
    BY <1>4 DEF ServeUnknown, Authorized
  <2>2. CASE c.op # "list"
    BY <1>1, <1>2, <2>1, <2>2, ListAnswered
  <2>3. CASE c.op = "list"
    <3>1. at # "course"
      BY <1>1, <2>1, <2>3 DEF Waits, Renews
    <3>2. PICK e : calls' = (calls \ {c}) \cup {e} /\ IsCall(e) /\ e.here = c.here
      BY <1>1, <2>1, AnsweredFacts DEF Waits
    <3>3. calls' = {e}
      BY <1>1, <3>2
    <3>4. Waits(e)'
      BY <1>1, <1>2, <3>1, <3>2 DEF Waits, IsCall
    <3> QED
      BY <1>2, <3>3, <3>4 DEF ListInv
  <2> QED
    BY <2>2, <2>3
<1>5. CASE ServeLogin(c)
  <2>1. c.op = "login" /\ UNCHANGED <<table, flagged>> /\ \E out, got : Answered(c, out, got)
    BY <1>5 DEF ServeLogin
  <2> QED
    BY <1>1, <1>2, <2>1, ListAnswered DEF Saves
<1>6. CASE ServeList(c)
  <2>1. c.op = "list" /\ c.out = "sent" /\ UNCHANGED <<table, flagged>> /\ Answered(c, "ok", Answer(c.page, c.arg))
    BY <1>6 DEF ServeList, Reaches, Authorized
  <2> QED
    BY <1>1, <1>2, <2>1, ListAnswered DEF Saves
<1>7. CASE ServeCode(c) \/ ReadCaptcha(c) \/ ServeInfo(c) \/ ServeOther(c)
  <2>1. c.op \notin Saves \cup {"list"} /\ UNCHANGED <<table, flagged>> /\ \E out, got : Answered(c, out, got)
    BY <1>7 DEF ServeCode, ReadCaptcha, ServeInfo, ServeOther, Reaches, Saves
  <2> QED
    BY <1>1, <1>2, <2>1, ListAnswered
<1>8. CASE ServeAdd(c) \/ ServeUpdate(c) \/ ServeDeleteCourse(c) \/ ServeDeleteActivity(c)
  <2>1. /\ c.op \in Saves /\ c.op # "list" /\ c.out = "sent"
        /\ \E out, got : Answered(c, out, got) /\ (UNCHANGED <<table, flagged>> \/ out = "ok")
    BY <1>8 DEF ServeAdd, ServeUpdate, ServeDeleteCourse, ServeDeleteActivity,
       Reaches, Authorized, Saves
  <2> QED
    BY <1>1, <1>2, <2>1, ListAnswered
<1> QED
  BY <1>3, <1>4, <1>5, <1>6, <1>7, <1>8 DEF Serve

LEMMA ListReceive ==
    ASSUME ListInv, faults = 0, NEW c \in calls, Receive(c)
    PROVE  ListInv'
<1>1. calls = {c} /\ Waits(c) /\ Rest(c) = {} /\ faults \in Nat
  BY DEF ListInv, Rest
<1>2. UNCHANGED <<faults, table, flagged>>
  BY DEF Receive, ReceiveDenied, ReceiveCode, ReceiveLogin, ReceiveList, ReceiveInfo,
     ReceiveSaved, ReceiveDeleted, ReceiveOther
<1>3. CASE ReceiveDenied(c)
  <2>1. Load("login", {})
    BY <1>1, <1>3 DEF ReceiveDenied
  <2> QED
    BY <1>1, <1>2, <2>1, ListLoads
<1>4. CASE ReceiveCode(c) \/ ReceiveInfo(c) \/ ReceiveOther(c)
  <2>1. calls' = {} /\ UNCHANGED <<at, list, asked>> /\ c.op \notin Saves /\ c.op # "list"
    BY <1>1, <1>4 DEF ReceiveCode, ReceiveInfo, ReceiveOther, Handled, page, lists, Saves
  <2> QED
    BY <1>1, <1>2, <2>1, Rests
<1>5. CASE ReceiveLogin(c)
  <2>1. CASE at' = "other" /\ calls' = Orphans(Rest(c))
    <3>1. calls' = {}
      BY <1>1, <2>1, NoOrphans
    <3> QED
      BY <1>1, <1>2, <2>1, <3>1 DEF ListInv
  <2>2. CASE Handled(c) /\ UNCHANGED <<at, list, asked>>
    <3>1. calls' = {} /\ c.op \notin Saves /\ c.op # "list"
      BY <1>1, <1>5, <2>2 DEF ReceiveLogin, Handled, Saves
    <3> QED
      BY <1>1, <1>2, <2>2, <3>1, Rests
  <2> QED
    BY <1>5, <2>1, <2>2 DEF ReceiveLogin, page, lists
<1>6. CASE ReceiveList(c)
  <2>1. c.op = "list" /\ calls' = {} /\ UNCHANGED <<at, asked>>
    BY <1>1, <1>6 DEF ReceiveList, Handled
  <2>2. ASSUME at = "course" PROVE Fresh'
    <3>1. Renews(c)
      BY <1>1, <2>2 DEF Waits
    <3>2. c.arg = asked /\ (c.out \in {"sent", "denied"} \/ (c.out = "ok" /\ c.got = Answer("course", asked)))
      BY <2>1, <3>1 DEF Renews
    <3>3. list' = [of |-> asked, rows |-> Answer("course", asked)]
      BY <1>6, <3>2 DEF ReceiveList
    <3> QED
      BY <1>2, <2>1, <3>3, AnswerStays DEF Fresh
  <2> QED
    BY <1>1, <1>2, <2>1, <2>2 DEF ListInv
<1>7. ASSUME GetList({}), UNCHANGED at, at = "course"
      PROVE  ListInv'
  <2>1. asked' = query /\ Send({}, "course", "list", query)
    BY <1>7 DEF GetList
  <2> QED
    BY <1>1, <1>2, <2>1, ListAsked
<1>8. ASSUME GetList({}), UNCHANGED at, at # "course"
      PROVE  ListInv'
  <2>1. PICK e : calls' = {} \cup {e} /\ IsCall(e) /\ e.here
    BY <1>8, SendFacts DEF GetList
  <2>2. calls' = {e}
    BY <2>1
  <2>3. Waits(e)'
    BY <1>8, <2>1 DEF Waits, IsCall
  <2> QED
    BY <1>1, <1>2, <2>2, <2>3 DEF ListInv
<1>9. CASE ReceiveSaved(c)
  <2>1. CASE GetList({})
    BY <1>7, <1>8, <1>9, <2>1 DEF ReceiveSaved
  <2>2. CASE Handled(c) /\ UNCHANGED lists /\ (at = "activity" \/ c.out # "ok")
    <3>1. calls' = {} /\ UNCHANGED <<at, list, asked>> /\ c.op # "list"
      BY <1>1, <1>9, <2>2 DEF ReceiveSaved, Handled, lists
    <3>2. CASE at = "activity"
      BY <1>1, <1>2, <3>1, <3>2 DEF ListInv
    <3>3. CASE c.out # "ok"
      BY <1>1, <1>2, <3>1, <3>3, Rests
    <3> QED
      BY <2>2, <3>2, <3>3
  <2> QED
    BY <1>1, <1>9, <2>1, <2>2 DEF ReceiveSaved
<1>10. CASE ReceiveDeleted(c)
  <2>1. CASE GetList({})
    BY <1>7, <1>8, <1>10, <2>1 DEF ReceiveDeleted
  <2>2. CASE Handled(c) /\ UNCHANGED lists /\ c.out # "ok"
    <3>1. calls' = {} /\ UNCHANGED <<at, list, asked>> /\ c.op # "list"
      BY <1>1, <1>10, <2>2 DEF ReceiveDeleted, Handled, lists
    <3> QED
      BY <1>1, <1>2, <2>2, <3>1, Rests
  <2> QED
    BY <1>1, <1>10, <2>1, <2>2 DEF ReceiveDeleted
<1> QED
  BY <1>3, <1>4, <1>5, <1>6, <1>9, <1>10 DEF Receive

LEMMA ListExpire == ASSUME ListInv, faults = 0, Expire PROVE ListInv'
<1>1. /\ UNCHANGED <<at, faults, list, asked, table, flagged>>
      /\ calls' = {[c EXCEPT !.bearer = IF @ = "live" THEN "dead" ELSE @] : c \in calls}
  BY DEF Expire, page, lists
<1>2. CASE calls = {}
  <2>1. calls' = {}
    BY <1>1, <1>2
  <2> QED
    BY <1>1, <1>2, <2>1, Rests
<1>3. CASE \E c : calls = {c} /\ Waits(c)
  <2>1. PICK c : calls = {c} /\ Waits(c)
    BY <1>3
  <2> DEFINE dead(d) == [d EXCEPT !.bearer = IF @ = "live" THEN "dead" ELSE @]
  <2>0. calls' = {dead(d) : d \in calls}
    BY <1>1
  <2> HIDE DEF dead
  <2>2. PICK e : calls' = {e} /\ e = dead(c)
    BY <2>0, <2>1
  <2>3. /\ IsCall(e) /\ e.op = c.op /\ e.arg = c.arg /\ e.leads = c.leads /\ e.meant = c.meant
        /\ e.page = c.page /\ e.here = c.here /\ e.out = c.out /\ e.got = c.got
    BY <2>1, <2>2 DEF Waits, IsCall, dead
  <2>4. ASSUME at = "course" PROVE Renews(e)'
    <3>1. /\ Renews(c) /\ (Fresh => Fresh')
          /\ Answer("course", asked)' = Answer("course", asked)
      BY <1>1, <2>1, <2>4, FreshStays, AnswerStays DEF Waits
    <3> QED
      BY <1>1, <2>3, <3>1 DEF Renews
  <2>5. Waits(e)'
    BY <1>1, <2>1, <2>3, <2>4 DEF Waits, IsCall
  <2> QED
    BY <1>1, <2>2, <2>5 DEF ListInv
<1> QED
  BY <1>2, <1>3 DEF ListInv

LEMMA ListInit == Init => ListInv
<1> SUFFICES ASSUME Init PROVE ListInv
  OBVIOUS
<1>1. PICK c : /\ calls = {[c EXCEPT !.id = 1]}
               /\ c = Request("login", "code", Function["login"]["code"], "all", token)
  BY DEF Init
<1>2. PICK i, l, m : c = [id |-> i, page |-> "login", op |-> "code", leads |-> l, meant |-> m, arg |-> "all",
                          bearer |-> token, here |-> TRUE, out |-> "sent", got |-> "nothing"]
  BY <1>1 DEF Request
<1>3. PICK e : calls = {e} /\ e = [c EXCEPT !.id = 1]
  BY <1>1
<1>4. IsCall(e) /\ e.here
  BY <1>2, <1>3 DEF IsCall
<1>5. at # "course" /\ faults = 0
  BY DEF Init
<1> QED
  BY <1>3, <1>4, <1>5 DEF ListInv, Waits

LEMMA ListStep == ASSUME Patient PROVE ListInv /\ [Next]_vars => ListInv'
<1> SUFFICES ASSUME ListInv, [Next]_vars PROVE ListInv'
  OBVIOUS
<1>1. CASE UNCHANGED <<page, calls, faults, table, flagged>>
  <2>1. UNCHANGED <<at, calls, faults, list, asked, table, flagged>>
    BY <1>1 DEF page, lists
  <2>2. Fresh => Fresh'
    BY <2>1, FreshStays
  <2>3. \A c : Waits(c) => Waits(c)'
    BY <2>1, <2>2, AnswerStays DEF Waits, Renews, IsCall
  <2> QED
    BY <2>1, <2>2, <2>3 DEF ListInv
<1>2. CASE UNCHANGED vars \/ \E u \in captchas : ExpireCaptcha(u)
  BY <1>1, <1>2 DEF vars, ExpireCaptcha
<1>3. ASSUME NEW c \in calls, ServeFails(c) \/ TimeOut(c) PROVE ListInv'
  BY <1>3 DEF ServeFails, TimeOut, ListInv
<1>4. ASSUME faults # 0, UNCHANGED faults PROVE ListInv'
  BY <1>4 DEF ListInv
<1>5. ASSUME NEW c \in calls, faults = 0, Drop(c) PROVE ListInv'
  BY <1>5 DEF Drop, ListInv, Waits
<1>6. Network \/ Expire => UNCHANGED faults
  BY DEF Network, Expire, Serve, Refuse, ServeUnknown, ServeCode, ReadCaptcha, ServeLogin,
     ServeList, ServeInfo, ServeAdd, ServeUpdate, ServeDeleteCourse, ServeDeleteActivity,
       ServeOther, Reaches,
     Receive, ReceiveDenied, ReceiveCode, ReceiveLogin, ReceiveList, ReceiveInfo,
     ReceiveSaved, ReceiveDeleted, ReceiveOther, Drop
<1>7. CASE Network
  BY <1>4, <1>5, <1>6, <1>7, ListServe, ListReceive DEF Network
<1>8. CASE Expire
  BY <1>4, <1>6, <1>8, ListExpire
<1> QED
  BY <1>2, <1>3, <1>7, <1>8, ListUser DEF Next

-----------------------------------------------------------------------------
(* Types, and the number of calls *)

Outcomes == {"sent", "read", "ok", "failed", "denied", "rejected"}

ArgTyped(op, arg) ==
    /\ op = "list" => arg \in Filters
    /\ op = "info" => arg \in Rows
    /\ op \in {"add", "update"} => arg.data \in Data

GotTyped(op, out, got, n) ==
    /\ op \in ToLogin => out # "denied"
    /\ out = "ok" => /\ op = "code" => got \in 1 .. n
                     /\ op = "login" => got = "live"
                     /\ op = "list" => got \in SUBSET (Rows \X Data \X {0, 1})
                     /\ op = "info" => got \in Data \cup {"gone"}

TypedCall(c, n) ==
    /\ IsCall(c) /\ c.id \in 1 .. n
    /\ c.bearer \in Session /\ c.out \in Outcomes
    /\ ArgTyped(c.op, c.arg) /\ GotTyped(c.op, c.out, c.got, n)

\* The calls whose answer may make the page ask for a captcha, and those that may
\* make it ask for its list before.
Late(cs) == {c.id : c \in {d \in cs : d.here /\ d.op \notin ToLogin}}
Saving(cs) == {c.id : c \in {d \in cs : d.here /\ d.op \in Saves}}

Told(cs) == \A c, d \in cs : c.here /\ d.here /\ c.id = d.id => c = d

\* The calls cs are under way, of n so far: what they will lead to is within the
\* bound of Ids.
Traffic(cs, n) ==
    /\ n \in Nat \ {0}
    /\ \A c \in cs : TypedCall(c, n)
    /\ Told(cs)
    /\ n + Cardinality(Late(cs)) + Cardinality(Saving(cs)) <= 3 * MaxCalls

Screen ==
    /\ at \in Pages \cup {"login", "other"}
    /\ uuid \in Ids \cup {0}
    /\ logging \in BOOLEAN /\ loading \in BOOLEAN /\ visible \in BOOLEAN
    /\ query \in Filters /\ asked \in Filters
    /\ list \in [of : Filters, rows : SUBSET (Rows \X Data \X {0, 1})]
    /\ form \in [row : Rows \cup {NoRow}, data : Data \cup {"blank"}]
    /\ opened \in Rows \cup {NoRow}

Store ==
    /\ token \in Session
    /\ captchas \in SUBSET Ids
    /\ faults \in 0 .. MaxFaults
    /\ table \in [Rows -> Data \cup {"gone"}]
    /\ flagged \in SUBSET Courses

TypeInv == Screen /\ Store /\ Traffic(calls, sent)

LEMMA Counts ==
    ASSUME NEW n \in Nat, NEW S \in SUBSET (1 .. n)
    PROVE  /\ IsFiniteSet(S) /\ Cardinality(S) \in Nat /\ Cardinality(S) <= n
           /\ \A T \in SUBSET S : /\ IsFiniteSet(T) /\ Cardinality(T) \in Nat
                                  /\ Cardinality(T) <= Cardinality(S)
<1>1. IsFiniteSet(1 .. n) /\ Cardinality(1 .. n) = n
  BY FS_Interval
<1>2. IsFiniteSet(S) /\ Cardinality(S) <= n
  BY <1>1, FS_Subset
<1>3. \A T \in SUBSET S : IsFiniteSet(T) /\ Cardinality(T) <= Cardinality(S)
  BY <1>2, FS_Subset
<1> QED
  BY <1>2, <1>3, FS_CardinalityType

\* One out, and none or one in.
LEMMA Swapped ==
    ASSUME NEW n \in Nat, NEW S \in SUBSET (1 .. n), NEW x \in S, NEW y, NEW T
    PROVE  /\ T \subseteq S \ {x} => Cardinality(T) <= Cardinality(S) - 1
           /\ T \subseteq (S \ {x}) \cup {y} => Cardinality(T) <= Cardinality(S)
<1> DEFINE R == S \ {x}
<1>1. IsFiniteSet(S) /\ Cardinality(S) \in Nat
  BY Counts
<1>2. IsFiniteSet(R) /\ Cardinality(R) = Cardinality(S) - 1
  BY <1>1, FS_RemoveElement
<1>3. /\ IsFiniteSet(R \cup {y})
      /\ Cardinality(R \cup {y}) = Cardinality(R) \/ Cardinality(R \cup {y}) = Cardinality(R) + 1
  BY <1>2, FS_AddElement
<1>4. T \subseteq R => Cardinality(T) <= Cardinality(R)
  BY <1>2, FS_Subset
<1>5. T \subseteq R \cup {y} =>
          Cardinality(T) \in Nat /\ Cardinality(T) <= Cardinality(R \cup {y})
  BY <1>3, FS_Subset, FS_CardinalityType
<1>6. Cardinality(R) \in Nat
  BY <1>2, FS_CardinalityType
<1> HIDE DEF R
<1>7. T \subseteq R => Cardinality(T) <= Cardinality(S) - 1
  BY <1>2, <1>4
<1>8. T \subseteq R \cup {y} => Cardinality(T) <= Cardinality(S)
  BY <1>1, <1>2, <1>3, <1>5, <1>6
<1> QED
  BY <1>7, <1>8 DEF R

LEMMA Within ==
    ASSUME NEW n \in Nat, NEW cs, \A c \in cs : TypedCall(c, n)
    PROVE  Late(cs) \in SUBSET (1 .. n) /\ Saving(cs) \in SUBSET (1 .. n)
BY DEF Late, Saving, TypedCall

\* A call that was under way, after an answer, a loss or the end of a session.
Heir(d, cs) == \E c \in cs : c.here /\ c.id = d.id /\ c.op = d.op

LEMMA Fewer ==
    ASSUME NEW cs, NEW n, Traffic(cs, n), NEW ds, \A d \in ds : TypedCall(d, n), Told(ds),
           \A d \in ds : d.here => Heir(d, cs)
    PROVE  Traffic(ds, n)
<1>1. n \in Nat \ {0} /\ \A c \in cs : TypedCall(c, n)
  BY DEF Traffic
<1>2. Late(ds) \subseteq Late(cs) /\ Saving(ds) \subseteq Saving(cs)
  BY DEF Late, Saving, Heir
<1>3. /\ Cardinality(Late(ds)) <= Cardinality(Late(cs))
      /\ Cardinality(Saving(ds)) <= Cardinality(Saving(cs))
      /\ Cardinality(Late(ds)) \in Nat /\ Cardinality(Late(cs)) \in Nat
      /\ Cardinality(Saving(ds)) \in Nat /\ Cardinality(Saving(cs)) \in Nat
  BY <1>1, <1>2, Within, Counts
<1>4. n + Cardinality(Late(cs)) + Cardinality(Saving(cs)) <= 3 * MaxCalls
  BY DEF Traffic
<1>5. n + Cardinality(Late(ds)) + Cardinality(Saving(ds)) <= 3 * MaxCalls
  BY <1>1, <1>3, <1>4, PageAssumption
<1> QED
  BY <1>1, <1>5 DEF Traffic

LEMMA Some ==
    ASSUME NEW cs, NEW n, Traffic(cs, n), NEW ds \in SUBSET cs
    PROVE  Traffic(ds, n)
<1>1. /\ \A d \in ds : TypedCall(d, n)
      /\ Told(ds)
      /\ \A d \in ds : d.here => Heir(d, cs)
  BY DEF Traffic, Told, Heir
<1> QED
  BY <1>1, Fewer

LEMMA Orphaned ==
    ASSUME NEW cs, NEW n, Traffic(cs, n), NEW ds \in SUBSET cs
    PROVE  /\ Traffic(Orphans(ds), n)
           /\ \A d \in Orphans(ds) : TypedCall(d, n) /\ ~ d.here
<1>1. ASSUME NEW d \in Orphans(ds)
      PROVE  TypedCall(d, n) /\ ~ d.here
  <2>1. PICK c \in ds : d = [c EXCEPT !.here = FALSE]
    BY DEF Orphans
  <2>2. TypedCall(c, n)
    BY DEF Traffic
  <2>3. /\ IsCall(d) /\ ~ d.here /\ d.id = c.id /\ d.bearer = c.bearer /\ d.out = c.out
        /\ d.op = c.op /\ d.arg = c.arg /\ d.got = c.got
    BY <2>1, <2>2 DEF TypedCall, IsCall
  <2> QED
    BY <2>2, <2>3 DEF TypedCall
<1>2. Told(Orphans(ds))
  BY <1>1 DEF Told
<1> QED
  BY <1>1, <1>2, Fewer

-----------------------------------------------------------------------------
(* Types: the steps of the calls *)

\* A call is sent, among others that were under way.
LEMMA Sent ==
    ASSUME NEW cs, Traffic(cs, sent), token \in Session,
           NEW p, NEW op, NEW arg, Send(cs, p, op, arg), ArgTyped(op, arg)
    PROVE  \E e : /\ calls' = cs \cup {e} /\ e.id = sent' /\ e.op = op /\ e.here
                  /\ sent' = sent + 1 /\ sent \in Nat
                  /\ \A d \in calls' : TypedCall(d, sent')
                  /\ Told(calls')
<1>1. PICK e : /\ calls' = cs \cup {e}
               /\ IsCall(e) /\ e.op = op /\ e.arg = arg /\ e.bearer = token
               /\ e.here /\ e.out = "sent" /\ e.id = sent + 1 /\ sent' = sent + 1
  BY SendFacts
<1>2. sent \in Nat /\ \A d \in cs : TypedCall(d, sent)
  BY DEF Traffic
<1>3. TypedCall(e, sent')
  BY <1>1, <1>2 DEF TypedCall, GotTyped, Outcomes
<1>4. 1 .. sent \subseteq 1 .. sent'
  BY <1>1, <1>2
<1>5. ASSUME NEW d \in cs
      PROVE  TypedCall(d, sent') /\ d.id # e.id
  <2>1. TypedCall(d, sent)
    BY <1>2
  <2> QED
    BY <1>1, <1>2, <1>4, <2>1 DEF TypedCall, GotTyped
<1>6. Told(calls')
  <2>1. Told(cs)
    BY DEF Traffic
  <2> QED
    BY <1>1, <1>5, <2>1 DEF Told
<1> QED
  BY <1>1, <1>2, <1>3, <1>5, <1>6

\* The user makes a call.
LEMMA UserSends ==
    ASSUME NEW cs, Traffic(cs, sent), token \in Session,
           NEW p, NEW op, NEW arg, Send(cs, p, op, arg), ArgTyped(op, arg), sent < MaxCalls
    PROVE  Traffic(calls, sent)'
<1>1. /\ sent' = sent + 1 /\ sent \in Nat /\ Told(calls')
      /\ \A d \in calls' : TypedCall(d, sent')
  BY Sent
<1>2. sent' \in Nat \ {0}
  BY <1>1
<1>3. /\ Cardinality(Late(calls')) \in Nat /\ Cardinality(Late(calls')) <= sent'
      /\ Cardinality(Saving(calls')) \in Nat /\ Cardinality(Saving(calls')) <= sent'
  BY <1>1, <1>2, Within, Counts
<1>4. sent' + Cardinality(Late(calls')) + Cardinality(Saving(calls')) <= 3 * MaxCalls
  BY <1>1, <1>3, PageAssumption
<1> QED
  BY <1>1, <1>2, <1>4 DEF Traffic

\* A row is saved, and the list asked for again.
LEMMA ListSends ==
    ASSUME Traffic(calls, sent), token \in Session, NEW c \in calls, c.here, c.op \in Saves,
           NEW p, NEW arg \in Filters, Send(Rest(c), p, "list", arg)
    PROVE  Traffic(calls, sent)'
<1>1. Traffic(Rest(c), sent)
  BY Some DEF Rest
<1>2. ArgTyped("list", arg)
  BY DEF ArgTyped
<1>3. PICK e : /\ calls' = Rest(c) \cup {e} /\ e.id = sent' /\ e.op = "list" /\ e.here
               /\ sent' = sent + 1 /\ sent \in Nat
               /\ \A d \in calls' : TypedCall(d, sent')
               /\ Told(calls')
  BY <1>1, <1>2, Sent
<1>4. \A d \in calls : d.here /\ d.id = c.id => d = c
  BY DEF Traffic, Told
<1>5. Late(calls') \subseteq (Late(calls) \ {c.id}) \cup {sent'}
  BY <1>3, <1>4 DEF Late, Rest
<1>6. Saving(calls') \subseteq Saving(calls) \ {c.id}
  BY <1>3, <1>4 DEF Saving, Rest, Saves
<1>7. c.id \in Late(calls) /\ c.id \in Saving(calls)
  BY DEF Late, Saving, Saves, ToLogin
<1>8. /\ Late(calls) \in SUBSET (1 .. sent) /\ Saving(calls) \in SUBSET (1 .. sent)
      /\ Late(calls') \in SUBSET (1 .. sent') /\ Saving(calls') \in SUBSET (1 .. sent')
      /\ sent' \in Nat
  BY <1>3, Within DEF Traffic
<1>9. /\ Cardinality(Late(calls')) <= Cardinality(Late(calls))
      /\ Cardinality(Saving(calls')) <= Cardinality(Saving(calls)) - 1
  BY <1>3, <1>5, <1>6, <1>7, <1>8, Swapped
<1>10. /\ Cardinality(Late(calls)) \in Nat /\ Cardinality(Saving(calls)) \in Nat
       /\ Cardinality(Late(calls')) \in Nat /\ Cardinality(Saving(calls')) \in Nat
  BY <1>3, <1>8, Counts
<1>11. sent + Cardinality(Late(calls)) + Cardinality(Saving(calls)) <= 3 * MaxCalls
  BY DEF Traffic
<1>12. sent' + Cardinality(Late(calls')) + Cardinality(Saving(calls')) <= 3 * MaxCalls
  BY <1>3, <1>9, <1>10, <1>11, PageAssumption
<1> QED
  BY <1>3, <1>12 DEF Traffic

\* The session is gone, and a captcha asked for.
LEMMA CodeSends ==
    ASSUME Traffic(calls, sent), token \in Session, NEW c \in calls, c.here,
           c.op \notin ToLogin, NEW p, NEW arg, Send(Orphans(Rest(c)), p, "code", arg)
    PROVE  Traffic(calls, sent)'
<1>1. /\ Traffic(Orphans(Rest(c)), sent)
      /\ \A d \in Orphans(Rest(c)) : ~ d.here
  BY Orphaned DEF Rest
<1>2. ArgTyped("code", arg)
  BY DEF ArgTyped
<1>3. PICK e : /\ calls' = Orphans(Rest(c)) \cup {e} /\ e.op = "code"
               /\ sent' = sent + 1 /\ sent \in Nat
               /\ \A d \in calls' : TypedCall(d, sent')
               /\ Told(calls')
  BY <1>1, <1>2, Sent
<1>4. Late(calls') = {} /\ Saving(calls') = {}
  BY <1>1, <1>3 DEF Late, Saving, Saves, ToLogin
<1>5. c.id \in Late(calls)
  BY DEF Late
<1>6. Late(calls) \in SUBSET (1 .. sent) /\ Saving(calls) \in SUBSET (1 .. sent)
  BY <1>3, Within DEF Traffic
<1>7. /\ Cardinality({}) = 0
      /\ Cardinality(Late(calls)) \in Nat /\ Cardinality(Saving(calls)) \in Nat
  BY <1>3, <1>6, Counts, FS_EmptySet
<1>8. Cardinality(Late(calls)) >= 1
  <2>1. {} \subseteq Late(calls) \ {c.id}
    OBVIOUS
  <2>2. Cardinality({}) <= Cardinality(Late(calls)) - 1
    BY <1>3, <1>5, <1>6, <2>1, Swapped
  <2> QED
    BY <1>7, <2>2
<1>9. sent + Cardinality(Late(calls)) + Cardinality(Saving(calls)) <= 3 * MaxCalls
  BY DEF Traffic
<1>10. sent' + Cardinality(Late(calls')) + Cardinality(Saving(calls')) <= 3 * MaxCalls
  <2>1. Cardinality(Late(calls')) = 0 /\ Cardinality(Saving(calls')) = 0
    BY <1>4, <1>7
  <2> QED
    BY <1>3, <1>7, <1>8, <1>9, <2>1, PageAssumption
<1> QED
  BY <1>3, <1>10 DEF Traffic

LEMMA AnsweredTraffic ==
    ASSUME Traffic(calls, sent), NEW c \in calls, NEW out \in Outcomes, NEW got,
           Answered(c, out, got), GotTyped(c.op, out, got, sent), UNCHANGED sent
    PROVE  Traffic(calls, sent)'
<1>1. TypedCall(c, sent) /\ Told(calls)
  BY DEF Traffic
<1>2. PICK e : /\ calls' = (calls \ {c}) \cup {e}
               /\ IsCall(e) /\ e.op = c.op /\ e.arg = c.arg /\ e.bearer = c.bearer
               /\ e.here = c.here /\ e.out = out /\ e.got = got /\ e.id = c.id
  BY <1>1, AnsweredFacts DEF TypedCall
<1>3. TypedCall(e, sent)
  BY <1>1, <1>2 DEF TypedCall
<1>4. \A d \in calls' : TypedCall(d, sent)
  BY <1>2, <1>3 DEF Traffic
<1>5. Told(calls')
  BY <1>1, <1>2 DEF Told
<1>6. \A d \in calls' : d.here => Heir(d, calls)
  BY <1>2 DEF Heir
<1>7. Traffic(calls', sent)
  BY <1>4, <1>5, <1>6, Fewer
<1> QED
  BY <1>7

-----------------------------------------------------------------------------
(* Types: the actions *)

LEMMA SentIsId == ASSUME Traffic(calls, sent) PROVE 1 .. sent \subseteq Ids /\ sent \in Ids
<1>1. sent \in Nat \ {0} /\ \A c \in calls : TypedCall(c, sent)
  BY DEF Traffic
<1>2. /\ Cardinality(Late(calls)) \in Nat /\ Cardinality(Saving(calls)) \in Nat
      /\ sent + Cardinality(Late(calls)) + Cardinality(Saving(calls)) <= 3 * MaxCalls
  BY <1>1, Within, Counts DEF Traffic
<1>3. sent <= 3 * MaxCalls /\ 3 * MaxCalls \in Nat
  BY <1>1, <1>2, PageAssumption
<1> QED
  BY <1>1, <1>3 DEF Ids

LEMMA BlankScreen ==
    ASSUME Blank, at' \in Pages \cup {"login", "other"}, loading' \in BOOLEAN
    PROVE  Screen'
<1>1. /\ uuid' = 0 /\ logging' = FALSE /\ query' = "all" /\ asked' = "all"
      /\ list' = [of |-> "all", rows |-> {}]
      /\ visible' = FALSE /\ form' = [row |-> NoRow, data |-> "blank"] /\ opened' = NoRow
  BY DEF Blank, NoList
<1>2. "all" \in Filters
  BY DEF Filters
<1>3. list' \in [of : Filters, rows : SUBSET (Rows \X Data \X {0, 1})]
  BY <1>1, <1>2
<1>4. form' \in [row : Rows \cup {NoRow}, data : Data \cup {"blank"}]
  BY <1>1
<1> QED
  BY <1>1, <1>2, <1>3, <1>4 DEF Screen

LEMMA ScreenStays == ASSUME Screen, UNCHANGED page PROVE Screen'
BY DEF Screen, page, login, lists, dialog

LEMMA StoreStays ==
    ASSUME Store, UNCHANGED <<token, captchas, faults, table, flagged>>
    PROVE  Store'
BY DEF Store

LEMMA TypeUser == ASSUME TypeInv, User PROVE TypeInv'
<1>0. Screen /\ Store /\ Traffic(calls, sent) /\ token \in Session
  BY DEF TypeInv, Store
<1>1. UNCHANGED <<token, captchas, faults, table, flagged>>
  BY DEF User, Visit, VisitOther, Ask, GetCode, HandleLogin, TypeQuery, HandleQuery,
     HandleDelete, AddOrUpdateHandle, TypeForm, SubmitForm, Cancel
<1>2. Store'
  BY <1>0, <1>1, StoreStays
<1>3. ASSUME NEW p, NEW op, NEW arg, Send(calls, p, op, arg), ArgTyped(op, arg), MayCall
      PROVE  Traffic(calls, sent)'
  BY <1>0, <1>3, UserSends DEF MayCall
<1>4. ASSUME UNCHANGED <<calls, sent>>
      PROVE  Traffic(calls, sent)'
  BY <1>0, <1>4
<1>5. ASSUME NEW p \in Pages \cup {"login"}, Visit(p) PROVE TypeInv'
  <2>1. /\ Blank /\ at' = p /\ loading' \in BOOLEAN
        /\ Send(Orphans(calls), p, IF p = "login" THEN "code" ELSE "list", "all")
        /\ sent < MaxCalls
    BY <1>5 DEF Visit, Load, MayCall
  <2>2. Traffic(Orphans(calls), sent)
    BY <1>0, Orphaned
  <2>3. ArgTyped(IF p = "login" THEN "code" ELSE "list", "all")
    BY DEF ArgTyped, Filters
  <2>4. Traffic(calls, sent)'
    BY <1>0, <2>1, <2>2, <2>3, UserSends
  <2>5. Screen'
    BY <2>1, BlankScreen
  <2> QED
    BY <1>2, <2>4, <2>5 DEF TypeInv
<1>6. CASE VisitOther
  <2>1. at' = "other" /\ Blank /\ loading' = FALSE /\ calls' = Orphans(calls) /\ sent' = sent
    BY <1>6 DEF VisitOther
  <2>2. Traffic(calls', sent)
    BY <1>0, <2>1, Orphaned
  <2>3. Traffic(calls, sent)'
    BY <2>1, <2>2
  <2>4. Screen'
    BY <2>1, BlankScreen
  <2> QED
    BY <1>2, <2>3, <2>4 DEF TypeInv
<1>7. ASSUME NEW q \in Requests, Ask(q) PROVE TypeInv'
  <2>1. UNCHANGED page /\ sent < MaxCalls
    BY <1>7 DEF Ask, MayCall
  <2>2. PICK e : calls' = {e} /\ e = Request("other", "other", q, "all", token) /\ sent' = sent + 1
    BY <1>7 DEF Ask
  <2>3. /\ IsCall(e) /\ e.id = sent + 1 /\ e.op = "other" /\ e.bearer = token /\ e.out = "sent"
    BY <2>2 DEF Request, IsCall
  <2>4. sent \in Nat
    BY <1>0 DEF Traffic
  <2>5. TypedCall(e, sent')
    BY <1>0, <2>2, <2>3, <2>4 DEF TypedCall, ArgTyped, GotTyped, Outcomes, ToLogin
  <2>6. /\ sent' \in Nat \ {0} /\ sent' <= MaxCalls
        /\ \A d \in calls' : TypedCall(d, sent')
        /\ Told(calls')
    BY <2>1, <2>2, <2>4, <2>5, PageAssumption DEF Told
  <2>7. /\ Cardinality(Late(calls')) \in Nat /\ Cardinality(Late(calls')) <= sent'
        /\ Cardinality(Saving(calls')) \in Nat /\ Cardinality(Saving(calls')) <= sent'
    BY <2>6, Within, Counts
  <2>8. sent' + Cardinality(Late(calls')) + Cardinality(Saving(calls')) <= 3 * MaxCalls
    BY <2>6, <2>7, PageAssumption
  <2>9. Traffic(calls, sent)'
    BY <2>6, <2>8 DEF Traffic
  <2> QED
    BY <1>0, <1>2, <2>1, <2>9, ScreenStays DEF TypeInv
<1>8. CASE GetCode
  <2>1. ArgTyped("code", "all")
    BY DEF ArgTyped
  <2> QED
    BY <1>0, <1>2, <1>3, <1>8, <2>1, ScreenStays DEF TypeInv, GetCode
<1>9. ASSUME NEW right \in BOOLEAN, HandleLogin(right) PROVE TypeInv'
  <2>1. logging' = TRUE /\ UNCHANGED <<at, uuid, lists, dialog>>
    BY <1>9 DEF HandleLogin
  <2>2. Screen'
    BY <1>0, <2>1 DEF Screen, lists, dialog
  <2>3. \E arg : Send(calls, "login", "login", arg) /\ ArgTyped("login", arg) /\ MayCall
    BY <1>9 DEF HandleLogin, ArgTyped
  <2> QED
    BY <1>2, <1>3, <2>2, <2>3 DEF TypeInv
<1>10. ASSUME NEW f \in Filters, TypeQuery(f) PROVE TypeInv'
  <2>1. query' = f /\ UNCHANGED <<at, login, asked, list, loading, dialog, calls, sent>>
    BY <1>10 DEF TypeQuery
  <2>2. Screen'
    BY <1>0, <2>1 DEF Screen, login, dialog
  <2> QED
    BY <1>2, <1>4, <2>1, <2>2 DEF TypeInv
<1>11. CASE HandleQuery
  <2>1. /\ loading' = TRUE /\ asked' = query /\ UNCHANGED <<query, list, at, login, dialog>>
        /\ Send(calls, at, "list", query) /\ MayCall
    BY <1>11 DEF HandleQuery, GetList
  <2>2. query \in Filters
    BY <1>0 DEF Screen
  <2>3. Screen'
    BY <1>0, <2>1 DEF Screen, login, dialog
  <2>4. ArgTyped("list", query)
    BY <2>2 DEF ArgTyped
  <2> QED
    BY <1>2, <1>3, <2>1, <2>3, <2>4 DEF TypeInv
<1>12. ASSUME NEW r \in Rows, HandleDelete(r) PROVE TypeInv'
  <2>1. Send(calls, at, "delete", r) /\ MayCall /\ UNCHANGED page
    BY <1>12 DEF HandleDelete
  <2>2. ArgTyped("delete", r)
    BY DEF ArgTyped
  <2> QED
    BY <1>0, <1>2, <1>3, <2>1, <2>2, ScreenStays DEF TypeInv
<1>13. ASSUME NEW r \in Rows \cup {NoRow}, AddOrUpdateHandle(r) PROVE TypeInv'
  <2>1. /\ visible' = TRUE /\ opened' = r /\ form' = [row |-> r, data |-> "blank"]
        /\ UNCHANGED <<at, login, lists>>
        /\ IF r = NoRow THEN UNCHANGED <<calls, sent>>
           ELSE Send(calls, at, "info", r) /\ MayCall
    BY <1>13 DEF AddOrUpdateHandle
  <2>2. form' \in [row : Rows \cup {NoRow}, data : Data \cup {"blank"}]
    BY <2>1
  <2>3. Screen'
    BY <1>0, <2>1, <2>2 DEF Screen, login, lists
  <2>4. r # NoRow => ArgTyped("info", r)
    BY DEF ArgTyped
  <2>5. Traffic(calls, sent)'
    BY <1>3, <1>4, <2>1, <2>4
  <2> QED
    BY <1>2, <2>3, <2>5 DEF TypeInv
<1>14. ASSUME NEW d \in Data, TypeForm(d) PROVE TypeInv'
  <2>1. /\ form' = [form EXCEPT !.data = d]
        /\ UNCHANGED <<at, login, lists, visible, opened, calls, sent>>
    BY <1>14 DEF TypeForm
  <2>2. form' \in [row : Rows \cup {NoRow}, data : Data \cup {"blank"}]
    BY <1>0, <2>1 DEF Screen
  <2>3. Screen'
    BY <1>0, <2>1, <2>2 DEF Screen, login, lists
  <2> QED
    BY <1>2, <1>4, <2>1, <2>3 DEF TypeInv
<1>15. CASE SubmitForm
  <2>1. /\ form.data # "blank" /\ UNCHANGED page /\ MayCall
        /\ Send(calls, at, IF form.row = NoRow THEN "add" ELSE "update", form)
    BY <1>15 DEF SubmitForm
  <2>2. form.data \in Data
    BY <1>0, <2>1 DEF Screen
  <2>3. ArgTyped(IF form.row = NoRow THEN "add" ELSE "update", form)
    BY <2>2 DEF ArgTyped
  <2> QED
    BY <1>0, <1>2, <1>3, <2>1, <2>3, ScreenStays DEF TypeInv
<1>16. CASE Cancel
  <2>1. visible' = FALSE /\ UNCHANGED <<at, login, lists, form, opened, calls, sent>>
    BY <1>16 DEF Cancel
  <2>2. Screen'
    BY <1>0, <2>1 DEF Screen, login, lists
  <2> QED
    BY <1>2, <1>4, <2>1, <2>2 DEF TypeInv
<1> QED
  BY <1>5, <1>6, <1>7, <1>8, <1>9, <1>10, <1>11, <1>12, <1>13, <1>14, <1>15, <1>16 DEF User

LEMMA TypeServe ==
    ASSUME TypeInv, NEW c \in calls, Serve(c) \/ ServeFails(c)
    PROVE  TypeInv'
<1>0. /\ Screen /\ Store /\ Traffic(calls, sent) /\ TypedCall(c, sent)
      /\ captchas \in SUBSET Ids /\ table \in [Rows -> Data \cup {"gone"}]
      /\ flagged \in SUBSET Courses
  BY DEF TypeInv, Store, Traffic
<1>1. ASSUME NEW out \in Outcomes, NEW got, Answered(c, out, got),
             GotTyped(c.op, out, got, sent), UNCHANGED <<page, sent>>, Store'
      PROVE  TypeInv'
  <2>1. Traffic(calls, sent)'
    BY <1>0, <1>1, AnsweredTraffic
  <2> QED
    BY <1>0, <1>1, <2>1, ScreenStays DEF TypeInv
<1>2. ASSUME NEW op, NEW out \in Outcomes, NEW got, Reaches(c, op, out, got),
             GotTyped(op, out, got, sent), captchas' \in SUBSET Ids,
             table' \in [Rows -> Data \cup {"gone"}], flagged' \in SUBSET Courses
      PROVE  TypeInv'
  <2>1. Answered(c, out, got) /\ c.op = op /\ UNCHANGED <<page, token, sent, faults>>
    BY <1>2 DEF Reaches
  <2>2. Store'
    BY <1>0, <1>2, <2>1 DEF Store
  <2> QED
    BY <1>1, <1>2, <2>1, <2>2
<1>3. \A op : GotTyped(op, "failed", "nothing", sent) /\ GotTyped(op, "rejected", "nothing", sent)
  BY DEF GotTyped
<1>4. "failed" \in Outcomes /\ "rejected" \in Outcomes /\ "ok" \in Outcomes
      /\ "denied" \in Outcomes /\ "read" \in Outcomes
  BY DEF Outcomes
<1>5. CASE Refuse(c)
  <2>1. /\ Answered(c, IF Forbidden(c) THEN "rejected" ELSE "denied", "nothing")
        /\ UNCHANGED <<page, sent>> /\ UNCHANGED <<token, captchas, faults, table, flagged>>
    BY <1>5 DEF Refuse
  <2>2. Forbidden(c) \/ c.op \notin ToLogin
    BY <1>5 DEF Refuse, Authorized, ToLogin
  <2>3. Store'
    BY <1>0, <2>1, StoreStays
  <2>4. c.op \notin ToLogin => GotTyped(c.op, "denied", "nothing", sent)
    BY DEF GotTyped
  <2> QED
    BY <1>1, <1>3, <1>4, <2>1, <2>2, <2>3, <2>4
<1>6. CASE ServeUnknown(c)
  <2>1. /\ Answered(c, IF c.leads = {} THEN "rejected" ELSE "failed", "nothing")
        /\ UNCHANGED <<page, sent>> /\ UNCHANGED <<token, captchas, faults, table, flagged>>
    BY <1>6 DEF ServeUnknown
  <2>2. Store'
    BY <1>0, <2>1, StoreStays
  <2> QED
    BY <1>1, <1>3, <1>4, <2>1, <2>2
<1>7. CASE ServeCode(c)
  <2>1. /\ Reaches(c, "code", "ok", c.id) /\ captchas' = captchas \cup {c.id}
        /\ UNCHANGED <<table, flagged>>
    BY <1>7 DEF ServeCode
  <2>2. c.id \in 1 .. sent
    BY <1>0 DEF TypedCall
  <2>3. GotTyped("code", "ok", c.id, sent)
    BY <2>2 DEF GotTyped
  <2>4. captchas' \in SUBSET Ids
    BY <1>0, <2>1, <2>2, SentIsId
  <2> QED
    BY <1>0, <1>2, <1>4, <2>1, <2>3, <2>4
<1>8. CASE ReadCaptcha(c)
  <2>1. GotTyped("login", "read", c.arg.uuid \in captchas, sent)
    BY DEF GotTyped
  <2> QED
    BY <1>0, <1>2, <1>4, <1>8, <2>1 DEF ReadCaptcha
<1>9. CASE ServeLogin(c)
  <2>1. /\ c.op = "login" /\ captchas' = captchas \ {c.arg.uuid}
        /\ UNCHANGED <<page, sent>> /\ UNCHANGED <<token, faults, table, flagged>>
        /\ Answered(c, "ok", "live") \/ Answered(c, "failed", "nothing")
    BY <1>9 DEF ServeLogin
  <2>2. Store'
    BY <1>0, <2>1 DEF Store
  <2>3. GotTyped("login", "ok", "live", sent)
    BY DEF GotTyped
  <2> QED
    BY <1>1, <1>3, <1>4, <2>1, <2>2, <2>3
<1>10. CASE ServeList(c)
  <2>1. Answer(c.page, c.arg) \in SUBSET (Rows \X Data \X {0, 1})
    BY <1>0 DEF Answer, Existing, IsDelete
  <2>2. GotTyped("list", "ok", Answer(c.page, c.arg), sent)
    BY <2>1 DEF GotTyped
  <2>3. /\ Reaches(c, "list", "ok", Answer(c.page, c.arg))
        /\ UNCHANGED <<captchas, table, flagged>>
    BY <1>10 DEF ServeList
  <2> QED
    BY <1>0, <1>2, <1>4, <2>2, <2>3
<1>11. CASE ServeInfo(c)
  <2>1. Reaches(c, "info", "ok", table[c.arg]) /\ UNCHANGED <<captchas, table, flagged>>
    BY <1>11 DEF ServeInfo
  <2>2. c.op = "info"
    BY <2>1 DEF Reaches
  <2>3. table[c.arg] \in Data \cup {"gone"}
    BY <1>0, <2>2 DEF TypedCall, ArgTyped
  <2>4. GotTyped("info", "ok", table[c.arg], sent)
    BY <2>3 DEF GotTyped
  <2> QED
    BY <1>0, <1>2, <1>4, <2>1, <2>4
<1>12. \A op \in Saves \cup {"other"} : GotTyped(op, "ok", "nothing", sent)
  BY DEF GotTyped, Saves
<1>13. ASSUME NEW op \in Saves,
              Reaches(c, op, "ok", "nothing") \/ Reaches(c, op, "failed", "nothing"),
              UNCHANGED captchas, table' \in [Rows -> Data \cup {"gone"}],
              flagged' \in SUBSET Courses
       PROVE  TypeInv'
  BY <1>0, <1>2, <1>3, <1>4, <1>12, <1>13
<1>14. CASE ServeAdd(c)
  <2>1. /\ UNCHANGED <<captchas, flagged>> /\ c.op = "add"
        /\ Reaches(c, "add", "ok", "nothing") \/ Reaches(c, "add", "failed", "nothing")
        /\ UNCHANGED table \/ \E r : table' = [table EXCEPT ![r] = c.arg.data]
    BY <1>14 DEF ServeAdd, Reaches
  <2>2. c.arg.data \in Data
    BY <1>0, <2>1 DEF TypedCall, ArgTyped
  <2>3. table' \in [Rows -> Data \cup {"gone"}]
    BY <1>0, <2>1, <2>2
  <2> QED
    BY <1>0, <1>13, <2>1, <2>3 DEF Saves
<1>15. CASE ServeUpdate(c)
  <2>1. /\ UNCHANGED <<captchas, flagged>> /\ c.op = "update"
        /\ Reaches(c, "update", "ok", "nothing") \/ Reaches(c, "update", "failed", "nothing")
        /\ UNCHANGED table \/ table' = [table EXCEPT ![c.arg.row] = c.arg.data]
    BY <1>15 DEF ServeUpdate, Reaches
  <2>2. c.arg.data \in Data
    BY <1>0, <2>1 DEF TypedCall, ArgTyped
  <2>3. table' \in [Rows -> Data \cup {"gone"}]
    BY <1>0, <2>1, <2>2
  <2> QED
    BY <1>0, <1>13, <2>1, <2>3 DEF Saves
<1>16. CASE ServeDeleteCourse(c)
  <2>1. /\ UNCHANGED <<captchas, table>> /\ Reaches(c, "delete", "ok", "nothing")
        /\ flagged' = flagged \/ flagged' = Courses \cap Existing
    BY <1>16 DEF ServeDeleteCourse
  <2> QED
    BY <1>0, <1>13, <2>1 DEF Saves
<1>17. CASE ServeDeleteActivity(c)
  <2>1. /\ UNCHANGED <<captchas, flagged>>
        /\ Reaches(c, "delete", "ok", "nothing") \/ Reaches(c, "delete", "failed", "nothing")
        /\ UNCHANGED table \/ table' = [table EXCEPT ![c.arg] = "gone"]
    BY <1>17 DEF ServeDeleteActivity
  <2>2. table' \in [Rows -> Data \cup {"gone"}]
    BY <1>0, <2>1
  <2> QED
    BY <1>0, <1>13, <2>1, <2>2 DEF Saves
<1>18. CASE ServeOther(c)
  BY <1>0, <1>2, <1>4, <1>12, <1>18 DEF ServeOther
<1>19. CASE ServeFails(c)
  <2>1. /\ Answered(c, "failed", "nothing") /\ UNCHANGED <<page, sent>>
        /\ UNCHANGED <<token, captchas, table, flagged>> /\ faults < MaxFaults /\ faults' = faults + 1
    BY <1>19 DEF ServeFails
  <2>2. Store'
    BY <1>0, <2>1, PageAssumption DEF Store
  <2> QED
    BY <1>1, <1>3, <1>4, <2>1, <2>2
<1> QED
  BY <1>5, <1>6, <1>7, <1>8, <1>9, <1>10, <1>11, <1>14, <1>15, <1>16, <1>17, <1>18, <1>19 DEF Serve

LEMMA TypeHandled ==
    ASSUME Traffic(calls, sent), NEW c, Handled(c)
    PROVE  Traffic(calls, sent)'
<1>1. calls' = Rest(c) /\ sent' = sent /\ Rest(c) \in SUBSET calls
  BY DEF Handled, Rest
<1>2. Traffic(Rest(c), sent)
  BY <1>1, Some
<1> QED
  BY <1>1, <1>2

LEMMA TypeReceive == ASSUME TypeInv, NEW c \in calls, Receive(c) PROVE TypeInv'
<1>0. /\ Screen /\ Store /\ Traffic(calls, sent) /\ TypedCall(c, sent) /\ token \in Session
      /\ c.here /\ IsCall(c)
  BY DEF TypeInv, Store, Traffic, Receive, TypedCall
<1>1. Handled(c) => Traffic(calls, sent)'
  BY <1>0, TypeHandled
<1>2. CASE ReceiveDenied(c)
  <2>1. /\ Blank /\ at' = "login" /\ loading' \in BOOLEAN
        /\ Send(Orphans(Rest(c)), "login", "code", "all")
        /\ UNCHANGED <<token, captchas, faults, table, flagged>> /\ c.out = "denied"
    BY <1>2 DEF ReceiveDenied, Load
  <2>2. c.op \notin ToLogin
    BY <1>0, <2>1 DEF TypedCall, GotTyped
  <2>3. Traffic(calls, sent)'
    BY <1>0, <2>1, <2>2, CodeSends
  <2>4. Screen'
    BY <2>1, BlankScreen
  <2> QED
    BY <1>0, <2>1, <2>3, <2>4, StoreStays DEF TypeInv
<1>3. CASE ReceiveCode(c)
  <2>1. /\ UNCHANGED <<at, logging, lists, dialog>> /\ Handled(c)
        /\ UNCHANGED <<token, captchas, faults, table, flagged>>
        /\ uuid' \in {0, uuid} \/ (c.op = "code" /\ c.out = "ok" /\ uuid' = c.got)
    BY <1>3 DEF ReceiveCode
  <2>2. c.op = "code" /\ c.out = "ok" => c.got \in 1 .. sent
    BY <1>0 DEF TypedCall, GotTyped
  <2>3. uuid' \in Ids \cup {0}
    BY <1>0, <2>1, <2>2, SentIsId DEF Screen
  <2>4. Screen'
    BY <1>0, <2>1, <2>3 DEF Screen, lists, dialog
  <2> QED
    BY <1>0, <1>1, <2>1, <2>4, StoreStays DEF TypeInv
<1>4. CASE ReceiveLogin(c)
  <2>0. UNCHANGED <<captchas, faults, table, flagged>> /\ c.op = "login"
    BY <1>4 DEF ReceiveLogin
  <2>1. CASE /\ c.out = "ok" /\ token' = c.got /\ at' = "other" /\ Blank /\ loading' = FALSE
             /\ calls' = Orphans(Rest(c)) /\ UNCHANGED sent
    <3>1. token' \in Session
      BY <1>0, <2>0, <2>1 DEF TypedCall, GotTyped, Session
    <3>2. Traffic(calls', sent)
      BY <1>0, <2>1, Orphaned DEF Rest
    <3>3. Traffic(calls, sent)'
      BY <2>1, <3>2
    <3>4. Screen'
      BY <2>1, BlankScreen
    <3>5. Store'
      BY <1>0, <2>0, <3>1 DEF Store
    <3> QED
      BY <3>3, <3>4, <3>5 DEF TypeInv
  <2>2. CASE /\ logging' \in {FALSE, logging} /\ Handled(c)
             /\ UNCHANGED <<at, uuid, lists, dialog, token>>
    <3>1. Screen'
      BY <1>0, <2>2 DEF Screen, lists, dialog
    <3> QED
      BY <1>0, <1>1, <2>0, <2>2, <3>1, StoreStays DEF TypeInv
  <2> QED
    BY <1>4, <2>1, <2>2 DEF ReceiveLogin, page, login
<1>5. CASE ReceiveList(c)
  <2>1. /\ loading' = FALSE /\ Handled(c) /\ c.op = "list"
        /\ UNCHANGED <<at, login, query, asked, dialog>>
        /\ UNCHANGED <<token, captchas, faults, table, flagged>>
    BY <1>5 DEF ReceiveList
  <2>2. c.arg \in Filters /\ (c.out = "ok" => c.got \in SUBSET (Rows \X Data \X {0, 1}))
    BY <1>0, <2>1 DEF TypedCall, ArgTyped, GotTyped
  <2>3. \/ c.out = "ok" /\ list' = [of |-> c.arg, rows |-> c.got]
        \/ list' = [of |-> c.arg, rows |-> {}]
        \/ list' = list
    BY <1>5 DEF ReceiveList
  <2>4. list \in [of : Filters, rows : SUBSET (Rows \X Data \X {0, 1})]
    BY <1>0 DEF Screen
  <2>5. list' \in [of : Filters, rows : SUBSET (Rows \X Data \X {0, 1})]
    BY <2>2, <2>3, <2>4
  <2>6. Screen'
    BY <1>0, <2>1, <2>5 DEF Screen, login, dialog
  <2> QED
    BY <1>0, <1>1, <2>1, <2>6, StoreStays DEF TypeInv
<1>6. CASE ReceiveInfo(c)
  <2>1. /\ Handled(c) /\ c.op = "info" /\ UNCHANGED <<at, login, lists, visible, opened>>
        /\ UNCHANGED <<token, captchas, faults, table, flagged>>
        /\ form' = IF c.out = "ok" /\ c.got # "gone" THEN [row |-> c.arg, data |-> c.got]
                   ELSE form
    BY <1>6 DEF ReceiveInfo
  <2>2. c.arg \in Rows /\ (c.out = "ok" => c.got \in Data \cup {"gone"})
    BY <1>0, <2>1 DEF TypedCall, ArgTyped, GotTyped
  <2>3. form' \in [row : Rows \cup {NoRow}, data : Data \cup {"blank"}]
    BY <1>0, <2>1, <2>2 DEF Screen
  <2>4. Screen'
    BY <1>0, <2>1, <2>3 DEF Screen, login, lists
  <2> QED
    BY <1>0, <1>1, <2>1, <2>4, StoreStays DEF TypeInv
<1>7. ASSUME GetList(Rest(c)), c.op \in Saves, visible' \in BOOLEAN,
             UNCHANGED <<at, login, form, opened>>,
             UNCHANGED <<token, captchas, faults, table, flagged>>
      PROVE  TypeInv'
  <2>1. /\ loading' = TRUE /\ asked' = query /\ UNCHANGED <<query, list>>
        /\ Send(Rest(c), at, "list", query)
    BY <1>7 DEF GetList
  <2>2. query \in Filters
    BY <1>0 DEF Screen
  <2>3. Traffic(calls, sent)'
    BY <1>0, <1>7, <2>1, <2>2, ListSends
  <2>4. Screen'
    BY <1>0, <1>7, <2>1 DEF Screen, login
  <2> QED
    BY <1>0, <1>7, <2>3, <2>4, StoreStays DEF TypeInv
<1>8. CASE ReceiveSaved(c)
  <2>1. /\ c.op \in Saves /\ UNCHANGED <<at, login, form, opened>>
        /\ UNCHANGED <<token, captchas, faults, table, flagged>>
        /\ visible' \in {FALSE, visible}
        /\ GetList(Rest(c)) \/ (Handled(c) /\ UNCHANGED lists)
    BY <1>8 DEF ReceiveSaved, Saves
  <2>2. visible' \in BOOLEAN
    BY <1>0, <2>1 DEF Screen
  <2>3. CASE Handled(c) /\ UNCHANGED lists
    <3>1. Screen'
      BY <1>0, <2>1, <2>2, <2>3 DEF Screen, login, lists
    <3> QED
      BY <1>0, <1>1, <2>1, <2>3, <3>1, StoreStays DEF TypeInv
  <2> QED
    BY <1>7, <2>1, <2>2, <2>3
<1>9. CASE ReceiveDeleted(c)
  <2>1. /\ c.op \in Saves /\ UNCHANGED <<at, login, dialog>>
        /\ UNCHANGED <<token, captchas, faults, table, flagged>>
        /\ GetList(Rest(c)) \/ (Handled(c) /\ UNCHANGED lists)
    BY <1>9 DEF ReceiveDeleted, Saves
  <2>2. visible' \in BOOLEAN /\ UNCHANGED <<form, opened>>
    BY <1>0, <2>1 DEF Screen, dialog
  <2>3. CASE Handled(c) /\ UNCHANGED lists
    <3>1. Screen'
      BY <1>0, <2>1, <2>3, ScreenStays DEF page
    <3> QED
      BY <1>0, <1>1, <2>1, <2>3, <3>1, StoreStays DEF TypeInv
  <2> QED
    BY <1>7, <2>1, <2>2, <2>3
<1>10. CASE ReceiveOther(c)
  BY <1>0, <1>1, <1>10, ScreenStays, StoreStays DEF ReceiveOther, TypeInv
<1> QED
  BY <1>2, <1>3, <1>4, <1>5, <1>6, <1>8, <1>9, <1>10 DEF Receive

LEMMA TypeTimeOut == ASSUME TypeInv, NEW c \in calls, TimeOut(c) PROVE TypeInv'
<1>0. /\ Screen /\ Store /\ Traffic(calls, sent) /\ TypedCall(c, sent) /\ Told(calls)
  BY DEF TypeInv, Traffic
<1>1. /\ calls' = Rest(c) \cup {[c EXCEPT !.out = "rejected"]} \cup Orphans({c})
      /\ UNCHANGED page /\ UNCHANGED <<token, captchas, table, flagged>> /\ sent' = sent
      /\ faults < MaxFaults /\ faults' = faults + 1
  BY DEF TimeOut
<1>2. PICK e : e = [c EXCEPT !.out = "rejected"]
  OBVIOUS
<1>3. /\ IsCall(e) /\ e.id = c.id /\ e.op = c.op /\ e.arg = c.arg /\ e.bearer = c.bearer
      /\ e.here = c.here /\ e.out = "rejected" /\ e.got = c.got
  BY <1>0, <1>2 DEF TypedCall, IsCall
<1>4. TypedCall(e, sent)
  BY <1>0, <1>3 DEF TypedCall, GotTyped, Outcomes
<1>5. \A d \in Orphans({c}) : TypedCall(d, sent) /\ ~ d.here
  BY <1>0, Orphaned
<1>6. calls' = Rest(c) \cup {e} \cup Orphans({c})
  BY <1>1, <1>2
<1>7. \A d \in calls' : TypedCall(d, sent)
  BY <1>0, <1>4, <1>5, <1>6 DEF Traffic, Rest
<1>8. Told(calls')
  BY <1>0, <1>3, <1>5, <1>6 DEF Told, Rest
<1>9. \A d \in calls' : d.here => Heir(d, calls)
  BY <1>3, <1>5, <1>6 DEF Heir, Rest
<1>10. Traffic(calls', sent)
  BY <1>0, <1>7, <1>8, <1>9, Fewer
<1>11. Traffic(calls, sent)'
  BY <1>1, <1>10
<1>12. Store'
  BY <1>0, <1>1, PageAssumption DEF Store
<1> QED
  BY <1>0, <1>1, <1>11, <1>12, ScreenStays DEF TypeInv

LEMMA TypeExpire == ASSUME TypeInv, Expire PROVE TypeInv'
<1>0. /\ Screen /\ Store /\ Traffic(calls, sent) /\ Told(calls)
      /\ \A c \in calls : TypedCall(c, sent)
  BY DEF TypeInv, Traffic
<1> DEFINE dead(d) == [d EXCEPT !.bearer = IF @ = "live" THEN "dead" ELSE @]
<1>1. /\ calls' = {dead(c) : c \in calls}
      /\ UNCHANGED page /\ UNCHANGED <<captchas, faults, table, flagged>> /\ sent' = sent
      /\ token' = "dead"
  BY DEF Expire
<1>2. ASSUME NEW c \in calls
      PROVE  /\ TypedCall(dead(c), sent) /\ dead(c).id = c.id /\ dead(c).op = c.op
             /\ dead(c).here = c.here
  <2>1. PICK e : e = dead(c)
    OBVIOUS
  <2>2. /\ IsCall(e) /\ e.id = c.id /\ e.op = c.op /\ e.arg = c.arg
        /\ e.bearer \in {"dead", c.bearer}
        /\ e.here = c.here /\ e.out = c.out /\ e.got = c.got
    BY <1>0, <2>1 DEF TypedCall, IsCall
  <2>3. TypedCall(c, sent)
    BY <1>0
  <2> HIDE DEF dead
  <2>4. TypedCall(e, sent)
    BY <2>2, <2>3 DEF TypedCall, Session
  <2> QED
    BY <2>1, <2>2, <2>4
<1> HIDE DEF dead
<1>3. \A d \in calls' : TypedCall(d, sent) /\ (d.here => Heir(d, calls))
  BY <1>1, <1>2 DEF Heir
<1>4. Told(calls')
  <2>1. ASSUME NEW d \in calls', NEW e \in calls', d.here, e.here, d.id = e.id
        PROVE  d = e
    <3>1. PICK c \in calls, f \in calls : d = dead(c) /\ e = dead(f)
      BY <1>1
    <3>2. c.here /\ f.here /\ c.id = f.id
      BY <1>2, <2>1, <3>1
    <3>3. c = f
      BY <1>0, <3>2 DEF Told
    <3> QED
      BY <3>1, <3>3
  <2> QED
    BY <2>1 DEF Told
<1>5. Traffic(calls', sent)
  BY <1>0, <1>3, <1>4, Fewer
<1>6. Traffic(calls, sent)'
  BY <1>1, <1>5
<1>7. Store'
  BY <1>0, <1>1 DEF Store, Session
<1> QED
  BY <1>0, <1>1, <1>6, <1>7, ScreenStays DEF TypeInv

LEMMA TypeInit == Init => TypeInv
<1> SUFFICES ASSUME Init PROVE TypeInv
  OBVIOUS
<1>1. PICK c : /\ calls = {[c EXCEPT !.id = 1]}
               /\ c = Request("login", "code", Function["login"]["code"], "all", token)
  BY DEF Init
<1>2. PICK i, l, m : c = [id |-> i, page |-> "login", op |-> "code", leads |-> l, meant |-> m, arg |-> "all",
                          bearer |-> token, here |-> TRUE, out |-> "sent", got |-> "nothing"]
  BY <1>1 DEF Request
<1>3. PICK e : calls = {e} /\ e = [c EXCEPT !.id = 1]
  BY <1>1
<1>4. /\ IsCall(e) /\ e.id = 1 /\ e.op = "code" /\ e.bearer = token /\ e.out = "sent"
  BY <1>2, <1>3 DEF IsCall
<1>5. sent = 1 /\ token \in Session
  BY DEF Init
<1>6. TypedCall(e, sent)
  BY <1>4, <1>5 DEF TypedCall, ArgTyped, GotTyped, Outcomes
<1>7. Told(calls) /\ Late(calls) = {} /\ Saving(calls) = {}
  BY <1>3, <1>4 DEF Told, Late, Saving, ToLogin, Saves
<1>8. Traffic(calls, sent)
  <2>1. Cardinality(Late(calls)) = 0 /\ Cardinality(Saving(calls)) = 0
    BY <1>7, FS_EmptySet
  <2>2. sent + 0 + 0 <= 3 * MaxCalls
    BY <1>5, PageAssumption
  <2>3. \A d \in calls : TypedCall(d, sent)
    BY <1>3, <1>6
  <2> QED
    BY <1>5, <1>7, <2>1, <2>2, <2>3 DEF Traffic
<1>9. Screen
  <2>1. NoList \in [of : Filters, rows : SUBSET (Rows \X Data \X {0, 1})] /\ "all" \in Filters
    BY DEF NoList, Filters
  <2>2. [row |-> NoRow, data |-> "blank"] \in [row : Rows \cup {NoRow}, data : Data \cup {"blank"}]
    OBVIOUS
  <2> QED
    BY <2>1, <2>2 DEF Init, Screen
<1>10. Store
  BY PageAssumption DEF Init, Store
<1> QED
  BY <1>8, <1>9, <1>10 DEF TypeInv

LEMMA TypeStep == TypeInv /\ [Next]_vars => TypeInv'
<1> SUFFICES ASSUME TypeInv, [Next]_vars PROVE TypeInv'
  OBVIOUS
<1>0. Screen /\ Store /\ Traffic(calls, sent)
  BY DEF TypeInv
<1>1. ASSUME NEW c \in calls, Drop(c) PROVE TypeInv'
  <2>1. Traffic(calls, sent)'
    BY <1>0, <1>1, TypeHandled DEF Drop
  <2> QED
    BY <1>0, <1>1, <2>1, ScreenStays, StoreStays DEF Drop, TypeInv
<1>2. ASSUME NEW u \in captchas, ExpireCaptcha(u) PROVE TypeInv'
  <2>1. UNCHANGED page /\ UNCHANGED <<calls, sent>> /\ Store'
    BY <1>0, <1>2 DEF ExpireCaptcha, Store
  <2>2. Traffic(calls, sent)'
    BY <1>0, <2>1
  <2> QED
    BY <1>0, <2>1, <2>2, ScreenStays DEF TypeInv
<1>3. CASE UNCHANGED vars
  <2>1. UNCHANGED page /\ UNCHANGED <<token, captchas, faults, table, flagged>> /\ UNCHANGED <<calls, sent>>
    BY <1>3 DEF vars
  <2>2. Traffic(calls, sent)'
    BY <1>0, <2>1
  <2> QED
    BY <1>0, <2>1, <2>2, ScreenStays, StoreStays DEF TypeInv
<1> QED
  BY <1>1, <1>2, <1>3, TypeUser, TypeServe, TypeReceive, TypeTimeOut, TypeExpire
     DEF Next, Network

-----------------------------------------------------------------------------
(* Calls end.  A call that is sent has three steps to go: into the handler of *)
(* a login, to its answer, and back to the page; one that was read has two.   *)
(* To these comes what may still be sent, and what each fault may leave.      *)

OfOut(cs, out) == {c \in cs : c.out = out}

Weight(cs) ==
    2 * Cardinality(OfOut(cs, "sent")) + Cardinality(OfOut(cs, "read")) + Cardinality(cs)

Steps(out) == IF out = "sent" THEN 3 ELSE IF out = "read" THEN 2 ELSE 1

ToCome == 3 * (3 * MaxCalls - sent) + Weight(calls) + 2 * (MaxFaults - faults)

LEMMA FunctionImage ==
    ASSUME NEW S, IsFiniteSet(S), NEW f, f = [x \in S |-> f[x]],
           NEW T \in SUBSET {f[x] : x \in S}
    PROVE  /\ IsFiniteSet(T) /\ Cardinality(T) \in Nat
           /\ Cardinality(T) <= Cardinality(S) /\ Cardinality(S) \in Nat
<1> DEFINE I == {f[x] : x \in S}
<1>1. f \in Surjection(S, I)
  BY DEF Surjection
<1>2. IsFiniteSet(I) /\ Cardinality(I) <= Cardinality(S)
  BY <1>1, FS_Surjection
<1>3. IsFiniteSet(T) /\ Cardinality(T) <= Cardinality(I)
  BY <1>2, FS_Subset
<1> HIDE DEF I
<1> QED
  BY <1>2, <1>3, FS_CardinalityType

LEMMA WeightType ==
    ASSUME NEW cs, IsFiniteSet(cs)
    PROVE  /\ Weight(cs) \in Nat /\ Cardinality(cs) \in Nat
           /\ \A out : IsFiniteSet(OfOut(cs, out)) /\ Cardinality(OfOut(cs, out)) \in Nat
<1>1. \A out : IsFiniteSet(OfOut(cs, out)) /\ Cardinality(OfOut(cs, out)) \in Nat
  BY FS_Subset, FS_CardinalityType DEF OfOut
<1>2. Cardinality(cs) \in Nat
  BY FS_CardinalityType
<1> QED
  BY <1>1, <1>2 DEF Weight

\* What three counts say of the weight.
LEMMA WeightOrder ==
    ASSUME NEW cs, IsFiniteSet(cs), NEW ds, IsFiniteSet(ds),
           NEW i \in Int, NEW j \in Int, NEW k \in Int,
           Cardinality(OfOut(ds, "sent")) <= Cardinality(OfOut(cs, "sent")) + i,
           Cardinality(OfOut(ds, "read")) <= Cardinality(OfOut(cs, "read")) + j,
           Cardinality(ds) <= Cardinality(cs) + k
    PROVE  Weight(ds) <= Weight(cs) + 2 * i + j + k
<1>1. /\ Cardinality(OfOut(cs, "sent")) \in Nat /\ Cardinality(OfOut(cs, "read")) \in Nat
      /\ Cardinality(cs) \in Nat
      /\ Cardinality(OfOut(ds, "sent")) \in Nat /\ Cardinality(OfOut(ds, "read")) \in Nat
      /\ Cardinality(ds) \in Nat
  BY WeightType
<1> QED
  BY <1>1 DEF Weight

LEMMA WeightOfSome ==
    ASSUME NEW cs, IsFiniteSet(cs), NEW ds \in SUBSET cs
    PROVE  IsFiniteSet(ds) /\ Weight(ds) <= Weight(cs)
<1>1. IsFiniteSet(ds) /\ Cardinality(ds) <= Cardinality(cs)
  BY FS_Subset
<1>2. \A out : Cardinality(OfOut(ds, out)) <= Cardinality(OfOut(cs, out))
  BY WeightType, FS_Subset DEF OfOut
<1>3. Weight(ds) \in Nat /\ Weight(cs) \in Nat
  BY <1>1, WeightType
<1>4. \A out : /\ Cardinality(OfOut(cs, out)) \in Nat
               /\ Cardinality(OfOut(ds, out)) <= Cardinality(OfOut(cs, out)) + 0
  BY <1>1, <1>2, WeightType
<1>5. Cardinality(cs) \in Nat /\ Cardinality(ds) <= Cardinality(cs) + 0
  BY <1>1, WeightType
<1>6. Weight(ds) <= Weight(cs) + 2 * 0 + 0 + 0
  BY <1>1, <1>4, <1>5, WeightOrder
<1> QED
  BY <1>1, <1>3, <1>6

\* The images of calls under a function that leaves alone what has become of them.
LEMMA WeightOfImage ==
    ASSUME NEW cs, IsFiniteSet(cs), NEW f, f = [c \in cs |-> f[c]],
           \A c \in cs : f[c].out = c.out, NEW ds, ds = {f[c] : c \in cs}
    PROVE  IsFiniteSet(ds) /\ Weight(ds) <= Weight(cs)
<1>1. /\ IsFiniteSet(ds) /\ Cardinality(ds) \in Nat /\ Cardinality(cs) \in Nat
      /\ Cardinality(ds) <= Cardinality(cs)
  BY FunctionImage
<1>2. ASSUME NEW out
      PROVE  /\ Cardinality(OfOut(ds, out)) \in Nat /\ Cardinality(OfOut(cs, out)) \in Nat
             /\ Cardinality(OfOut(ds, out)) <= Cardinality(OfOut(cs, out))
  <2> DEFINE S == OfOut(cs, out)
             g == [c \in S |-> f[c]]
  <2>1. IsFiniteSet(S)
    BY WeightType
  <2>2. OfOut(ds, out) \subseteq {g[c] : c \in S}
    BY DEF OfOut
  <2>3. g = [c \in S |-> g[c]]
    OBVIOUS
  <2> HIDE DEF g
  <2> QED
    BY <2>1, <2>2, <2>3, FunctionImage
<1>3. Weight(ds) \in Nat /\ Weight(cs) \in Nat
  BY <1>1, WeightType
<1>4. /\ Cardinality(OfOut(ds, "sent")) <= Cardinality(OfOut(cs, "sent")) + 0
      /\ Cardinality(OfOut(ds, "read")) <= Cardinality(OfOut(cs, "read")) + 0
      /\ Cardinality(ds) <= Cardinality(cs) + 0
  BY <1>1, <1>2
<1>5. Weight(ds) <= Weight(cs) + 2 * 0 + 0 + 0
  BY <1>1, <1>4, WeightOrder
<1> QED
  BY <1>1, <1>3, <1>5

LEMMA WeightWithout ==
    ASSUME NEW cs, IsFiniteSet(cs), NEW c \in cs
    PROVE  IsFiniteSet(cs \ {c}) /\ Weight(cs \ {c}) = Weight(cs) - Steps(c.out)
<1> DEFINE ds == cs \ {c}
<1>1. /\ IsFiniteSet(ds) /\ Cardinality(ds) = Cardinality(cs) - 1
  BY FS_RemoveElement
<1>2. ASSUME NEW out
      PROVE  Cardinality(OfOut(ds, out)) = IF c.out = out THEN Cardinality(OfOut(cs, out)) - 1
                                           ELSE Cardinality(OfOut(cs, out))
  <2>1. OfOut(ds, out) = OfOut(cs, out) \ {c}
    BY DEF OfOut
  <2>2. c \in OfOut(cs, out) <=> c.out = out
    BY DEF OfOut
  <2>3. IsFiniteSet(OfOut(cs, out))
    BY WeightType
  <2>4. Cardinality(OfOut(cs, out) \ {c}) = IF c \in OfOut(cs, out)
           THEN Cardinality(OfOut(cs, out)) - 1 ELSE Cardinality(OfOut(cs, out))
    BY <2>3, FS_RemoveElement
  <2> QED
    BY <2>1, <2>2, <2>4
<1>3. /\ Cardinality(OfOut(cs, "sent")) \in Nat /\ Cardinality(OfOut(cs, "read")) \in Nat
      /\ Cardinality(cs) \in Nat
  BY WeightType
<1> HIDE DEF ds
<1>4. Weight(ds) = Weight(cs) - Steps(c.out)
  <2>1. CASE c.out = "sent"
    BY <1>1, <1>2, <1>3, <2>1 DEF Weight, Steps
  <2>2. CASE c.out = "read"
    BY <1>1, <1>2, <1>3, <2>2 DEF Weight, Steps
  <2>3. CASE c.out # "sent" /\ c.out # "read"
    BY <1>1, <1>2, <1>3, <2>3 DEF Weight, Steps
  <2> QED
    BY <2>1, <2>2, <2>3
<1> QED
  BY <1>1, <1>4 DEF ds

LEMMA WeightWith ==
    ASSUME NEW cs, IsFiniteSet(cs), NEW e
    PROVE  IsFiniteSet(cs \cup {e}) /\ Weight(cs \cup {e}) <= Weight(cs) + Steps(e.out)
<1>1. IsFiniteSet(cs \cup {e})
  BY FS_AddElement
<1>2. Weight(cs) \in Nat /\ Steps(e.out) \in Nat
  BY WeightType DEF Steps
<1>3. CASE e \in cs
  <2>1. cs \cup {e} = cs
    BY <1>3
  <2>2. Weight(cs) <= Weight(cs) + Steps(e.out)
    BY <1>2
  <2> QED
    BY <1>1, <2>1, <2>2
<1>4. CASE e \notin cs
  <2>1. (cs \cup {e}) \ {e} = cs
    BY <1>4
  <2>2. Weight(cs) = Weight(cs \cup {e}) - Steps(e.out)
    BY <1>1, <2>1, WeightWithout
  <2>3. Weight(cs \cup {e}) \in Nat
    BY <1>1, WeightType
  <2> QED
    BY <1>1, <1>2, <2>2, <2>3
<1> QED
  BY <1>3, <1>4

LEMMA WeightOfOrphans ==
    ASSUME NEW cs, IsFiniteSet(cs), \A c \in cs : IsCall(c)
    PROVE  IsFiniteSet(Orphans(cs)) /\ Weight(Orphans(cs)) <= Weight(cs)
<1> DEFINE S == {c \in cs : c.op \in {"add", "update", "delete"} /\ c.out = "sent"}
           f == [c \in S |-> [c EXCEPT !.here = FALSE]]
<1>1. Orphans(cs) = {f[c] : c \in S}
  BY DEF Orphans
<1>2. \A c \in S : f[c].out = c.out
  BY DEF IsCall
<1>3. f = [c \in S |-> f[c]]
  OBVIOUS
<1>4. S \in SUBSET cs
  OBVIOUS
<1> HIDE DEF S, f
<1>5. IsFiniteSet(S) /\ Weight(S) <= Weight(cs)
  BY <1>4, WeightOfSome
<1>6. IsFiniteSet(Orphans(cs)) /\ Weight(Orphans(cs)) <= Weight(S)
  BY <1>1, <1>2, <1>3, <1>5, WeightOfImage
<1>7. Weight(S) \in Nat /\ Weight(cs) \in Nat /\ Weight(Orphans(cs)) \in Nat
  BY <1>5, <1>6, WeightType
<1> QED
  BY <1>5, <1>6, <1>7

\* What is still to come, in a state and after a step.
Known == TypeInv /\ IsFiniteSet(calls)

LEMMA KnownFacts ==
    ASSUME Known
    PROVE  /\ IsFiniteSet(calls) /\ \A c \in calls : IsCall(c)
           /\ sent \in Nat /\ sent <= 3 * MaxCalls /\ faults \in 0 .. MaxFaults
           /\ MaxCalls \in Nat /\ MaxFaults \in Nat
           /\ Weight(calls) \in Nat /\ ToCome \in Nat
<1>1. /\ IsFiniteSet(calls) /\ \A c \in calls : IsCall(c)
      /\ sent \in Nat /\ faults \in 0 .. MaxFaults /\ MaxCalls \in Nat /\ MaxFaults \in Nat
  BY PageAssumption DEF Known, TypeInv, Traffic, TypedCall, Store
<1>2. sent <= 3 * MaxCalls
  <2>1. Traffic(calls, sent)
    BY DEF Known, TypeInv
  <2>2. sent \in Ids
    BY <2>1, SentIsId
  <2> QED
    BY <1>1, <2>2 DEF Ids
<1>3. Weight(calls) \in Nat
  BY <1>1, WeightType
<1> QED
  BY <1>1, <1>2, <1>3 DEF ToCome

LEMMA KnownLater == ASSUME Known' PROVE ToCome' \in Nat
<1>1. Traffic(calls', sent') /\ faults' \in 0 .. MaxFaults /\ IsFiniteSet(calls')
  BY DEF Known, TypeInv, Store
<1>2. \A n, cs : Traffic(cs, n) => n \in Nat /\ n <= 3 * MaxCalls
  <2> SUFFICES ASSUME NEW n, NEW cs, Traffic(cs, n) PROVE n \in Nat /\ n <= 3 * MaxCalls
    OBVIOUS
  <2>1. n \in Nat /\ Late(cs) \in SUBSET (1 .. n) /\ Saving(cs) \in SUBSET (1 .. n)
    BY Within DEF Traffic
  <2>2. Cardinality(Late(cs)) \in Nat /\ Cardinality(Saving(cs)) \in Nat
    BY <2>1, Counts
  <2>3. n + Cardinality(Late(cs)) + Cardinality(Saving(cs)) <= 3 * MaxCalls
    BY DEF Traffic
  <2> QED
    BY <2>1, <2>2, <2>3, PageAssumption
<1>3. Weight(calls') \in Nat
  BY <1>1, WeightType
<1>4. sent' \in Nat /\ sent' <= 3 * MaxCalls
  BY <1>1, <1>2
<1> QED
  BY <1>1, <1>3, <1>4, PageAssumption DEF ToCome

LEMMA Nearer ==
    ASSUME Known, IsFiniteSet(calls'), NEW k \in Nat, sent' = sent + k,
           NEW d \in Nat, faults' = faults + d,
           NEW w \in Int, Weight(calls') <= Weight(calls) + w
    PROVE  ToCome' <= ToCome - 3 * k - 2 * d + w
<1>1. /\ sent \in Nat /\ faults \in Nat /\ MaxCalls \in Nat /\ MaxFaults \in Nat
      /\ Weight(calls) \in Nat
  BY KnownFacts
<1>2. Weight(calls') \in Nat
  BY WeightType
<1>3. ToCome' = 3 * (3 * MaxCalls - sent') + Weight(calls') + 2 * (MaxFaults - faults')
  BY DEF ToCome
<1> QED
  BY <1>1, <1>2, <1>3 DEF ToCome

\* The same, in the three ways in which it is used.
LEMMA NothingMore ==
    ASSUME Known, IsFiniteSet(calls'), UNCHANGED <<sent, faults>>
    PROVE  /\ Weight(calls') <= Weight(calls) => ToCome' <= ToCome
           /\ Weight(calls') <= Weight(calls) - 1 => ToCome' < ToCome
<1>1. sent \in Nat /\ faults \in Nat /\ Weight(calls) \in Nat /\ ToCome \in Nat
  BY KnownFacts
<1>2. sent' = sent + 0 /\ faults' = faults + 0
  BY <1>1
<1>3. ASSUME Weight(calls') <= Weight(calls) PROVE ToCome' <= ToCome
  <2>1. Weight(calls') <= Weight(calls) + 0
    BY <1>1, <1>3
  <2>2. ToCome' <= ToCome - 3 * 0 - 2 * 0 + 0
    BY <1>2, <2>1, Nearer
  <2> QED
    BY <1>1, <2>2
<1>4. ASSUME Weight(calls') <= Weight(calls) - 1 PROVE ToCome' < ToCome
  <2>1. Weight(calls') <= Weight(calls) + (-1)
    BY <1>1, <1>4
  <2>2. ToCome' <= ToCome - 3 * 0 - 2 * 0 + (-1)
    BY <1>2, <2>1, Nearer
  <2>3. ToCome' \in Int
    <3>1. Weight(calls') \in Nat
      BY WeightType
    <3> QED
      BY <3>1, <1>1, KnownFacts DEF ToCome
  <2> QED
    BY <1>1, <2>2, <2>3
<1> QED
  BY <1>3, <1>4

LEMMA OneSent ==
    ASSUME Known, NEW cs, IsFiniteSet(cs), NEW p, NEW op, NEW arg, Send(cs, p, op, arg),
           UNCHANGED faults
    PROVE  /\ IsFiniteSet(calls')
           /\ Weight(cs) <= Weight(calls) => ToCome' <= ToCome
           /\ Weight(cs) <= Weight(calls) - 1 => ToCome' < ToCome
<1>1. PICK e : /\ calls' = cs \cup {e} /\ e.out = "sent" /\ sent' = sent + 1
  BY SendFacts
<1>2. IsFiniteSet(calls') /\ Weight(calls') <= Weight(cs) + 3
  BY <1>1, WeightWith DEF Steps
<1>3. /\ sent \in Nat /\ faults \in Nat /\ Weight(calls) \in Nat /\ ToCome \in Nat
      /\ Weight(cs) \in Nat /\ Weight(calls') \in Nat
  BY <1>2, KnownFacts, WeightType
<1>4. faults' = faults + 0
  BY <1>3
<1>5. ASSUME NEW w \in Int, Weight(calls') <= Weight(calls) + w
      PROVE  ToCome' <= ToCome - 3 * 1 - 2 * 0 + w
  BY <1>1, <1>2, <1>4, <1>5, Nearer
<1>6. ToCome' \in Int
  BY <1>1, <1>3, <1>4, KnownFacts DEF ToCome
<1>7. ASSUME Weight(cs) <= Weight(calls) PROVE ToCome' <= ToCome
  <2>1. Weight(calls') <= Weight(calls) + 3
    BY <1>2, <1>3, <1>7
  <2>2. ToCome' <= ToCome - 3 * 1 - 2 * 0 + 3
    BY <1>5, <2>1
  <2> QED
    BY <1>3, <1>6, <2>2
<1>8. ASSUME Weight(cs) <= Weight(calls) - 1 PROVE ToCome' < ToCome
  <2>1. Weight(calls') <= Weight(calls) + 2
    BY <1>2, <1>3, <1>8
  <2>2. ToCome' <= ToCome - 3 * 1 - 2 * 0 + 2
    BY <1>5, <2>1
  <2> QED
    BY <1>3, <1>6, <2>2
<1> QED
  BY <1>2, <1>7, <1>8

\* The server takes a call one or two steps on.
LEMMA AnsweredNearer ==
    ASSUME Known, NEW c \in calls, NEW out, NEW got, Answered(c, out, got),
           Steps(out) < Steps(c.out)
    PROVE  IsFiniteSet(calls') /\ Weight(calls') <= Weight(calls) - 1
<1>1. IsFiniteSet(calls) /\ IsCall(c) /\ Weight(calls) \in Nat
  BY KnownFacts
<1>2. PICK e : calls' = (calls \ {c}) \cup {e} /\ e.out = out
  BY <1>1, AnsweredFacts
<1>3. IsFiniteSet(calls \ {c}) /\ Weight(calls \ {c}) = Weight(calls) - Steps(c.out)
  BY <1>1, WeightWithout
<1>4. IsFiniteSet(calls') /\ Weight(calls') <= Weight(calls \ {c}) + Steps(out)
  BY <1>2, <1>3, WeightWith
<1>5. Weight(calls') \in Nat
  BY <1>4, WeightType
<1>6. Steps(out) \in Nat /\ Steps(c.out) \in Nat
  BY DEF Steps
<1> QED
  BY <1>1, <1>3, <1>4, <1>5, <1>6

LEMMA ServeNearer ==
    ASSUME Known, NEW c \in calls, Serve(c)
    PROVE  IsFiniteSet(calls') /\ ToCome' < ToCome
<1>1. /\ UNCHANGED <<sent, faults>>
      /\ \E out, got : Answered(c, out, got) /\ Steps(out) < Steps(c.out)
  <2>1. ASSUME NEW op, NEW out, out \in {"ok", "failed", "read"}, NEW got, Reaches(c, op, out, got)
        PROVE  /\ UNCHANGED <<sent, faults>>
               /\ Answered(c, out, got) /\ Steps(out) < Steps(c.out)
    BY <2>1 DEF Reaches, Authorized, Steps
  <2>2. CASE Refuse(c)
    BY <2>2 DEF Refuse, Steps
  <2>3. CASE ServeUnknown(c)
    BY <2>3 DEF ServeUnknown, Authorized, Steps
  <2>4. CASE ServeLogin(c)
    BY <2>4 DEF ServeLogin, Steps
  <2>5. CASE ServeCode(c) \/ ReadCaptcha(c) \/ ServeList(c) \/ ServeInfo(c)
    BY <2>1, <2>5 DEF ServeCode, ReadCaptcha, ServeList, ServeInfo
  <2>6. CASE ServeAdd(c) \/ ServeUpdate(c) \/ ServeDeleteCourse(c) \/ ServeDeleteActivity(c) \/ ServeOther(c)
    BY <2>1, <2>6 DEF ServeAdd, ServeUpdate, ServeDeleteCourse, ServeDeleteActivity,
       ServeOther
  <2> QED
    BY <2>2, <2>3, <2>4, <2>5, <2>6 DEF Serve
<1>2. IsFiniteSet(calls') /\ Weight(calls') <= Weight(calls) - 1
  BY <1>1, AnsweredNearer
<1> QED
  BY <1>1, <1>2, NothingMore

\* An answer that has been handled is gone, and so is what leaves with its page.
LEMMA RestNearer ==
    ASSUME Known, NEW c \in calls
    PROVE  /\ IsFiniteSet(Rest(c)) /\ Weight(Rest(c)) <= Weight(calls) - 1
           /\ \A d \in Rest(c) : IsCall(d)
           /\ IsFiniteSet(Orphans(Rest(c))) /\ Weight(Orphans(Rest(c))) <= Weight(calls) - 1
<1>1. IsFiniteSet(calls) /\ Weight(calls) \in Nat /\ \A d \in Rest(c) : IsCall(d)
  BY KnownFacts DEF Rest
<1>2. IsFiniteSet(Rest(c)) /\ Weight(Rest(c)) = Weight(calls) - Steps(c.out)
  BY <1>1, WeightWithout DEF Rest
<1>3. Steps(c.out) \in Nat /\ Steps(c.out) >= 1
  BY DEF Steps
<1>4. Weight(Rest(c)) <= Weight(calls) - 1
  BY <1>1, <1>2, <1>3
<1>5. /\ IsFiniteSet(Orphans(Rest(c))) /\ Weight(Orphans(Rest(c))) <= Weight(Rest(c))
  BY <1>1, <1>2, WeightOfOrphans
<1>6. Weight(Rest(c)) \in Nat /\ Weight(Orphans(Rest(c))) \in Nat
  BY <1>2, <1>5, WeightType
<1> QED
  BY <1>1, <1>2, <1>4, <1>5, <1>6

LEMMA ReceiveNearer ==
    ASSUME Known, NEW c \in calls, Receive(c) \/ Drop(c)
    PROVE  IsFiniteSet(calls') /\ ToCome' < ToCome
<1>1. ASSUME Handled(c), UNCHANGED faults PROVE IsFiniteSet(calls') /\ ToCome' < ToCome
  BY <1>1, RestNearer, NothingMore DEF Handled
<1>2. ASSUME GetList(Rest(c)), UNCHANGED faults PROVE IsFiniteSet(calls') /\ ToCome' < ToCome
  BY <1>2, RestNearer, OneSent DEF GetList
<1>3. CASE ReceiveDenied(c)
  BY <1>3, RestNearer, OneSent, WeightOfOrphans, KnownFacts DEF ReceiveDenied, Load
<1>4. CASE ReceiveLogin(c)
  <2>1. CASE calls' = Orphans(Rest(c)) /\ UNCHANGED <<sent, faults>>
    BY <2>1, RestNearer, NothingMore
  <2> QED
    BY <1>1, <1>4, <2>1 DEF ReceiveLogin
<1>5. CASE ReceiveCode(c) \/ ReceiveList(c) \/ ReceiveInfo(c) \/ ReceiveOther(c) \/ Drop(c)
  BY <1>1, <1>5 DEF ReceiveCode, ReceiveList, ReceiveInfo, ReceiveOther, Drop
<1>6. CASE ReceiveSaved(c) \/ ReceiveDeleted(c)
  BY <1>1, <1>2, <1>6 DEF ReceiveSaved, ReceiveDeleted
<1> QED
  BY <1>3, <1>4, <1>5, <1>6 DEF Receive

\* What the user does is within the calls he may still make.
LEMMA UserNearer ==
    ASSUME Known, User
    PROVE  IsFiniteSet(calls') /\ ToCome' <= ToCome
<1>0. /\ IsFiniteSet(calls) /\ Weight(calls) \in Nat /\ Weight(calls) <= Weight(calls)
      /\ IsFiniteSet(Orphans(calls)) /\ Weight(Orphans(calls)) <= Weight(calls)
  BY KnownFacts, WeightOfOrphans
<1>1. ASSUME UNCHANGED <<calls, sent, faults>> PROVE IsFiniteSet(calls') /\ ToCome' <= ToCome
  BY <1>0, <1>1, NothingMore
<1>2. ASSUME NEW p, NEW op, NEW arg, Send(calls, p, op, arg), UNCHANGED faults
      PROVE  IsFiniteSet(calls') /\ ToCome' <= ToCome
  BY <1>0, <1>2, OneSent
<1>3. ASSUME NEW p, Visit(p) PROVE IsFiniteSet(calls') /\ ToCome' <= ToCome
  BY <1>0, <1>3, OneSent DEF Visit, Load
<1>4. CASE VisitOther
  BY <1>0, <1>4, NothingMore DEF VisitOther
<1>5. ASSUME NEW q, Ask(q) PROVE IsFiniteSet(calls') /\ ToCome' <= ToCome
  <2>1. PICK e : /\ calls' = {} \cup {e} /\ e.out = "sent" /\ sent' = sent + 1
                 /\ UNCHANGED faults /\ calls = {}
    BY <1>5 DEF Ask, Request
  <2>2. IsFiniteSet({}) /\ IsFiniteSet(calls') /\ Weight(calls') <= Weight({}) + 3
    BY <2>1, FS_EmptySet, WeightWith DEF Steps
  <2>3. Weight(calls') <= Weight(calls) + 3 /\ faults' = faults + 0
    BY <2>1, <2>2, KnownFacts
  <2>4. ToCome' <= ToCome - 3 * 1 - 2 * 0 + 3
    BY <2>1, <2>2, <2>3, Nearer
  <2>5. ToCome \in Nat
    BY KnownFacts
  <2> QED
    BY <2>2, <2>4, <2>5
<1>6. CASE GetCode \/ (\E right \in BOOLEAN : HandleLogin(right)) \/ SubmitForm
  BY <1>2, <1>6 DEF GetCode, HandleLogin, SubmitForm
<1>7. CASE HandleQuery \/ \E r \in Rows : HandleDelete(r)
  BY <1>2, <1>7 DEF HandleQuery, GetList, HandleDelete
<1>8. ASSUME NEW r, AddOrUpdateHandle(r) PROVE IsFiniteSet(calls') /\ ToCome' <= ToCome
  BY <1>1, <1>2, <1>8 DEF AddOrUpdateHandle
<1>9. CASE (\E f \in Filters : TypeQuery(f)) \/ (\E d \in Data : TypeForm(d)) \/ Cancel
  BY <1>1, <1>9 DEF TypeQuery, TypeForm, Cancel
<1> QED
  BY <1>3, <1>4, <1>5, <1>6, <1>7, <1>8, <1>9 DEF User

\* A call that is given up is answered twice over at the most, which its fault
\* has been counted for.
LEMMA TimeOutNearer ==
    ASSUME Known, NEW c \in calls, TimeOut(c)
    PROVE  IsFiniteSet(calls') /\ ToCome' <= ToCome
<1> DEFINE e == [c EXCEPT !.out = "rejected"]
           R == Rest(c)
           O == Orphans({c})
<1>1. IsFiniteSet(calls) /\ IsCall(c) /\ Weight(calls) \in Nat /\ faults \in Nat /\ sent \in Nat
  BY KnownFacts
<1>2. e.out = "rejected"
  BY <1>1 DEF IsCall
<1>3. IsFiniteSet(R) /\ Weight(R) = Weight(calls) - Steps(c.out)
  BY <1>1, WeightWithout DEF Rest
<1>4. IsFiniteSet(R \cup {e}) /\ Weight(R \cup {e}) <= Weight(R) + 1
  BY <1>2, <1>3, WeightWith DEF Steps
<1>5. /\ O = {} \/ \E f : O = {f} /\ f.out = c.out
      /\ calls' = (R \cup {e}) \cup O
      /\ faults' = faults + 1 /\ sent' = sent
  <2>1. O = {} \/ O = {[c EXCEPT !.here = FALSE]}
    BY DEF Orphans
  <2>2. [c EXCEPT !.here = FALSE].out = c.out
    BY <1>1 DEF IsCall
  <2>3. calls' = (R \cup {e}) \cup O /\ faults' = faults + 1 /\ sent' = sent
    BY DEF TimeOut
  <2> HIDE DEF O, R, e
  <2> QED
    BY <2>1, <2>2, <2>3
<1> HIDE DEF e, R, O
<1>6. Steps(c.out) \in Nat /\ Steps(c.out) >= 1 /\ Weight(R) \in Nat /\ Weight(R \cup {e}) \in Nat
  BY <1>3, <1>4, WeightType DEF Steps
<1>7. IsFiniteSet(calls') /\ Weight(calls') <= Weight(R \cup {e}) + Steps(c.out)
  <2>1. CASE O = {}
    <3>1. calls' = R \cup {e}
      BY <1>5, <2>1
    <3>2. Weight(R \cup {e}) <= Weight(R \cup {e}) + Steps(c.out)
      BY <1>6
    <3> QED
      BY <1>4, <3>1, <3>2
  <2>2. CASE O # {}
    <3>1. PICK f : O = {f} /\ f.out = c.out
      BY <1>5, <2>2
    <3>2. calls' = (R \cup {e}) \cup {f}
      BY <1>5, <3>1
    <3> QED
      BY <1>4, <3>1, <3>2, WeightWith
  <2> QED
    BY <2>1, <2>2
<1>8. Weight(calls') \in Nat
  BY <1>7, WeightType
<1>9. Weight(calls') <= Weight(calls) + 1
  BY <1>1, <1>3, <1>4, <1>6, <1>7, <1>8
<1>10. sent' = sent + 0
  BY <1>1, <1>5
<1>11. ToCome' <= ToCome - 3 * 0 - 2 * 1 + 1
  <2>1. IsFiniteSet(calls') /\ faults' = faults + 1
    BY <1>5, <1>7
  <2> QED
    BY <1>9, <1>10, <2>1, Nearer
<1>12. ToCome \in Nat /\ ToCome' \in Int
  BY <1>1, <1>5, <1>8, KnownFacts DEF ToCome
<1> QED
  BY <1>7, <1>11, <1>12

\* An exception costs its call a step, and the end of a session none.
LEMMA FaultNearer ==
    ASSUME Known, NEW c \in calls, ServeFails(c)
    PROVE  IsFiniteSet(calls') /\ ToCome' <= ToCome
<1>1. Steps("failed") < Steps(c.out) /\ Answered(c, "failed", "nothing")
  BY DEF ServeFails, Authorized, Steps
<1>2. IsFiniteSet(calls') /\ Weight(calls') <= Weight(calls) - 1
  BY <1>1, AnsweredNearer
<1>3. /\ sent \in Nat /\ faults \in Nat /\ Weight(calls) \in Nat /\ ToCome \in Nat
      /\ Weight(calls') \in Nat
  BY <1>2, KnownFacts, WeightType
<1>4. faults' = faults + 1 /\ sent' = sent + 0 /\ Weight(calls') <= Weight(calls) + 0
  BY <1>2, <1>3 DEF ServeFails
<1>5. ToCome' <= ToCome - 3 * 0 - 2 * 1 + 0
  BY <1>2, <1>4, Nearer
<1>6. ToCome' \in Int
  BY <1>3, <1>4, KnownFacts DEF ToCome
<1> QED
  BY <1>2, <1>3, <1>5, <1>6

LEMMA ExpireNearer ==
    ASSUME Known, Expire
    PROVE  IsFiniteSet(calls') /\ ToCome' <= ToCome
<1> DEFINE f == [c \in calls |-> [c EXCEPT !.bearer = IF @ = "live" THEN "dead" ELSE @]]
<1>1. IsFiniteSet(calls) /\ \A c \in calls : IsCall(c)
  BY KnownFacts
<1>2. calls' = {f[c] : c \in calls} /\ UNCHANGED <<sent, faults>>
  BY DEF Expire
<1>3. \A c \in calls : f[c].out = c.out
  BY <1>1 DEF IsCall
<1>4. f = [c \in calls |-> f[c]]
  OBVIOUS
<1> HIDE DEF f
<1>5. IsFiniteSet(calls') /\ Weight(calls') <= Weight(calls)
  BY <1>1, <1>2, <1>3, <1>4, WeightOfImage
<1> QED
  BY <1>2, <1>5, NothingMore

LEMMA NearerStep ==
    ASSUME Known, [Next]_vars
    PROVE  IsFiniteSet(calls') /\ ToCome' <= ToCome /\ (Network => ToCome' < ToCome)
<1>1. Network => IsFiniteSet(calls') /\ ToCome' < ToCome
  BY ServeNearer, ReceiveNearer DEF Network
<1>2. IsFiniteSet(calls') /\ ToCome' <= ToCome
  <2>1. CASE Network
    <3>1. ToCome' \in Nat /\ ToCome \in Nat
      BY <1>1, <2>1, TypeStep, KnownFacts, KnownLater DEF Known
    <3> QED
      BY <1>1, <2>1, <3>1
  <2>2. ASSUME UNCHANGED <<calls, sent, faults>> PROVE IsFiniteSet(calls') /\ ToCome' <= ToCome
    BY <2>2, NothingMore, KnownFacts
  <2>3. CASE (\E u \in captchas : ExpireCaptcha(u)) \/ UNCHANGED vars
    BY <2>2, <2>3 DEF ExpireCaptcha, vars
  <2> QED
    BY <2>1, <2>3, UserNearer, TimeOutNearer, FaultNearer, ExpireNearer DEF Next
<1> QED
  BY <1>1, <1>2

LEMMA KnownHolds == Spec => []Known
<1>1. Init => Known
  <2>1. Init => \E e : calls = {e}
    BY DEF Init
  <2>2. Init => IsFiniteSet(calls)
    BY <2>1, FS_Singleton
  <2> QED
    BY <2>2, TypeInit DEF Known
<1>2. Known /\ [Next]_vars => Known'
  BY TypeStep, NearerStep DEF Known
<1> QED
  BY <1>1, <1>2, PTL DEF Spec

-----------------------------------------------------------------------------
(* The mask over a list *)

Lists(cs) == {c \in cs : c.here /\ c.op = "list"}

Masked == loading => at \in Pages /\ Lists(calls) # {}

LEMMA MaskStays ==
    ASSUME Masked, UNCHANGED <<at, loading>>, Lists(calls) # {} => Lists(calls') # {}
    PROVE  Masked'
BY DEF Masked

LEMMA MoreLists ==
    ASSUME NEW cs, NEW p, NEW op, NEW arg, Send(cs, p, op, arg)
    PROVE  /\ Lists(cs) # {} => Lists(calls') # {}
           /\ op = "list" => Lists(calls') # {}
<1>1. PICK e : calls' = cs \cup {e} /\ e.op = op /\ e.here
  BY SendFacts
<1> QED
  BY <1>1 DEF Lists

LEMMA RestLists ==
    ASSUME NEW c \in calls
    PROVE  c.op # "list" \/ ~ c.here => (Lists(calls) # {} => Lists(Rest(c)) # {})
BY DEF Lists, Rest

LEMMA MaskLoads ==
    ASSUME NEW p \in Pages \cup {"login"}, NEW cs, Load(p, cs)
    PROVE  Masked'
<1>1. at' = p /\ loading' = (p \in Pages)
  BY DEF Load
<1>2. CASE p \in Pages
  <2>1. p # "login"
    BY <1>2 DEF Pages
  <2>2. Send(Orphans(cs), p, "list", "all")
    BY <2>1 DEF Load
  <2>3. Lists(calls') # {}
    BY <2>2, MoreLists
  <2> QED
    BY <1>1, <1>2, <2>3 DEF Masked
<1>3. CASE p \notin Pages
  BY <1>1, <1>3 DEF Masked
<1> QED
  BY <1>2, <1>3

LEMMA MaskUser == ASSUME Masked, User PROVE Masked'
<1>1. ASSUME NEW p \in Pages \cup {"login"}, Visit(p) PROVE Masked'
  BY <1>1, MaskLoads DEF Visit
<1>2. CASE VisitOther
  BY <1>2 DEF VisitOther, Masked
<1>3. ASSUME NEW q, Ask(q) PROVE Masked'
  BY <1>3 DEF Ask, Masked, page, lists, Pages
<1>4. ASSUME NEW p, NEW op, NEW arg, Send(calls, p, op, arg), UNCHANGED <<at, loading>>
      PROVE  Masked'
  BY <1>4, MoreLists, MaskStays
<1>5. CASE GetCode \/ (\E right \in BOOLEAN : HandleLogin(right)) \/ SubmitForm
             \/ \E r \in Rows : HandleDelete(r)
  BY <1>4, <1>5 DEF GetCode, HandleLogin, SubmitForm, HandleDelete, page, lists
<1>6. CASE HandleQuery
  BY <1>6, MoreLists DEF HandleQuery, GetList, Uncovered, Masked
<1>7. ASSUME NEW r, AddOrUpdateHandle(r) PROVE Masked'
  <2>1. CASE UNCHANGED <<calls, sent>>
    BY <1>7, <2>1, MaskStays DEF AddOrUpdateHandle, lists
  <2> QED
    BY <1>4, <1>7, <2>1 DEF AddOrUpdateHandle, lists
<1>8. CASE (\E f \in Filters : TypeQuery(f)) \/ (\E d \in Data : TypeForm(d)) \/ Cancel
  BY <1>8, MaskStays DEF TypeQuery, TypeForm, Cancel, lists
<1> QED
  BY <1>1, <1>2, <1>3, <1>5, <1>6, <1>7, <1>8 DEF User

LEMMA MaskAnswered ==
    ASSUME PageInv, Masked, NEW c \in calls, NEW out, NEW got, Answered(c, out, got),
           UNCHANGED page
    PROVE  Masked'
<1>1. IsCall(c)
  BY DEF PageInv, CallInv
<1>2. PICK e : calls' = (calls \ {c}) \cup {e} /\ e.op = c.op /\ e.here = c.here
  BY <1>1, AnsweredFacts
<1>3. Lists(calls) # {} => Lists(calls') # {}
  BY <1>2 DEF Lists
<1> QED
  BY <1>3, MaskStays DEF page, lists

LEMMA MaskServe ==
    ASSUME PageInv, Masked, NEW c \in calls, Serve(c) \/ ServeFails(c)
    PROVE  Masked'
<1>1. UNCHANGED page /\ \E out, got : Answered(c, out, got)
  BY DEF Serve, ServeFails, Refuse, ServeUnknown, ServeCode, ReadCaptcha, ServeLogin,
         ServeList, ServeInfo, ServeAdd, ServeUpdate, ServeDeleteCourse, ServeDeleteActivity,
       ServeOther, Reaches
<1> QED
  BY <1>1, MaskAnswered

LEMMA MaskReceive == ASSUME OwnInv, Masked, NEW c \in calls, Receive(c) PROVE Masked'
<1>1. ASSUME Handled(c), UNCHANGED <<at, loading>>, c.op # "list" PROVE Masked'
  BY <1>1, RestLists, MaskStays DEF Handled
<1>2. ASSUME GetList(Rest(c)), at \in Pages, UNCHANGED at PROVE Masked'
  BY <1>2, MoreLists DEF GetList, Masked
<1>3. CASE ReceiveDenied(c)
  BY <1>3, MaskLoads DEF ReceiveDenied
<1>4. CASE ReceiveLogin(c)
  <2>1. CASE loading' = FALSE
    BY <2>1 DEF Masked
  <2> QED
    BY <1>1, <1>4, <2>1 DEF ReceiveLogin, lists, page
<1>5. CASE ReceiveList(c)
  BY <1>5 DEF ReceiveList, Masked
<1>6. CASE ReceiveCode(c) \/ ReceiveInfo(c) \/ ReceiveOther(c)
  BY <1>1, <1>6 DEF ReceiveCode, ReceiveInfo, ReceiveOther, lists, page
<1>7. CASE ReceiveSaved(c)
  BY <1>1, <1>2, <1>7 DEF ReceiveSaved, lists, Pages
<1>8. CASE ReceiveDeleted(c)
  <2>1. CASE GetList(Rest(c)) /\ UNCHANGED at
    <3>1. at \in Pages
      BY <1>8 DEF OwnInv, Receive, ReceiveDeleted
    <3> QED
      BY <1>2, <2>1, <3>1
  <2> QED
    BY <1>1, <1>8, <2>1 DEF ReceiveDeleted, lists
<1> QED
  BY <1>3, <1>4, <1>5, <1>6, <1>7, <1>8 DEF Receive

LEMMA MaskTimeOut ==
    ASSUME PageInv, Masked, NEW c \in calls, TimeOut(c)
    PROVE  Masked'
<1> DEFINE e == [c EXCEPT !.out = "rejected"]
<1>1. e.op = c.op /\ e.here = c.here
  BY DEF PageInv, CallInv, IsCall
<1>2. calls' = Rest(c) \cup {e} \cup Orphans({c}) /\ UNCHANGED page
  BY DEF TimeOut
<1> HIDE DEF e
<1>3. Lists(calls) # {} => Lists(calls') # {}
  BY <1>1, <1>2 DEF Lists, Rest
<1> QED
  BY <1>2, <1>3, MaskStays DEF page, lists

LEMMA MaskExpire == ASSUME PageInv, Masked, Expire PROVE Masked'
<1> DEFINE dead(c) == [c EXCEPT !.bearer = IF @ = "live" THEN "dead" ELSE @]
<1>1. calls' = {dead(c) : c \in calls} /\ UNCHANGED page
  BY DEF Expire
<1>2. \A c \in calls : dead(c).op = c.op /\ dead(c).here = c.here
  BY DEF PageInv, CallInv, IsCall
<1> HIDE DEF dead
<1>3. Lists(calls) # {} => Lists(calls') # {}
  BY <1>1, <1>2 DEF Lists
<1> QED
  BY <1>1, <1>3, MaskStays DEF page, lists

LEMMA MaskStep == PageInv /\ OwnInv /\ Masked /\ [Next]_vars => Masked'
<1> SUFFICES ASSUME PageInv, OwnInv, Masked, [Next]_vars PROVE Masked'
  OBVIOUS
<1>1. ASSUME NEW c \in calls, Drop(c) PROVE Masked'
  BY <1>1, RestLists, MaskStays DEF Drop, Handled, page, lists
<1>2. CASE UNCHANGED vars \/ \E u \in captchas : ExpireCaptcha(u)
  BY <1>2, MaskStays DEF vars, ExpireCaptcha, page, lists
<1> QED
  BY <1>1, <1>2, MaskUser, MaskServe, MaskReceive, MaskTimeOut, MaskExpire DEF Next, Network

-----------------------------------------------------------------------------
(* Theorems *)

\* Every variable of the pages keeps its type; above all no answer leads to calls
\* without end: of each call of the user come at most two more, the list after a
\* row is saved and the captcha after the session is found gone.
THEOREM PageTypes == Spec => []TypeOK
<1>1. TypeInv => TypeOK
  <2> SUFFICES ASSUME TypeInv PROVE TypeOK
    OBVIOUS
  <2>1. Screen /\ Store /\ Traffic(calls, sent)
    BY DEF TypeInv
  <2>2. sent \in Ids
    BY <2>1, SentIsId
  <2>3. \A c \in calls : /\ c.id \in 1 .. sent /\ c.bearer \in Session
                         /\ c.out \in {"sent", "read", "ok", "failed", "denied", "rejected"}
    BY <2>1 DEF Traffic, TypedCall, Outcomes
  <2> QED
    BY <2>1, <2>2, <2>3 DEF TypeOK, Screen, Store
<1> QED
  BY <1>1, TypeInit, TypeStep, PTL DEF Spec

\* The login page that is opened while a session lives shows no captcha, however
\* its calls, their answers and their failures interleave: the interceptor sends
\* the token, and the filters turn the call away.
THEOREM NoCaptcha == Spec => []NoCaptchaInSession
<1>1. PageInv => NoCaptchaInSession
  BY DEF PageInv
<1> QED
  BY <1>1, PageInit, PageStep, PTL DEF Spec

\* Of a user who waits for each answer the dialog edits the row it was opened for,
\* whatever fails or is given up and whatever others do to the row.
THEOREM DialogOpened == Spec => [](Patient => DialogIsOpened)
<1>1. PageInv => (Patient => DialogIsOpened)
  BY DEF PageInv
<1> QED
  BY <1>1, PageInit, PageStep, PTL DEF Spec

\* Of a user who waits for each answer, and until a call fails or is given up,
\* the list of courses shows what the database holds for the query asked last
\* whenever nothing is under way: every change is followed by a list of its own.
THEOREM ListIsUpToDate == Spec => [](Patient => ListUpToDate)
<1>1. ListInv => ListUpToDate
  BY DEF ListInv, ListUpToDate, Fresh
<1>2. CASE Patient
  <2>1. Patient /\ ListInv /\ [Next]_vars => ListInv'
    BY <1>2, ListStep
  <2> QED
    BY <1>1, <1>2, <2>1, ListInit, ListStep, PTL DEF Spec
<1>3. CASE ~ Patient
  <2>1. Patient => ListUpToDate
    BY <1>3
  <2> QED
    BY <2>1, PTL
<1> QED
  BY <1>2, <1>3

FewToCome == ToCome \in 0 .. 9 * MaxCalls + 2 * MaxFaults

\* The calls come to rest: what is still to come of the calls that are under way
\* and of those the user may make is a number that no step makes larger - none of
\* the user, no answer, no fault and no end of a session - and that every step of
\* the network makes smaller.  Of one call come at most nine of these steps, of a
\* fault two.
THEOREM CallsEnd ==
    Spec => /\ []FewToCome
            /\ [][ToCome' <= ToCome /\ (Network => ToCome' < ToCome)]_vars
<1>1. Init => FewToCome
  <2> SUFFICES ASSUME Init PROVE ToCome \in 0 .. 9 * MaxCalls + 2 * MaxFaults
    BY DEF FewToCome
  <2>1. PICK e : calls = {} \cup {e} /\ e.out = "sent" /\ sent = 1 /\ faults = 0
    <3> DEFINE q == Request("login", "code", Function["login"]["code"], "all", token)
               e == [q EXCEPT !.id = 1]
    <3>1. calls = {} \cup {e} /\ sent = 1 /\ faults = 0
      BY DEF Init
    <3>2. e.out = "sent"
      BY DEF Request
    <3> HIDE DEF e
    <3> QED
      BY <3>1, <3>2
  <2>2. IsFiniteSet({}) /\ Weight({}) = 0
    <3>1. OfOut({}, "sent") = {} /\ OfOut({}, "read") = {}
      BY DEF OfOut
    <3> QED
      BY <3>1, FS_EmptySet DEF Weight
  <2>3. IsFiniteSet(calls) /\ Weight(calls) <= 3
    BY <2>1, <2>2, WeightWith DEF Steps
  <2>4. Weight(calls) \in Nat
    BY <2>3, WeightType
  <2> QED
    BY <2>1, <2>3, <2>4, PageAssumption DEF ToCome
<1>2. Known /\ Known' /\ FewToCome /\ [Next]_vars => FewToCome'
  <2> SUFFICES ASSUME Known, Known', FewToCome, [Next]_vars
               PROVE  ToCome' \in 0 .. 9 * MaxCalls + 2 * MaxFaults
    BY DEF FewToCome
  <2>1. ToCome' <= ToCome /\ ToCome' \in Nat
    BY NearerStep, KnownLater
  <2> QED
    BY <2>1, PageAssumption DEF FewToCome
<1>3. Known /\ [Next]_vars => [ToCome' <= ToCome /\ (Network => ToCome' < ToCome)]_vars
  BY NearerStep
<1> QED
  BY <1>1, <1>2, <1>3, KnownHolds, PTL DEF Spec

\* A mask that covers a list has its call: as long as the list is covered, one is
\* under way whose answer, failure or loss uncovers it, whichever pages, queries
\* and sessions came and went.  With CallsEnd this is why the mask goes.
THEOREM MaskHasItsCall ==
    Spec => [](loading => at \in Pages /\ \E c \in calls : c.here /\ c.op = "list")
<1>1. Init => Masked
  BY DEF Init, Masked
<1>2. Masked => (loading => at \in Pages /\ \E c \in calls : c.here /\ c.op = "list")
  BY DEF Masked, Lists
<1> QED
  BY <1>1, <1>2, MaskStep, PageInit, PageStep, OwnInit, OwnStep, PTL DEF Spec
=============================================================================
