--------------------------- MODULE DealDeskProofs ---------------------------
(* What holds of the deal desk for every value of its constants. *)
EXTENDS DealDesk, TLAPS

\* The id list of a request is a non-empty sequence.
LEMMA BatchIsSeq ==
    ASSUME NEW S, NEW ids \in Batches(S)
    PROVE  ids \in Seq(S) /\ ids # <<>>
<1>1. PICK n \in 1 .. MaxBatch : ids \in [1 .. n -> S]
  BY DEF Batches
<1>2. n \in Nat /\ n >= 1
  BY BoundAssumption
<1>3. ids \in Seq(S) /\ Len(ids) = n
  BY <1>1, <1>2
<1> QED
  BY <1>2, <1>3

\* Ending a request leaves its thread well-typed and the others as they were.
LEMMA FinishTypes ==
    ASSUME TypeOK, NEW t \in Threads, Finish(t)
    PROVE  LocalsOK'
<1>1. <<>> \in Seq(Ids)
  OBVIOUS
<1> QED
  BY <1>1 DEF TypeOK, LocalsOK, Finish, Converting

\* A loop that goes on or ends leaves every thread well-typed.
LEMMA NextIdTypes ==
    ASSUME TypeOK, NEW t \in Threads, NEW again \in {"check", "find", "count"},
           again = "count" \/ todo[t] \in Seq(Ids), NextId(t, again)
    PROVE  LocalsOK'
<1>1. CASE Finish(t)
  BY <1>1, FinishTypes
<1>2. CASE /\ Len(todo[t]) > 1
           /\ todo' = [todo EXCEPT ![t] = Tail(todo[t])]
           /\ pc' = [pc EXCEPT ![t] = again]
           /\ UNCHANGED <<user, row, draft>>
  <2> DEFINE rest == Tail(todo[t])
  <2>1. todo[t] \in Seq(Ids) \cup Seq(Courses)
    BY DEF TypeOK, LocalsOK
  <2>2. /\ rest # <<>>
        /\ todo[t] \in Seq(Ids) => rest \in Seq(Ids)
        /\ todo[t] \in Seq(Courses) => rest \in Seq(Courses)
    <3>1. ASSUME NEW S, todo[t] \in Seq(S)
          PROVE  rest \in Seq(S) /\ Len(rest) = Len(todo[t]) - 1
      BY <1>2, <3>1
    <3>2. ASSUME NEW S, todo[t] \in Seq(S) PROVE rest # <<>>
      <4>1. Len(todo[t]) \in Nat /\ Len(rest) = Len(todo[t]) - 1
        BY <3>1, <3>2
      <4>2. Len(rest) >= 1
        BY <1>2, <4>1
      <4>3. Len(<<>>) = 0
        OBVIOUS
      <4> HIDE DEF rest
      <4> QED
        BY <4>2, <4>3
    <3> QED
      BY <2>1, <3>1, <3>2
  <2>3. /\ todo' \in [Threads -> Seq(Ids) \cup Seq(Courses)]
        /\ todo'[t] = rest
        /\ \A u \in Threads \ {t} : todo'[u] = todo[u] /\ pc'[u] = pc[u]
        /\ pc'[t] = again
    BY <1>2, <2>1, <2>2 DEF TypeOK, LocalsOK
  <2>4. again = "count" \/ rest \in Seq(Ids)
    BY <2>2
  <2>5. pc' \in [Threads -> {"idle", "check", "record", "find", "take", "count",
                             "flag"} \cup Converting]
    BY <1>2 DEF TypeOK, LocalsOK
  <2> HIDE DEF rest
  <2> QED
    BY <1>2, <2>2, <2>3, <2>4, <2>5 DEF TypeOK, LocalsOK, Converting
<1> QED
  BY <1>1, <1>2 DEF NextId

LEMMA SubjectType ==
    ASSUME TypeOK, NEW t \in Threads,
           pc[t] \in {"check", "record", "find", "take"} \cup Converting
    PROVE  Subject(t) \in Ids
<1>1. todo[t] \in Seq(Ids) /\ todo[t] # <<>>
  BY DEF TypeOK, LocalsOK, Converting
<1> QED
  BY <1>1 DEF Subject

LEMMA ContractTypes ==
    ASSUME NEW b \in Ids, NEW r \in BusinessRow, r.course # NoId
    PROVE  ContractOf(b, r) \in ContractRow
BY DEF ContractOf, BusinessRow, ContractRow

\* A handler with one write leaves every thread where it was.
LEMMA LocalsKept ==
    ASSUME TypeOK, UNCHANGED locals
    PROVE  LocalsOK'
BY DEF TypeOK, LocalsOK, locals

LEMMA TypeStep == TypeOK /\ [Next]_vars => TypeOK'
<1> SUFFICES ASSUME TypeOK, [Next]_vars PROVE TypeOK'
  OBVIOUS
<1>1. ASSUME NEW t \in Threads, InsertBusiness(t) PROVE TypeOK'
  <2>1. LocalsOK'
    BY <1>1, LocalsKept DEF InsertBusiness
  <2> QED
    BY <1>1, <2>1 DEF TypeOK, TablesOK, InsertBusiness, Accept
<1>2. ASSUME NEW t \in Threads, UpdateBusiness(t) PROVE TypeOK'
  <2>1. LocalsOK'
    BY <1>2, LocalsKept DEF UpdateBusiness
  <2>2. business' \in [Ids -> BusinessRow \cup {NoRow}]
    <3>1. PICK b \in Ids : /\ business[b] # NoRow
                           /\ \E s \in Status, k \in Courses \cup {business[b].course} :
                                 business' = [business EXCEPT ![b] = [status |-> s, course |-> k]]
      BY <1>2 DEF UpdateBusiness
    <3>2. business[b] \in BusinessRow
      BY <3>1 DEF TypeOK, TablesOK
    <3> QED
      BY <3>1, <3>2 DEF TypeOK, TablesOK, BusinessRow
  <2> QED
    BY <1>2, <2>1, <2>2 DEF TypeOK, TablesOK, UpdateBusiness, Accept
<1>3. ASSUME NEW t \in Threads, DeleteBusiness(t) PROVE TypeOK'
  <2>1. LocalsOK'
    BY <1>3, LocalsKept DEF DeleteBusiness
  <2> QED
    BY <1>3, <2>1 DEF TypeOK, TablesOK, DeleteBusiness, Accept
<1>4. ASSUME NEW t \in Threads, BackPool(t) PROVE TypeOK'
  <2>1. LocalsOK'
    BY <1>4, LocalsKept DEF BackPool
  <2>2. business' \in [Ids -> BusinessRow \cup {NoRow}]
    BY <1>4 DEF TypeOK, TablesOK, BackPool, BusinessRow, Status
  <2> QED
    BY <1>4, <2>1, <2>2 DEF TypeOK, TablesOK, BackPool, Accept
<1>5. ASSUME NEW t \in Threads, InsertContract(t) PROVE TypeOK'
  <2>1. LocalsOK'
    BY <1>5, LocalsKept DEF InsertContract
  <2>2. contract' \in Seq(ContractRow)
    BY <1>5 DEF TypeOK, TablesOK, InsertContract, ContractRow
  <2> QED
    BY <1>5, <2>1, <2>2 DEF TypeOK, TablesOK, InsertContract, Accept
<1>6. ASSUME NEW t \in Threads, BeginAssign(t) PROVE TypeOK'
  BY <1>6, BatchIsSeq DEF TypeOK, TablesOK, LocalsOK, BeginAssign, Accept, tables, Converting
<1>7. ASSUME NEW t \in Threads, CheckBusiness(t) PROVE TypeOK'
  <2>1. LocalsOK'
    BY <1>7, FinishTypes DEF CheckBusiness, TypeOK, LocalsOK, Converting
  <2> QED
    BY <1>7, <2>1 DEF TypeOK, TablesOK, CheckBusiness, tables
<1>8. ASSUME NEW t \in Threads, RecordAssignment(t) PROVE TypeOK'
  <2>1. Subject(t) \in Ids /\ todo[t] \in Seq(Ids)
    BY <1>8, SubjectType DEF RecordAssignment, TypeOK, LocalsOK
  <2>2. LocalsOK'
    BY <1>8, <2>1, FinishTypes, NextIdTypes DEF RecordAssignment
  <2>3. assign' \in Seq(AssignRecord)
    <3>1. \A u \in Users : NewRecord(Subject(t), u) \in AssignRecord
      BY <2>1 DEF NewRecord, AssignRecord
    <3> QED
      BY <1>8, <3>1 DEF TypeOK, TablesOK, RecordAssignment
  <2> QED
    BY <1>8, <2>2, <2>3 DEF TypeOK, TablesOK, RecordAssignment
<1>9. ASSUME NEW t \in Threads, BeginGain(t) PROVE TypeOK'
  BY <1>9, BatchIsSeq DEF TypeOK, TablesOK, LocalsOK, BeginGain, Accept, tables, Converting
<1>10. ASSUME NEW t \in Threads, FindBusiness(t) PROVE TypeOK'
  <2>1. LocalsOK'
    BY <1>10, FinishTypes DEF FindBusiness, TypeOK, LocalsOK, Converting
  <2> QED
    BY <1>10, <2>1 DEF TypeOK, TablesOK, FindBusiness, tables
<1>11. ASSUME NEW t \in Threads, TakeBusiness(t) PROVE TypeOK'
  <2>1. Subject(t) \in Ids /\ todo[t] \in Seq(Ids)
    BY <1>11, SubjectType DEF TakeBusiness, TypeOK, LocalsOK
  <2>2. LocalsOK'
    BY <1>11, <2>1, NextIdTypes DEF TakeBusiness
  <2>3. business' \in [Ids -> BusinessRow \cup {NoRow}]
    BY <1>11, <2>1 DEF TypeOK, TablesOK, TakeBusiness, BusinessRow, Status
  <2> QED
    BY <1>11, <2>2, <2>3 DEF TypeOK, TablesOK, TakeBusiness
<1>12. ASSUME NEW t \in Threads, ReadBusiness(t) PROVE TypeOK'
  <2>1. PICK b \in Ids : /\ business[b] # NoRow
                         /\ business[b].course # NoId
                         /\ todo' = [todo EXCEPT ![t] = <<b>>]
                         /\ row' = [row EXCEPT ![t] = business[b]]
    BY <1>12 DEF ReadBusiness
  <2>2. business[b] \in BusinessRow /\ <<b>> \in Seq(Ids) /\ <<b>> # <<>>
    BY <2>1 DEF TypeOK, TablesOK
  <2>3. LocalsOK'
    BY <1>12, <2>1, <2>2 DEF TypeOK, LocalsOK, ReadBusiness, Converting
  <2> QED
    BY <1>12, <2>3 DEF TypeOK, TablesOK, ReadBusiness, Accept, tables
<1>13. ASSUME NEW t \in Threads, InsertDraft(t) PROVE TypeOK'
  <2>1. ContractOf(Subject(t), row[t]) \in ContractRow
    BY <1>13, SubjectType, ContractTypes DEF InsertDraft, TypeOK, LocalsOK, Converting
  <2>2. LocalsOK'
    BY <1>13, <2>1 DEF TypeOK, LocalsOK, InsertDraft, Converting
  <2> QED
    BY <1>13, <2>2 DEF TypeOK, TablesOK, InsertDraft, tables
<1>14. ASSUME NEW t \in Threads, DeleteConverted(t) PROVE TypeOK'
  BY <1>14 DEF TypeOK, TablesOK, LocalsOK, DeleteConverted, tables, Converting
<1>15. ASSUME NEW t \in Threads, Commit(t) PROVE TypeOK'
  <2>1. LocalsOK'
    BY <1>15, FinishTypes DEF Commit
  <2>2. contract' \in Seq(ContractRow)
    BY <1>15 DEF TypeOK, TablesOK, LocalsOK, Commit
  <2> QED
    BY <1>15, <2>1, <2>2 DEF TypeOK, TablesOK, Commit
<1>16. ASSUME NEW t \in Threads, BeginCourses(t) PROVE TypeOK'
  BY <1>16, BatchIsSeq DEF TypeOK, TablesOK, LocalsOK, BeginCourses, Accept, tables, Converting
<1>17. ASSUME NEW t \in Threads, CountBusinesses(t) PROVE TypeOK'
  <2>1. LocalsOK'
    BY <1>17, FinishTypes DEF CountBusinesses, TypeOK, LocalsOK, Converting
  <2> QED
    BY <1>17, <2>1 DEF TypeOK, TablesOK, CountBusinesses, tables
<1>18. ASSUME NEW t \in Threads, FlagCourse(t) PROVE TypeOK'
  <2>1. LocalsOK'
    BY <1>18, NextIdTypes DEF FlagCourse
  <2> QED
    BY <1>18, <2>1 DEF TypeOK, TablesOK, FlagCourse
<1>19. ASSUME NEW t \in Threads, Abort(t) PROVE TypeOK'
  BY <1>19, FinishTypes DEF TypeOK, TablesOK, Abort, tables
<1>20. CASE UNCHANGED vars
  BY <1>20, LocalsKept DEF TypeOK, TablesOK, vars, tables
<1> QED
  BY <1>1, <1>2, <1>3, <1>4, <1>5, <1>6, <1>7, <1>8, <1>9, <1>10, <1>11,
     <1>12, <1>13, <1>14, <1>15, <1>16, <1>17, <1>18, <1>19, <1>20
     DEF Next, Ask, Serve, Rest

\* Every variable keeps its type; a conversion past its checks always holds a
\* business row with a course.
THEOREM TypeCorrect == Spec => []TypeOK
<1>1. Init => TypeOK
  BY DEF Init, TypeOK, TablesOK, LocalsOK, Converting
<1> QED
  BY <1>1, TypeStep, PTL DEF Spec
-----------------------------------------------------------------------------
(* Conversion.  The strengthening says what a conversion on its way knows: *)
(* the business it is about was once in the table, and the contract it is  *)
(* going to commit names that business.                                    *)

Remembered ==
    /\ \A b \in Ids : b \notin used => business[b] = NoRow
    /\ \A k \in DOMAIN contract : contract[k].business \in used \cup {NoId}

OnTheWay ==
    \A t \in Threads :
        /\ pc[t] \in Converting => Subject(t) \in used
        /\ pc[t] \in {"delete", "commit"} => draft[t].business = Subject(t)

DealInv == Remembered /\ OnTheWay /\ ContractXorBusiness /\ NothingLost

\* The statements that leave tb_business, its keys, the removals and the
\* contracts alone.
Elsewhere(t) ==
    \/ BeginAssign(t) \/ CheckBusiness(t) \/ RecordAssignment(t)
    \/ BeginGain(t) \/ FindBusiness(t)
    \/ ReadBusiness(t) \/ InsertDraft(t) \/ DeleteConverted(t)
    \/ BeginCourses(t) \/ CountBusinesses(t) \/ FlagCourse(t)
    \/ Abort(t)

\* Those that write a row that stays, whoever may have read it before.
Overwrites(t) == UpdateBusiness(t) \/ BackPool(t) \/ TakeBusiness(t)

LEMMA ElsewhereKeeps ==
    ASSUME NEW t \in Threads, Elsewhere(t)
    PROVE  UNCHANGED <<business, used, removed, contract>>
BY DEF Elsewhere, BeginAssign, CheckBusiness, RecordAssignment, BeginGain,
       FindBusiness, ReadBusiness, InsertDraft, DeleteConverted, BeginCourses,
       CountBusinesses, FlagCourse, Abort, tables

LEMMA OverwritesKeeps ==
    ASSUME TypeOK, NEW t \in Threads, Overwrites(t)
    PROVE  /\ UNCHANGED <<used, removed, contract>>
           /\ \A b \in Ids : business'[b] = NoRow <=> business[b] = NoRow
<1> USE DEF TypeOK, TablesOK
<1>1. \A s \in Status, k \in Courses \cup {NoId} :
         [status |-> s, course |-> k] \in BusinessRow
  BY DEF BusinessRow
<1>2. \A b \in Ids : business[b] # NoRow =>
         /\ business[b].course \in Courses \cup {NoId}
         /\ \A s \in Status : [business[b] EXCEPT !.status = s] \in BusinessRow
  BY DEF BusinessRow
<1>3. CASE UpdateBusiness(t)
  <2>1. PICK b \in Ids : /\ business[b] # NoRow
                         /\ \E s \in Status, k \in Courses \cup {business[b].course} :
                               business' = [business EXCEPT ![b] = [status |-> s, course |-> k]]
    BY <1>3 DEF UpdateBusiness
  <2>2. PICK s \in Status, k \in Courses \cup {business[b].course} :
           business' = [business EXCEPT ![b] = [status |-> s, course |-> k]]
    BY <2>1
  <2>3. [status |-> s, course |-> k] # NoRow
    BY <1>1, <1>2, <2>1, RowAssumption
  <2> QED
    BY <1>3, <2>1, <2>2, <2>3 DEF UpdateBusiness
<1>4. CASE BackPool(t)
  <2>1. PICK b \in Ids : /\ business[b] # NoRow
                         /\ business' = [business EXCEPT ![b].status = "3"]
    BY <1>4 DEF BackPool
  <2>2. [business[b] EXCEPT !.status = "3"] # NoRow
    BY <1>2, <2>1, RowAssumption DEF Status
  <2> QED
    BY <1>4, <2>1, <2>2 DEF BackPool
<1>5. CASE TakeBusiness(t)
  <2>1. Subject(t) \in Ids
    BY <1>5, SubjectType DEF TakeBusiness
  <2>2. business[Subject(t)] # NoRow =>
           [business[Subject(t)] EXCEPT !.status = "1"] # NoRow
    BY <1>2, <2>1, RowAssumption DEF Status
  <2> QED
    BY <1>5, <2>1, <2>2 DEF TakeBusiness
<1> QED
  BY <1>3, <1>4, <1>5 DEF Overwrites

\* Every step is one of these kinds.
LEMMA StepKinds ==
    ASSUME [Next]_vars
    PROVE  \/ \E t \in Threads :
                 \/ Elsewhere(t) \/ Overwrites(t)
                 \/ InsertBusiness(t) \/ DeleteBusiness(t) \/ InsertContract(t)
                 \/ Commit(t)
           \/ UNCHANGED vars
BY DEF Next, Ask, Serve, Rest, Elsewhere, Overwrites

\* What a commit does: the draft becomes the newest contract.
LEMMA CommitEffect ==
    ASSUME TypeOK, OnTheWay, NEW t \in Threads, Commit(t)
    PROVE  /\ Subject(t) \in Ids /\ Subject(t) \in used
           /\ Len(contract') = Len(contract) + 1
           /\ \A k \in DOMAIN contract : contract'[k] = contract[k]
           /\ contract'[Len(contract) + 1].business = Subject(t)
           /\ DOMAIN contract' = DOMAIN contract \cup {Len(contract) + 1}
           /\ \A b \in Ids :
                 business'[b] = IF b = Subject(t) THEN NoRow ELSE business[b]
           /\ UNCHANGED <<used, removed>>
<1>1. Subject(t) \in Ids /\ Subject(t) \in used /\ draft[t].business = Subject(t)
  BY SubjectType DEF Commit, OnTheWay, Converting
<1>2. contract \in Seq(ContractRow) /\ contract' = Append(contract, draft[t])
  BY DEF Commit, TypeOK, TablesOK
<1>3. /\ Len(contract') = Len(contract) + 1
      /\ \A k \in DOMAIN contract : contract'[k] = contract[k]
      /\ contract'[Len(contract) + 1] = draft[t]
      /\ DOMAIN contract' = DOMAIN contract \cup {Len(contract) + 1}
  BY <1>2
<1>4. /\ \A b \in Ids : business'[b] = IF b = Subject(t) THEN NoRow ELSE business[b]
      /\ UNCHANGED <<used, removed>>
  BY <1>1 DEF Commit, TypeOK, TablesOK
<1> QED
  BY <1>1, <1>3, <1>4

\* A contract from a form names no business.
LEMMA FormEffect ==
    ASSUME TypeOK, NEW t \in Threads, InsertContract(t)
    PROVE  /\ DOMAIN contract' = DOMAIN contract \cup {Len(contract) + 1}
           /\ \A k \in DOMAIN contract : contract'[k] = contract[k]
           /\ contract'[Len(contract) + 1].business = NoId
           /\ \A b \in Ids : Converted(b)' <=> Converted(b)
           /\ UNCHANGED <<business, used, removed>>
<1>1. PICK k \in Courses :
         contract' = Append(contract, [business |-> NoId, course |-> k])
  BY DEF InsertContract
<1>2. contract \in Seq(ContractRow)
  BY DEF TypeOK, TablesOK
<1>3. /\ DOMAIN contract' = DOMAIN contract \cup {Len(contract) + 1}
      /\ \A j \in DOMAIN contract : contract'[j] = contract[j]
      /\ contract'[Len(contract) + 1].business = NoId
  BY <1>1, <1>2
<1>4. \A b \in Ids : Converted(b)' <=> Converted(b)
  BY <1>3, KeyAssumption DEF Converted
<1>5. UNCHANGED <<business, used, removed>>
  BY DEF InsertContract
<1> QED
  BY <1>3, <1>4, <1>5

LEMMA RememberedStep ==
    TypeOK /\ Remembered /\ OnTheWay /\ [Next]_vars => Remembered' /\ used \subseteq used'
<1> SUFFICES ASSUME TypeOK, Remembered, OnTheWay, [Next]_vars
             PROVE  Remembered' /\ used \subseteq used'
  OBVIOUS
<1>1. ASSUME NEW t \in Threads, Elsewhere(t) PROVE Remembered' /\ used \subseteq used'
  BY <1>1, ElsewhereKeeps DEF Remembered
<1>2. ASSUME NEW t \in Threads, Overwrites(t) PROVE Remembered' /\ used \subseteq used'
  BY <1>2, OverwritesKeeps DEF Remembered
<1>3. ASSUME NEW t \in Threads, InsertBusiness(t) PROVE Remembered' /\ used \subseteq used'
  BY <1>3 DEF Remembered, InsertBusiness, TypeOK, TablesOK
<1>4. ASSUME NEW t \in Threads, DeleteBusiness(t) PROVE Remembered' /\ used \subseteq used'
  BY <1>4 DEF Remembered, DeleteBusiness, TypeOK, TablesOK
<1>5. ASSUME NEW t \in Threads, InsertContract(t) PROVE Remembered' /\ used \subseteq used'
  BY <1>5, FormEffect DEF Remembered
<1>6. ASSUME NEW t \in Threads, Commit(t) PROVE Remembered' /\ used \subseteq used'
  BY <1>6, CommitEffect DEF Remembered
<1>7. CASE UNCHANGED vars
  BY <1>7 DEF Remembered, vars, tables
<1> QED
  BY <1>1, <1>2, <1>3, <1>4, <1>5, <1>6, <1>7, StepKinds

\* The threads: only the three statements of a conversion move a thread into
\* or along a conversion.
LEMMA OnTheWayStep ==
    TypeOK /\ Remembered /\ OnTheWay /\ [Next]_vars => OnTheWay'
<1> SUFFICES ASSUME TypeOK, Remembered, OnTheWay, [Next]_vars,
                    NEW u \in Threads
             PROVE  /\ pc'[u] \in Converting => Subject(u)' \in used'
                    /\ pc'[u] \in {"delete", "commit"} => draft'[u].business = Subject(u)'
  BY DEF OnTheWay
<1> USE DEF Converting
<1>0. used \subseteq used'
  BY RememberedStep
<1>1. ASSUME pc'[u] = pc[u], todo'[u] = todo[u], draft'[u] = draft[u]
      PROVE  /\ pc'[u] \in Converting => Subject(u)' \in used'
             /\ pc'[u] \in {"delete", "commit"} => draft'[u].business = Subject(u)'
  BY <1>0, <1>1 DEF OnTheWay, Subject
<1>2. ASSUME NEW t \in Threads, u # t \/ pc'[u] \notin Converting,
             \/ Finish(t)
             \/ NextId(t, "check") \/ NextId(t, "find") \/ NextId(t, "count")
             \/ CheckBusiness(t) \/ FindBusiness(t) \/ CountBusinesses(t)
             \/ BeginAssign(t) \/ BeginGain(t) \/ BeginCourses(t)
             \/ ReadBusiness(t) \/ InsertDraft(t) \/ DeleteConverted(t)
      PROVE  /\ pc'[u] \in Converting => Subject(u)' \in used'
             /\ pc'[u] \in {"delete", "commit"} => draft'[u].business = Subject(u)'
  <2>1. CASE u # t
    BY <1>1, <1>2, <2>1
       DEF TypeOK, LocalsOK, Finish, NextId, CheckBusiness, FindBusiness,
           CountBusinesses, BeginAssign, BeginGain, BeginCourses, ReadBusiness,
           InsertDraft, DeleteConverted
  <2> QED
    BY <1>2, <2>1
<1>3. ASSUME NEW t \in Threads,
             \/ InsertBusiness(t) \/ UpdateBusiness(t) \/ DeleteBusiness(t)
             \/ BackPool(t) \/ InsertContract(t)
      PROVE  /\ pc'[u] \in Converting => Subject(u)' \in used'
             /\ pc'[u] \in {"delete", "commit"} => draft'[u].business = Subject(u)'
  BY <1>1, <1>3 DEF InsertBusiness, UpdateBusiness, DeleteBusiness, BackPool,
                    InsertContract, locals
<1>4. ASSUME NEW t \in Threads,
             BeginAssign(t) \/ BeginGain(t) \/ BeginCourses(t) \/ CheckBusiness(t)
               \/ FindBusiness(t) \/ CountBusinesses(t)
      PROVE  pc'[t] \notin Converting
  BY <1>4 DEF BeginAssign, BeginGain, BeginCourses, CheckBusiness, FindBusiness,
              CountBusinesses, TypeOK, LocalsOK, Finish
<1>5. ASSUME NEW t \in Threads,
             \/ Finish(t)
             \/ NextId(t, "check") \/ NextId(t, "find") \/ NextId(t, "count")
      PROVE  pc'[t] \notin Converting
  BY <1>5 DEF NextId, TypeOK, LocalsOK, Finish
<1>6. ASSUME NEW t \in Threads,
             RecordAssignment(t) \/ TakeBusiness(t) \/ FlagCourse(t) \/ Commit(t) \/ Abort(t)
      PROVE  \/ Finish(t)
             \/ NextId(t, "check") \/ NextId(t, "find") \/ NextId(t, "count")
  BY <1>6 DEF RecordAssignment, TakeBusiness, FlagCourse, Commit, Abort
<1>7. ASSUME NEW t \in Threads, ReadBusiness(t)
      PROVE  /\ pc'[u] \in Converting => Subject(u)' \in used'
             /\ pc'[u] \in {"delete", "commit"} => draft'[u].business = Subject(u)'
  <2>1. CASE u = t
    <3>1. PICK b \in Ids : business[b] # NoRow /\ todo' = [todo EXCEPT ![t] = <<b>>]
      BY <1>7 DEF ReadBusiness
    <3>2. Subject(t)' = b
      BY <3>1 DEF Subject, TypeOK, LocalsOK
    <3>3. b \in used
      BY <3>1 DEF Remembered
    <3>4. pc'[t] = "insert"
      BY <1>7 DEF ReadBusiness, TypeOK, LocalsOK
    <3> QED
      BY <1>0, <2>1, <3>2, <3>3, <3>4
  <2> QED
    BY <1>2, <1>7, <2>1
<1>8. ASSUME NEW t \in Threads, InsertDraft(t)
      PROVE  /\ pc'[u] \in Converting => Subject(u)' \in used'
             /\ pc'[u] \in {"delete", "commit"} => draft'[u].business = Subject(u)'
  <2>1. CASE u = t
    <3>1. Subject(t)' = Subject(t) /\ Subject(t) \in used
      BY <1>8 DEF InsertDraft, OnTheWay, Subject
    <3>2. draft'[t].business = Subject(t)
      BY <1>8 DEF InsertDraft, ContractOf, TypeOK, LocalsOK
    <3> QED
      BY <1>0, <2>1, <3>1, <3>2
  <2> QED
    BY <1>2, <1>8, <2>1
<1>9. ASSUME NEW t \in Threads, DeleteConverted(t)
      PROVE  /\ pc'[u] \in Converting => Subject(u)' \in used'
             /\ pc'[u] \in {"delete", "commit"} => draft'[u].business = Subject(u)'
  <2>1. CASE u = t
    BY <1>0, <1>9, <2>1 DEF DeleteConverted, OnTheWay, Subject
  <2> QED
    BY <1>2, <1>9, <2>1
<1>10. CASE UNCHANGED vars
  BY <1>1, <1>10 DEF vars, locals
<1>11. ASSUME NEW t \in Threads,
              \/ BeginAssign(t) \/ BeginGain(t) \/ BeginCourses(t)
              \/ CheckBusiness(t) \/ FindBusiness(t) \/ CountBusinesses(t)
       PROVE  /\ pc'[u] \in Converting => Subject(u)' \in used'
              /\ pc'[u] \in {"delete", "commit"} => draft'[u].business = Subject(u)'
  <2>1. u # t \/ pc'[u] \notin Converting
    BY <1>4, <1>11
  <2> QED
    BY <1>2, <1>11, <2>1
<1>12. ASSUME NEW t \in Threads,
              RecordAssignment(t) \/ TakeBusiness(t) \/ FlagCourse(t) \/ Commit(t) \/ Abort(t)
       PROVE  /\ pc'[u] \in Converting => Subject(u)' \in used'
              /\ pc'[u] \in {"delete", "commit"} => draft'[u].business = Subject(u)'
  <2>1. \/ Finish(t)
        \/ NextId(t, "check") \/ NextId(t, "find") \/ NextId(t, "count")
    BY <1>6, <1>12
  <2>2. u # t \/ pc'[u] \notin Converting
    BY <1>5, <2>1
  <2> QED
    BY <1>2, <2>1, <2>2
<1> QED
  BY <1>3, <1>7, <1>8, <1>9, <1>10, <1>11, <1>12 DEF Next, Ask, Serve, Rest

LEMMA XorStep ==
    TypeOK /\ DealInv /\ [Next]_vars => ContractXorBusiness' /\ NothingLost'
<1> SUFFICES ASSUME TypeOK, Remembered, OnTheWay, ContractXorBusiness, NothingLost,
                    [Next]_vars
             PROVE  ContractXorBusiness' /\ NothingLost'
  BY DEF DealInv
<1> USE DEF ContractXorBusiness, NothingLost
<1>0. used \subseteq Ids
  BY DEF TypeOK, TablesOK
<1>1. ASSUME NEW t \in Threads, Elsewhere(t) PROVE ContractXorBusiness' /\ NothingLost'
  BY <1>1, ElsewhereKeeps DEF Converted
<1>2. ASSUME NEW t \in Threads, Overwrites(t) PROVE ContractXorBusiness' /\ NothingLost'
  BY <1>0, <1>2, OverwritesKeeps DEF Converted
<1>3. ASSUME NEW t \in Threads, InsertBusiness(t) PROVE ContractXorBusiness' /\ NothingLost'
  <2>1. PICK b \in Ids \ used, r \in BusinessRow :
           business' = [business EXCEPT ![b] = r] /\ used' = used \cup {b}
    BY <1>3 DEF InsertBusiness
  <2>2. r # NoRow /\ contract' = contract /\ removed' = removed
    BY <1>3, RowAssumption DEF InsertBusiness
  <2>3. ~ Converted(b)
    BY <2>1, KeyAssumption DEF Remembered, Converted
  <2> QED
    BY <1>0, <2>1, <2>2, <2>3 DEF Converted, TypeOK, TablesOK
<1>4. ASSUME NEW t \in Threads, DeleteBusiness(t) PROVE ContractXorBusiness' /\ NothingLost'
  BY <1>0, <1>4 DEF DeleteBusiness, Converted, TypeOK, TablesOK
<1>5. ASSUME NEW t \in Threads, InsertContract(t) PROVE ContractXorBusiness' /\ NothingLost'
  BY <1>0, <1>5, FormEffect
<1>6. ASSUME NEW t \in Threads, Commit(t) PROVE ContractXorBusiness' /\ NothingLost'
  <2>1. \A b \in Ids : Converted(b)' <=> Converted(b) \/ b = Subject(t)
    BY <1>6, CommitEffect DEF Converted
  <2> QED
    BY <1>0, <1>6, <2>1, CommitEffect
<1>7. CASE UNCHANGED vars
  BY <1>7 DEF vars, tables, Converted
<1> QED
  BY <1>1, <1>2, <1>3, <1>4, <1>5, <1>6, <1>7, StepKinds

LEMMA DealSafe == Spec => [](TypeOK /\ DealInv)
<1>1. Init => TypeOK
  BY DEF Init, TypeOK, TablesOK, LocalsOK, Converting
<1>2. Init => DealInv
  BY DEF Init, DealInv, Remembered, OnTheWay, ContractXorBusiness, NothingLost,
         Converted, Converting
<1>3. TypeOK /\ DealInv /\ [Next]_vars => DealInv'
  BY RememberedStep, OnTheWayStep, XorStep DEF DealInv
<1> QED
  BY <1>1, <1>2, <1>3, TypeStep, PTL DEF Spec

\* A deal is a business or a contract and never both, for every number of
\* concurrent conversions, updates and deletes and wherever requests die.
THEOREM NeverBoth == Spec => []ContractXorBusiness
<1>1. DealInv => ContractXorBusiness
  BY DEF DealInv
<1> QED
  BY <1>1, DealSafe, PTL

\* A business that is gone was removed by a request or is a contract.
THEOREM NoDealLost == Spec => []NothingLost
<1>1. DealInv => NothingLost
  BY DEF DealInv
<1> QED
  BY <1>1, DealSafe, PTL

\* A business that is gone stays gone, whoever still holds a row read before.
THEOREM GoneForGood == Spec => GoneStaysGone
<1>1. TypeOK /\ DealInv /\ [Next]_vars =>
         [\A b \in used : business[b] = NoRow => business'[b] = NoRow]_business
  <2> SUFFICES ASSUME TypeOK, Remembered, OnTheWay, [Next]_vars,
                      NEW b \in used, business[b] = NoRow
               PROVE  business'[b] = NoRow
    BY DEF DealInv
  <2>0. b \in Ids
    BY DEF TypeOK, TablesOK
  <2>1. ASSUME NEW t \in Threads, Elsewhere(t) PROVE business'[b] = NoRow
    BY <2>1, ElsewhereKeeps
  <2>2. ASSUME NEW t \in Threads, Overwrites(t) PROVE business'[b] = NoRow
    BY <2>0, <2>2, OverwritesKeeps
  <2>3. ASSUME NEW t \in Threads, InsertBusiness(t) PROVE business'[b] = NoRow
    BY <2>0, <2>3 DEF InsertBusiness, TypeOK, TablesOK
  <2>4. ASSUME NEW t \in Threads, DeleteBusiness(t) PROVE business'[b] = NoRow
    BY <2>0, <2>4 DEF DeleteBusiness, TypeOK, TablesOK
  <2>5. ASSUME NEW t \in Threads, InsertContract(t) PROVE business'[b] = NoRow
    BY <2>5, FormEffect
  <2>6. ASSUME NEW t \in Threads, Commit(t) PROVE business'[b] = NoRow
    BY <2>0, <2>6, CommitEffect
  <2>7. CASE UNCHANGED vars
    BY <2>7 DEF vars, tables
  <2> QED
    BY <2>1, <2>2, <2>3, <2>4, <2>5, <2>6, <2>7, StepKinds
<1> QED
  BY <1>1, DealSafe, PTL DEF Spec, GoneStaysGone
-----------------------------------------------------------------------------
(* The deal desk implements the life cycle of its deals. *)

LEMMA LifeKept ==
    ASSUME \A b \in Ids : LifeOf(b)' = LifeOf(b)
    PROVE  [Abstract!Next]_Life
BY DEF Life

LEMMA LifeMoves ==
    ASSUME NEW d \in Ids, NEW m \in Abstract!Moves,
           LifeOf(d) = m[1], LifeOf(d)' = m[2],
           \A b \in Ids : b # d => LifeOf(b)' = LifeOf(b)
    PROVE  [Abstract!Next]_Life
<1>1. Life[d] = m[1]
  BY DEF Life
<1>2. Life' = [Life EXCEPT ![d] = m[2]]
  BY DEF Life
<1> QED
  BY <1>1, <1>2 DEF Abstract!Next, Abstract!Move

LEMMA LifeStep == TypeOK /\ DealInv /\ [Next]_vars => [Abstract!Next]_Life
<1> SUFFICES ASSUME TypeOK, Remembered, OnTheWay, ContractXorBusiness, [Next]_vars
             PROVE  [Abstract!Next]_Life
  BY DEF DealInv
<1>1. ASSUME NEW t \in Threads, Elsewhere(t) PROVE [Abstract!Next]_Life
  BY <1>1, ElsewhereKeeps, LifeKept DEF LifeOf, Converted
<1>2. ASSUME NEW t \in Threads, Overwrites(t) PROVE [Abstract!Next]_Life
  BY <1>2, OverwritesKeeps, LifeKept DEF LifeOf, Converted
<1>3. ASSUME NEW t \in Threads, InsertBusiness(t) PROVE [Abstract!Next]_Life
  <2>1. PICK b \in Ids \ used, r \in BusinessRow :
           business' = [business EXCEPT ![b] = r] /\ used' = used \cup {b}
    BY <1>3 DEF InsertBusiness
  <2>2. r # NoRow /\ contract' = contract
    BY <1>3, RowAssumption DEF InsertBusiness
  <2>3. ~ Converted(b) /\ business[b] = NoRow
    BY <2>1, KeyAssumption DEF Remembered, Converted
  <2>4. LifeOf(b) = "new" /\ LifeOf(b)' = "business"
    BY <2>1, <2>2, <2>3 DEF LifeOf, Converted, TypeOK, TablesOK
  <2>5. \A c \in Ids : c # b => LifeOf(c)' = LifeOf(c)
    BY <2>1, <2>2 DEF LifeOf, Converted, TypeOK, TablesOK
  <2>6. <<"new", "business">> \in Abstract!Moves
    BY DEF Abstract!Moves
  <2> QED
    BY <2>4, <2>5, <2>6, LifeMoves
<1>4. ASSUME NEW t \in Threads, DeleteBusiness(t) PROVE [Abstract!Next]_Life
  <2>1. PICK b \in Ids : business[b] # NoRow /\ business' = [business EXCEPT ![b] = NoRow]
    BY <1>4 DEF DeleteBusiness
  <2>2. UNCHANGED <<used, contract>>
    BY <1>4 DEF DeleteBusiness
  <2>3. LifeOf(b) = "business" /\ LifeOf(b)' = "gone"
    BY <2>1, <2>2 DEF LifeOf, Converted, ContractXorBusiness, Remembered, TypeOK, TablesOK
  <2>4. \A c \in Ids : c # b => LifeOf(c)' = LifeOf(c)
    BY <2>1, <2>2 DEF LifeOf, Converted, TypeOK, TablesOK
  <2>5. <<"business", "gone">> \in Abstract!Moves
    BY DEF Abstract!Moves
  <2> QED
    BY <2>3, <2>4, <2>5, LifeMoves
<1>5. ASSUME NEW t \in Threads, InsertContract(t) PROVE [Abstract!Next]_Life
  BY <1>5, FormEffect, LifeKept DEF LifeOf
<1>6. ASSUME NEW t \in Threads, Commit(t) PROVE [Abstract!Next]_Life
  <2>0. PICK b \in Ids : b = Subject(t)
    BY <1>6, CommitEffect
  <2>1. b \in used /\ UNCHANGED used
    BY <1>6, <2>0, CommitEffect
  <2>2. \A c \in Ids : Converted(c)' <=> Converted(c) \/ c = b
    BY <1>6, <2>0, CommitEffect DEF Converted
  <2>3. \A c \in Ids : c # b => LifeOf(c)' = LifeOf(c)
    BY <1>6, <2>0, <2>2, CommitEffect DEF LifeOf
  <2>4. LifeOf(b)' = "contract"
    BY <2>1, <2>2 DEF LifeOf
  <2>5. LifeOf(b) \in {"contract", "business", "gone"}
    BY <2>1 DEF LifeOf
  <2>6. \A from \in {"business", "gone"} : <<from, "contract">> \in Abstract!Moves
    BY DEF Abstract!Moves
  <2>7. CASE LifeOf(b) = "contract"
    BY <2>3, <2>4, <2>7, LifeKept
  <2>8. CASE LifeOf(b) = "business"
    BY <2>1, <2>3, <2>4, <2>6, <2>8, LifeMoves
  <2>9. CASE LifeOf(b) = "gone"
    BY <2>1, <2>3, <2>4, <2>6, <2>9, LifeMoves
  <2> QED
    BY <2>5, <2>7, <2>8, <2>9
<1>7. CASE UNCHANGED vars
  BY <1>7, LifeKept DEF vars, tables, LifeOf, Converted
<1> QED
  BY <1>1, <1>2, <1>3, <1>4, <1>5, <1>6, <1>7, StepKinds

\* However requests interleave and die, every deal follows its life cycle.
THEOREM DealsFollowLife == Spec => FollowsLife
<1>1. Init => Abstract!Init
  BY DEF Init, Abstract!Init, Life, LifeOf, Converted
<1> QED
  BY <1>1, LifeStep, DealSafe, PTL DEF Spec, FollowsLife, Abstract!Spec
-----------------------------------------------------------------------------
(* Conversions of one business apart.  Nothing in the code keeps them apart: *)
(* what follows says that this, and no wider lock, would be enough.          *)

ConversionsApart ==
    \A t, u \in Threads :
        t # u /\ pc[t] \in Converting /\ pc[u] \in Converting
            => Subject(t) # Subject(u)

\* A business that is being converted is not a contract yet.
Unconverted ==
    \A t \in Threads : pc[t] \in Converting => ~ Converted(Subject(t))

\* A contract that appears next to those that stay is the only one with its
\* business, if none of those names it.
LEMMA OneMore ==
    ASSUME TypeOK, OneContractPerBusiness,
           DOMAIN contract' = DOMAIN contract \cup {Len(contract) + 1},
           \A k \in DOMAIN contract : contract'[k] = contract[k],
           NEW b, contract'[Len(contract) + 1].business = b,
           b = NoId \/ ~ Converted(b)
    PROVE  OneContractPerBusiness'
BY DEF OneContractPerBusiness, Converted

LEMMA OneContractStep ==
    TypeOK /\ DealInv /\ OneContractPerBusiness /\ Unconverted /\ [Next]_vars
        => OneContractPerBusiness'
<1> SUFFICES ASSUME TypeOK, OnTheWay, OneContractPerBusiness, Unconverted, [Next]_vars
             PROVE  OneContractPerBusiness'
  BY DEF DealInv
<1>1. ASSUME contract' = contract PROVE OneContractPerBusiness'
  BY <1>1 DEF OneContractPerBusiness
<1>2. ASSUME NEW t \in Threads, Elsewhere(t) \/ Overwrites(t)
               \/ InsertBusiness(t) \/ DeleteBusiness(t)
      PROVE  OneContractPerBusiness'
  BY <1>1, <1>2, ElsewhereKeeps, OverwritesKeeps DEF InsertBusiness, DeleteBusiness
<1>3. ASSUME NEW t \in Threads, InsertContract(t) PROVE OneContractPerBusiness'
  BY <1>3, FormEffect, OneMore
<1>4. ASSUME NEW t \in Threads, Commit(t) PROVE OneContractPerBusiness'
  <2>1. ~ Converted(Subject(t))
    BY <1>4 DEF Commit, Unconverted, Converting
  <2> QED
    BY <1>4, <2>1, CommitEffect, OneMore
<1>5. CASE UNCHANGED vars
  BY <1>1, <1>5 DEF vars, tables
<1> QED
  BY <1>2, <1>3, <1>4, <1>5, StepKinds

\* A step is one thread's: the others stay where they are.
LEMMA OthersStay ==
    ASSUME TypeOK, NEW t \in Threads, Ask(t) \/ Serve(t) \/ Abort(t),
           NEW u \in Threads, u # t
    PROVE  pc'[u] = pc[u] /\ todo'[u] = todo[u]
<1>1. CASE Finish(t)
  BY <1>1 DEF Finish, TypeOK, LocalsOK
<1>2. CASE ~ Finish(t)
  <2>1. CASE Ask(t)
    BY <2>1 DEF Ask, InsertBusiness, UpdateBusiness, DeleteBusiness, BackPool,
                InsertContract, BeginAssign, BeginGain, ReadBusiness, BeginCourses,
                locals, TypeOK, LocalsOK
  <2>2. CASE Serve(t)
    BY <1>2, <2>2 DEF Serve, CheckBusiness, RecordAssignment, FindBusiness,
                TakeBusiness, InsertDraft, DeleteConverted, Commit, CountBusinesses,
                FlagCourse, NextId, TypeOK, LocalsOK
  <2> QED
    BY <1>2, <2>1, <2>2 DEF Abort
<1> QED
  BY <1>1, <1>2

\* A thread that converts after its step has just read its business, which is
\* there, or goes on converting it.
LEMMA ConvertsOn ==
    ASSUME TypeOK, NEW t \in Threads, Ask(t) \/ Serve(t) \/ Abort(t),
           pc'[t] \in Converting
    PROVE  /\ contract' = contract \/ InsertContract(t)
           /\ \/ pc[t] \in Converting /\ Subject(t)' = Subject(t)
              \/ Subject(t)' \in Ids /\ business[Subject(t)'] # NoRow
<1> USE DEF TypeOK, LocalsOK, Converting
<1>1. ~ Finish(t)
  BY DEF Finish
<1>2. CASE InsertBusiness(t) \/ UpdateBusiness(t) \/ DeleteBusiness(t) \/ BackPool(t)
             \/ InsertContract(t)
  BY <1>2 DEF InsertBusiness, UpdateBusiness, DeleteBusiness, BackPool, InsertContract,
              locals, Accept
<1>3. CASE ReadBusiness(t)
  <2>1. PICK b \in Ids : business[b] # NoRow /\ todo' = [todo EXCEPT ![t] = <<b>>]
    BY <1>3 DEF ReadBusiness
  <2>2. Subject(t)' = b
    BY <2>1 DEF Subject
  <2> QED
    BY <1>3, <2>1, <2>2 DEF ReadBusiness, tables
<1>4. CASE BeginAssign(t) \/ BeginGain(t) \/ BeginCourses(t)
  BY <1>4 DEF BeginAssign, BeginGain, BeginCourses
<1>5. CASE InsertDraft(t) \/ DeleteConverted(t)
  BY <1>5 DEF InsertDraft, DeleteConverted, Subject, tables
<1>6. CASE CheckBusiness(t) \/ FindBusiness(t) \/ CountBusinesses(t) \/ Commit(t) \/ Abort(t)
  BY <1>1, <1>6 DEF CheckBusiness, FindBusiness, CountBusinesses, Commit, Abort
<1>7. CASE RecordAssignment(t) \/ TakeBusiness(t) \/ FlagCourse(t)
  BY <1>1, <1>7 DEF RecordAssignment, TakeBusiness, FlagCourse, NextId
<1> QED
  BY <1>2, <1>3, <1>4, <1>5, <1>6, <1>7 DEF Ask, Serve

LEMMA UnconvertedStep ==
    TypeOK /\ DealInv /\ ConversionsApart /\ Unconverted /\ [Next]_vars => Unconverted'
<1> SUFFICES ASSUME TypeOK, DealInv, ConversionsApart, Unconverted, [Next]_vars
             PROVE  Unconverted'
  OBVIOUS
<1>1. ASSUME NEW t \in Threads, Ask(t) \/ Serve(t) \/ Abort(t),
             NEW u \in Threads, pc'[u] \in Converting
      PROVE  ~ Converted(Subject(u))'
  <2>1. ASSUME NEW b, ~ Converted(b), ~ Commit(t), b # NoId PROVE ~ Converted(b)'
    <3>1. CASE InsertContract(t)
      BY <2>1, <3>1, FormEffect DEF Converted
    <3>2. CASE contract' = contract
      BY <2>1, <3>2 DEF Converted
    <3> QED
      BY <1>1, <2>1, <3>1, <3>2 DEF Ask, Serve, Abort, InsertBusiness, UpdateBusiness,
         DeleteBusiness, BackPool, BeginAssign, BeginGain, ReadBusiness, BeginCourses,
         CheckBusiness, RecordAssignment, FindBusiness, TakeBusiness, InsertDraft,
         DeleteConverted, CountBusinesses, FlagCourse, tables
  <2>2. CASE u = t
    <3>1. ~ Commit(t)
      BY <1>1, <2>2 DEF Commit, Finish, Converting, TypeOK, LocalsOK
    <3>2. CASE pc[t] \in Converting /\ Subject(t)' = Subject(t)
      <4>1. ~ Converted(Subject(t)) /\ Subject(t) # NoId
        BY <3>2, SubjectType, KeyAssumption DEF Unconverted
      <4> QED
        BY <2>1, <2>2, <3>1, <3>2, <4>1 DEF Converted
    <3>3. CASE Subject(t)' \in Ids /\ business[Subject(t)'] # NoRow
      <4>1. ~ \E k \in DOMAIN contract : contract[k].business = Subject(t)'
        BY <3>3 DEF DealInv, ContractXorBusiness, Converted
      <4>2. contract' = contract \/ InsertContract(t)
        BY <1>1, <2>2, ConvertsOn
      <4>3. Subject(t)' # NoId
        BY <3>3, KeyAssumption
      <4> QED
        BY <2>2, <4>1, <4>2, <4>3, FormEffect DEF Converted
    <3> QED
      BY <1>1, <2>2, <3>2, <3>3, ConvertsOn
  <2>3. CASE u # t
    <3>1. pc[u] \in Converting /\ Subject(u)' = Subject(u)
      BY <1>1, <2>3, OthersStay DEF Subject
    <3>2. ~ Converted(Subject(u)) /\ Subject(u) # NoId
      BY <3>1, SubjectType, KeyAssumption DEF Unconverted
    <3>3. CASE Commit(t)
      <4>1. Subject(u) # Subject(t)
        BY <2>3, <3>1, <3>3 DEF ConversionsApart, Commit, Converting
      <4> QED
        BY <3>1, <3>2, <3>3, <4>1, CommitEffect DEF DealInv, Converted
    <3> QED
      BY <2>1, <3>1, <3>2, <3>3 DEF Converted
  <2> QED
    BY <2>2, <2>3
<1>2. CASE UNCHANGED vars
  BY <1>2 DEF vars, locals, tables, Unconverted, Subject, Converted
<1> QED
  BY <1>1, <1>2 DEF Next, Rest, Unconverted

\* Where no two conversions of one business overlap it becomes at most one
\* contract, whatever else is written to it meanwhile and whatever dies.
THEOREM ContractsKeptApart ==
    Spec /\ []ConversionsApart => []OneContractPerBusiness
<1>1. Init => OneContractPerBusiness /\ Unconverted
  BY DEF Init, OneContractPerBusiness, Unconverted, Converting
<1> QED
  BY <1>1, OneContractStep, UnconvertedStep, DealSafe, PTL DEF Spec
-----------------------------------------------------------------------------
(* One request at a time *)

Serial == \A t, u \in Threads : t = u

\* With one request at a time a business becomes at most one contract.
THEOREM OneContract ==
    ASSUME Serial
    PROVE  Spec => []OneContractPerBusiness
<1>1. ConversionsApart
  BY DEF Serial, ConversionsApart
<1>2. []ConversionsApart
  BY <1>1, PTL
<1> QED
  BY <1>2, ContractsKeptApart, PTL

\* Between the test and the record of an assignment nobody deletes the business.
Checked ==
    \A t \in Threads : pc[t] = "record" => business[Subject(t)] # NoRow

\* A thread comes to the record by the test alone.
LEMMA RecordsChecked ==
    ASSUME TypeOK, NEW t \in Threads, Ask(t) \/ Serve(t) \/ Abort(t),
           pc'[t] = "record"
    PROVE  business[Subject(t)] # NoRow /\ UNCHANGED <<business, todo>>
<1> USE DEF TypeOK, LocalsOK
<1>1. ~ Finish(t)
  BY DEF Finish
<1>2. CASE InsertBusiness(t) \/ UpdateBusiness(t) \/ DeleteBusiness(t) \/ BackPool(t)
             \/ InsertContract(t)
  BY <1>2 DEF InsertBusiness, UpdateBusiness, DeleteBusiness, BackPool, InsertContract,
              locals, Accept
<1>3. CASE BeginAssign(t) \/ BeginGain(t) \/ ReadBusiness(t) \/ BeginCourses(t)
  BY <1>3 DEF BeginAssign, BeginGain, ReadBusiness, BeginCourses
<1>4. CASE FindBusiness(t) \/ CountBusinesses(t) \/ Commit(t) \/ Abort(t)
             \/ InsertDraft(t) \/ DeleteConverted(t)
  BY <1>1, <1>4 DEF FindBusiness, CountBusinesses, Commit, Abort, InsertDraft,
                    DeleteConverted
<1>5. CASE RecordAssignment(t) \/ TakeBusiness(t) \/ FlagCourse(t)
  BY <1>1, <1>5 DEF RecordAssignment, TakeBusiness, FlagCourse, NextId
<1>6. CASE CheckBusiness(t)
  BY <1>1, <1>6 DEF CheckBusiness, tables
<1> QED
  BY <1>2, <1>3, <1>4, <1>5, <1>6 DEF Ask, Serve

LEMMA CheckedStep ==
    ASSUME Serial
    PROVE  TypeOK /\ Checked /\ [Next]_vars => Checked'
<1> SUFFICES ASSUME TypeOK, Checked, [Next]_vars PROVE Checked'
  OBVIOUS
<1>1. ASSUME NEW t \in Threads, Ask(t) \/ Serve(t) \/ Abort(t),
             NEW u \in Threads, pc'[u] = "record"
      PROVE  business'[Subject(u)'] # NoRow
  <2>1. u = t
    BY DEF Serial
  <2> QED
    BY <1>1, <2>1, RecordsChecked DEF Subject
<1>2. CASE UNCHANGED vars
  BY <1>2 DEF vars, locals, tables, Checked, Subject
<1> QED
  BY <1>1, <1>2 DEF Next, Rest, Checked

LEMMA SerialSafe ==
    ASSUME Serial
    PROVE  Spec => [](TypeOK /\ Checked)
<1>1. Init => Checked
  BY DEF Init, Checked
<1> QED
  BY <1>1, CheckedStep, TypeCorrect, PTL DEF Spec

\* With one request at a time only a business that exists is assigned.
THEOREM OnlyExistingAssigned ==
    ASSUME Serial
    PROVE  Spec => AssignedExists
<1>1. TypeOK /\ Checked /\ [Next]_vars =>
         [assign' # assign =>
             business[assign'[Len(assign')].assignId] # NoRow]_assign
  <2> SUFFICES ASSUME TypeOK, Checked, [Next]_vars, assign' # assign
               PROVE  business[assign'[Len(assign')].assignId] # NoRow
    OBVIOUS
  <2>1. PICK t \in Threads : RecordAssignment(t)
    BY DEF Next, Ask, Serve, Abort, Rest, vars, tables, InsertBusiness,
           UpdateBusiness, DeleteBusiness, BackPool, InsertContract, BeginAssign,
           BeginGain, ReadBusiness, BeginCourses, CheckBusiness, FindBusiness,
           TakeBusiness, InsertDraft, DeleteConverted, Commit, CountBusinesses,
           FlagCourse
  <2>2. /\ user[t] \in Users /\ pc[t] = "record"
        /\ assign' = Append(assign, NewRecord(Subject(t), user[t]))
    BY <2>1 DEF RecordAssignment
  <2>3. NewRecord(Subject(t), user[t]) \in AssignRecord /\ assign \in Seq(AssignRecord)
    BY <2>2, SubjectType DEF NewRecord, AssignRecord, TypeOK, TablesOK
  <2>4. assign'[Len(assign')] = NewRecord(Subject(t), user[t])
    BY <2>2, <2>3
  <2>5. assign'[Len(assign')].assignId = Subject(t)
    BY <2>4 DEF NewRecord
  <2> QED
    BY <2>2, <2>5 DEF Checked
<1> QED
  BY <1>1, SerialSafe, PTL DEF Spec, AssignedExists
-----------------------------------------------------------------------------
(* Requests end.  What a request has still to do is the statements of the id *)
(* it is at and three for each id left, more than any id takes.              *)

Stage(p) ==
    IF p = "insert" THEN 3
    ELSE IF p \in {"check", "find", "count", "delete"} THEN 2 ELSE 1

Left(t) == IF pc[t] = "idle" THEN 0 ELSE 3 * Len(todo[t]) + Stage(pc[t])

LEMMA LeftType ==
    ASSUME TypeOK, NEW t \in Threads
    PROVE  /\ Left(t) \in Nat
           /\ Len(todo[t]) \in Nat
           /\ pc[t] # "idle" => Len(todo[t]) >= 1 /\ Left(t) >= 4
<1>1. todo[t] \in Seq(Ids) \cup Seq(Courses) /\ (pc[t] # "idle" => todo[t] # <<>>)
  BY DEF TypeOK, LocalsOK
<1>2. Len(todo[t]) \in Nat /\ (pc[t] # "idle" => Len(todo[t]) >= 1)
  BY <1>1
<1>3. Stage(pc[t]) \in 1 .. 3
  BY DEF Stage
<1> QED
  BY <1>2, <1>3 DEF Left

\* Each statement leaves less to do, and a request that dies nothing.
LEMMA StatementLess ==
    ASSUME TypeOK, TypeOK', NEW t \in Threads, Serve(t) \/ Abort(t)
    PROVE  Left(t)' < Left(t)
<1>0. /\ pc[t] # "idle"
      /\ Len(todo[t]) \in Nat /\ Len(todo[t]) >= 1
      /\ Left(t) = 3 * Len(todo[t]) + Stage(pc[t])
  <2>1. pc[t] # "idle"
    BY DEF Serve, Abort, CheckBusiness, RecordAssignment, FindBusiness, TakeBusiness,
           InsertDraft, DeleteConverted, Commit, CountBusinesses, FlagCourse
  <2> QED
    BY <2>1, LeftType DEF Left
<1>1. ASSUME Finish(t) PROVE Left(t)' < Left(t)
  <2>1. pc'[t] = "idle"
    BY <1>1 DEF Finish, TypeOK, LocalsOK
  <2>2. Left(t)' = 0
    BY <2>1 DEF Left
  <2>3. Left(t) \in Nat /\ Left(t) >= 4
    BY <1>0, LeftType
  <2> QED
    BY <2>2, <2>3
<1>2. ASSUME NEW q \in {"record", "take", "flag", "delete", "commit"},
             pc' = [pc EXCEPT ![t] = q], todo' = todo, Stage(q) < Stage(pc[t])
      PROVE  Left(t)' < Left(t)
  <2>1. pc'[t] = q /\ todo'[t] = todo[t]
    BY <1>2 DEF TypeOK, LocalsOK
  <2>2. Left(t)' = 3 * Len(todo[t]) + Stage(q)
    BY <1>2, <2>1 DEF Left
  <2>3. Stage(q) \in 1 .. 3 /\ Stage(pc[t]) \in 1 .. 3
    BY DEF Stage
  <2> QED
    BY <1>0, <1>2, <2>2, <2>3
<1>3. ASSUME NEW again \in {"check", "find", "count"}, NextId(t, again)
      PROVE  Left(t)' < Left(t)
  <2>1. CASE Finish(t)
    BY <1>1, <2>1
  <2>2. CASE /\ todo' = [todo EXCEPT ![t] = Tail(todo[t])]
             /\ pc' = [pc EXCEPT ![t] = again]
    <3>1. todo'[t] = Tail(todo[t]) /\ pc'[t] = again
      BY <2>2 DEF TypeOK, LocalsOK
    <3>2. todo[t] \in Seq(Ids) \cup Seq(Courses) /\ todo[t] # <<>>
      BY <1>0 DEF TypeOK, LocalsOK
    <3>3. Len(todo'[t]) = Len(todo[t]) - 1
      BY <3>1, <3>2
    <3>4. Left(t)' = 3 * Len(todo'[t]) + 2
      BY <3>1 DEF Left, Stage
    <3>5. Stage(pc[t]) \in 1 .. 3
      BY DEF Stage
    <3> QED
      BY <1>0, <3>3, <3>4, <3>5
  <2> QED
    BY <1>3, <2>1, <2>2 DEF NextId
<1>4. CASE CheckBusiness(t) \/ FindBusiness(t) \/ CountBusinesses(t)
  <2>1. CASE Finish(t)
    BY <1>1, <2>1
  <2>2. CASE ~ Finish(t)
    <3>1. \E q \in {"record", "take", "flag"} :
             /\ pc' = [pc EXCEPT ![t] = q] /\ todo' = todo
             /\ Stage(q) < Stage(pc[t])
      BY <1>4, <2>2 DEF CheckBusiness, FindBusiness, CountBusinesses, Stage
    <3> QED
      BY <1>2, <3>1
  <2> QED
    BY <2>1, <2>2
<1>5. CASE InsertDraft(t) \/ DeleteConverted(t)
  <2>1. \E q \in {"delete", "commit"} :
           /\ pc' = [pc EXCEPT ![t] = q] /\ todo' = todo
           /\ Stage(q) < Stage(pc[t])
    BY <1>5 DEF InsertDraft, DeleteConverted, Stage
  <2> QED
    BY <1>2, <2>1
<1>6. CASE RecordAssignment(t) \/ TakeBusiness(t) \/ FlagCourse(t)
  BY <1>1, <1>3, <1>6 DEF RecordAssignment, TakeBusiness, FlagCourse
<1>7. CASE Commit(t) \/ Abort(t)
  BY <1>1, <1>7 DEF Commit, Abort
<1> QED
  BY <1>4, <1>5, <1>6, <1>7 DEF Serve

\* Requests end: whatever the others do nothing is ever added to what a request
\* has still to do, each of its statements leaves less of it, and when nothing
\* is left it has been answered.  With the fairness of FairSpec a request that
\* may go on is answered after at most three statements for each id and three.
THEOREM RequestsEnd ==
    /\ Spec => []\A t \in Threads : Left(t) \in Nat /\ (Left(t) = 0 <=> pc[t] = "idle")
    /\ Spec => [][\A t \in Threads :
                     /\ Serve(t) => Left(t)' < Left(t)
                     /\ pc[t] # "idle" => Left(t)' <= Left(t)]_vars
<1>1. TypeOK => \A t \in Threads : Left(t) \in Nat /\ (Left(t) = 0 <=> pc[t] = "idle")
  <2> SUFFICES ASSUME TypeOK, NEW t \in Threads
               PROVE  Left(t) \in Nat /\ (Left(t) = 0 <=> pc[t] = "idle")
    OBVIOUS
  <2>1. Left(t) \in Nat /\ (pc[t] # "idle" => Left(t) >= 4)
    BY LeftType
  <2>2. pc[t] = "idle" => Left(t) = 0
    BY DEF Left
  <2> QED
    BY <2>1, <2>2
<1>2. TypeOK /\ TypeOK' /\ [Next]_vars =>
         [\A t \in Threads :
             /\ Serve(t) => Left(t)' < Left(t)
             /\ pc[t] # "idle" => Left(t)' <= Left(t)]_vars
  <2> SUFFICES ASSUME TypeOK, TypeOK', Next, NEW t \in Threads
               PROVE  /\ Serve(t) => Left(t)' < Left(t)
                      /\ pc[t] # "idle" => Left(t)' <= Left(t)
    OBVIOUS
  <2>1. Serve(t) \/ Abort(t) => Left(t)' < Left(t)
    BY StatementLess
  <2>2. Left(t) \in Nat /\ Left(t)' \in Nat
    <3>1. Len(todo'[t]) \in Nat
      BY DEF TypeOK, LocalsOK
    <3>2. Stage(pc'[t]) \in Nat
      BY DEF Stage
    <3>3. Left(t)' \in Nat
      BY <3>1, <3>2 DEF Left
    <3> QED
      BY <3>3, LeftType
  <2>3. ASSUME pc'[t] = pc[t], todo'[t] = todo[t] PROVE Left(t)' = Left(t)
    BY <2>3 DEF Left
  <2>4. ASSUME NEW s \in Threads, s # t, Ask(s) \/ Serve(s) \/ Abort(s)
        PROVE  Left(t)' = Left(t)
    BY <2>3, <2>4, OthersStay
  <2>5. ASSUME Ask(t), pc[t] # "idle" PROVE FALSE
    BY <2>5 DEF Ask, InsertBusiness, UpdateBusiness, DeleteBusiness, BackPool,
       InsertContract, BeginAssign, BeginGain, ReadBusiness, BeginCourses, Accept
  <2>6. CASE Rest
    <3>1. UNCHANGED <<pc, todo>>
      BY <2>6 DEF Rest, vars, locals
    <3> QED
      BY <2>1, <2>2, <2>3, <3>1
  <2> QED
    BY <2>1, <2>2, <2>4, <2>5, <2>6 DEF Next
<1> QED
  BY <1>1, <1>2, TypeCorrect, PTL DEF Spec
=============================================================================
