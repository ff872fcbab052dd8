--------------------------- MODULE ClueDeskProofs ---------------------------
(* What holds of the clue desk for every value of its constants. *)
EXTENDS ClueDesk, FiniteSetTheorems, WellFoundedInduction, TLAPS

\* Writing a record changes no record but that one.
LEMMA WriteKeeps ==
    ASSUME NEW s \in Seq(AssignRecord), NEW i, NEW r \in AssignRecord
    PROVE  /\ [s EXCEPT ![i] = r] \in Seq(AssignRecord)
           /\ Len([s EXCEPT ![i] = r]) = Len(s)
           /\ \A j \in 1 .. Len(s) : [s EXCEPT ![i] = r][j] = IF j = i THEN r ELSE s[j]
<1> DEFINE u == [s EXCEPT ![i] = r]
<1>1. s \in [1 .. Len(s) -> AssignRecord] /\ Len(s) \in Nat
  OBVIOUS
<1>2. u = [j \in 1 .. Len(s) |-> IF j = i THEN r ELSE s[j]]
  BY <1>1
<1>3. u \in [1 .. Len(s) -> AssignRecord]
  BY <1>1, <1>2
<1>4. u \in Seq(AssignRecord) /\ Len(u) = Len(s)
  BY <1>1, <1>3
<1> QED
  BY <1>2, <1>4

\* The id list of a request is a non-empty sequence of ids.
LEMMA BatchIsSeq ==
    ASSUME NEW ids \in Batches
    PROVE  ids \in Seq(Ids) /\ ids # <<>>
<1>1. PICK n \in 1 .. MaxBatch : ids \in [1 .. n -> Ids]
  BY DEF Batches
<1>2. n \in Nat /\ n >= 1
  BY BoundAssumption
<1>3. ids \in Seq(Ids) /\ Len(ids) = n
  BY <1>1, <1>2
<1> QED
  BY <1>2, <1>3

\* The rows the handlers write are rows.
LEMMA RowsAreRows ==
    ASSUME NEW r \in ClueRow
    PROVE  /\ AssignedClue(r) \in ClueRow
           /\ FalseClueRow(r) \in ClueRow
           /\ \A s \in Status, n \in Nat : EditedClue(r, s, n) \in ClueRow
           /\ \A old \in ClueRow : UpdateById(old, r) \in ClueRow
<1>1. /\ r.status \in Status
      /\ r.falseCount \in Nat
      /\ r.endTime \in {"null", "set"}
  BY DEF ClueRow
<1>2. AssignedClue(r) \in ClueRow
  BY DEF ClueRow, Status, AssignedClue
<1>3. FalseClueRow(r) \in ClueRow
  <2>1. r.falseCount + 1 \in Nat
    BY <1>1
  <2>2. (IF r.falseCount = 3 THEN "set" ELSE r.endTime) \in {"null", "set"}
    BY <1>1
  <2> QED
    BY <2>1, <2>2 DEF ClueRow, Status, FalseClueRow
<1>4. \A s \in Status, n \in Nat : EditedClue(r, s, n) \in ClueRow
  BY DEF ClueRow, EditedClue
<1>5. \A old \in ClueRow : UpdateById(old, r) \in ClueRow
  BY RowAssumption DEF ClueRow, UpdateById
<1> QED
  BY <1>2, <1>3, <1>4, <1>5

LEMMA FreshIsRow == \A s \in Status : FreshClue(s) \in ClueRow
BY DEF FreshClue, ClueRow

\* Ending a request leaves its thread well-typed and the others as they were.
LEMMA FinishTypes ==
    ASSUME TypeOK, NEW t \in Threads, Finish(t)
    PROVE  /\ pc' \in [Threads -> {"idle", "select", "retire", "read", "write",
                                   "mark", "owner", "track", "form"}]
           /\ batch' \in [Threads -> Seq(Ids)]
           /\ todo' \in [Threads -> Seq(Ids)]
           /\ \A u \in Threads : pc'[u] # "idle" => todo'[u] # <<>>
           /\ \A u \in Threads : pc'[u] \in {"select", "retire"} => batch'[u] # <<>>
           /\ user' \in [Threads -> Users \cup Strangers \cup {NoUser}]
           /\ list' \in [Threads -> SUBSET Entity]
           /\ row' \in [Threads -> ClueRow \cup {NoRow}]
           /\ \A u \in Threads :
                 pc'[u] \in {"write", "mark", "form"} => row'[u] \in ClueRow
BY DEF TypeOK, Finish

\* A loop that goes on keeps its thread well-typed.
LEMMA NextIdTypes ==
    ASSUME TypeOK, NEW t \in Threads, NEW again \in {"select", "read"},
           batch[t] # <<>> \/ again = "read", NextId(t, again)
    PROVE  /\ pc' \in [Threads -> {"idle", "select", "retire", "read", "write",
                                   "mark", "owner", "track", "form"}]
           /\ todo' \in [Threads -> Seq(Ids)]
           /\ \A u \in Threads : pc'[u] # "idle" => todo'[u] # <<>>
           /\ \A u \in Threads : pc'[u] \in {"select", "retire"} => batch'[u] # <<>>
           /\ \A u \in Threads :
                 pc'[u] \in {"write", "mark", "form"} => row'[u] \in ClueRow
<1>1. todo[t] \in Seq(Ids) /\ Len(todo[t]) > 1
  BY DEF TypeOK, NextId
<1>2. Tail(todo[t]) \in Seq(Ids) /\ Len(Tail(todo[t])) = Len(todo[t]) - 1
  BY <1>1
<1>3. Tail(todo[t]) # <<>>
  BY <1>1, <1>2
<1> QED
  BY <1>2, <1>3 DEF TypeOK, NextId

LEMMA SubjectType ==
    ASSUME TypeOK, NEW t \in Threads, pc[t] # "idle"
    PROVE  Subject(t) \in Ids
BY DEF TypeOK, Subject

\* Storing a row that was read, changed in whatever way, keeps tb_clue typed.
LEMMA StoreTypes ==
    ASSUME TypeOK, NEW c \in Ids, NEW r \in ClueRow
    PROVE  [clue EXCEPT ![c] = UpdateById(@, r)] \in [Ids -> ClueRow \cup {NoRow}]
<1>1. clue[c] \in ClueRow \cup {NoRow}
  BY DEF TypeOK
<1>2. UpdateById(clue[c], r) \in ClueRow \cup {NoRow}
  BY <1>1, RowsAreRows DEF UpdateById
<1> QED
  BY <1>2 DEF TypeOK

LEMMA TypeStep == TypeOK /\ [Next]_vars => TypeOK'
<1> SUFFICES ASSUME TypeOK, [Next]_vars PROVE TypeOK'
  OBVIOUS
<1>1. ASSUME NEW c \in Ids, Insert(c) PROVE TypeOK'
  BY <1>1, FreshIsRow, EnteredAssumption DEF TypeOK, Insert, locals
<1>2. ASSUME NEW t \in Threads, BeginBatch(t) PROVE TypeOK'
  BY <1>2, BatchIsSeq DEF TypeOK, BeginBatch, Accept, tables
<1>3. ASSUME NEW t \in Threads, SelectLatest(t) PROVE TypeOK'
  <2> DEFINE found == {[key |-> i, record |-> assign[i]] : i \in LatestRecords(Subject(t))}
  <2>1. \A i \in LatestRecords(Subject(t)) :
           i \in Nat \ {0} /\ assign[i] \in AssignRecord
    BY DEF TypeOK, LatestRecords
  <2>2. found \in SUBSET Entity
    BY <2>1 DEF Entity
  <2>3. list' = [list EXCEPT ![t] = found]
    BY <1>3 DEF SelectLatest
  <2>4. list' \in [Threads -> SUBSET Entity]
    BY <2>2, <2>3 DEF TypeOK
  <2> HIDE DEF found
  <2> QED
    BY <1>3, <2>4 DEF TypeOK, SelectLatest, tables
<1>4. ASSUME NEW t \in Threads, RetireRecord(t) PROVE TypeOK'
  <2>1. PICK e \in list[t] :
           /\ assign' = [assign EXCEPT ![e.key] = [e.record EXCEPT !.latest = "0"]]
           /\ list' = [list EXCEPT ![t] = @ \ {e}]
    BY <1>4 DEF RetireRecord
  <2>2. e.record \in AssignRecord
    BY DEF TypeOK, Entity
  <2>3. [e.record EXCEPT !.latest = "0"] \in AssignRecord
    BY <2>2 DEF AssignRecord
  <2>4. assign' \in Seq(AssignRecord)
    BY <2>1, <2>3, WriteKeeps DEF TypeOK
  <2> QED
    BY <1>4, <2>1, <2>4 DEF TypeOK, RetireRecord
<1>5. ASSUME NEW t \in Threads, InsertRecord(t) PROVE TypeOK'
  <2>1. Subject(t) \in Ids
    BY <1>5, SubjectType DEF InsertRecord
  <2>2. assign' \in Seq(AssignRecord)
    BY <1>5, <2>1 DEF TypeOK, InsertRecord, NewRecord, AssignRecord
  <2>3. CASE NextId(t, "select")
    <3>1. batch[t] # <<>>
      BY <1>5 DEF TypeOK, InsertRecord
    <3>2. UNCHANGED <<batch, user, list, row>>
      BY <2>3 DEF NextId
    <3> QED
      BY <1>5, <2>2, <2>3, <3>1, <3>2, NextIdTypes DEF TypeOK, InsertRecord
  <2>4. CASE /\ todo' = [todo EXCEPT ![t] = batch[t]]
             /\ pc' = [pc EXCEPT ![t] = "read"]
             /\ UNCHANGED <<batch, user, list, row>>
    BY <1>5, <2>2, <2>4 DEF TypeOK, InsertRecord
  <2> QED
    BY <1>5, <2>3, <2>4 DEF InsertRecord
<1>6. ASSUME NEW t \in Threads, UnknownUser(t) PROVE TypeOK'
  BY <1>6, FinishTypes DEF TypeOK, UnknownUser, tables
<1>7. ASSUME NEW t \in Threads, ReadClue(t) PROVE TypeOK'
  <2>1. clue[Subject(t)] \in ClueRow
    BY <1>7, SubjectType DEF TypeOK, ReadClue
  <2> QED
    BY <1>7, <2>1 DEF TypeOK, ReadClue, tables
<1>8. ASSUME NEW t \in Threads, UnknownClue(t) PROVE TypeOK'
  BY <1>8, FinishTypes DEF TypeOK, UnknownClue, tables
<1>9. ASSUME NEW t \in Threads, WriteAssigned(t) PROVE TypeOK'
  <2>1. clue' \in [Ids -> ClueRow \cup {NoRow}]
    BY <1>9, StoreTypes, SubjectType, RowsAreRows DEF WriteAssigned, TypeOK
  <2>2. CASE NextId(t, "read")
    <3>1. UNCHANGED <<batch, user, list, row>>
      BY <2>2 DEF NextId
    <3> QED
      BY <1>9, <2>1, <2>2, <3>1, NextIdTypes DEF TypeOK, WriteAssigned
  <2>3. CASE Finish(t)
    BY <1>9, <2>1, <2>3, FinishTypes DEF TypeOK, WriteAssigned
  <2> QED
    BY <1>9, <2>2, <2>3 DEF WriteAssigned
<1>10. ASSUME NEW t \in Threads, FalseClue(t) PROVE TypeOK'
  BY <1>10 DEF TypeOK, FalseClue, Accept, tables
<1>11. ASSUME NEW t \in Threads, WriteFalse(t) PROVE TypeOK'
  <2>1. clue' \in [Ids -> ClueRow \cup {NoRow}]
    BY <1>11, StoreTypes, SubjectType, RowsAreRows DEF WriteFalse, TypeOK
  <2> QED
    BY <1>11, <2>1 DEF TypeOK, WriteFalse
<1>12. ASSUME NEW t \in Threads, FindOwner(t) PROVE TypeOK'
  BY <1>12 DEF TypeOK, FindOwner, tables
<1>13. ASSUME NEW t \in Threads, NoSingleOwner(t) PROVE TypeOK'
  BY <1>13, FinishTypes DEF TypeOK, NoSingleOwner, tables
<1>14. ASSUME NEW t \in Threads, WriteTrack(t) PROVE TypeOK'
  <2>1. track' \in [Ids -> Nat]
    BY <1>14, SubjectType DEF TypeOK, WriteTrack
  <2> QED
    BY <1>14, <2>1, FinishTypes DEF TypeOK, WriteTrack
<1>15. ASSUME NEW t \in Threads, OpenForm(t) PROVE TypeOK'
  BY <1>15 DEF TypeOK, OpenForm, Accept, tables
<1>16. ASSUME NEW t \in Threads, Update(t) PROVE TypeOK'
  <2>1. row[t] \in ClueRow /\ Subject(t) \in Ids
    BY <1>16, SubjectType DEF TypeOK, Update
  <2>2. PICK s \in Entered, n \in {0, row[t].falseCount} :
           clue' = [clue EXCEPT ![Subject(t)] =
                       UpdateById(@, EditedClue(row[t], s, n))]
    BY <1>16 DEF Update
  <2>3. n \in Nat /\ s \in Status
    BY <2>1, EnteredAssumption DEF ClueRow
  <2>4. clue' \in [Ids -> ClueRow \cup {NoRow}]
    BY <2>1, <2>2, <2>3, StoreTypes, RowsAreRows
  <2> QED
    BY <1>16, <2>4, FinishTypes DEF TypeOK, Update
<1>17. ASSUME NEW t \in Threads, Abort(t) PROVE TypeOK'
  BY <1>17, FinishTypes DEF TypeOK, Abort, tables
<1>18. CASE UNCHANGED vars
  BY <1>18 DEF TypeOK, vars, tables, locals
<1> QED
  BY <1>1, <1>2, <1>3, <1>4, <1>5, <1>6, <1>7, <1>8, <1>9, <1>10, <1>11,
     <1>12, <1>13, <1>14, <1>15, <1>16, <1>17, <1>18 DEF Next, Ask, Serve, Rest

\* Every variable keeps its type: tables hold rows of their schema, and a
\* request always knows the ids it has still to handle.
THEOREM TypeCorrect == Spec => []TypeOK
<1>1. Init => TypeOK
  BY DEF Init, TypeOK
<1> QED
  BY <1>1, TypeStep, PTL DEF Spec

-----------------------------------------------------------------------------
(* The end time of expired clues.  The strengthening speaks of the rows    *)
(* requests hold as well: what they write back comes from there.           *)

HasEnd(r) == r.falseCount > 3 => r.endTime = "set"

ExpiryInv ==
    /\ \A c \in Ids : clue[c] # NoRow => HasEnd(clue[c])
    /\ \A t \in Threads : row[t] # NoRow => HasEnd(row[t])

\* Whatever a handler makes of a row that has its end time, and whatever row it
\* overwrites, the stored row has its end time too.
LEMMA WritesKeepEnd ==
    ASSUME NEW r \in ClueRow, HasEnd(r), NEW old \in ClueRow
    PROVE  /\ HasEnd(UpdateById(old, AssignedClue(r)))
           /\ HasEnd(UpdateById(old, FalseClueRow(r)))
           /\ \A s \in Status, n \in {0, r.falseCount} :
                 HasEnd(UpdateById(old, EditedClue(r, s, n)))
<1>1. old # NoRow /\ r.falseCount \in Nat /\ r.endTime \in {"null", "set"}
  BY RowAssumption DEF ClueRow
<1>2. HasEnd(UpdateById(old, AssignedClue(r)))
  BY <1>1 DEF HasEnd, UpdateById, AssignedClue, ClueRow
<1>3. HasEnd(UpdateById(old, FalseClueRow(r)))
  BY <1>1 DEF HasEnd, UpdateById, FalseClueRow, ClueRow
<1>4. \A s \in Status, n \in {0, r.falseCount} :
         HasEnd(UpdateById(old, EditedClue(r, s, n)))
  BY <1>1 DEF HasEnd, UpdateById, EditedClue, ClueRow
<1> QED
  BY <1>2, <1>3, <1>4

\* Storing such a row keeps the table's half of the invariant.
LEMMA StoreKeepsEnd ==
    ASSUME TypeOK, ExpiryInv, NEW d \in Ids, NEW r,
           clue' = [clue EXCEPT ![d] = UpdateById(@, r)],
           \A old \in ClueRow : HasEnd(UpdateById(old, r))
    PROVE  \A c \in Ids : clue'[c] # NoRow => HasEnd(clue'[c])
<1> SUFFICES ASSUME NEW c \in Ids, clue'[c] # NoRow PROVE HasEnd(clue'[c])
  OBVIOUS
<1>1. CASE c = d
  BY <1>1 DEF TypeOK, UpdateById
<1>2. CASE c # d
  BY <1>2 DEF TypeOK, ExpiryInv
<1> QED
  BY <1>1, <1>2

LEMMA ExpiryStep == TypeOK /\ ExpiryInv /\ [Next]_vars => ExpiryInv'
<1> SUFFICES ASSUME TypeOK, ExpiryInv, [Next]_vars PROVE ExpiryInv'
  OBVIOUS
<1>0. ASSUME NEW t \in Threads, Finish(t), \A c \in Ids : clue'[c] # NoRow => HasEnd(clue'[c])
      PROVE  ExpiryInv'
  BY <1>0 DEF ExpiryInv, Finish, TypeOK, HasEnd
<1>1. ASSUME NEW c \in Ids, Insert(c) PROVE ExpiryInv'
  BY <1>1 DEF ExpiryInv, Insert, locals, FreshClue, HasEnd, TypeOK
<1>2. ASSUME NEW t \in Threads,
             SelectLatest(t) \/ RetireRecord(t) \/ InsertRecord(t)
               \/ FindOwner(t) \/ BeginBatch(t)
      PROVE  ExpiryInv'
  BY <1>2 DEF ExpiryInv, SelectLatest, RetireRecord, InsertRecord, FindOwner,
              BeginBatch, NextId, tables, HasEnd
<1>3. ASSUME NEW t \in Threads,
             UnknownUser(t) \/ UnknownClue(t) \/ NoSingleOwner(t) \/ WriteTrack(t)
               \/ Abort(t)
      PROVE  ExpiryInv'
  <2>1. Finish(t) /\ clue' = clue
    BY <1>3 DEF UnknownUser, UnknownClue, NoSingleOwner, WriteTrack, Abort, tables
  <2> QED
    BY <1>0, <2>1 DEF ExpiryInv
<1>4. ASSUME NEW t \in Threads, ReadClue(t) PROVE ExpiryInv'
  BY <1>4, SubjectType DEF ExpiryInv, ReadClue, tables, TypeOK, HasEnd
<1>5. ASSUME NEW t \in Threads, FalseClue(t) \/ OpenForm(t) PROVE ExpiryInv'
  BY <1>5 DEF ExpiryInv, FalseClue, OpenForm, tables, TypeOK, HasEnd
<1>6. ASSUME NEW t \in Threads, pc[t] \in {"write", "mark", "form"}
      PROVE  Subject(t) \in Ids /\ row[t] \in ClueRow /\ HasEnd(row[t])
  BY <1>6, SubjectType, RowAssumption DEF TypeOK, ExpiryInv
<1>7. ASSUME NEW t \in Threads, WriteAssigned(t) PROVE ExpiryInv'
  <2>1. \A c \in Ids : clue'[c] # NoRow => HasEnd(clue'[c])
    BY <1>6, <1>7, StoreKeepsEnd, WritesKeepEnd DEF WriteAssigned
  <2>2. CASE NextId(t, "read")
    BY <2>1, <2>2 DEF ExpiryInv, NextId, HasEnd
  <2> QED
    BY <1>0, <1>7, <2>1, <2>2 DEF WriteAssigned
<1>8. ASSUME NEW t \in Threads, WriteFalse(t) PROVE ExpiryInv'
  <2>1. \A c \in Ids : clue'[c] # NoRow => HasEnd(clue'[c])
    BY <1>6, <1>8, StoreKeepsEnd, WritesKeepEnd DEF WriteFalse
  <2> QED
    BY <1>8, <2>1 DEF ExpiryInv, WriteFalse, HasEnd
<1>9. ASSUME NEW t \in Threads, Update(t) PROVE ExpiryInv'
  <2>1. \A c \in Ids : clue'[c] # NoRow => HasEnd(clue'[c])
    BY <1>6, <1>9, StoreKeepsEnd, WritesKeepEnd, EnteredAssumption DEF Update
  <2> QED
    BY <1>0, <1>9, <2>1 DEF Update
<1>10. CASE UNCHANGED vars
  BY <1>10 DEF ExpiryInv, vars, tables, locals, HasEnd
<1> QED
  BY <1>1, <1>2, <1>3, <1>4, <1>5, <1>7, <1>8, <1>9, <1>10
     DEF Next, Ask, Serve, Rest

\* A clue marked false more than three times has an end time, whatever stale
\* rows concurrent assignments, marks and forms write back, and wherever
\* requests die.
THEOREM Expiry == Spec => []ExpiredHasEnd
<1>1. Init => ExpiryInv
  BY DEF Init, ExpiryInv
<1>2. ExpiryInv => ExpiredHasEnd
  BY DEF ExpiryInv, ExpiredHasEnd, HasEnd
<1> QED
  BY <1>1, <1>2, ExpiryStep, TypeCorrect, PTL DEF Spec

-----------------------------------------------------------------------------
(* Assignment records *)

\* The records a step writes: it retires one, appends one or leaves them.
LEMMA AssignStep ==
    ASSUME TypeOK, [Next]_vars
    PROVE  \/ assign' = assign
           \/ \E t \in Threads : RetireRecord(t)
           \/ \E t \in Threads : InsertRecord(t)
BY DEF Next, Ask, Serve, Rest, vars, tables, Insert, BeginBatch, SelectLatest,
       UnknownUser, ReadClue, UnknownClue, WriteAssigned, FalseClue, WriteFalse,
       FindOwner, NoSingleOwner, WriteTrack, OpenForm, Update, Abort

\* A request retires records of the clue it is assigning, and only such; and
\* what it has read of them is what they are, but that another request may have
\* retired them since.
RetiresOwn ==
    \A t \in Threads :
        pc[t] = "retire" =>
            \A e \in list[t] : /\ e.key \in DOMAIN assign
                               /\ assign[e.key].assignId = Subject(t)
                               /\ e.record = [assign[e.key] EXCEPT !.latest = "1"]

\* The columns of a retired record other than latest are those it had.
LEMMA RetiredFields ==
    ASSUME NEW r \in AssignRecord
    PROVE  /\ [r EXCEPT !.latest = "0"] \in AssignRecord
           /\ [r EXCEPT !.latest = "0"].assignId = r.assignId
           /\ [r EXCEPT !.latest = "0"].userId = r.userId
           /\ [r EXCEPT !.latest = "0"].type = r.type
           /\ [r EXCEPT !.latest = "0"].latest = "0"
           /\ [[r EXCEPT !.latest = "1"] EXCEPT !.latest = "0"] = [r EXCEPT !.latest = "0"]
           /\ [[r EXCEPT !.latest = "0"] EXCEPT !.latest = "1"] = [r EXCEPT !.latest = "1"]
           /\ r.latest = "1" => r = [r EXCEPT !.latest = "1"]
BY DEF AssignRecord

\* What retiring and inserting do to tb_assign_record: writing a stale entity
\* back whole comes to the same as retiring the record as it is.
LEMMA RetireEffect ==
    ASSUME TypeOK, RetiresOwn, NEW t \in Threads, RetireRecord(t)
    PROVE  \E e \in list[t] :
              /\ list' = [list EXCEPT ![t] = @ \ {e}]
              /\ DOMAIN assign' = DOMAIN assign
              /\ \A j \in DOMAIN assign :
                    /\ assign'[j] = IF j = e.key THEN [assign[j] EXCEPT !.latest = "0"]
                                    ELSE assign[j]
                    /\ assign'[j].assignId = assign[j].assignId
                    /\ assign'[j].userId = assign[j].userId
                    /\ assign'[j].latest = IF j = e.key THEN "0" ELSE assign[j].latest
<1>1. PICK e \in list[t] :
         /\ assign' = [assign EXCEPT ![e.key] = [e.record EXCEPT !.latest = "0"]]
         /\ list' = [list EXCEPT ![t] = @ \ {e}]
  BY DEF RetireRecord
<1>2. /\ e.key \in DOMAIN assign
      /\ e.record = [assign[e.key] EXCEPT !.latest = "1"]
  BY DEF RetireRecord, RetiresOwn
<1>3. assign \in Seq(AssignRecord) /\ DOMAIN assign = 1 .. Len(assign)
  BY DEF TypeOK
<1>4. assign[e.key] \in AssignRecord
  BY <1>2, <1>3
<1>5. [e.record EXCEPT !.latest = "0"] = [assign[e.key] EXCEPT !.latest = "0"]
  BY <1>2, <1>4, RetiredFields
<1>6. [assign[e.key] EXCEPT !.latest = "0"] \in AssignRecord
  BY <1>4, RetiredFields
<1>7. assign' = [assign EXCEPT ![e.key] = [assign[e.key] EXCEPT !.latest = "0"]]
  BY <1>1, <1>5
<1>8. /\ assign' \in Seq(AssignRecord) /\ Len(assign') = Len(assign)
      /\ \A j \in 1 .. Len(assign) :
            assign'[j] = IF j = e.key THEN [assign[e.key] EXCEPT !.latest = "0"]
                         ELSE assign[j]
  BY <1>3, <1>6, <1>7, WriteKeeps
<1>9. DOMAIN assign' = DOMAIN assign
  BY <1>3, <1>8
<1>10. ASSUME NEW j \in DOMAIN assign
       PROVE  /\ assign'[j] = IF j = e.key THEN [assign[j] EXCEPT !.latest = "0"]
                              ELSE assign[j]
              /\ assign'[j].assignId = assign[j].assignId
              /\ assign'[j].userId = assign[j].userId
              /\ assign'[j].latest = IF j = e.key THEN "0" ELSE assign[j].latest
  <2>1. assign[j] \in AssignRecord
    BY <1>3
  <2>2. assign'[j] = IF j = e.key THEN [assign[j] EXCEPT !.latest = "0"] ELSE assign[j]
    BY <1>3, <1>8
  <2>3. CASE j = e.key
    <3>1. assign'[j] = [assign[j] EXCEPT !.latest = "0"]
      BY <2>2, <2>3
    <3> QED
      BY <2>1, <2>2, <2>3, <3>1, RetiredFields
  <2>4. CASE j # e.key
    BY <2>2, <2>4
  <2> QED
    BY <2>3, <2>4
<1> QED
  BY <1>1, <1>9, <1>10

LEMMA InsertEffect ==
    ASSUME TypeOK, NEW t \in Threads, InsertRecord(t)
    PROVE  /\ Subject(t) \in Ids
           /\ Len(assign) \in Nat
           /\ DOMAIN assign = 1 .. Len(assign)
           /\ DOMAIN assign' = 1 .. Len(assign) + 1
           /\ \A j \in DOMAIN assign : assign'[j] = assign[j]
           /\ assign'[Len(assign) + 1].assignId = Subject(t)
           /\ assign'[Len(assign) + 1].latest = "1"
           /\ assign'[Len(assign) + 1].userId = user[t]
           /\ list' = list
<1>1. assign' = Append(assign, NewRecord(Subject(t), user[t])) /\ list' = list
  BY DEF InsertRecord, NextId
<1>2. assign \in Seq(AssignRecord)
  BY DEF TypeOK
<1>3. NewRecord(Subject(t), user[t]) \in AssignRecord /\ Subject(t) \in Ids
  BY SubjectType DEF InsertRecord, NewRecord, AssignRecord
<1>4. assign'[Len(assign) + 1] = NewRecord(Subject(t), user[t])
  BY <1>1, <1>2, <1>3
<1>5. /\ NewRecord(Subject(t), user[t]).assignId = Subject(t)
      /\ NewRecord(Subject(t), user[t]).latest = "1"
      /\ NewRecord(Subject(t), user[t]).userId = user[t]
  BY DEF NewRecord
<1> QED
  BY <1>1, <1>2, <1>3, <1>4, <1>5

\* A step that does not touch assignment records: nobody starts or continues to
\* retire records, and who was about to insert one still is, or has died.
Elsewhere ==
    /\ assign' = assign
    /\ \A t \in Threads :
          pc'[t] = "retire" =>
              pc[t] = "retire" /\ todo'[t] = todo[t] /\ list'[t] = list[t]
    /\ \A t \in Threads :
          pc[t] = "retire" => pc'[t] = "retire" \/ UnknownUser(t) \/ Abort(t)

LEMMA StepKinds ==
    ASSUME TypeOK, [Next]_vars
    PROVE  \/ \E t \in Threads : SelectLatest(t)
           \/ \E t \in Threads : RetireRecord(t)
           \/ \E t \in Threads : InsertRecord(t)
           \/ Elsewhere
<1>1. ASSUME NEW s \in Threads,
             UnknownUser(s) \/ UnknownClue(s) \/ NoSingleOwner(s) \/ WriteTrack(s)
               \/ Abort(s) \/ Update(s)
      PROVE  Elsewhere
  <2>1. Finish(s) /\ assign' = assign
        /\ (pc[s] = "retire" => UnknownUser(s) \/ Abort(s))
    BY <1>1 DEF UnknownUser, UnknownClue, NoSingleOwner, WriteTrack, Abort,
                Update, tables
  <2>2. \A t \in Threads : t # s => pc'[t] = pc[t] /\ todo'[t] = todo[t]
                                    /\ list'[t] = list[t]
    BY <2>1 DEF Finish, TypeOK
  <2>3. pc'[s] = "idle"
    BY <2>1 DEF Finish, TypeOK
  <2> QED
    BY <2>1, <2>2, <2>3 DEF Elsewhere
<1>2. ASSUME NEW s \in Threads, WriteAssigned(s)
      PROVE  Elsewhere
  <2>1. assign' = assign /\ pc[s] = "write" /\ pc'[s] # "retire"
    BY <1>2 DEF WriteAssigned, NextId, Finish, TypeOK
  <2>2. \A t \in Threads : t # s => pc'[t] = pc[t] /\ todo'[t] = todo[t]
                                    /\ list'[t] = list[t]
    BY <1>2 DEF WriteAssigned, NextId, Finish, TypeOK
  <2> QED
    BY <2>1, <2>2 DEF Elsewhere
<1>3. ASSUME NEW s \in Threads,
             BeginBatch(s) \/ ReadClue(s) \/ FalseClue(s) \/ WriteFalse(s)
               \/ FindOwner(s) \/ OpenForm(s)
      PROVE  Elsewhere
  <2>1. assign' = assign /\ pc[s] # "retire" /\ pc'[s] # "retire" /\ list' = list
    BY <1>3 DEF BeginBatch, ReadClue, FalseClue, WriteFalse, FindOwner, OpenForm,
                Accept, TypeOK, tables
  <2>2. \A t \in Threads : t # s => pc'[t] = pc[t] /\ todo'[t] = todo[t]
    BY <1>3 DEF BeginBatch, ReadClue, FalseClue, WriteFalse, FindOwner, OpenForm,
                Accept, TypeOK
  <2> QED
    BY <2>1, <2>2 DEF Elsewhere
<1>4. ASSUME NEW c \in Ids, Insert(c)
      PROVE  Elsewhere
  BY <1>4 DEF Insert, locals, Elsewhere
<1>5. CASE UNCHANGED vars
  BY <1>5 DEF vars, locals, tables, Elsewhere
<1> QED
  BY <1>1, <1>2, <1>3, <1>4, <1>5 DEF Next, Ask, Serve, Rest

LEMMA RetiresOwnStep == TypeOK /\ RetiresOwn /\ [Next]_vars => RetiresOwn'
<1> SUFFICES ASSUME TypeOK, RetiresOwn, [Next]_vars PROVE RetiresOwn'
  OBVIOUS
<1>1. ASSUME NEW t \in Threads, SelectLatest(t) PROVE RetiresOwn'
  <2>1. /\ assign' = assign /\ todo' = todo /\ t \in DOMAIN list
        /\ list'[t] = {[key |-> i, record |-> assign[i]] : i \in LatestRecords(Subject(t))}
        /\ \A s \in Threads : s # t => list'[s] = list[s] /\ pc'[s] = pc[s]
    BY <1>1 DEF SelectLatest, tables, TypeOK
  <2>2. \A i \in LatestRecords(Subject(t)) :
           /\ i \in DOMAIN assign /\ assign[i].assignId = Subject(t)
           /\ assign[i] = [assign[i] EXCEPT !.latest = "1"]
    <3> SUFFICES ASSUME NEW i \in LatestRecords(Subject(t))
                 PROVE  /\ i \in DOMAIN assign /\ assign[i].assignId = Subject(t)
                        /\ assign[i] = [assign[i] EXCEPT !.latest = "1"]
      OBVIOUS
    <3>1. i \in DOMAIN assign /\ assign[i].assignId = Subject(t) /\ assign[i].latest = "1"
      BY DEF LatestRecords
    <3>2. assign[i] \in AssignRecord
      BY <3>1 DEF TypeOK
    <3> QED
      BY <3>1, <3>2, RetiredFields
  <2>3. \A e \in list'[t] : /\ e.key \in DOMAIN assign
                            /\ assign[e.key].assignId = Subject(t)
                            /\ e.record = [assign[e.key] EXCEPT !.latest = "1"]
    BY <2>1, <2>2
  <2> QED
    BY <2>1, <2>3 DEF RetiresOwn, Subject
<1>2. ASSUME NEW t \in Threads, RetireRecord(t) PROVE RetiresOwn'
  <2>1. PICK e \in list[t] :
           /\ list' = [list EXCEPT ![t] = @ \ {e}]
           /\ DOMAIN assign' = DOMAIN assign
           /\ \A j \in DOMAIN assign :
                 /\ assign'[j] = IF j = e.key THEN [assign[j] EXCEPT !.latest = "0"]
                                 ELSE assign[j]
                 /\ assign'[j].assignId = assign[j].assignId
    BY <1>2, RetireEffect
  <2>2. pc' = pc /\ todo' = todo
    BY <1>2 DEF RetireRecord
  <2>3. \A j \in DOMAIN assign :
           [assign'[j] EXCEPT !.latest = "1"] = [assign[j] EXCEPT !.latest = "1"]
    BY <2>1, RetiredFields DEF TypeOK
  <2>4. \A s \in Threads : list'[s] \subseteq list[s]
    BY <2>1 DEF TypeOK
  <2> QED
    BY <2>1, <2>2, <2>3, <2>4 DEF RetiresOwn, Subject
<1>3. ASSUME NEW t \in Threads, InsertRecord(t) PROVE RetiresOwn'
  <2>1. \A s \in Threads : pc'[s] = "retire" => s # t /\ pc[s] = "retire"
                                                /\ todo'[s] = todo[s]
    BY <1>3 DEF InsertRecord, NextId, TypeOK
  <2>2. /\ list' = list
        /\ \A j \in DOMAIN assign : j \in DOMAIN assign' /\ assign'[j] = assign[j]
    BY <1>3, InsertEffect
  <2>3. ASSUME NEW s \in Threads, pc'[s] = "retire", NEW e \in list'[s]
        PROVE  /\ e.key \in DOMAIN assign' /\ assign'[e.key].assignId = Head(todo'[s])
               /\ e.record = [assign'[e.key] EXCEPT !.latest = "1"]
    <3>1. e.key \in DOMAIN assign /\ assign[e.key].assignId = Subject(s)
          /\ e.record = [assign[e.key] EXCEPT !.latest = "1"]
      BY <2>1, <2>2, <2>3 DEF RetiresOwn
    <3>2. e.key \in DOMAIN assign' /\ assign'[e.key] = assign[e.key]
      BY <2>2, <3>1
    <3>3. Head(todo'[s]) = Subject(s)
      BY <2>1, <2>3 DEF Subject
    <3> QED
      BY <3>1, <3>2, <3>3
  <2> QED
    BY <2>3 DEF RetiresOwn, Subject
<1>4. CASE Elsewhere
  BY <1>4 DEF Elsewhere, RetiresOwn, Subject
<1> QED
  BY <1>1, <1>2, <1>3, <1>4, StepKinds

LEMMA RetiresOwnHolds == Spec => []RetiresOwn
<1>1. Init => RetiresOwn
  BY DEF Init, RetiresOwn
<1> QED
  BY <1>1, RetiresOwnStep, TypeCorrect, PTL DEF Spec

-----------------------------------------------------------------------------
(* The first loop of an assignment.  The ids it has dealt with are those    *)
(* before the ones left to do, and each of them has its record; the entities *)
(* other requests write back whole leave the record to the user it names.   *)

\* A record of table s gives clue c to user u.
Named(s, c, u) == \E i \in DOMAIN s : s[i].assignId = c /\ s[i].userId = u

\* The ids the first loop has dealt with.
Done(t) == 1 .. Len(batch[t]) - Len(todo[t])

BatchInv ==
    \A t \in Threads :
        /\ pc[t] \in {"select", "retire"} =>
              /\ Len(todo[t]) <= Len(batch[t])
              /\ \A k \in 1 .. Len(todo[t]) :
                    todo[t][k] = batch[t][Len(batch[t]) - Len(todo[t]) + k]
              /\ \A k \in Done(t) : Named(assign, batch[t][k], user[t])
        /\ pc[t] \in {"read", "write"} =>
              \A k \in DOMAIN batch[t] : Named(assign, batch[t][k], user[t])

LEMMA NamedStays ==
    ASSUME TypeOK, RetiresOwn, [Next]_vars, NEW c, NEW u, Named(assign, c, u)
    PROVE  Named(assign', c, u)
<1>1. ASSUME NEW t \in Threads, RetireRecord(t) PROVE Named(assign', c, u)
  BY <1>1, RetireEffect DEF Named
<1>2. ASSUME NEW t \in Threads, InsertRecord(t) PROVE Named(assign', c, u)
  BY <1>2, InsertEffect DEF Named
<1>3. CASE assign' = assign
  BY <1>3 DEF Named
<1> QED
  BY <1>1, <1>2, <1>3, AssignStep

\* A step that leaves a request where it was in its batch.
Stays(t) ==
    /\ batch'[t] = batch[t]
    /\ user'[t] = user[t]
    /\ \/ todo'[t] = todo[t] /\ pc[t] \in {"select", "retire"} /\ pc'[t] \in {"select", "retire"}
       \/ pc[t] \in {"read", "write"} /\ pc'[t] \in {"read", "write"}

\* What BatchInv says of one request.
BatchOf(t) ==
    /\ pc[t] \in {"select", "retire"} =>
          /\ Len(todo[t]) <= Len(batch[t])
          /\ \A k \in 1 .. Len(todo[t]) :
                todo[t][k] = batch[t][Len(batch[t]) - Len(todo[t]) + k]
          /\ \A k \in Done(t) : Named(assign, batch[t][k], user[t])
    /\ pc[t] \in {"read", "write"} =>
          \A k \in DOMAIN batch[t] : Named(assign, batch[t][k], user[t])

LEMMA StaysKeeps ==
    ASSUME TypeOK, RetiresOwn, [Next]_vars, NEW t \in Threads, BatchOf(t),
           Stays(t) \/ pc'[t] \notin {"select", "retire", "read", "write"}
    PROVE  BatchOf(t)'
<1>1. CASE pc'[t] \notin {"select", "retire", "read", "write"}
  BY <1>1 DEF BatchOf
<1>2. CASE Stays(t)
  <2>1. \A k : Named(assign, batch[t][k], user[t]) => Named(assign', batch[t][k], user[t])
    BY NamedStays
  <2> QED
    BY <1>2, <2>1 DEF Stays, BatchOf, Done
<1> QED
  BY <1>1, <1>2

\* The record a request inserts is that of the first id it had left.
LEMMA InsertNames ==
    ASSUME TypeOK, RetiresOwn, [Next]_vars, NEW t \in Threads, InsertRecord(t), BatchOf(t)
    PROVE  /\ Len(batch[t]) \in Nat /\ Len(todo[t]) \in 1 .. Len(batch[t])
           /\ \A k \in 1 .. Len(batch[t]) - Len(todo[t]) + 1 :
                 Named(assign', batch[t][k], user[t])
           /\ batch' = batch /\ user' = user
<1>1. /\ batch[t] \in Seq(Ids) /\ todo[t] \in Seq(Ids) /\ todo[t] # <<>>
      /\ pc[t] = "retire"
  BY DEF InsertRecord, TypeOK
<1>2. Len(batch[t]) \in Nat /\ Len(todo[t]) \in 1 .. Len(batch[t])
  BY <1>1 DEF BatchOf
<1>3. batch' = batch /\ user' = user
  BY DEF InsertRecord, NextId
<1>4. /\ assign'[Len(assign) + 1].assignId = Subject(t)
      /\ assign'[Len(assign) + 1].userId = user[t]
      /\ Len(assign) + 1 \in DOMAIN assign'
  BY InsertEffect
<1> DEFINE n == Len(batch[t]) - Len(todo[t]) + 1
<1>5. batch[t][n] = Subject(t)
  <2>1. \A m \in 1 .. Len(todo[t]) :
           todo[t][m] = batch[t][Len(batch[t]) - Len(todo[t]) + m]
    BY <1>1 DEF BatchOf
  <2>2. todo[t][1] = batch[t][Len(batch[t]) - Len(todo[t]) + 1]
    <3> DEFINE m == 1
    <3>1. m \in 1 .. Len(todo[t])
      BY <1>2
    <3> HIDE DEF m
    <3>2. todo[t][m] = batch[t][Len(batch[t]) - Len(todo[t]) + m]
      BY <2>1, <3>1
    <3> QED
      BY <3>2 DEF m
  <2>3. Subject(t) = todo[t][1]
    BY <1>1 DEF Subject
  <2> QED
    BY <2>2, <2>3
<1>6. Named(assign', batch[t][n], user[t])
  BY <1>3, <1>4, <1>5 DEF Named
<1>7. ASSUME NEW k \in 1 .. Len(batch[t]) - Len(todo[t]) + 1, k # n
      PROVE  Named(assign', batch[t][k], user[t])
  <2>1. k \in Done(t)
    BY <1>2, <1>7 DEF Done
  <2>2. Named(assign, batch[t][k], user[t])
    BY <1>1, <2>1 DEF BatchOf
  <2> QED
    BY <2>2, NamedStays
<1> QED
  BY <1>2, <1>3, <1>6, <1>7

LEMMA BatchStep == TypeOK /\ RetiresOwn /\ BatchInv /\ [Next]_vars => BatchInv'
<1> SUFFICES ASSUME TypeOK, RetiresOwn, BatchInv, [Next]_vars, NEW t \in Threads
             PROVE  BatchOf(t)'
  BY DEF BatchInv, BatchOf
<1>0. BatchOf(t)
  BY DEF BatchInv, BatchOf
<1>1. ASSUME BeginBatch(t) PROVE BatchOf(t)'
  <2>1. PICK ids \in Batches : batch' = [batch EXCEPT ![t] = ids]
                               /\ todo' = [todo EXCEPT ![t] = ids]
    BY <1>1 DEF BeginBatch
  <2>2. ids \in Seq(Ids) /\ batch'[t] = ids /\ todo'[t] = ids
    BY <2>1, BatchIsSeq DEF TypeOK
  <2>3. Len(todo'[t]) = Len(batch'[t]) /\ Len(batch'[t]) \in Nat
    BY <2>2
  <2>4. Done(t)' = {}
    BY <2>3 DEF Done
  <2>5. \A k \in 1 .. Len(todo'[t]) :
           todo'[t][k] = batch'[t][Len(batch'[t]) - Len(todo'[t]) + k]
    BY <2>2, <2>3
  <2>6. pc'[t] = "select"
    BY <1>1 DEF BeginBatch, TypeOK
  <2> QED
    BY <2>3, <2>4, <2>5, <2>6 DEF BatchOf
<1>2. ASSUME InsertRecord(t) PROVE BatchOf(t)'
  <2>1. /\ Len(batch[t]) \in Nat /\ Len(todo[t]) \in 1 .. Len(batch[t])
        /\ \A k \in 1 .. Len(batch[t]) - Len(todo[t]) + 1 :
              Named(assign', batch[t][k], user[t])
        /\ batch' = batch /\ user' = user
    BY <1>0, <1>2, InsertNames
  <2>2. batch[t] \in Seq(Ids) /\ todo[t] \in Seq(Ids) /\ pc[t] = "retire"
    BY <1>2 DEF InsertRecord, TypeOK
  <2>3. CASE NextId(t, "select")
    <3>1. todo'[t] = Tail(todo[t]) /\ pc'[t] = "select"
      BY <2>3 DEF NextId, TypeOK
    <3>2. Len(todo'[t]) = Len(todo[t]) - 1
      BY <2>1, <2>2, <3>1
    <3>3. Done(t)' = 1 .. Len(batch[t]) - Len(todo[t]) + 1
      BY <2>1, <3>2 DEF Done
    <3>4. ASSUME NEW k \in 1 .. Len(todo'[t])
          PROVE  todo'[t][k] = batch'[t][Len(batch'[t]) - Len(todo'[t]) + k]
      <4>1. k + 1 \in 1 .. Len(todo[t]) /\ todo'[t][k] = todo[t][k + 1]
        BY <2>1, <2>2, <3>1, <3>2
      <4>2. todo[t][k + 1] = batch[t][Len(batch[t]) - Len(todo[t]) + (k + 1)]
        <5>1. \A m \in 1 .. Len(todo[t]) :
                 todo[t][m] = batch[t][Len(batch[t]) - Len(todo[t]) + m]
          BY <1>0, <2>2 DEF BatchOf
        <5> DEFINE m == k + 1
        <5>2. m \in 1 .. Len(todo[t])
          BY <4>1
        <5> HIDE DEF m
        <5>3. todo[t][m] = batch[t][Len(batch[t]) - Len(todo[t]) + m]
          BY <5>1, <5>2
        <5> QED
          BY <5>3 DEF m
      <4>3. Len(batch[t]) - Len(todo[t]) + (k + 1) = Len(batch[t]) - Len(todo'[t]) + k
        <5>1. k \in Int /\ Len(todo[t]) \in Int /\ Len(batch[t]) \in Int
          BY <2>1
        <5>2. \A a, b, m \in Int : a - b + (m + 1) = a - (b - 1) + m
          OBVIOUS
        <5>3. Len(batch[t]) - Len(todo[t]) + (k + 1) = Len(batch[t]) - (Len(todo[t]) - 1) + k
          BY <5>1, <5>2
        <5> QED
          BY <3>2, <5>3
      <4> QED
        BY <2>1, <4>1, <4>2, <4>3
    <3>5. Len(todo'[t]) <= Len(batch'[t])
      BY <2>1, <3>2
    <3> QED
      BY <2>1, <3>1, <3>3, <3>4, <3>5 DEF BatchOf
  <2>4. CASE Len(todo[t]) = 1 /\ pc' = [pc EXCEPT ![t] = "read"]
    <3>1. pc'[t] = "read"
      BY <2>4 DEF TypeOK
    <3>2. DOMAIN batch[t] = 1 .. Len(batch[t]) - Len(todo[t]) + 1
      BY <2>1, <2>2, <2>4
    <3> QED
      BY <2>1, <3>1, <3>2 DEF BatchOf
  <2> QED
    BY <1>2, <2>3, <2>4 DEF InsertRecord
<1>3. ASSUME Finish(t) PROVE BatchOf(t)'
  <2>1. pc'[t] = "idle"
    BY <1>3 DEF Finish, TypeOK
  <2> QED
    BY <2>1 DEF BatchOf
<1>4. ASSUME SelectLatest(t) \/ RetireRecord(t) \/ ReadClue(t)
             \/ (WriteAssigned(t) /\ NextId(t, "read"))
      PROVE  BatchOf(t)'
  <2>1. Stays(t)
    BY <1>4 DEF SelectLatest, RetireRecord, ReadClue, WriteAssigned, NextId, Stays, TypeOK
  <2> QED
    BY <1>0, <2>1, StaysKeeps
<1>5. ASSUME FalseClue(t) \/ WriteFalse(t) \/ FindOwner(t) \/ OpenForm(t)
      PROVE  BatchOf(t)'
  <2>1. pc'[t] \in {"mark", "owner", "track", "form"}
    BY <1>5 DEF FalseClue, WriteFalse, FindOwner, OpenForm, TypeOK
  <2> QED
    BY <2>1 DEF BatchOf
<1>6. ASSUME Ask(t) \/ Serve(t) \/ Abort(t) PROVE BatchOf(t)'
  BY <1>1, <1>2, <1>3, <1>4, <1>5, <1>6
     DEF Ask, Serve, Update, UnknownUser, UnknownClue, NoSingleOwner, WriteTrack, Abort,
         WriteAssigned
<1>7. ASSUME pc'[t] = pc[t], todo'[t] = todo[t], batch'[t] = batch[t], user'[t] = user[t]
      PROVE  BatchOf(t)'
  <2>1. Stays(t) \/ pc'[t] \notin {"select", "retire", "read", "write"}
    BY <1>7 DEF Stays
  <2> QED
    BY <1>0, <2>1, StaysKeeps
<1>8. ASSUME NEW s \in Threads, s # t, Ask(s) \/ Serve(s) \/ Abort(s)
      PROVE  BatchOf(t)'
  <2>1. CASE Finish(s)
    BY <1>7, <1>8, <2>1 DEF Finish, TypeOK
  <2>2. CASE ~ Finish(s)
    <3>1. /\ pc'[t] = pc[t] /\ todo'[t] = todo[t]
          /\ batch'[t] = batch[t] /\ user'[t] = user[t]
      BY <1>8, <2>2 DEF Ask, Serve, Abort, BeginBatch, FalseClue, OpenForm, Update,
         SelectLatest, RetireRecord, InsertRecord, UnknownUser, ReadClue, UnknownClue,
         WriteAssigned, WriteFalse, FindOwner, NoSingleOwner, WriteTrack, NextId, TypeOK
    <3> QED
      BY <1>7, <3>1
  <2> QED
    BY <2>1, <2>2
<1>9. ASSUME NEW c \in Ids, Insert(c) PROVE BatchOf(t)'
  BY <1>7, <1>9 DEF Insert, locals
<1>10. CASE UNCHANGED vars
  BY <1>7, <1>10 DEF vars, locals
<1> QED
  BY <1>6, <1>8, <1>9, <1>10 DEF Next, Rest

\* A request that goes on to its second loop has given every clue of its batch a
\* record that names its user, and no stale entity another request writes back
\* takes the record away from that user, for any number of overlapping requests
\* and wherever they die.
THEOREM Recording == Spec => []BatchRecorded
<1>1. Init => BatchInv
  BY DEF Init, BatchInv
<1>2. BatchInv => BatchRecorded
  BY DEF BatchInv, BatchRecorded, Named
<1> QED
  BY <1>1, <1>2, BatchStep, RetiresOwnHolds, TypeCorrect, PTL DEF Spec

-----------------------------------------------------------------------------
(* No clue loses its owner.  Without requests that die, a request that has *)
(* retired a clue's records inserts one, so it can always stand in for the *)
(* retired record: NewestIsLatest is inductive next to RetiresOwn.         *)

NoFault ==
    /\ faults = 0
    /\ \A t \in Threads : pc[t] \in {"select", "retire"} => user[t] \in Users

LEMMA NoFaultStep ==
    ASSUME MaxFaults = 0, Strangers = {}
    PROVE  TypeOK /\ NoFault /\ [Next]_vars => NoFault'
<1> SUFFICES ASSUME TypeOK, NoFault, [Next]_vars PROVE NoFault'
  OBVIOUS
<1>1. ASSUME NEW t \in Threads, Abort(t) PROVE FALSE
  BY <1>1 DEF Abort, NoFault
<1>2. ASSUME NEW t \in Threads, Finish(t), faults' = faults PROVE NoFault'
  BY <1>2 DEF NoFault, Finish, TypeOK
<1>3. ASSUME NEW t \in Threads,
             UnknownUser(t) \/ UnknownClue(t) \/ NoSingleOwner(t)
               \/ WriteTrack(t) \/ Update(t)
      PROVE  NoFault'
  BY <1>2, <1>3 DEF UnknownUser, UnknownClue, NoSingleOwner, WriteTrack, Update
<1>4. ASSUME NEW t \in Threads, BeginBatch(t) PROVE NoFault'
  BY <1>4 DEF BeginBatch, NoFault, TypeOK
<1>5. ASSUME NEW t \in Threads, SelectLatest(t) \/ RetireRecord(t) PROVE NoFault'
  BY <1>5 DEF SelectLatest, RetireRecord, NoFault, TypeOK
<1>6. ASSUME NEW t \in Threads, InsertRecord(t) PROVE NoFault'
  BY <1>6 DEF InsertRecord, NextId, NoFault, TypeOK
<1>7. ASSUME NEW t \in Threads, WriteAssigned(t) PROVE NoFault'
  <2>1. CASE NextId(t, "read")
    BY <1>7, <2>1 DEF WriteAssigned, NextId, NoFault, TypeOK
  <2> QED
    BY <1>2, <1>7, <2>1 DEF WriteAssigned
<1>8. ASSUME NEW t \in Threads,
             ReadClue(t) \/ FalseClue(t) \/ WriteFalse(t) \/ FindOwner(t) \/ OpenForm(t)
      PROVE  NoFault'
  BY <1>8 DEF ReadClue, FalseClue, WriteFalse, FindOwner, OpenForm, NoFault, TypeOK
<1>9. ASSUME NEW c \in Ids, Insert(c) PROVE NoFault'
  BY <1>9 DEF Insert, locals, NoFault
<1>10. CASE UNCHANGED vars
  BY <1>10 DEF vars, locals, NoFault
<1> QED
  BY <1>1, <1>3, <1>4, <1>5, <1>6, <1>7, <1>8, <1>9, <1>10 DEF Next, Ask, Serve, Rest

LEMMA NewestStep ==
    ASSUME MaxFaults = 0, Strangers = {}
    PROVE  TypeOK /\ NoFault /\ RetiresOwn /\ NewestIsLatest /\ [Next]_vars
              => NewestIsLatest'
<1> DEFINE Covered(i) == \/ assign'[i].latest = "1"
                         \/ \E s \in Threads : /\ pc'[s] = "retire"
                                               /\ Head(todo'[s]) = assign'[i].assignId
<1> SUFFICES ASSUME TypeOK, NoFault, RetiresOwn, NewestIsLatest, [Next]_vars,
                    NEW i \in DOMAIN assign',
                    \A j \in DOMAIN assign' :
                       assign'[j].assignId = assign'[i].assignId => j <= i
             PROVE  Covered(i)
  BY DEF NewestIsLatest, Newest, Reassigning, Subject
<1>1. ASSUME NEW t \in Threads, SelectLatest(t) PROVE Covered(i)
  BY <1>1 DEF SelectLatest, tables, NewestIsLatest, Newest, Reassigning, Subject, TypeOK
<1>2. ASSUME NEW t \in Threads, RetireRecord(t) PROVE Covered(i)
  <2>1. PICK e \in list[t] :
           /\ DOMAIN assign' = DOMAIN assign
           /\ \A j \in DOMAIN assign :
                 /\ assign'[j].assignId = assign[j].assignId
                 /\ assign'[j].latest = IF j = e.key THEN "0" ELSE assign[j].latest
    BY <1>2, RetireEffect
  <2>2. pc' = pc /\ todo' = todo /\ pc[t] = "retire"
    BY <1>2 DEF RetireRecord
  <2>3. CASE i = e.key
    BY <2>1, <2>2, <2>3 DEF RetiresOwn, Reassigning, Subject
  <2>4. CASE i # e.key
    BY <2>1, <2>2, <2>4 DEF NewestIsLatest, Newest, Reassigning, Subject
  <2> QED
    BY <2>3, <2>4
<1>3. ASSUME NEW t \in Threads, InsertRecord(t) PROVE Covered(i)
  <2> DEFINE n == Len(assign) + 1
  <2>1. /\ Len(assign) \in Nat
        /\ DOMAIN assign = 1 .. Len(assign)
        /\ DOMAIN assign' = 1 .. n
        /\ \A j \in DOMAIN assign : assign'[j] = assign[j]
        /\ assign'[n].assignId = Subject(t)
        /\ assign'[n].latest = "1"
    BY <1>3, InsertEffect
  <2>2. CASE i = n
    BY <2>1, <2>2
  <2>3. CASE i # n
    <3>1. i \in DOMAIN assign /\ assign'[i] = assign[i] /\ Newest(i)
      BY <2>1, <2>3 DEF Newest
    <3>2. assign[i].assignId # Subject(t)
      BY <2>1, <2>3, <3>1 DEF Newest
    <3>3. \A s \in Threads : s # t => pc'[s] = pc[s] /\ todo'[s] = todo[s]
      BY <1>3 DEF InsertRecord, NextId, TypeOK
    <3> QED
      BY <3>1, <3>2, <3>3 DEF NewestIsLatest, Reassigning, Subject
  <2> QED
    BY <2>2, <2>3
<1>4. CASE Elsewhere
  <2>1. \A t \in Threads : ~ Abort(t) /\ ~ UnknownUser(t)
    BY DEF Abort, UnknownUser, NoFault
  <2>2. \A t \in Threads : pc[t] = "retire" => pc'[t] = "retire" /\ todo'[t] = todo[t]
    BY <1>4, <2>1 DEF Elsewhere
  <2> QED
    BY <1>4, <2>2 DEF Elsewhere, NewestIsLatest, Newest, Reassigning, Subject
<1> QED
  BY <1>1, <1>2, <1>3, <1>4, StepKinds

\* As long as every request runs to its end and names users that exist, the
\* newest assignment record of a clue is a current one whenever nobody is about
\* to insert a newer one, for any number of concurrent requests.
THEOREM NoOrphan ==
    ASSUME MaxFaults = 0, Strangers = {}
    PROVE  Spec => []NewestIsLatest
<1>1. Init => NoFault /\ RetiresOwn /\ NewestIsLatest
  BY DEF Init, NoFault, RetiresOwn, NewestIsLatest
<1>2. TypeOK /\ NoFault /\ [Next]_vars => NoFault'
  BY NoFaultStep
<1>3. TypeOK /\ NoFault /\ RetiresOwn /\ NewestIsLatest /\ [Next]_vars => NewestIsLatest'
  BY NewestStep
<1> QED
  BY <1>1, <1>2, <1>3, RetiresOwnStep, TypeCorrect, PTL DEF Spec

-----------------------------------------------------------------------------
(* One assignment of a clue at a time.  What the request has selected to   *)
(* retire are all the current records of its clue: when it has retired     *)
(* them none is left.                                                      *)

\* No two requests are between the lookup of a clue's records and the new one,
\* as if insert() held a lock of the clue: other requests go on meanwhile, and
\* so do assignments of other clues.
AssignmentsApart ==
    \A c \in Ids : \A s, t \in Threads : Reassigning(s, c) /\ Reassigning(t, c) => s = t

\* The keys of the records a request has selected.
Keys(entities) == {e.key : e \in entities}

OneRecordInv ==
    /\ \A c \in Ids : \A i, j \in LatestRecords(c) : i = j
    /\ \A t \in Threads : pc[t] = "retire" => LatestRecords(Subject(t)) \subseteq Keys(list[t])

LEMMA OneRecordStep ==
    TypeOK /\ RetiresOwn /\ OneRecordInv /\ AssignmentsApart /\ [Next]_vars => OneRecordInv'
<1> SUFFICES ASSUME TypeOK, RetiresOwn, OneRecordInv, AssignmentsApart, [Next]_vars PROVE OneRecordInv'
  OBVIOUS
<1>1. ASSUME NEW t \in Threads, SelectLatest(t) PROVE OneRecordInv'
  <2>1. /\ assign' = assign /\ todo' = todo
        /\ list' = [list EXCEPT ![t] =
                       {[key |-> i, record |-> assign[i]] : i \in LatestRecords(Subject(t))}]
        /\ pc' = [pc EXCEPT ![t] = "retire"]
    BY <1>1 DEF SelectLatest, tables
  <2>2. \A c : LatestRecords(c)' = LatestRecords(c)
    BY <2>1 DEF LatestRecords
  <2>3. \A s \in Threads : Subject(s)' = Subject(s)
    BY <2>1 DEF Subject
  <2>4. \A s \in Threads : pc'[s] = "retire" =>
           \/ s = t /\ Keys(list'[s]) = LatestRecords(Subject(s))
           \/ pc[s] = "retire" /\ list'[s] = list[s]
    <3>1. list'[t] = {[key |-> i, record |-> assign[i]] : i \in LatestRecords(Subject(t))}
      BY <2>1 DEF TypeOK
    <3>2. Keys(list'[t]) = LatestRecords(Subject(t))
      <4>1. ASSUME NEW i \in LatestRecords(Subject(t)) PROVE i \in Keys(list'[t])
        <5>1. [key |-> i, record |-> assign[i]] \in list'[t]
          BY <3>1
        <5>2. [key |-> i, record |-> assign[i]].key = i
          OBVIOUS
        <5> QED
          BY <5>1, <5>2 DEF Keys
      <4>2. ASSUME NEW i \in Keys(list'[t]) PROVE i \in LatestRecords(Subject(t))
        BY <3>1, <4>2 DEF Keys
      <4> QED
        BY <4>1, <4>2
    <3>3. \A s \in Threads : s # t => list'[s] = list[s] /\ pc'[s] = pc[s]
      BY <2>1 DEF TypeOK
    <3> QED
      BY <3>2, <3>3
  <2> QED
    BY <2>2, <2>3, <2>4 DEF OneRecordInv, Keys
<1>2. ASSUME NEW t \in Threads, RetireRecord(t) PROVE OneRecordInv'
  <2>1. PICK e \in list[t] :
           /\ list' = [list EXCEPT ![t] = @ \ {e}]
           /\ DOMAIN assign' = DOMAIN assign
           /\ \A j \in DOMAIN assign :
                 /\ assign'[j].assignId = assign[j].assignId
                 /\ assign'[j].latest = IF j = e.key THEN "0" ELSE assign[j].latest
    BY <1>2, RetireEffect
  <2>2. pc' = pc /\ todo' = todo /\ pc[t] = "retire"
    BY <1>2 DEF RetireRecord
  <2>3. \A c \in Ids : LatestRecords(c)' \subseteq LatestRecords(c) \ {e.key}
    BY <2>1 DEF LatestRecords
  <2>4. \A s \in Threads : pc[s] = "retire" => Subject(s) \in Ids /\ Subject(s)' = Subject(s)
    BY <2>2, SubjectType DEF Subject
  <2>5. \A s \in Threads : Keys(list[s]) \ {e.key} \subseteq Keys(list'[s])
    BY <2>1 DEF TypeOK, Keys
  <2>6. \A s \in Threads :
           pc'[s] = "retire" => (LatestRecords(Subject(s)) \subseteq Keys(list[s]))'
    BY <2>2, <2>3, <2>4, <2>5 DEF OneRecordInv
  <2> QED
    BY <2>3, <2>6 DEF OneRecordInv
<1>3. ASSUME NEW t \in Threads, InsertRecord(t) PROVE OneRecordInv'
  <2>1. /\ DOMAIN assign = 1 .. Len(assign)
        /\ Len(assign) \in Nat
        /\ DOMAIN assign' = 1 .. Len(assign) + 1
        /\ \A j \in DOMAIN assign : assign'[j] = assign[j]
        /\ assign'[Len(assign) + 1].assignId = Subject(t)
        /\ list' = list
    BY <1>3, InsertEffect
  <2>2. LatestRecords(Subject(t)) = {} /\ pc[t] = "retire"
    BY <1>3 DEF InsertRecord, OneRecordInv, Keys
  <2>3. \A c \in Ids : \A j \in LatestRecords(c)' :
           j \in LatestRecords(c) \/ (c = Subject(t) /\ j = Len(assign) + 1)
    BY <2>1 DEF LatestRecords
  <2>4. \A s \in Threads : pc'[s] = "retire" =>
           s # t /\ pc[s] = "retire" /\ Subject(s)' = Subject(s)
    BY <1>3 DEF InsertRecord, NextId, TypeOK, Subject
  <2>5. \A s \in Threads : pc[s] = "retire" => Subject(s) \in Ids
    BY SubjectType
  <2>6. \A s \in Threads : s # t /\ pc[s] = "retire" => Subject(s) # Subject(t)
    BY <2>2, <2>5 DEF AssignmentsApart, Reassigning
  <2>7. \A s \in Threads :
           pc'[s] = "retire" => (LatestRecords(Subject(s)) \subseteq Keys(list[s]))'
    BY <2>1, <2>3, <2>4, <2>5, <2>6 DEF OneRecordInv
  <2> QED
    BY <2>2, <2>3, <2>7 DEF OneRecordInv
<1>4. CASE Elsewhere
  BY <1>4 DEF Elsewhere, OneRecordInv, LatestRecords, Subject
<1> QED
  BY <1>1, <1>2, <1>3, <1>4, StepKinds

\* What would be enough for a clue to have at most one current owner, whatever
\* else overlaps and wherever requests die: that assignments of the same clue do
\* not overlap.  The code has nothing that keeps them apart.
THEOREM OwnersKeptApart == Spec /\ []AssignmentsApart => []OneLatestOwner
<1>1. Init => OneRecordInv
  BY DEF Init, OneRecordInv, LatestRecords
<1>2. OneRecordInv => OneLatestOwner
  BY DEF OneRecordInv, OneLatestOwner, OwnerRecords
<1>3. TypeOK /\ RetiresOwn /\ OneRecordInv /\ AssignmentsApart /\ [Next]_vars
         => OneRecordInv'
  BY OneRecordStep
<1> QED
  BY <1>1, <1>2, <1>3, TypeCorrect, RetiresOwnHolds, PTL DEF Spec

Serial == \A s, t \in Threads : s = t

\* One request at a time, a clue never has two current owners, wherever
\* requests die and whatever users and clues they name.
THEOREM SingleOwner ==
    ASSUME Serial
    PROVE  Spec => []OneLatestOwner
<1>1. AssignmentsApart
  BY DEF Serial, AssignmentsApart
<1>2. []AssignmentsApart
  BY <1>1, PTL
<1> QED
  BY <1>2, OwnersKeptApart, PTL

-----------------------------------------------------------------------------
(* No two writes of a clue's row at a time and no edits: false-clue records *)
(* never outnumber the count.  A mark is counted before it is recorded, and *)
(* what a request writes back is the row as it still is.                    *)

\* Thread t has read the row of clue c and not yet written it back.
Rewriting(t, c) == pc[t] \in {"write", "mark"} /\ Subject(t) = c

\* Nobody reads a clue's row to write it back while another is about to.
WritesApart ==
    \A c \in Ids : \A s, t \in Threads : Rewriting(s, c) /\ Rewriting(t, c) => s = t

\* The requests that have counted a mark of c and not yet recorded it.
Pending(c) == {t \in Threads : pc[t] \in {"owner", "track"} /\ Subject(t) = c}

Count(c) == IF clue[c] = NoRow THEN 0 ELSE clue[c].falseCount

MarkInv ==
    /\ \A c \in Ids : /\ IsFiniteSet(Pending(c))
                      /\ track[c] + Cardinality(Pending(c)) <= Count(c)
    /\ \A t \in Threads : pc[t] # "form"
    /\ \A t \in Threads : pc[t] \in {"write", "mark"} => clue[Subject(t)] = row[t]

\* Storing the current row with another status or count changes only these.
LEMMA StoredCount ==
    ASSUME NEW r \in ClueRow
    PROVE  /\ UpdateById(r, AssignedClue(r)) # NoRow
           /\ UpdateById(r, AssignedClue(r)).falseCount = r.falseCount
           /\ UpdateById(r, FalseClueRow(r)) # NoRow
           /\ UpdateById(r, FalseClueRow(r)).falseCount = r.falseCount + 1
<1>1. r # NoRow /\ r.falseCount \in Nat /\ r.endTime \in {"null", "set"}
  BY RowAssumption DEF ClueRow
<1>2. UpdateById(r, AssignedClue(r)) \in ClueRow /\ UpdateById(r, FalseClueRow(r)) \in ClueRow
  BY RowsAreRows
<1>3. UpdateById(r, AssignedClue(r)).falseCount = r.falseCount
  BY <1>1 DEF UpdateById, AssignedClue, ClueRow
<1>4. UpdateById(r, FalseClueRow(r)).falseCount = r.falseCount + 1
  BY <1>1 DEF UpdateById, FalseClueRow, ClueRow
<1> QED
  BY <1>2, <1>3, <1>4, RowAssumption

LEMMA CountType == ASSUME TypeOK, NEW c \in Ids PROVE Count(c) \in Nat /\ track[c] \in Nat
BY RowAssumption DEF Count, TypeOK, ClueRow

\* A step of t leaves the other threads where they are.
Only(t) ==
    \A s \in Threads : s # t => pc'[s] = pc[s] /\ todo'[s] = todo[s] /\ row'[s] = row[s]

\* A request that has nothing to record, or less than before, after the step.
LEMMA PendingShrinks ==
    ASSUME TypeOK, MarkInv, NEW t \in Threads, Only(t), NEW c \in Ids,
           t \in Pending(c)' => t \in Pending(c)
    PROVE  /\ IsFiniteSet(Pending(c)') /\ Cardinality(Pending(c)') \in Nat
           /\ Cardinality(Pending(c)') <= Cardinality(Pending(c))
           /\ t \in Pending(c) /\ t \notin Pending(c)' =>
                 Cardinality(Pending(c)') + 1 = Cardinality(Pending(c))
<1>1. Pending(c)' \subseteq Pending(c) /\ Pending(c) \ {t} \subseteq Pending(c)'
  BY DEF Only, Pending, Subject
<1>2. IsFiniteSet(Pending(c))
  BY DEF MarkInv
<1>3. /\ IsFiniteSet(Pending(c)') /\ Cardinality(Pending(c)') \in Nat
      /\ Cardinality(Pending(c)') <= Cardinality(Pending(c))
  BY <1>1, <1>2, FS_Subset, FS_CardinalityType
<1>4. ASSUME t \in Pending(c), t \notin Pending(c)'
      PROVE  Cardinality(Pending(c)') + 1 = Cardinality(Pending(c))
  <2>1. Pending(c)' = Pending(c) \ {t}
    BY <1>1, <1>4
  <2>2. Cardinality(Pending(c) \ {t}) = Cardinality(Pending(c)) - 1
    BY <1>2, <1>4, FS_RemoveElement
  <2>3. Cardinality(Pending(c)) \in Nat
    BY <1>2, FS_CardinalityType
  <2> QED
    BY <2>1, <2>2, <2>3
<1> QED
  BY <1>3, <1>4

\* A step that writes no clue and records no mark.
LEMMA NothingMarked ==
    ASSUME TypeOK, MarkInv, NEW t \in Threads, Only(t), clue' = clue, track' = track,
           \A c \in Ids : t \in Pending(c)' => t \in Pending(c),
           pc'[t] # "form",
           pc'[t] \in {"write", "mark"} => clue[Subject(t)'] = row'[t]
    PROVE  MarkInv'
<1>1. ASSUME NEW c \in Ids
      PROVE  (IsFiniteSet(Pending(c)) /\ track[c] + Cardinality(Pending(c)) <= Count(c))'
  <2>1. Count(c)' = Count(c)
    BY DEF Count
  <2>2. /\ IsFiniteSet(Pending(c)') /\ Cardinality(Pending(c)') \in Nat
        /\ Cardinality(Pending(c)') <= Cardinality(Pending(c))
    BY PendingShrinks
  <2>3. track[c] + Cardinality(Pending(c)) <= Count(c) /\ IsFiniteSet(Pending(c))
    BY DEF MarkInv
  <2>4. Cardinality(Pending(c)) \in Nat
    BY <2>3, FS_CardinalityType
  <2>5. track[c] \in Nat /\ Count(c) \in Nat
    BY CountType
  <2> QED
    BY <2>1, <2>2, <2>3, <2>4, <2>5
<1>2. \A s \in Threads : pc'[s] # "form"
  BY DEF Only, MarkInv
<1>3. \A s \in Threads : pc'[s] \in {"write", "mark"} => clue'[Subject(s)'] = row'[s]
  BY DEF Only, MarkInv, Subject
<1> QED
  BY <1>1, <1>2, <1>3 DEF MarkInv

\* A step that writes the row of c, which nobody else is about to write.
LEMMA RowWritten ==
    ASSUME TypeOK, MarkInv, WritesApart, NEW t \in Threads, Only(t), NEW c \in Ids, Rewriting(t, c),
           \A d \in Ids : d # c => clue'[d] = clue[d],
           pc'[t] \notin {"form", "write", "mark"},
           \A d \in Ids : /\ IsFiniteSet(Pending(d)')
                         /\ track'[d] + Cardinality(Pending(d)') <= Count(d)'
    PROVE  MarkInv'
<1>1. \A s \in Threads : pc'[s] # "form"
  BY DEF Only, MarkInv
<1>2. ASSUME NEW s \in Threads, pc'[s] \in {"write", "mark"} PROVE clue'[Subject(s)'] = row'[s]
  <2>1. s # t /\ pc[s] \in {"write", "mark"} /\ Subject(s)' = Subject(s) /\ row'[s] = row[s]
    BY <1>2 DEF Only, Subject
  <2>2. Subject(s) \in Ids
    BY <2>1, SubjectType
  <2>3. Subject(s) # c
    BY <2>1, <2>2 DEF WritesApart, Rewriting
  <2> QED
    BY <2>1, <2>2, <2>3 DEF MarkInv
<1> QED
  BY <1>1, <1>2 DEF MarkInv

LEMMA MarkStep ==
    ASSUME "edit" \notin Handlers
    PROVE  TypeOK /\ MarkInv /\ WritesApart /\ [Next]_vars => MarkInv'
<1> SUFFICES ASSUME TypeOK, MarkInv, WritesApart, [Next]_vars PROVE MarkInv'
  OBVIOUS
<1>1. ASSUME NEW c \in Ids, Insert(c) PROVE MarkInv'
  <2>1. \A s \in Status : FreshClue(s) # NoRow /\ FreshClue(s).falseCount = 0
    BY FreshIsRow, RowAssumption DEF FreshClue
  <2>2. track' = track /\ pc' = pc /\ todo' = todo /\ row' = row
    BY <1>1 DEF Insert, locals
  <2>3. \A d \in Ids : d # c => clue'[d] = clue[d]
    BY <1>1 DEF Insert, TypeOK
  <2>4. clue[c] = NoRow /\ clue'[c] # NoRow /\ clue'[c].falseCount = 0
    BY <1>1, <2>1, EnteredAssumption DEF Insert, TypeOK
  <2>5. \A t \in Threads : pc[t] \in {"write", "mark"} => Subject(t) \in Ids /\ Subject(t) # c
    BY <2>4, SubjectType, RowAssumption DEF MarkInv, TypeOK
  <2>6. \A d \in Ids : Count(d)' = Count(d)
    BY <2>3, <2>4 DEF Count
  <2>7. \A d \in Ids : Pending(d)' = Pending(d)
    BY <2>2 DEF Pending, Subject
  <2> QED
    BY <2>2, <2>3, <2>5, <2>6, <2>7 DEF MarkInv, Subject
<1>2. ASSUME NEW t \in Threads, Finish(t), clue' = clue, track' = track PROVE MarkInv'
  <2>1. Only(t) /\ pc'[t] = "idle"
    BY <1>2 DEF Finish, TypeOK, Only
  <2>2. \A c \in Ids : t \notin Pending(c)'
    BY <2>1 DEF Pending
  <2> QED
    BY <1>2, <2>1, <2>2, NothingMarked
<1>3. ASSUME NEW t \in Threads,
             UnknownUser(t) \/ UnknownClue(t) \/ NoSingleOwner(t) \/ Abort(t)
      PROVE  MarkInv'
  BY <1>2, <1>3 DEF UnknownUser, UnknownClue, NoSingleOwner, Abort, tables
<1>4. ASSUME NEW t \in Threads,
             BeginBatch(t) \/ SelectLatest(t) \/ RetireRecord(t) \/ InsertRecord(t)
      PROVE  MarkInv'
  <2>1. clue' = clue /\ track' = track
    BY <1>4 DEF BeginBatch, SelectLatest, RetireRecord, InsertRecord, tables
  <2>2. pc'[t] \in {"select", "retire", "read"} /\ Only(t)
    BY <1>4 DEF BeginBatch, SelectLatest, RetireRecord, InsertRecord, NextId, TypeOK, Only
  <2>3. \A c \in Ids : t \notin Pending(c)'
    BY <2>2 DEF Pending
  <2> QED
    BY <2>1, <2>2, <2>3, NothingMarked
<1>5. ASSUME NEW t \in Threads, ReadClue(t) \/ FalseClue(t) PROVE MarkInv'
  <2>1. clue' = clue /\ track' = track /\ Only(t)
    BY <1>5 DEF ReadClue, FalseClue, tables, TypeOK, Only
  <2>2. pc'[t] \in {"write", "mark"} /\ clue[Subject(t)'] = row'[t]
    BY <1>5 DEF ReadClue, FalseClue, TypeOK, Subject
  <2>3. \A c \in Ids : t \notin Pending(c)'
    BY <2>2 DEF Pending
  <2> QED
    BY <2>1, <2>2, <2>3, NothingMarked
<1>6. ASSUME NEW t \in Threads, FindOwner(t) PROVE MarkInv'
  <2>1. /\ clue' = clue /\ track' = track /\ todo' = todo /\ Only(t)
        /\ pc[t] = "owner" /\ pc'[t] = "track"
    BY <1>6 DEF FindOwner, tables, TypeOK, Only
  <2>2. \A c \in Ids : t \in Pending(c)' => t \in Pending(c)
    BY <2>1 DEF Pending, Subject
  <2> QED
    BY <2>1, <2>2, NothingMarked
<1>7. ASSUME NEW t \in Threads, pc[t] \in {"write", "mark"}
      PROVE  /\ Subject(t) \in Ids /\ Rewriting(t, Subject(t))
             /\ row[t] \in ClueRow /\ clue[Subject(t)] = row[t]
             /\ row[t] # NoRow /\ Count(Subject(t)) = row[t].falseCount
  BY <1>7, SubjectType, RowAssumption DEF MarkInv, TypeOK, Rewriting, Count
<1>8. ASSUME NEW t \in Threads, WriteAssigned(t) PROVE MarkInv'
  <2>1. /\ track' = track /\ Only(t)
        /\ \A d \in Ids : d # Subject(t) => clue'[d] = clue[d]
        /\ clue'[Subject(t)] = UpdateById(row[t], AssignedClue(row[t]))
        /\ pc'[t] \in {"idle", "read"}
    BY <1>7, <1>8 DEF WriteAssigned, NextId, Finish, TypeOK, Only
  <2>2. pc[t] = "write"
    BY <1>8 DEF WriteAssigned
  <2>3. clue'[Subject(t)] # NoRow /\ clue'[Subject(t)].falseCount = row[t].falseCount
    BY <1>7, <2>1, <2>2, StoredCount
  <2>4. \A d \in Ids : Count(d)' = Count(d)
    BY <1>7, <2>1, <2>2, <2>3 DEF Count
  <2>5. ASSUME NEW d \in Ids PROVE Pending(d)' = Pending(d)
    BY <2>1, <2>2 DEF Only, Pending, Subject
  <2>6. \A d \in Ids : /\ IsFiniteSet(Pending(d)')
                      /\ track'[d] + Cardinality(Pending(d)') <= Count(d)'
    BY <2>1, <2>4, <2>5 DEF MarkInv
  <2> QED
    BY <1>7, <2>1, <2>2, <2>6, RowWritten
<1>9. ASSUME NEW t \in Threads, WriteFalse(t) PROVE MarkInv'
  <2>1. /\ track' = track /\ todo' = todo /\ Only(t)
        /\ \A d \in Ids : d # Subject(t) => clue'[d] = clue[d]
        /\ clue'[Subject(t)] = UpdateById(row[t], FalseClueRow(row[t]))
        /\ pc[t] = "mark" /\ pc'[t] = "owner"
    BY <1>7, <1>9 DEF WriteFalse, TypeOK, Only
  <2>2. clue'[Subject(t)] # NoRow /\ clue'[Subject(t)].falseCount = row[t].falseCount + 1
    BY <1>7, <2>1, StoredCount
  <2>3. ASSUME NEW d \in Ids
        PROVE  (IsFiniteSet(Pending(d)) /\ track[d] + Cardinality(Pending(d)) <= Count(d))'
    <3>1. IsFiniteSet(Pending(d)) /\ track[d] + Cardinality(Pending(d)) <= Count(d)
      BY DEF MarkInv
    <3>2. CASE d = Subject(t)
      <4>1. t \notin Pending(d) /\ Pending(d)' = Pending(d) \cup {t}
        BY <2>1, <3>2 DEF Only, Pending, Subject
      <4>2. /\ IsFiniteSet(Pending(d)')
            /\ Cardinality(Pending(d)') = Cardinality(Pending(d)) + 1
        BY <3>1, <4>1, FS_AddElement
      <4>3. Count(d)' = Count(d) + 1
        BY <1>7, <2>1, <2>2, <3>2 DEF Count
      <4>4. Cardinality(Pending(d)) \in Nat /\ Count(d) \in Nat /\ track[d] \in Nat
        BY <3>1, CountType, FS_CardinalityType
      <4> QED
        BY <2>1, <3>1, <4>2, <4>3, <4>4
    <3>3. CASE d # Subject(t)
      <4>1. Pending(d)' = Pending(d)
        BY <2>1, <3>3 DEF Only, Pending, Subject
      <4>2. Count(d)' = Count(d)
        BY <2>1, <3>3 DEF Count
      <4> QED
        BY <2>1, <3>1, <4>1, <4>2
    <3> QED
      BY <3>2, <3>3
  <2>4. pc'[t] \notin {"form", "write", "mark"}
    BY <2>1
  <2> QED
    BY <1>7, <2>1, <2>3, <2>4, RowWritten
<1>10. ASSUME NEW t \in Threads, WriteTrack(t) PROVE MarkInv'
  <2>1. Only(t) /\ pc'[t] = "idle" /\ clue' = clue /\ pc[t] = "track" /\ Subject(t) \in Ids
    BY <1>10, SubjectType DEF WriteTrack, Finish, TypeOK, Only
  <2>2. /\ \A d \in Ids : d # Subject(t) => track'[d] = track[d]
        /\ track'[Subject(t)] = track[Subject(t)] + 1
    BY <1>10, <2>1 DEF WriteTrack, TypeOK
  <2>3. \A c \in Ids : t \notin Pending(c)'
    BY <2>1 DEF Pending
  <2>4. t \in Pending(Subject(t))
    BY <2>1 DEF Pending
  <2>5. ASSUME NEW d \in Ids
        PROVE  (IsFiniteSet(Pending(d)) /\ track[d] + Cardinality(Pending(d)) <= Count(d))'
    <3>1. /\ IsFiniteSet(Pending(d)) /\ track[d] + Cardinality(Pending(d)) <= Count(d)
          /\ Cardinality(Pending(d)) \in Nat /\ Count(d) \in Nat /\ track[d] \in Nat
      BY CountType, FS_CardinalityType DEF MarkInv
    <3>2. /\ IsFiniteSet(Pending(d)') /\ Cardinality(Pending(d)') \in Nat
          /\ Cardinality(Pending(d)') <= Cardinality(Pending(d))
          /\ t \in Pending(d) => Cardinality(Pending(d)') + 1 = Cardinality(Pending(d))
      BY <2>1, <2>3, PendingShrinks
    <3>3. Count(d)' = Count(d)
      BY <2>1 DEF Count
    <3> QED
      BY <2>2, <2>4, <3>1, <3>2, <3>3
  <2>6. \A s \in Threads : pc'[s] # "form"
    BY <2>1 DEF Only, MarkInv
  <2>7. \A s \in Threads : pc'[s] \in {"write", "mark"} => clue'[Subject(s)'] = row'[s]
    BY <2>1 DEF Only, MarkInv, Subject
  <2> QED
    BY <2>5, <2>6, <2>7 DEF MarkInv
<1>11. ASSUME NEW t \in Threads, OpenForm(t) \/ Update(t) PROVE FALSE
  BY <1>11 DEF OpenForm, Update, Accept, MarkInv
<1>12. CASE UNCHANGED vars
  BY <1>12 DEF vars, tables, locals, MarkInv, Pending, Count, Subject
<1> QED
  BY <1>1, <1>3, <1>4, <1>5, <1>6, <1>8, <1>9, <1>10, <1>11, <1>12
     DEF Next, Ask, Serve, Rest

\* What would be enough for every false-clue record to be counted, without edits:
\* that nobody reads a clue's row to write it back while another is about to.
\* Any number of marks may be counted and not yet recorded meanwhile.
THEOREM MarksCounted ==
    ASSUME "edit" \notin Handlers
    PROVE  Spec /\ []WritesApart => []TracksCounted
<1>1. Init => MarkInv
  <2> SUFFICES ASSUME Init PROVE MarkInv
    OBVIOUS
  <2>1. \A c \in Ids : Pending(c) = {}
    BY DEF Init, Pending
  <2>2. IsFiniteSet({}) /\ Cardinality({}) = 0
    BY FS_EmptySet
  <2>3. \A c \in Ids : track[c] = 0 /\ Count(c) = 0
    BY DEF Init, Count
  <2>4. \A t \in Threads : pc[t] = "idle"
    BY DEF Init
  <2>5. ASSUME NEW c \in Ids
        PROVE  IsFiniteSet(Pending(c)) /\ track[c] + Cardinality(Pending(c)) <= Count(c)
    <3>1. Pending(c) = {} /\ track[c] = 0 /\ Count(c) = 0
      BY <2>1, <2>3
    <3>2. Cardinality(Pending(c)) = 0 /\ IsFiniteSet(Pending(c))
      BY <2>2, <3>1
    <3> QED
      BY <3>1, <3>2
  <2> QED
    BY <2>4, <2>5 DEF MarkInv
<1>2. TypeOK /\ MarkInv => TracksCounted
  <2> SUFFICES ASSUME TypeOK, MarkInv, NEW c \in Ids, clue[c] # NoRow
               PROVE  track[c] <= clue[c].falseCount
    BY DEF TracksCounted
  <2>1. /\ track[c] + Cardinality(Pending(c)) <= Count(c) /\ Count(c) = clue[c].falseCount
        /\ Cardinality(Pending(c)) \in Nat
    BY FS_CardinalityType DEF MarkInv, Count
  <2> QED
    BY <2>1, CountType
<1>3. TypeOK /\ MarkInv /\ WritesApart /\ [Next]_vars => MarkInv'
  BY MarkStep
<1> QED
  BY <1>1, <1>2, <1>3, TypeCorrect, PTL DEF Spec

\* One request at a time and no edits, every false-clue record is counted.
THEOREM Counted ==
    ASSUME Serial, "edit" \notin Handlers
    PROVE  Spec => []TracksCounted
<1>1. WritesApart
  BY DEF Serial, WritesApart
<1>2. []WritesApart
  BY <1>1, PTL
<1> QED
  BY <1>2, MarksCounted, PTL

-----------------------------------------------------------------------------
(* Requests end.  What a request has still to do is, before all else, its   *)
(* loops: the one over the records, the one over the clues; then the ids    *)
(* left in the loop, the statements left for the id, the records left to    *)
(* retire.  How many records those are is known only when they are looked   *)
(* up, so the four are compared in this order and not added.                *)

Less == {p \in Nat \X Nat : p[1] < p[2]}

Sooner == LexProductOrdering(Less, Nat, 4)

Pass(p) == IF p = "idle" THEN 0 ELSE IF p \in {"select", "retire"} THEN 2 ELSE 1

Stage(p) == IF p = "mark" THEN 2 ELSE IF p \in {"select", "read", "owner"} THEN 1 ELSE 0

Remaining(t) == <<Pass(pc[t]), Len(todo[t]), Stage(pc[t]), Cardinality(list[t])>>

Closer(t) == <<Remaining(t)', Remaining(t)>> \in Sooner

\* A request looks at finitely many records.
FiniteLists == \A t \in Threads : IsFiniteSet(list[t])

LEMMA SoonerIsWellFounded == IsWellFoundedOn(Sooner, [1 .. 4 -> Nat])
<1>1. OpToRel(<, Nat) = Less
  BY DEF OpToRel, Less
<1>2. IsWellFoundedOn(Less, Nat)
  BY <1>1, NatLessThanWellFounded
<1> QED
  BY <1>2, WFLexProductOrdering DEF Sooner

LEMMA FiniteListsStep == TypeOK /\ FiniteLists /\ [Next]_vars => FiniteLists'
<1> SUFFICES ASSUME TypeOK, FiniteLists, [Next]_vars, NEW t \in Threads
             PROVE  IsFiniteSet(list'[t])
  BY DEF FiniteLists
<1>1. CASE list'[t] \subseteq list[t]
  BY <1>1, FS_Subset DEF FiniteLists
<1>2. CASE list'[t] \subseteq {[key |-> i, record |-> assign[i]] : i \in DOMAIN assign}
  <2>1. DOMAIN assign = 1 .. Len(assign) /\ Len(assign) \in Nat
    BY DEF TypeOK
  <2>2. IsFiniteSet(1 .. Len(assign))
    BY <2>1, FS_Interval
  <2> DEFINE all == {[key |-> i, record |-> assign[i]] : i \in 1 .. Len(assign)}
             entity == [i \in 1 .. Len(assign) |-> [key |-> i, record |-> assign[i]]]
  <2>3. entity \in Surjection(1 .. Len(assign), all)
    BY DEF Surjection
  <2>4. IsFiniteSet(all)
    BY <2>2, <2>3, FS_Surjection
  <2> QED
    BY <1>2, <2>1, <2>4, FS_Subset
<1>3. ASSUME NEW s \in Threads, Finish(s) PROVE list'[t] \subseteq list[t]
  BY <1>3 DEF Finish, TypeOK
<1>4. ASSUME NEW s \in Threads,
             UnknownUser(s) \/ UnknownClue(s) \/ NoSingleOwner(s) \/ WriteTrack(s)
               \/ Update(s) \/ Abort(s)
      PROVE  list'[t] \subseteq list[t]
  BY <1>3, <1>4 DEF UnknownUser, UnknownClue, NoSingleOwner, WriteTrack, Update, Abort
<1>5. ASSUME NEW s \in Threads, SelectLatest(s)
      PROVE  \/ list'[t] \subseteq list[t]
             \/ list'[t] \subseteq {[key |-> i, record |-> assign[i]] : i \in DOMAIN assign}
  BY <1>5 DEF SelectLatest, TypeOK, LatestRecords
<1>6. ASSUME NEW s \in Threads,
             BeginBatch(s) \/ RetireRecord(s) \/ InsertRecord(s) \/ ReadClue(s)
               \/ FalseClue(s) \/ WriteFalse(s) \/ FindOwner(s) \/ OpenForm(s)
      PROVE  list'[t] \subseteq list[t]
  BY <1>6 DEF BeginBatch, RetireRecord, InsertRecord, NextId, ReadClue, FalseClue,
              WriteFalse, FindOwner, OpenForm, TypeOK
<1>7. ASSUME NEW s \in Threads, WriteAssigned(s) PROVE list'[t] \subseteq list[t]
  BY <1>3, <1>7 DEF WriteAssigned, NextId
<1>8. ASSUME NEW c \in Ids, Insert(c) PROVE list'[t] \subseteq list[t]
  BY <1>8 DEF Insert, locals
<1>9. CASE UNCHANGED vars
  BY <1>1, <1>9 DEF vars, locals
<1> QED
  BY <1>1, <1>2, <1>4, <1>5, <1>6, <1>7, <1>8, <1>9 DEF Next, Ask, Serve, Rest

LEMMA FiniteListsHold == Spec => []FiniteLists
<1>1. Init => FiniteLists
  BY FS_EmptySet DEF Init, FiniteLists
<1> QED
  BY <1>1, FiniteListsStep, TypeCorrect, PTL DEF Spec

\* The numbers that are compared.
LEMMA RemainingType ==
    ASSUME TypeOK, FiniteLists, NEW t \in Threads
    PROVE  Remaining(t) \in [1 .. 4 -> Nat]
<1>1. Pass(pc[t]) \in Nat /\ Stage(pc[t]) \in Nat
  BY DEF Pass, Stage
<1>2. Len(todo[t]) \in Nat /\ Cardinality(list[t]) \in Nat
  BY FS_CardinalityType DEF TypeOK, FiniteLists
<1> QED
  BY <1>1, <1>2 DEF Remaining

LEMMA CloserWhen ==
    ASSUME NEW t, Remaining(t) \in [1 .. 4 -> Nat], Remaining(t)' \in [1 .. 4 -> Nat],
           \/ Pass(pc'[t]) < Pass(pc[t])
           \/ Pass(pc'[t]) = Pass(pc[t]) /\ Len(todo'[t]) < Len(todo[t])
           \/ /\ Pass(pc'[t]) = Pass(pc[t]) /\ todo'[t] = todo[t]
              /\ Stage(pc'[t]) < Stage(pc[t])
           \/ /\ pc'[t] = pc[t] /\ todo'[t] = todo[t]
              /\ Cardinality(list'[t]) < Cardinality(list[t])
    PROVE  Closer(t)
<1> DEFINE u == Remaining(t)'
           v == Remaining(t)
<1>1. /\ u[1] = Pass(pc'[t]) /\ u[2] = Len(todo'[t]) /\ u[3] = Stage(pc'[t])
      /\ u[4] = Cardinality(list'[t])
      /\ v[1] = Pass(pc[t]) /\ v[2] = Len(todo[t]) /\ v[3] = Stage(pc[t])
      /\ v[4] = Cardinality(list[t])
  BY DEF Remaining
<1>2. \A i \in 1 .. 4 : u[i] \in Nat /\ v[i] \in Nat
  OBVIOUS
<1> HIDE DEF u, v
<1>3. \E j \in 1 .. 4 : (\A i \in 1 .. j - 1 : u[i] = v[i]) /\ u[j] < v[j]
  <2>1. CASE u[1] < v[1]
    BY <2>1
  <2>2. CASE u[1] = v[1] /\ u[2] < v[2]
    BY <2>2
  <2>3. CASE u[1] = v[1] /\ u[2] = v[2] /\ u[3] < v[3]
    BY <2>3
  <2>4. CASE u[1] = v[1] /\ u[2] = v[2] /\ u[3] = v[3] /\ u[4] < v[4]
    BY <2>4
  <2> QED
    BY <1>1, <2>1, <2>2, <2>3, <2>4
<1>4. \E j \in 1 .. 4 : (\A i \in 1 .. j - 1 : u[i] = v[i]) /\ <<u[j], v[j]>> \in Less
  BY <1>2, <1>3 DEF Less
<1>5. u \in [1 .. 4 -> Nat] /\ v \in [1 .. 4 -> Nat]
  BY DEF u, v
<1>6. <<u, v>> \in LexProductOrdering(Less, Nat, 4)
  BY <1>4, <1>5 DEF LexProductOrdering
<1> QED
  BY <1>6 DEF Closer, Sooner, u, v

\* Each statement brings its request closer to the end, and a request that dies
\* has nothing left to do.
LEMMA StatementCloser ==
    ASSUME TypeOK, TypeOK', FiniteLists, FiniteLists', NEW t \in Threads,
           Serve(t) \/ Update(t) \/ Abort(t)
    PROVE  Closer(t)
<1>0. Remaining(t) \in [1 .. 4 -> Nat] /\ Remaining(t)' \in [1 .. 4 -> Nat]
  <2>1. Remaining(t)' \in [1 .. 4 -> Nat]
    <3>1. Pass(pc'[t]) \in Nat /\ Stage(pc'[t]) \in Nat
      BY DEF Pass, Stage
    <3>2. Len(todo'[t]) \in Nat /\ Cardinality(list'[t]) \in Nat
      BY FS_CardinalityType DEF TypeOK, FiniteLists
    <3> QED
      BY <3>1, <3>2 DEF Remaining
  <2> QED
    BY <2>1, RemainingType
<1>1. ASSUME Finish(t), pc[t] # "idle" PROVE Closer(t)
  <2>1. pc'[t] = "idle"
    BY <1>1 DEF Finish, TypeOK
  <2>2. Pass(pc'[t]) < Pass(pc[t])
    BY <1>1, <2>1 DEF Pass, TypeOK
  <2> QED
    BY <1>0, <2>2, CloserWhen
<1>2. ASSUME NEW again, NextId(t, again), Pass(again) = Pass(pc[t]) PROVE Closer(t)
  <2>1. todo[t] \in Seq(Ids) /\ todo[t] # <<>>
    BY <1>2 DEF NextId, TypeOK
  <2>2. todo'[t] = Tail(todo[t]) /\ pc'[t] = again
    BY <1>2 DEF NextId, TypeOK
  <2>3. Len(todo'[t]) < Len(todo[t])
    BY <2>1, <2>2
  <2> QED
    BY <1>0, <1>2, <2>2, <2>3, CloserWhen
<1>3. CASE UnknownUser(t) \/ UnknownClue(t) \/ NoSingleOwner(t) \/ WriteTrack(t)
             \/ Update(t) \/ Abort(t)
  BY <1>1, <1>3 DEF UnknownUser, UnknownClue, NoSingleOwner, WriteTrack, Update, Abort
<1>4. CASE SelectLatest(t) \/ ReadClue(t) \/ WriteFalse(t) \/ FindOwner(t)
  <2>1. /\ Pass(pc'[t]) = Pass(pc[t]) /\ todo'[t] = todo[t]
        /\ Stage(pc'[t]) < Stage(pc[t])
    BY <1>4 DEF SelectLatest, ReadClue, WriteFalse, FindOwner, TypeOK, Pass, Stage
  <2> QED
    BY <1>0, <2>1, CloserWhen
<1>5. CASE RetireRecord(t)
  <2>1. PICK e \in list[t] : list' = [list EXCEPT ![t] = @ \ {e}]
    BY <1>5 DEF RetireRecord
  <2>2. pc' = pc /\ todo' = todo /\ list'[t] = list[t] \ {e}
    BY <1>5, <2>1 DEF RetireRecord, TypeOK
  <2>3. IsFiniteSet(list[t])
    BY DEF FiniteLists
  <2>4. Cardinality(list'[t]) = Cardinality(list[t]) - 1
    BY <2>2, <2>3, FS_RemoveElement
  <2>5. Cardinality(list[t]) \in Nat
    BY <2>3, FS_CardinalityType
  <2>6. Cardinality(list'[t]) < Cardinality(list[t])
    BY <2>4, <2>5
  <2>7. pc'[t] = pc[t] /\ todo'[t] = todo[t]
    BY <2>2
  <2> QED
    BY <1>0, <2>6, <2>7, CloserWhen
<1>6. CASE InsertRecord(t)
  <2>1. pc[t] = "retire" /\ (NextId(t, "select") \/ pc' = [pc EXCEPT ![t] = "read"])
    BY <1>6 DEF InsertRecord
  <2>2. CASE NextId(t, "select")
    BY <1>2, <2>1, <2>2 DEF Pass
  <2>3. CASE pc' = [pc EXCEPT ![t] = "read"]
    <3>1. Pass(pc'[t]) < Pass(pc[t])
      BY <2>1, <2>3 DEF Pass, TypeOK
    <3> QED
      BY <1>0, <3>1, CloserWhen
  <2> QED
    BY <2>1, <2>2, <2>3
<1>7. CASE WriteAssigned(t)
  <2>1. pc[t] = "write" /\ (NextId(t, "read") \/ Finish(t))
    BY <1>7 DEF WriteAssigned
  <2> QED
    BY <1>1, <1>2, <2>1 DEF Pass
<1> QED
  BY <1>3, <1>4, <1>5, <1>6, <1>7 DEF Serve

\* Requests end: of what a request has still to do nothing is ever added, whatever
\* the others do, and each of its statements leaves less of it; and there is no
\* endless way down.  Each loop of the handlers ends, the one over the records
\* that others go on adding included.
THEOREM RequestsEnd ==
    /\ IsWellFoundedOn(Sooner, [1 .. 4 -> Nat])
    /\ Spec => []\A t \in Threads : Remaining(t) \in [1 .. 4 -> Nat]
    /\ Spec => [][\A t \in Threads :
                     /\ Serve(t) => Closer(t)
                     /\ pc[t] # "idle" => Closer(t) \/ UNCHANGED Remaining(t)]_vars
<1>1. Spec => []\A t \in Threads : Remaining(t) \in [1 .. 4 -> Nat]
  <2>1. TypeOK /\ FiniteLists => \A t \in Threads : Remaining(t) \in [1 .. 4 -> Nat]
    BY RemainingType
  <2> QED
    BY <2>1, TypeCorrect, FiniteListsHold, PTL
<1>2. ASSUME TypeOK, TypeOK', FiniteLists, FiniteLists', [Next]_vars
      PROVE  [\A t \in Threads :
                 /\ Serve(t) => Closer(t)
                 /\ pc[t] # "idle" => Closer(t) \/ UNCHANGED Remaining(t)]_vars
  <2> SUFFICES ASSUME NEW t \in Threads, Next
               PROVE  /\ Serve(t) => Closer(t)
                      /\ pc[t] # "idle" => Closer(t) \/ UNCHANGED Remaining(t)
    BY <1>2
  <2>1. Serve(t) \/ Update(t) \/ Abort(t) => Closer(t)
    BY <1>2, StatementCloser
  <2>2. ASSUME pc'[t] = pc[t], todo'[t] = todo[t], list'[t] = list[t]
        PROVE  UNCHANGED Remaining(t)
    BY <2>2 DEF Remaining
  <2>3. ASSUME NEW s \in Threads, s # t, Ask(s) \/ Serve(s) \/ Abort(s)
        PROVE  pc'[t] = pc[t] /\ todo'[t] = todo[t] /\ list'[t] = list[t]
    <3>1. CASE Finish(s)
      BY <1>2, <2>3, <3>1 DEF Finish, TypeOK
    <3>2. CASE ~ Finish(s)
      BY <1>2, <2>3, <3>2 DEF Ask, Serve, Abort, BeginBatch, FalseClue, OpenForm, Update,
         SelectLatest, RetireRecord, InsertRecord, UnknownUser, ReadClue, UnknownClue,
         WriteAssigned, WriteFalse, FindOwner, NoSingleOwner, WriteTrack, NextId, TypeOK
    <3> QED
      BY <3>1, <3>2
  <2>4. ASSUME pc[t] # "idle", BeginBatch(t) \/ FalseClue(t) \/ OpenForm(t) PROVE FALSE
    BY <2>4 DEF BeginBatch, FalseClue, OpenForm, Accept
  <2>5. ASSUME NEW c \in Ids, Insert(c) PROVE UNCHANGED Remaining(t)
    BY <2>2, <2>5 DEF Insert, locals
  <2>6. CASE Rest
    <3>1. pc' = pc /\ todo' = todo /\ list' = list
      BY <2>6 DEF Rest, vars, locals
    <3> QED
      BY <2>1, <2>2, <3>1
  <2> QED
    BY <2>1, <2>2, <2>3, <2>4, <2>5, <2>6 DEF Next, Ask
<1> QED
  BY <1>1, <1>2, SoonerIsWellFounded, TypeCorrect, FiniteListsHold, PTL DEF Spec
=============================================================================
