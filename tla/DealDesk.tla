------------------------------ MODULE DealDesk ------------------------------
(***************************************************************************)
(* The deal desk: the request handlers that write tb_business, tb_contract *)
(* and the deletion flag of tb_course, and the assignment records of       *)
(* businesses (TbBusinessServiceImpl, TbContractServiceImpl,               *)
(* TbCourseServiceImpl).                                                   *)
(*                                                                         *)
(* changeContract is the one transaction among them: what it reads comes   *)
(* from one snapshot, what it writes appears at its commit or not at all,  *)
(* and the row it deletes stays locked until then.  In every other handler *)
(* each statement commits by itself.  A handler with a single write is one *)
(* step; the others are threads, one statement per step.                   *)
(***************************************************************************)
EXTENDS Naturals, Sequences

CONSTANTS
    Ids,          \* primary keys of tb_business
    Courses,      \* the rows of tb_course
    Users,        \* the rows of sys_user
    UserOne,      \* the one of them whose id is 1
    Strangers,    \* user ids a request may name that sys_user does not hold
    Threads,      \* the server's request threads
    NoRow,        \* the null row
    NoId,         \* the null key, of a business or of a course
    NoUser,       \* the null user id
    Handlers,     \* which handlers are called: "insert", "update", "delete",
                  \* "assign", "back", "gain", "convert", "contract", "course"
    MaxBatch,     \* bound: ids in one request
    MaxRequests,  \* bound: requests served in a behaviour
    MaxFaults     \* bound: requests that die between two statements

Status == {"1", "2", "3", "4"}   \* assigned, in progress, recovered; 4 from a false clue

BusinessRow == [status : Status, course : Courses \cup {NoId}]

ContractRow == [business : Ids \cup {NoId}, course : Courses]

ASSUME RowAssumption == NoRow \notin BusinessRow \cup ContractRow
ASSUME KeyAssumption == NoId \notin Ids \cup Courses
ASSUME UserAssumption ==
    /\ Users \cap Strangers = {}
    /\ NoUser \notin Users \cup Strangers
ASSUME BoundAssumption ==
    /\ MaxBatch \in Nat
    /\ MaxRequests \in Nat
    /\ MaxFaults \in Nat

VARIABLES
    business,  \* tb_business: the row of each id
    used,      \* the ids the auto-increment key has handed out
    removed,   \* the ids a delete request has removed
    contract,  \* tb_contract: the committed rows, oldest first
    assign,    \* tb_assign_record: the rows of businesses, oldest first
    flagged,   \* the courses with is_delete = 1
    pc,        \* the statement each thread executes next
    todo,      \* the ids of its request the thread has not handled
    user,      \* the user the request names
    row,       \* the business the transaction has read
    draft,     \* the contract the transaction has inserted, not committed
    served,    \* requests accepted so far
    faults     \* requests that have died so far

tables == <<business, used, removed, contract, assign, flagged>>
locals == <<pc, todo, user, row, draft>>
vars == <<tables, locals, served, faults>>

-----------------------------------------------------------------------------
(* Types *)

AssignRecord == [assignId : Ids, userId : Users, latest : {"1", "other"}]

Batches(S) == UNION {[1 .. n -> S] : n \in 1 .. MaxBatch}

Converting == {"insert", "delete", "commit"}

TablesOK ==
    /\ business \in [Ids -> BusinessRow \cup {NoRow}]
    /\ used \in SUBSET Ids
    /\ removed \in SUBSET Ids
    /\ contract \in Seq(ContractRow)
    /\ assign \in Seq(AssignRecord)
    /\ flagged \in SUBSET Courses

LocalsOK ==
    /\ pc \in [Threads -> {"idle", "check", "record", "find", "take", "count",
                           "flag"} \cup Converting]
    /\ todo \in [Threads -> Seq(Ids) \cup Seq(Courses)]
    /\ user \in [Threads -> Users \cup Strangers \cup {NoUser}]
    /\ row \in [Threads -> BusinessRow \cup {NoRow}]
    /\ draft \in [Threads -> ContractRow \cup {NoRow}]
    /\ \A t \in Threads :
          /\ pc[t] # "idle" => todo[t] # <<>>
          /\ pc[t] \in {"check", "record", "find", "take"} \cup Converting
                => todo[t] \in Seq(Ids)
          /\ pc[t] \in Converting => row[t] \in BusinessRow /\ row[t].course # NoId
          /\ pc[t] \in {"delete", "commit"} => draft[t] \in ContractRow

TypeOK == TablesOK /\ LocalsOK /\ served \in Nat /\ faults \in Nat

-----------------------------------------------------------------------------
(* Control of a request *)

Subject(t) == Head(todo[t])

\* A transaction that has deleted business b holds its row until it ends; a
\* statement that writes the row waits.
Locked(b) == \E t \in Threads : pc[t] = "commit" /\ Subject(t) = b

Accept(t, handler) ==
    /\ handler \in Handlers
    /\ pc[t] = "idle"
    /\ served < MaxRequests
    /\ served' = served + 1

\* The request ends, with an answer or with an exception that is answered as an
\* error.
Finish(t) ==
    /\ pc' = [pc EXCEPT ![t] = "idle"]
    /\ todo' = [todo EXCEPT ![t] = <<>>]
    /\ user' = [user EXCEPT ![t] = NoUser]
    /\ row' = [row EXCEPT ![t] = NoRow]
    /\ draft' = [draft EXCEPT ![t] = NoRow]

\* Fault: the loop runs once more than there are ids.
NextIdOneMore(t, again) ==
    /\ todo' = [todo EXCEPT ![t] = Tail(todo[t])]
    /\ pc' = [pc EXCEPT ![t] = again]
    /\ UNCHANGED <<user, row, draft>>

\* The loop over the ids goes on with statement again, or ends the request.
NextId(t, again) ==
    \/ /\ Len(todo[t]) > 1
       /\ todo' = [todo EXCEPT ![t] = Tail(todo[t])]
       /\ pc' = [pc EXCEPT ![t] = again]
       /\ UNCHANGED <<user, row, draft>>
    \/ Len(todo[t]) = 1 /\ Finish(t)

-----------------------------------------------------------------------------
(* Handlers with one write *)

\* A new business, or a clue changed into one, which keeps the clue's status
\* and stays a clue.
InsertBusiness(t) ==
    /\ Accept(t, "insert")
    /\ \E b \in Ids \ used, r \in BusinessRow :
          /\ business' = [business EXCEPT ![b] = r]
          /\ used' = used \cup {b}
    /\ UNCHANGED <<removed, contract, assign, flagged, locals, faults>>

\* The columns the dto leaves null keep their value; updateById matches no row
\* where there is none.
UpdateBusiness(t) ==
    /\ Accept(t, "update")
    /\ \E b \in Ids :
          /\ business[b] # NoRow
          /\ ~ Locked(b)
          /\ \E s \in Status, k \in Courses \cup {business[b].course} :
                business' = [business EXCEPT ![b] = [status |-> s, course |-> k]]
    /\ UNCHANGED <<used, removed, contract, assign, flagged, locals, faults>>

\* deleteById of the path's text: of a list of ids at most the first is deleted.
DeleteBusiness(t) ==
    /\ Accept(t, "delete")
    /\ \E b \in Ids :
          /\ business[b] # NoRow
          /\ ~ Locked(b)
          /\ business' = [business EXCEPT ![b] = NoRow]
          /\ removed' = removed \cup {b}
    /\ UNCHANGED <<used, contract, assign, flagged, locals, faults>>

\* Back to the pool.  For a reason the dictionary does not hold the entity is
\* null and updateById throws.
BackPool(t) ==
    /\ Accept(t, "back")
    /\ \E b \in Ids :
          /\ business[b] # NoRow
          /\ ~ Locked(b)
          /\ business' = [business EXCEPT ![b].status = "3"]
    /\ UNCHANGED <<used, removed, contract, assign, flagged, locals, faults>>

\* A contract entered in a form, which names no business.
InsertContract(t) ==
    /\ Accept(t, "contract")
    /\ \E k \in Courses :
          contract' = Append(contract, [business |-> NoId, course |-> k])
    /\ UNCHANGED <<business, used, removed, assign, flagged, locals, faults>>

-----------------------------------------------------------------------------
(* Assignment of a batch of businesses to a user *)

BeginAssign(t) ==
    /\ Accept(t, "assign")
    /\ \E ids \in Batches(Ids), u \in Users \cup Strangers :
          /\ todo' = [todo EXCEPT ![t] = ids]
          /\ user' = [user EXCEPT ![t] = u]
    /\ pc' = [pc EXCEPT ![t] = "check"]
    /\ UNCHANGED <<tables, row, draft, faults>>

\* Fault: the null test on the selected business is missing.
CheckNothing(t) ==
    /\ pc[t] = "check"
    /\ pc' = [pc EXCEPT ![t] = "record"]
    /\ UNCHANGED <<todo, user, row, draft, tables, served, faults>>

\* A business that does not exist ends the request with an exception.
CheckBusiness(t) ==
    /\ pc[t] = "check"
    /\ \/ /\ business[Subject(t)] # NoRow
          /\ pc' = [pc EXCEPT ![t] = "record"]
          /\ UNCHANGED <<todo, user, row, draft>>
       \/ business[Subject(t)] = NoRow /\ Finish(t)
    /\ UNCHANGED <<tables, served, faults>>

\* latest is the text of the user's id; older records keep theirs.
NewRecord(b, u) ==
    [assignId |-> b, userId |-> u, latest |-> IF u = UserOne THEN "1" ELSE "other"]

\* sysUserDTO is null for a stranger and its getUserName() throws.
RecordAssignment(t) ==
    /\ pc[t] = "record"
    /\ \/ /\ user[t] \in Users
          /\ assign' = Append(assign, NewRecord(Subject(t), user[t]))
          /\ NextId(t, "check")
       \/ user[t] \notin Users /\ Finish(t) /\ UNCHANGED assign
    /\ UNCHANGED <<business, used, removed, contract, flagged, served, faults>>

-----------------------------------------------------------------------------
(* Taking businesses from the pool: whatever status they have. *)

BeginGain(t) ==
    /\ Accept(t, "gain")
    /\ \E ids \in Batches(Ids) : todo' = [todo EXCEPT ![t] = ids]
    /\ pc' = [pc EXCEPT ![t] = "find"]
    /\ UNCHANGED <<tables, user, row, draft, faults>>

FindBusiness(t) ==
    /\ pc[t] = "find"
    /\ \/ /\ business[Subject(t)] # NoRow
          /\ pc' = [pc EXCEPT ![t] = "take"]
          /\ UNCHANGED <<todo, user, row, draft>>
       \/ business[Subject(t)] = NoRow /\ Finish(t)
    /\ UNCHANGED <<tables, served, faults>>

\* Fault: the row is saved whether or not it is still there.
SaveOrTake(t) ==
    /\ pc[t] = "take"
    /\ ~ Locked(Subject(t))
    /\ business' = [business EXCEPT ![Subject(t)] =
                       [status |-> "1",
                        course |-> IF @ = NoRow THEN NoId ELSE @.course]]
    /\ NextId(t, "find")
    /\ UNCHANGED <<used, removed, contract, assign, flagged, served, faults>>

TakeBusiness(t) ==
    /\ pc[t] = "take"
    /\ ~ Locked(Subject(t))
    /\ business' = [business EXCEPT ![Subject(t)] =
                       IF @ = NoRow THEN NoRow ELSE [@ EXCEPT !.status = "1"]]
    /\ NextId(t, "find")
    /\ UNCHANGED <<used, removed, contract, assign, flagged, served, faults>>

-----------------------------------------------------------------------------
(* changeContract: a business becomes a contract, in one transaction. *)

\* The business, its activity, its course and the user are read from one
\* snapshot.  When one of them is missing the transaction ends and has changed
\* nothing.
ReadBusiness(t) ==
    /\ Accept(t, "convert")
    /\ \E b \in Ids :
          /\ business[b] # NoRow
          /\ business[b].course # NoId
          /\ todo' = [todo EXCEPT ![t] = <<b>>]
          /\ row' = [row EXCEPT ![t] = business[b]]
    /\ pc' = [pc EXCEPT ![t] = "insert"]
    /\ UNCHANGED <<tables, user, draft, faults>>

ContractOf(b, r) == [business |-> b, course |-> r.course]

\* Fault: the handler is not transactional.
InsertDraftAutocommit(t) ==
    /\ pc[t] = "insert"
    /\ contract' = Append(contract, ContractOf(Subject(t), row[t]))
    /\ pc' = [pc EXCEPT ![t] = "delete"]
    /\ UNCHANGED <<business, used, removed, assign, flagged, todo, user, row,
                   draft, served, faults>>

InsertDraft(t) ==
    /\ pc[t] = "insert"
    /\ draft' = [draft EXCEPT ![t] = ContractOf(Subject(t), row[t])]
    /\ pc' = [pc EXCEPT ![t] = "delete"]
    /\ UNCHANGED <<tables, todo, user, row, served, faults>>

\* Fault: the delete commits by itself.
DeleteConvertedAutocommit(t) ==
    /\ pc[t] = "delete"
    /\ ~ Locked(Subject(t))
    /\ business' = [business EXCEPT ![Subject(t)] = NoRow]
    /\ pc' = [pc EXCEPT ![t] = "commit"]
    /\ UNCHANGED <<used, removed, contract, assign, flagged, todo, user, row,
                   draft, served, faults>>

\* Fault: a delete that finds no row any more rolls the transaction back.
DeleteConvertedOrBack(t) ==
    /\ pc[t] = "delete"
    /\ ~ Locked(Subject(t))
    /\ IF business[Subject(t)] = NoRow THEN Finish(t)
       ELSE pc' = [pc EXCEPT ![t] = "commit"] /\ UNCHANGED <<todo, user, row, draft>>
    /\ UNCHANGED <<tables, served, faults>>

\* The number of rows deleted is not looked at.
DeleteConverted(t) ==
    /\ pc[t] = "delete"
    /\ ~ Locked(Subject(t))
    /\ pc' = [pc EXCEPT ![t] = "commit"]
    /\ UNCHANGED <<tables, todo, user, row, draft, served, faults>>

\* Fault: the delete does not name the business.
CommitKeeping(t) ==
    /\ pc[t] = "commit"
    /\ contract' = Append(contract, draft[t])
    /\ Finish(t)
    /\ UNCHANGED <<business, used, removed, assign, flagged, served, faults>>

\* Fault: the insert is not part of what is committed.
CommitDelete(t) ==
    /\ pc[t] = "commit"
    /\ business' = [business EXCEPT ![Subject(t)] = NoRow]
    /\ Finish(t)
    /\ UNCHANGED <<used, removed, contract, assign, flagged, served, faults>>

Commit(t) ==
    /\ pc[t] = "commit"
    /\ contract' = Append(contract, draft[t])
    /\ business' = [business EXCEPT ![Subject(t)] = NoRow]
    /\ Finish(t)
    /\ UNCHANGED <<used, removed, assign, flagged, served, faults>>

-----------------------------------------------------------------------------
(* Deleting a batch of courses *)

InUse(k) == \E b \in Ids : business[b] # NoRow /\ business[b].course = k

BeginCourses(t) ==
    /\ Accept(t, "course")
    /\ \E ks \in Batches(Courses) : todo' = [todo EXCEPT ![t] = ks]
    /\ pc' = [pc EXCEPT ![t] = "count"]
    /\ UNCHANGED <<tables, user, row, draft, faults>>

\* The loop returns at the first course no business names.
CountBusinesses(t) ==
    /\ pc[t] = "count"
    /\ \/ /\ InUse(Subject(t))
          /\ pc' = [pc EXCEPT ![t] = "flag"]
          /\ UNCHANGED <<todo, user, row, draft>>
       \/ ~ InUse(Subject(t)) /\ Finish(t)
    /\ UNCHANGED <<tables, served, faults>>

\* The update has no where clause.
FlagCourse(t) ==
    /\ pc[t] = "flag"
    /\ flagged' = Courses
    /\ NextId(t, "count")
    /\ UNCHANGED <<business, used, removed, contract, assign, served, faults>>

-----------------------------------------------------------------------------
(* A statement of the request fails, or the server stops: what has committed *)
(* stays, and a transaction is rolled back.                                  *)

Abort(t) ==
    /\ pc[t] # "idle"
    /\ faults < MaxFaults
    /\ faults' = faults + 1
    /\ Finish(t)
    /\ UNCHANGED <<tables, served>>

-----------------------------------------------------------------------------
Init ==
    /\ business = [b \in Ids |-> NoRow]
    /\ used = {}
    /\ removed = {}
    /\ contract = <<>>
    /\ assign = <<>>
    /\ flagged = {}
    /\ pc = [t \in Threads |-> "idle"]
    /\ todo = [t \in Threads |-> <<>>]
    /\ user = [t \in Threads |-> NoUser]
    /\ row = [t \in Threads |-> NoRow]
    /\ draft = [t \in Threads |-> NoRow]
    /\ served = 0
    /\ faults = 0

\* What the users of the desk ask for.
Ask(t) ==
    \/ InsertBusiness(t) \/ UpdateBusiness(t) \/ DeleteBusiness(t)
    \/ BackPool(t) \/ InsertContract(t)
    \/ BeginAssign(t) \/ BeginGain(t) \/ ReadBusiness(t) \/ BeginCourses(t)

\* What a thread does by itself once it has accepted a request.
Serve(t) ==
    \/ CheckBusiness(t) \/ RecordAssignment(t)
    \/ FindBusiness(t) \/ TakeBusiness(t)
    \/ InsertDraft(t) \/ DeleteConverted(t) \/ Commit(t)
    \/ CountBusinesses(t) \/ FlagCourse(t)

\* Every request has been answered and no more are coming.
Rest ==
    /\ \A t \in Threads : pc[t] = "idle"
    /\ UNCHANGED vars

Next ==
    \/ \E t \in Threads : Ask(t) \/ Serve(t) \/ Abort(t)
    \/ Rest

Spec == Init /\ [][Next]_vars

FairSpec == Spec /\ \A t \in Threads : WF_vars(Serve(t))

-----------------------------------------------------------------------------
(* Properties *)

Converted(b) == \E k \in DOMAIN contract : contract[k].business = b

\* A deal is a business or a contract and never both, for whoever reads the
\* tables at any moment, whatever dies half way and whatever other requests
\* write to the row while it is converted.
ContractXorBusiness == \A b \in Ids : Converted(b) => business[b] = NoRow

\* A business leaves tb_business only by becoming a contract or by a delete
\* request: a conversion that dies or meets another one loses no deal.
NothingLost ==
    \A b \in used : business[b] = NoRow => b \in removed \/ Converted(b)

\* A business becomes one contract: a conversion of a business that is gone is
\* refused.  True of one request at a time; two conversions that have both read
\* the business make two contracts.
OneContractPerBusiness ==
    \A j, k \in DOMAIN contract :
        contract[j].business = contract[k].business
            => j = k \/ contract[j].business = NoId

\* A business that is gone does not come back: no request that has read the row
\* before it went away writes it again.
GoneStaysGone ==
    [][\A b \in used : business[b] = NoRow => business'[b] = NoRow]_business

\* Every deal follows its life cycle, one deal per step: concurrent conversions,
\* deletes, updates and requests that die never enter a deal again, take a
\* contract back or lose one.
LifeOf(b) ==
    IF Converted(b) THEN "contract"
    ELSE IF business[b] # NoRow THEN "business"
    ELSE IF b \in used THEN "gone" ELSE "new"

Life == [b \in Ids |-> LifeOf(b)]

Abstract == INSTANCE DealLife WITH Deals <- Ids, life <- Life

FollowsLife == Abstract!Spec

\* Only a business that exists is assigned.  True of one request at a time; a
\* business can go between the test and the insert.
AssignedExists ==
    [][assign' # assign =>
          business[assign'[Len(assign')].assignId] # NoRow]_assign

\* A course some business names is not deleted.
CourseInUseKept ==
    [][\A k \in flagged' \ flagged : ~ InUse(k)]_flagged

\* The transaction of thread t has just committed a contract of business b.
Concluded(t, b, k) ==
    /\ pc[t] = "idle"
    /\ contract # <<>>
    /\ contract[Len(contract)] = [business |-> b, course |-> k]

\* A conversion that has found what it needs commits a contract of its own, with
\* the course it read, also when another conversion held the row and has deleted
\* it by the time the lock is released: unless a request dies.
ConversionSettles ==
    \A b \in Ids, k \in Courses : \A t \in Threads :
        (pc[t] = "insert" /\ Subject(t) = b /\ row[t].course = k)
            ~> (Concluded(t, b, k) \/ faults > 0)
=============================================================================
