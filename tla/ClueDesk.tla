------------------------------ MODULE ClueDesk ------------------------------
(***************************************************************************)
(* The clue desk: the request handlers that write tb_clue,                 *)
(* tb_assign_record and the false-clue rows of tb_clue_track_record        *)
(* (TbClueServiceImpl, TbAssignRecordServiceImpl).                         *)
(*                                                                         *)
(* None of these handlers is transactional: every mapper call is an SQL    *)
(* statement that commits by itself.  A request is a thread that executes  *)
(* one statement per step, so the statements of concurrent requests        *)
(* interleave, and a request can die between two of its statements.        *)
(***************************************************************************)
EXTENDS Naturals, Sequences

CONSTANTS
    Ids,          \* primary keys of tb_clue
    Users,        \* the rows of sys_user
    Strangers,    \* user ids a request may name that sys_user does not hold
    Threads,      \* the server's request threads
    NoRow,        \* the null row
    NoUser,       \* the null user id
    Handlers,     \* which of the handlers "assign", "false", "edit" are called
    Entered,      \* the statuses a new clue or an edited one is given by its form
    MaxBatch,     \* bound: ids in one assignment request
    MaxRecords,   \* bound: no assignment is asked for once there are so many records
    MaxRequests,  \* bound: requests served in a behaviour
    MaxFaults     \* bound: requests that die between two statements

Status == {"1", "2", "3", "4"}   \* assigned, in progress, recovered, false clue

ClueRow == [status : Status, falseCount : Nat, endTime : {"null", "set"}]

ASSUME RowAssumption == NoRow \notin ClueRow
ASSUME EnteredAssumption == Entered \subseteq Status
ASSUME UserAssumption ==
    /\ Users \cap Strangers = {}
    /\ NoUser \notin Users \cup Strangers
ASSUME BoundAssumption ==
    /\ MaxBatch \in Nat
    /\ MaxRecords \in Nat
    /\ MaxRequests \in Nat
    /\ MaxFaults \in Nat

VARIABLES
    clue,     \* tb_clue: the row of each id
    assign,   \* tb_assign_record, in the order of its auto-increment key
    track,    \* tb_clue_track_record: false-clue records of each clue
    pc,       \* the statement each thread executes next
    batch,    \* the ids of the request the thread serves
    todo,     \* those of them its current loop has not handled
    user,     \* the user the request names
    list,     \* the records the request has selected to retire, as they were then
    row,      \* the clue row the request has read
    served,   \* requests accepted so far
    faults    \* requests that have died so far

tables == <<clue, assign, track>>
locals == <<pc, batch, todo, user, list, row>>
vars == <<tables, locals, served, faults>>

-----------------------------------------------------------------------------
(* Types *)

AssignRecord == [assignId : Ids, userId : Users,
                 latest : {"0", "1"}, type : {"0", "1"}]

\* An entity of the mapper: the key of a record and what the record said.
Entity == [key : Nat \ {0}, record : AssignRecord]

Batches == UNION {[1 .. n -> Ids] : n \in 1 .. MaxBatch}

TypeOK ==
    /\ clue \in [Ids -> ClueRow \cup {NoRow}]
    /\ assign \in Seq(AssignRecord)
    /\ track \in [Ids -> Nat]
    /\ pc \in [Threads -> {"idle", "select", "retire", "read", "write",
                           "mark", "owner", "track", "form"}]
    /\ batch \in [Threads -> Seq(Ids)]
    /\ todo \in [Threads -> Seq(Ids)]
    /\ \A t \in Threads : pc[t] # "idle" => todo[t] # <<>>
    /\ \A t \in Threads : pc[t] \in {"select", "retire"} => batch[t] # <<>>
    /\ user \in [Threads -> Users \cup Strangers \cup {NoUser}]
    /\ list \in [Threads -> SUBSET Entity]
    /\ row \in [Threads -> ClueRow \cup {NoRow}]
    /\ \A t \in Threads : pc[t] \in {"write", "mark", "form"} => row[t] \in ClueRow
    /\ served \in Nat
    /\ faults \in Nat

-----------------------------------------------------------------------------
(* The statements *)

\* selectList(assign_id = c and latest = '1'): the type column is not compared.
LatestRecords(c) ==
    {i \in DOMAIN assign : assign[i].assignId = c /\ assign[i].latest = "1"}

\* selectOne(latest = '1' and assign_id = c and type = '0').
OwnerRecords(c) == {i \in LatestRecords(c) : assign[i].type = "0"}

\* Fault: the new record is built as one that is not current.
NewRecordNotLatest(c, u) ==
    [assignId |-> c, userId |-> u, latest |-> "0", type |-> "0"]

\* The inserted entity leaves latest and type null, so the columns take their
\* defaults '1' and '0'.
NewRecord(c, u) == [assignId |-> c, userId |-> u, latest |-> "1", type |-> "0"]

\* updateById writes every column of the entity that is not null: a row read
\* before another request's update overwrites it, but a null end_time does not.
\* It matches no row where there is none.
UpdateById(old, new) ==
    IF old = NoRow THEN NoRow
    ELSE [new EXCEPT !.endTime = IF @ = "null" THEN old.endTime ELSE @]

\* A status of the dto is stored as it is; its primitive falseCount is 0.
FreshClue(s) == [status |-> s, falseCount |-> 0, endTime |-> "null"]

AssignedClue(r) == [r EXCEPT !.status = "1"]

\* Fault: the count is not incremented.
FalseClueRowUncounted(r) ==
    [r EXCEPT !.status = "4", !.endTime = IF r.falseCount = 3 THEN "set" ELSE @]

\* Fault: the test for the last mark is one too late.
FalseClueRowLate(r) ==
    [r EXCEPT !.status = "4",
              !.falseCount = r.falseCount + 1,
              !.endTime = IF r.falseCount > 3 THEN "set" ELSE @]

FalseClueRow(r) == [r EXCEPT !.status = "4",
                             !.falseCount = r.falseCount + 1,
                             !.endTime = IF r.falseCount = 3 THEN "set" ELSE @]

\* The form's dto: its primitive falseCount is 0 when the form does not send it.
EditedClue(r, s, n) == [r EXCEPT !.status = s, !.falseCount = n]

-----------------------------------------------------------------------------
(* Control of a request *)

Subject(t) == Head(todo[t])

Accept(t, handler) ==
    /\ handler \in Handlers
    /\ pc[t] = "idle"
    /\ served < MaxRequests
    /\ served' = served + 1

\* The request ends, with an answer or with an exception that is answered as an
\* error; what it has already written stays.
Finish(t) ==
    /\ pc' = [pc EXCEPT ![t] = "idle"]
    /\ batch' = [batch EXCEPT ![t] = <<>>]
    /\ todo' = [todo EXCEPT ![t] = <<>>]
    /\ user' = [user EXCEPT ![t] = NoUser]
    /\ list' = [list EXCEPT ![t] = {}]
    /\ row' = [row EXCEPT ![t] = NoRow]

\* Fault: the loop runs once more than there are ids.
NextIdOneMore(t, again) ==
    /\ Len(todo[t]) >= 1
    /\ todo' = [todo EXCEPT ![t] = Tail(todo[t])]
    /\ pc' = [pc EXCEPT ![t] = again]
    /\ UNCHANGED <<batch, user, list, row>>

\* One id of the current loop is done: the loop goes on with statement again,
\* or leaves to the second loop, or ends the request.
NextId(t, again) ==
    /\ Len(todo[t]) > 1
    /\ todo' = [todo EXCEPT ![t] = Tail(todo[t])]
    /\ pc' = [pc EXCEPT ![t] = again]
    /\ UNCHANGED <<batch, user, list, row>>

-----------------------------------------------------------------------------
(* New clues *)

Insert(c) ==
    /\ clue[c] = NoRow
    /\ \E s \in Entered : clue' = [clue EXCEPT ![c] = FreshClue(s)]
    /\ UNCHANGED <<assign, track, locals, served, faults>>

-----------------------------------------------------------------------------
(* Assignment of a batch of clues to a user, and the same for clues a user *)
(* takes from the pool: first the records of all ids, then their status.   *)

BeginBatch(t) ==
    /\ Accept(t, "assign")
    /\ Len(assign) < MaxRecords
    /\ \E ids \in Batches, u \in Users \cup Strangers :
          /\ batch' = [batch EXCEPT ![t] = ids]
          /\ todo' = [todo EXCEPT ![t] = ids]
          /\ user' = [user EXCEPT ![t] = u]
    /\ pc' = [pc EXCEPT ![t] = "select"]
    /\ UNCHANGED <<tables, list, row, faults>>

SelectLatest(t) ==
    /\ pc[t] = "select"
    /\ list' = [list EXCEPT ![t] =
                   {[key |-> i, record |-> assign[i]] : i \in LatestRecords(Subject(t))}]
    /\ pc' = [pc EXCEPT ![t] = "retire"]
    /\ UNCHANGED <<tables, batch, todo, user, row, served, faults>>

\* Fault: the old record is changed in memory and not saved.
RetireRecordUnsaved(t) ==
    /\ pc[t] = "retire"
    /\ \E e \in list[t] : list' = [list EXCEPT ![t] = @ \ {e}]
    /\ UNCHANGED <<tables, pc, batch, todo, user, row, served, faults>>

\* Fault: the old record is handed to the new owner.
RetireRecordInPlace(t) ==
    /\ pc[t] = "retire"
    /\ \E e \in list[t] :
          /\ assign' = [assign EXCEPT ![e.key] =
                           [e.record EXCEPT !.latest = "0", !.userId = user[t]]]
          /\ list' = [list EXCEPT ![t] = @ \ {e}]
    /\ UNCHANGED <<clue, track, pc, batch, todo, user, row, served, faults>>

\* updateById writes the whole entity back, as it was selected but for latest:
\* whatever else has become of the record since is overwritten.
RetireRecord(t) ==
    /\ pc[t] = "retire"
    /\ \E e \in list[t] :
          /\ assign' = [assign EXCEPT ![e.key] = [e.record EXCEPT !.latest = "0"]]
          /\ list' = [list EXCEPT ![t] = @ \ {e}]
    /\ UNCHANGED <<clue, track, pc, batch, todo, user, row, served, faults>>

\* Fault: the first loop ends after its first id.
InsertRecordFirstOnly(t) ==
    /\ pc[t] = "retire"
    /\ list[t] = {}
    /\ user[t] \in Users
    /\ assign' = Append(assign, NewRecord(Subject(t), user[t]))
    /\ todo' = [todo EXCEPT ![t] = batch[t]]
    /\ pc' = [pc EXCEPT ![t] = "read"]
    /\ UNCHANGED <<batch, user, list, row, clue, track, served, faults>>

InsertRecord(t) ==
    /\ pc[t] = "retire"
    /\ list[t] = {}
    /\ user[t] \in Users
    /\ assign' = Append(assign, NewRecord(Subject(t), user[t]))
    /\ \/ NextId(t, "select")
       \/ /\ Len(todo[t]) = 1
          /\ todo' = [todo EXCEPT ![t] = batch[t]]
          /\ pc' = [pc EXCEPT ![t] = "read"]
          /\ UNCHANGED <<batch, user, list, row>>
    /\ UNCHANGED <<clue, track, served, faults>>

\* sysUserDTO is null: its getUserName() throws, after the old records of the
\* first id have been retired.
UnknownUser(t) ==
    /\ pc[t] = "retire"
    /\ list[t] = {}
    /\ user[t] \notin Users
    /\ Finish(t)
    /\ UNCHANGED <<tables, served, faults>>

ReadClue(t) ==
    /\ pc[t] = "read"
    /\ clue[Subject(t)] # NoRow
    /\ row' = [row EXCEPT ![t] = clue[Subject(t)]]
    /\ pc' = [pc EXCEPT ![t] = "write"]
    /\ UNCHANGED <<tables, batch, todo, user, list, served, faults>>

\* selectById returns null and setUpdateTime throws.
UnknownClue(t) ==
    /\ pc[t] = "read"
    /\ clue[Subject(t)] = NoRow
    /\ Finish(t)
    /\ UNCHANGED <<tables, served, faults>>

WriteAssigned(t) ==
    /\ pc[t] = "write"
    /\ clue' = [clue EXCEPT ![Subject(t)] = UpdateById(@, AssignedClue(row[t]))]
    /\ \/ NextId(t, "read")
       \/ Len(todo[t]) = 1 /\ Finish(t)
    /\ UNCHANGED <<assign, track, served, faults>>

-----------------------------------------------------------------------------
(* Marking a clue as false *)

FalseClue(t) ==
    /\ Accept(t, "false")
    /\ \E c \in Ids :
          /\ clue[c] # NoRow
          /\ todo' = [todo EXCEPT ![t] = <<c>>]
          /\ row' = [row EXCEPT ![t] = clue[c]]
    /\ pc' = [pc EXCEPT ![t] = "mark"]
    /\ UNCHANGED <<tables, batch, user, list, faults>>

WriteFalse(t) ==
    /\ pc[t] = "mark"
    /\ clue' = [clue EXCEPT ![Subject(t)] = UpdateById(@, FalseClueRow(row[t]))]
    /\ pc' = [pc EXCEPT ![t] = "owner"]
    /\ UNCHANGED <<assign, track, batch, todo, user, list, row, served, faults>>

FindOwner(t) ==
    /\ pc[t] = "owner"
    /\ \E i \in OwnerRecords(Subject(t)) : OwnerRecords(Subject(t)) = {i}
    /\ pc' = [pc EXCEPT ![t] = "track"]
    /\ UNCHANGED <<tables, batch, todo, user, list, row, served, faults>>

\* selectOne returns null for a clue nobody owns, and getUserName() throws; for
\* two owner records it throws itself.  The clue is already marked.
NoSingleOwner(t) ==
    /\ pc[t] = "owner"
    /\ ~ \E i \in OwnerRecords(Subject(t)) : OwnerRecords(Subject(t)) = {i}
    /\ Finish(t)
    /\ UNCHANGED <<tables, served, faults>>

WriteTrack(t) ==
    /\ pc[t] = "track"
    /\ track' = [track EXCEPT ![Subject(t)] = @ + 1]
    /\ Finish(t)
    /\ UNCHANGED <<clue, assign, served, faults>>

-----------------------------------------------------------------------------
(* Editing a clue: the form shows findById's dto and is saved later.       *)

OpenForm(t) ==
    /\ Accept(t, "edit")
    /\ \E c \in Ids :
          /\ clue[c] # NoRow
          /\ todo' = [todo EXCEPT ![t] = <<c>>]
          /\ row' = [row EXCEPT ![t] = clue[c]]
    /\ pc' = [pc EXCEPT ![t] = "form"]
    /\ UNCHANGED <<tables, batch, user, list, faults>>

Update(t) ==
    /\ pc[t] = "form"
    /\ \E s \in Entered, n \in {0, row[t].falseCount} :
          clue' = [clue EXCEPT ![Subject(t)] =
                      UpdateById(@, EditedClue(row[t], s, n))]
    /\ Finish(t)
    /\ UNCHANGED <<assign, track, served, faults>>

-----------------------------------------------------------------------------
(* A statement of the request fails, or the server stops. *)

Abort(t) ==
    /\ pc[t] # "idle"
    /\ faults < MaxFaults
    /\ faults' = faults + 1
    /\ Finish(t)
    /\ UNCHANGED <<tables, served>>

-----------------------------------------------------------------------------
Init ==
    /\ clue = [c \in Ids |-> NoRow]
    /\ assign = <<>>
    /\ track = [c \in Ids |-> 0]
    /\ pc = [t \in Threads |-> "idle"]
    /\ batch = [t \in Threads |-> <<>>]
    /\ todo = [t \in Threads |-> <<>>]
    /\ user = [t \in Threads |-> NoUser]
    /\ list = [t \in Threads |-> {}]
    /\ row = [t \in Threads |-> NoRow]
    /\ served = 0
    /\ faults = 0

\* What a thread does by itself once it has accepted a request.
Serve(t) ==
    \/ SelectLatest(t) \/ RetireRecord(t) \/ InsertRecord(t) \/ UnknownUser(t)
    \/ ReadClue(t) \/ UnknownClue(t) \/ WriteAssigned(t)
    \/ WriteFalse(t) \/ FindOwner(t) \/ NoSingleOwner(t) \/ WriteTrack(t)

\* What the users of the desk ask for.
Ask(t) == BeginBatch(t) \/ FalseClue(t) \/ OpenForm(t) \/ Update(t)

\* Every request has been answered and no more are coming.
Rest ==
    /\ served = MaxRequests \/ Len(assign) >= MaxRecords
    /\ \A t \in Threads : pc[t] = "idle"
    /\ UNCHANGED vars

Next ==
    \/ \E c \in Ids : Insert(c)
    \/ \E t \in Threads : Ask(t) \/ Serve(t) \/ Abort(t)
    \/ Rest

Spec == Init /\ [][Next]_vars

FairSpec == Spec /\ \A t \in Threads : WF_vars(Serve(t))

-----------------------------------------------------------------------------
(* Properties *)

\* Thread t has looked up the current records of clue c and not yet inserted
\* the new one.
Reassigning(t, c) == pc[t] = "retire" /\ Subject(t) = c

Newest(i) == \A j \in DOMAIN assign : assign[j].assignId = assign[i].assignId => j <= i

\* latest says "whether this is the current assignee": a clue has at most one
\* current owner.  True of one request at a time, whatever dies in between;
\* concurrent assignments of a clue break it.
OneLatestOwner ==
    \A c \in Ids : \A i, j \in OwnerRecords(c) : i = j

\* However assignments of a clue interleave, the clue's newest record is a
\* current one, unless a request is just about to insert a newer one: no
\* interleaving of the non-transactional insert() leaves a clue without owner.
NewestIsLatest ==
    \A i \in DOMAIN assign :
        Newest(i) =>
            \/ assign[i].latest = "1"
            \/ \E t \in Threads : Reassigning(t, assign[i].assignId)

\* The comment on falseCount allows three marks, and falseClue keeps nobody from
\* a fourth (MarksWithinMax).  A clue that has got one has an end time: no stale
\* whole-row update by an assignment, another mark or a form takes the count
\* back without the end time, or the end time without the count.
ExpiredHasEnd ==
    \A c \in Ids :
        clue[c] # NoRow => (clue[c].falseCount > 3 => clue[c].endTime = "set")

\* A clue is marked false at most three times, as the comment on falseCount says.
\* falseClue reads the count only to set the end time: it refuses no mark.
MarksWithinMax ==
    \A c \in Ids : clue[c] # NoRow => clue[c].falseCount <= 3

\* Every false-clue record in the clue's track is counted in its falseCount.
\* True of one request at a time while nobody edits the clue; a lost update or
\* an edit whose form does not send the count break it.
TracksCounted ==
    \A c \in Ids : clue[c] # NoRow => track[c] <= clue[c].falseCount

\* A request that has left its first loop has given every clue of its batch a
\* record that names its user, and other requests, which may have selected that
\* record before and write it back whole after, leave the record to that user.
BatchRecorded ==
    \A t \in Threads : pc[t] \in {"read", "write"} =>
        \A k \in DOMAIN batch[t] : \E i \in DOMAIN assign :
            assign[i].assignId = batch[t][k] /\ assign[i].userId = user[t]

\* The request of thread t has just inserted the record of the k-th id of its
\* batch: it is the last one of the table.
Recorded(t, k) ==
    /\ \/ pc[t] = "select" /\ Len(todo[t]) = Len(batch[t]) - k
       \/ pc[t] = "read" /\ todo[t] = batch[t] /\ Len(batch[t]) = k
    /\ assign # <<>>
    /\ assign[Len(assign)] = NewRecord(batch[t][k], user[t])

\* An assignment request that is accepted inserts a record of its own for every
\* id of its batch, for the second one as for the first, whatever other requests
\* do meanwhile: unless it dies, or names a user there is none of.
AssignmentSettles ==
    \A t \in Threads : \A k \in 1 .. MaxBatch :
        (/\ pc[t] = "select" /\ user[t] \in Users
         /\ Len(batch[t]) - Len(todo[t]) < k /\ k <= Len(batch[t]))
            ~> (Recorded(t, k) \/ faults > 0)
=============================================================================
