# Huike CRM: models, checks and proofs

Huike CRM is a Spring Boot server over MySQL and Redis with pages the server
ships as static files: sales staff enter *clues* (leads), assign them to each
other, turn good ones into *businesses* (deals) and those into *contracts*, in
pages of Vue components that talk to the server through axios. This directory models
the request handlers that change that state, the pages and their calls, and the
parts of the shipped `vue.js` on which the pages' updates rest; checks the models
with TLC and proves what matters most with TLAPS.

## Inventory: the server

Paths are relative to the repository; `J` stands for `src/main/java/com/huike`.

| component | code | state | operations | what makes it correct |
|---|---|---|---|---|
| clues | `huike-clues/J/clues/service/impl/TbClueServiceImpl.java`, `TbAssignRecordServiceImpl.java` | `tb_clue`, `tb_assign_record`, false marks in `tb_clue_track_record` | insert, update, assignment, gain, falseClue | one current owner; an assigned record stays with its user; marks counted, at most three; a clue with too many has its end time |
| businesses | `huike-business/J/.../TbBusinessServiceImpl.java` | `tb_business`, `tb_assign_record` | insert, update, delete, assign, backPoll, gain | gone rows stay gone; only existing ones assigned; each deal follows its life cycle |
| contracts | `huike-contract/J/.../TbContractServiceImpl.java` | `tb_contract`, `tb_business` | insertContract, changeContract (transaction) | a deal is in exactly one table; one contract per business |
| courses | `huike-clues/J/.../TbCourseServiceImpl.java` | `tb_course` | insert, update, delete | a course in use is kept |
| transfer | `huike-contract/J/.../TransferServiceImpl.java` | records and rows of one user | assignment to another user up to a limit | limit respected; the answer tells what happened |
| pool rules | `TbRulePoolServiceImpl`, `HuiKeCrmDateUtils` | `tb_rule_pool` | update; limit, end date | used by transfer |
| activities | `TbActivityServiceImpl` | `tb_activity` | insert, update, delete | unique names; running ones kept |
| follow-up records | `TbClueTrackRecordServiceImpl`, `TbBusinessTrackRecordServiceImpl` | append-only tables | insert | - |
| sessions | `huike-framework/J/framework/web/service/TokenService.java`, `SysProfileController` | session objects in Redis with expiry | create, read, refresh, delete, change profile | a logout ends a session; no lost profile change |
| login, captcha | `SysLoginService`, `CaptchaController` | captchas in Redis | issue, use once | a captcha is used once |
| repeat submit | `SameUrlDataInterceptor` | last request per token, 10 s | test and set | equal requests within 10 s refused |
| configuration cache | `SysConfigServiceImpl` | `sys_config`, Redis | init, read-through, insert, update, delete, clear | cache agrees with the table once writers are done |
| dictionary cache | `SysDictTypeServiceImpl`, `SysDictDataServiceImpl` | `sys_dict_*`, Redis | read-through, write, clear | as above |
| departments | `SysDeptServiceImpl` | `sys_dept` tree | insert, update, delete | parents exist; ancestors agree with parents |
| users, roles, menus | `SysUserServiceImpl`, `SysRoleServiceImpl`, `SysMenuServiceImpl` | `sys_user` and join tables | check and insert, import, delete | names unique; no dangling join rows |
| operation log, async tasks | `LogAOP`, `AsyncManager` | log tables | insert | - |
| reports, generator, utilities | `huike-report`, `huike-generator`, `huike-common` | none of their own | queries, text generation | - |

Controllers call services in the request thread; services call
MyBatis-Plus mappers, one SQL statement each. There is no shared state in memory:
handlers meet only in MySQL and Redis. `@Transactional` is on `changeContract`, on
one track-record insert, on four user and one dictionary operations and in the
generator; the `@Transactional` of the `LogAOP` advice covers nothing, because
Spring does not proxy aspects. Everywhere else a statement commits by itself. So
what is hard is what happens between two statements: another request, an
exception after half of the writes, a whole row written back after somebody else
changed it.

## Inventory: the pages

`S` stands for `huike-admin/src/main/resources/static/huike`.

| component | code | state | operations | what makes it correct |
|---|---|---|---|---|
| login page, lists of courses and activities | `S/page/login.html`, `S/page/course/list.html`, `S/page/activity/list.html` | the page's data: list, query, mask, dialog and its form, captcha | load, query, open, save, delete, log in | the dialog edits what it was opened for; the list is up to date; masks go |
| calls | `S/js/request.js`, `S/api/**` | calls under way, the token | send, answer, reject, time out after 10 s | a call reaches the handler written for it; every call ends |
| observers, watchers, scheduler, `nextTick` | `S/plugins/vue/vue.js` | properties, dependency lists, queue, callbacks | change, notify, queue, flush, throw | no update lost, no cache stale, right order, every flush ends |
| patch, references, transition-group | `vue.js` | children of an element, `$refs` | render, reuse, move, make, remove | the document shows the render; keyed elements and references survive |
| transition, `v-show` | `vue.js` | elements that enter or leave, their callbacks | enter, leave, cancel, frame, end | what is shown in the end is what was asked for last |
| template compiler, render helpers | `vue.js` | stacks of the parser, the tree, cached static trees | parse, optimize, generate, render | what is shown is what the template means |

`vue.js` is vendored, but it is source that the program ships and runs, most of the
client's code, and every page's correctness rests on it: a list that is not patched
or a watcher that is not told is a bug of the CRM as its users see it. The minified
scripts (axios, element-ui) are modelled only as the pages use them.

How the parts meet: a page's handler changes its data and sends a call
(`ClientPages`); the data's setters queue the watchers and a flush renders
(`VueReactivity`); a render runs the code made from the template
(`VueCodegen`) and its result is patched into the document (`VuePatch`), with
transitions around what comes and goes (`VueTransition`). The call reaches a
controller (`ClientApi`) whose service works on the tables, among other requests
(`ClueDesk`, `DealDesk`). In a browser one function runs at a time, so what is hard
there is what happens between the sending of a call and its answer, between a change
and the flush, between a frame and the end of a transition, and in the hooks that run
in the middle of a flush. `PROJECT.json` lists every such place, of the server and
of the pages, as a hazard with its line.

## Modules

| module | what it models |
|---|---|
| `ClueDesk`, `MCClueDesk`, `ClueDeskProofs` | the clue handlers, one SQL statement per step; instances for TLC; theorems |
| `DealDesk`, `MCDealDesk`, `DealDeskProofs` | the handlers of businesses and contracts, and course deletion; instances; theorems |
| `DealLife` | what the deal desk promises of each deal: an abstract life cycle |
| `ClientApi` | every function of the api files, every mapping of the controllers they call, and which mapping answers which call |
| `ClientPages`, `MCClientPages`, `ClientPagesProofs` | the pages over those calls, composed with what the server does with them; instances; theorems |
| `UpdateQueue` | what the scheduler of vue.js promises |
| `VueReactivity`, `MCVueReactivity`, `VueReactivityProofs`, `VueFreshProofs` | observers, watchers, scheduler and `nextTick`; instances; theorems about the scheduler and the subscriptions; about what is cached and what was seen |
| `VuePatch`, `MCVuePatch`, `VuePatchProofs` | the patch of an element's children; instances; theorems |
| `VueTransition`, `MCVueTransition`, `VueTransitionProofs` | one `<transition>` or `v-show`; instances; theorems |
| `VueParser`, `VueCodegen`, `MCVueTemplate`, `VueParserProofs` | from a template to its tree; from the tree to what is shown; instances; theorems about the parser |

A definition with a comment that starts with *Fault:* is a variant of the definition
after it with a plausible bug. The specifications do not use them: they show that
each property notices the bug when the variant takes the definition's place.

### Conventions of the server's models

* A table is a function from keys to rows, or a sequence when its key is an
  auto-increment key that the code never deletes by.
* A request is a *thread*: `pc[t]` is the statement it executes next, `todo[t]` the
  ids its loop still has to handle, the other locals what it has read. `Accept` is
  the controller's call, `Finish` the end of the request, with an answer or with an
  exception that `GlobalExceptionHandler` answers: both leave what has been written.
* `Abort` is a statement that fails or a server that stops between two statements.
* `updateById` writes the columns that are not null in the entity
  (MyBatis-Plus's default): that is `UpdateById` in `ClueDesk`.
* The columns `latest` and `type` that an insert leaves null take the defaults of
  the table, which is not in the repository; the code compares with `'1'` and
  `'0'`, and these are the only defaults under which it finds the rows it inserts.
* What a request has selected it keeps in `list` as *entities*, a key and the record as it was
  then: `RetireRecord` writes the record back whole, with `latest` changed, over
  whatever has become of the row since.

### ClueDesk

`insert()` of the assignment service is `SelectLatest`, `RetireRecord` (once for each
record found) and `InsertRecord` per id, then `assignment()` is `ReadClue` and
`WriteAssigned` per id; `gain()` has the same body and is the same action. `falseClue()`
is `FalseClue` (the read), `WriteFalse`, `FindOwner`/`NoSingleOwner`, `WriteTrack`. An edit
is `OpenForm` (the form shows `findById`'s dto) and, at any later moment, `Update`.
Rows keep the columns the properties tell apart: status, `falseCount`, whether
`end_time` is set.

### DealDesk and DealLife

Handlers with one write are one step. `assignBusiness`, `gain` and the course
deletion are loops of separate statements. `changeContract` is a transaction under
MySQL's default isolation (the configuration sets no other): its reads come from one
snapshot (`ReadBusiness`), its insert is invisible until commit (`draft`), its delete
takes the row's lock (`Locked`) and holds it until `Commit`; `Abort` rolls back.
Conversions whose lookups fail throw before they write, so they are not steps.
A delete request for a list of ids passes the text of the list to `deleteById`, which
deletes at most the first. Gap locks of InnoDB are not modelled: they delay inserts
of new keys and decide nothing the properties speak of.

`DealLife` has one variable: each deal is `"new"`, then a `"business"`, and then
`"gone"` or a `"contract"`. A gone one may still become a contract, because a
conversion builds it from its snapshot. The refinement mapping reads a deal's life off the
two tables; `FollowsLife` says that every statement of every request moves at most
one deal by one such move.

### ClientApi and ClientPages

`ClientApi` is data and one choice: `Call`s (method and path, with a value where the
page fills one in) and `Route`s (with a variable where the mapping has one). Among
the routes that match, Spring takes the one with the fewest variables (`Best`); the route written for a call is `Own`.

In `ClientPages` a call under way is a record: the function that sent it, what it asks,
the token it bears, what the server has made of it and whether a page still waits for it.
The user's actions are the pages' handlers (`AddOrUpdateHandle`, `SubmitForm`,
`HandleQuery`, `HandleDelete`, `HandleLogin`...), the `Serve...` actions what the filter chain and
the controllers do, the `Receive...` actions what follows the `await` or `.then`, after the response interceptor of
`request.js`; `ReceiveDenied` is its way back to the login page for code 401. `ServeFails`, `TimeOut`, `Expire`
and `ExpireCaptcha` are the faults; the database is changed by a call that is given
up or whose page has been left as by any other. `VisitOther` and `Ask` stand for the other screens,
which send the remaining functions of the api files and keep nothing these pages read.

The server's rows are `Courses` and `Activities`, which it treats differently. A course is never
taken out of its table: `flagged` are those with `is_delete` set, which the list, the form and the update
go on to find, because none of their statements asks for the column. The deletion of a course does nothing
when no business names it; otherwise its update, which has no `where`, flags all of
them (`ServeDeleteCourse`; whether there is such a business is not the page's affair and left open; `DealDesk` has the
loop itself). An activity under way is not deleted, others are, and a name may be refused.

### VueReactivity and UpdateQueue

One object of a page's data, with properties that come (`Set`), go (`Delete`) and are
assigned, and that is itself replaced (`Replace`); every property has a `Dep`, told
apart by what it belongs to and by when it was made. A getter is an
expression, *if test then yes else no*, over properties and computed ones, so what it
reads differs from run to run. `Update` is one turn of `notify`'s loop over the subscribers, in any
order (the code sorts them only when `config.async` is off);
`QueueWatcher`, `FlushCallbacks`, `StartFlush`, `NextWatcher`, `Run`, `React`,
`CheckCircular`, `EndFlush`, `AskTick` and `EndCopies` are the scheduler and `nextTick`.
The code of the page runs where vue.js calls it: in a task, in a `before` hook, in a
watcher's callback, in the hooks at the end of a flush and in the callbacks of
`nextTick`; `mode` says which, and in each it can do all it can do in any.
`RunThrows` is a render or patch that throws: the flush is over, and `waiting`
and `flushing` stay set for good.

`UpdateQueue` is the promise: a set of due watchers and whether a flush is under way.
The mapping takes the watchers queued and not yet run for `due`.

### VuePatch

`updateChildren` with its four pointers, one branch of its loop per action (`SkipMoved`,
`MatchStarts`, `MatchEnds`, `MoveRight`, `MoveLeft`, `MoveFound`, `CreateNew`), then
what is left over (`EndLoop`, `AddVnode`, `RemoveVnode`). The document is the sequence of
child nodes, with those that are still leaving among them. A node that is removed can be made
again: there are `2 * MaxChildren + MaxLeaving` (`Elms`), and that a new one is always left is proved. `RenderGroup` and
`SecondPass` are the two patches of `<transition-group>`, the first with
`removeOnly`.

### VueTransition

`Render` is what the component's render function and the patch do to the child;
`Frame` the callbacks of the next frame, in order; `End` an event, a timer or
`done()`. The functions of the code (`Enter`, `Leave`, `EnterCb`, `LeaveCb`,
`PerformLeave`, ...) are operators on the record of what they share, since they call each
other.

### VueParser and VueCodegen

A template is a sequence of tokens, read one per step (`Read`) by `parseHTML` with
its stack and by the hooks with theirs; `Finish` closes what is open. `Compile` is
optimize and generate: the code is a tree of records, with the static functions
beside it. `Render` evaluates it, with `_staticTrees` and `markOnce` across renders.
`Means` is the reference definition, straight from the tree and the data, without
static roots, hoisting or caching.

## Runs

| run | instance | distinct states | result |
|---|---|---|---|
| `clue_serial` | 2 clues, 2 users, 1 unknown user, 1 thread, batches of 2, 3 requests, 1 fault, fair | 413 thousand | `TypeOK`, `OneLatestOwner`, `TracksCounted`, `AssignmentSettles` hold |
| `clue_race` | 1 clue, 2 users, 2 threads, batches of 2, 5 requests incl. marks and edits, fair | 715 thousand | `NewestIsLatest`, `BatchRecorded`, `ExpiredHasEnd`, `AssignmentSettles` hold |
| `deal_serial` | 2 businesses, 1 user, 1 unknown user, 1 thread, batches of 2, 5 requests, 1 fault | 131 thousand | `TypeOK`, `OneContractPerBusiness`, `AssignedExists` hold |
| `deal_race` | 2 businesses, 1 course, 2 threads, batches of 2, 5 requests, 1 fault, fair | 124 thousand | `ContractXorBusiness`, `NothingLost`, `FollowsLife`, `ConversionSettles` hold |
| `client` | 1 course, 2 activities, 2 values, 4 calls of a patient user, 1 fault, fair | 1825 thousand | `TypeOK`, `DialogIsOpened`, `ListUpToDate`, `NoCaptchaInSession`, `LoadingEnds` hold |
| `reactive` | 2 properties; a computed property, a watcher that changes what it watches, a render watcher; 2 edits, 1 throw, 1 tick; `MAX_UPDATE_COUNT` 1, fair | 67 thousand | `TypeOK`, `ComputedFresh`, `SettledFresh`, `SubsAgree`, `TickAfterUpdate`, `QueueImplements`, `FlushEnds` hold |
| `patch` | lists of up to 3 of 6 descriptions, 7 nodes, 1 leaving | 960 thousand | `ShowsRender`, `KeyedReused`, `RefsNameElements`, `FirstPassKeepsOrder` hold |
| `transition` | 2 children, 4 changes of mind, every usual set of attributes, fair | 136 thousand | `OneWay`, `Bare`, `SettledShows`, `OutBeforeIn`, `EachEnds` hold |
| `template` | 6 vocabularies, 4 tokens after the opening, 2 renders, 2 data | 202 thousand | `StacksAgree`, `VPreIsOpen`, `RenderMeans`, `OnceFixed` hold |
| `clue_two_owners` | 1 clue, 2 threads, 2 assignments | - | `OneLatestOwner` violated |
| `clue_fourth_mark` | 1 clue, 1 thread, 5 requests | - | `MarksWithinMax` violated |
| `deal_course_in_use` | 2 courses, 1 business, 1 thread | - | `CourseInUseKept` violated |

Each property is stated in words above its definition.

### Why the bounds are enough

`MaxRequests` bounds the requests of a behaviour, `MaxBatch` the ids of one,
`MaxFaults` the requests that die; no assignment is asked for any more once there are `MaxRecords` records, and forms
give a clue one of the statuses `Entered` (no handler reads it, so that one other than those the handlers
write is enough). Two threads are enough for every race on a row; a
batch of two has a first and a later id, and in `clue_race` names the clue twice, so that
a request meets its own record, and the other's, again; with `MaxRecords` 2 two requests of two ids still overlap
as long as they begin before two records are there, and insert up to five. Five requests reach four marks of one clue
and an assignment or an edit between them, or a conversion of each business among
updates and deletions. When every request is answered `Rest` is a step, and never
while one is open, so that TLC's deadlock check stays on: threads that all wait on
each other would be reported.

Four calls of the user and the calls their answers lead to (each at most two) reach a
list, a dialog, a save and the reload after it, or a deletion and the reload, with one of them failing; who is logged in
when a behaviour begins need not log in. Two activities tell the dialog's row from another, and
may clash; one course, which may be flagged from the beginning, is listed, flagged and changed.

In `reactive` the computed property leaves a dependency and comes back to it, the watcher
with the callback changes what it watches in the flush that runs it, and the render watcher
reads both; two edits are enough for a replaced object whose properties differ and a
change to it. With
`MAX_UPDATE_COUNT` 1 a behaviour can reach the limit of endless updates; it
is 100 in the code.

Three children reach every branch of `updateChildren` (TLC's coverage
shows each action taken), keys and tags that change included, and seven nodes are
the six of two lists and one leaving. Four changes of mind
interrupt an enter by a leave, and that by an enter, at each of the moments
before the frame, between frame and end, and after. Four tokens after an opening
nest two levels below the root, leave tags open, close the wrong one and write chains of
`v-if`, `v-else-if` and `v-else`; two renders with different data separate what is cached from what is not.

Deadlock is checked in all runs but `transition` and `template`, which may stop: there the parent
has changed its mind for the last time, or the template is rendered for the last time.

### What holds only under conditions

* `OneLatestOwner`, `TracksCounted`, `OneContractPerBusiness` and `AssignedExists` hold one
  request at a time and fail under concurrency: the handler's own logic is right and nothing
  makes it atomic. `clue_two_owners` is the run that shows it for the first, for which
  the code's own words say otherwise. `TracksCounted` also fails one request at a time
  when a form that does not send the count is saved.
  `ExpiredHasEnd` speaks of the fourth mark, where the code puts the end time; that there is
  a fourth at all is what `clue_fourth_mark` shows.
* `NewestIsLatest` is stated for requests that name known users: for an unknown one
  `insert()` throws after it has retired the old owner, and the clue has none.
* `DialogIsOpened` and `ListUpToDate` hold for a user who does nothing while a call is
  under way (`Patient`); for others an old answer goes over a newer dialog
  (`list.html:442` spreads the answer, id included, over the form) or an older list stays, a save can be sent twice and its answer closes
  whatever dialog is open. Of the two lists only that of the courses is up to date: the
  activity page emits `refreshDataList` to nobody.
* `Bare` assumes (`EarlyDone` is FALSE) that hooks with a `done` argument do not call it
  before the next frame; a hook that does leaves `-to` classes behind.
* `EachEnds` and the *usual* setups exclude `in-out` with `css` false and without such hooks, where the
  old child waits for an enter that never ends.
* `FlushEnds` holds for a watcher that queues itself; two that queue each other never
  repeat in a row between the checks and evade `MAX_UPDATE_COUNT`.
* `RenderMeans` and `OnceFixed` are checked for the templates of the vocabularies, which leave out combinations
  in which the code does not do what the template says: a `v-else` block with `v-once` on an element with
  `v-for` and `v-if`, which is hoisted out of the scope of the loop; `v-for`, `v-if` and
  `v-once` on one element; a lone `v-for` child whose `v-else` has `v-for`, which gets no normalization.

### Findings and other observations

Findings, in `PROJECT.json`, are the three violated runs: each names the line of the code and the
sentence of the repository that says otherwise. The models also have behaviours that
no sentence of the repository rules out and that are therefore not findings:
an answer for one row that comes late lands in the dialog opened for another;
a clue without owner is marked and the mark is not in its track;
`assignBusiness` stores the user's id in `latest`; an update that commits before a
conversion is answered with success and lost; the login page's `loading` stays set after a rejected call;
`handleDelete`'s test `!ids` is never true;
the end of a nested `<pre>` ends the outer one's whitespace, and the comment of `vue.js` that all `pre` nodes
are static roots (line 10990) is not true of the code; `permission.js` calls `some` on the
string that the local storage returns; of the 145 functions of the api files
24 have no mapping (`passActivity`, `rejectActivity`, `delClue`,
`updateContract`, `delContract`, `passContract`, `rejectContract`, those of the clue rules,
the writing ones of notices and the posts) and 8 reach the `{id}` mapping
instead (six exports, `deptAndUserTreeList`, `listNotice`).
Every other one reaches the mapping that is written for it: that is an evaluation of two constant tables, which
the server of `ClientPages` takes as it is (`Leads`).

### Fairness

* Server: `WF_vars(Serve(t))` for each thread: a request thread that can execute its
  next statement does so. Nothing is assumed of the users: requests need not come, and
  an opened form need not be saved (`Update` is part of `Ask`). `ConversionSettles`
  says *unless a request dies*: a dead one owes nobody an answer.
* Pages: `WF_calls(Network)`: the server answers and the browser hands the answers over,
  or gives a call up; the user and the faults owe nothing.
* vue.js: weak fairness of `Engine`, what a browser does by itself: run the function that was called to
  its end, then the pending microtask. The page's code need not do anything, but it returns
  (`PageReturns`).
* Transition: weak fairness of `Browser` (microtasks, frames, events, timers), with the
  condition that something is due (`Due`) written out for what enables it.

## Proofs

Eight modules hold the theorems. Every safety invariant and every action property of
the passing runs is a theorem of its specification but for the two of `VueCodegen` named below; TLC checks
them on a small instance as well.
Assumptions are the named `ASSUME`s of the modules: sentinel values
differ from real ones, users and strangers are disjoint, bounds are naturals,
the user of the pages makes at least one call, a computed property reads those made before it, a token's
directives are among those the parser knows.

| theorem | extra assumption | argument |
|---|---|---|
| `TypeCorrect` of both desks | - | inductive; a request past its checks holds a row and at least one id |
| `Expiry` | - | not inductive alone, because stale rows are written back: strengthened to the rows threads hold (`ExpiryInv`) |
| `Recording` | - | `BatchInv`: each id the first loop has dealt with is named by a record with the request's user; and `RetiresOwn`: an entity a request holds names the clue and the user the row with its key still names, so that the stale record it writes back takes no row from its user |
| `NoOrphan` | no faults, no unknown users | the newest record was not in any thread's list before it was inserted, unless that thread is about to insert a newer one |
| `OwnersKeptApart`, with `SingleOwner` | assignments of one clue do not overlap (`AssignmentsApart`) | `OneRecordInv`: the thread's list covers all current records of its clue; `SingleOwner` (one request at a time) is a corollary |
| `MarksCounted`, with `Counted` | no edits; a row is not read to be written back while another request is about to write it (`WritesApart`) | `MarkInv`: a thread between mark and track owes one record, and the row a thread holds is the row as it still is; `Counted` (one request at a time) is a corollary |
| `NeverBoth`, `NoDealLost` | - | `DealInv`: keys are not reused, contracts name used keys, a conversion's draft names its subject |
| `DealsFollowLife` | - | refinement of `DealLife`: each kind of step changes the life of at most one deal, and by a move (`StepKinds`, from `DealInv`) |
| `GoneForGood` | - | from `DealInv`, as a step property |
| `ContractsKeptApart`, with `OneContract` | conversions of one business do not overlap (`ConversionsApart`) | `Unconverted`: no thread converts a business that has a contract; `OneContract` (one request at a time) is a corollary |
| `OnlyExistingAssigned` | one request at a time | the checked business is still there when the record is inserted |
| `RequestsEnd` of both desks | - | what a request has still to do, as a number (`Left`) or, where a loop runs over records that others add to, as four numbers in lexicographic order (`Remaining`, well founded): each of its own statements lowers it, no other request raises it |
| `Queued` | - | `QueueInv`: `has` and the queue name the same watchers, the queue behind the current one is in order of ids, the flush is asked for once, and the flags agree with where the code stands |
| `QueueRefines` | - | refinement of `UpdateQueue` from `QueueInv`: the head is the oldest due watcher, and a splice keeps it so |
| `Ticked` | - | `TickInv`: a waiting callback of the page is behind the flush of every watcher queued before it, unless an endless update was given up or a patch threw |
| `Subscribed` | - | `SubsInv`: a watcher that is not made yet has subscribed to nothing, and each evaluation or teardown changes both sides of a subscription together |
| `NoCaptcha` | - | `PageInv`: the calls of the login page bear the token it was opened with, and a live one only lets them be refused |
| `DialogOpened` | the user is patient | `PageInv`: while a call for a row's details is under way the dialog is the one opened for it |
| `ListIsUpToDate` | the user is patient | `ListInv` (with `OwnInv`: a page of rows is there for what its rows and its dialog ask for, and a call keeps what it asks and where it is led, by evaluation of the table of routes): until something fails at most one call is under way; without one the list is that of the query asked last, and a call that may have changed the rows brings it up to date or leads to one that does |
| `PageTypes` | - | `TypeInv`: the number of a call is bounded by a potential: the calls so far, those whose answer may still ask for a captcha, and the saves whose answer asks for a list, are together at most `3 * MaxCalls` |
| `CallsEnd` | - | `ToCome`: the steps each call under way still has, with those of the calls and faults that may still come (`PageTypes` bounds them); every step of the network lowers it and none raises it |
| `MaskHasItsCall` | - | `Masked`: a list is covered only while one of its calls is under way; with `PageInv` and `OwnInv`, which say that its answer comes back to the page that asked |
| `Typed` | - | with `QueueInv` and `TickInv`: what a watcher keeps is a value of the data, and what it subscribes to a `Dep` |
| `ComputedIsFresh`, `SettledIsFresh` | - | `FreshInv`: a watcher that is clean (not dirty, not queued, not about to be told) holds, and has subscribed to, what it would read were nothing cached; a change it is not told of does not touch what it reads. The chains of computed properties by the least element of a set of them |
| `NeverBothWays`, `OutBeforeInHolds`, `SettledShowsHolds` | - | `Inv` of `VueTransitionProofs`: what each element wears, the callbacks it has, the frames and events they wait for, and what the component keeps for the child that is to come agree in every state |
| `BareHolds` | no hook calls `done()` before the next frame | as above; the classes an element wears are those of the phase it is in |
| `EachIsDue` | in mode `in-out` the `<transition>` has classes or hooks | `Owed`: every callback that is not called is in `waits`, or in `frames` where no hook takes over, and a delayed leave has an enter of the child that follows which is; `Owing(s, X)` says so of the state inside a function, but for the callbacks `X` the function is about to see to. A cancelled one was called at once |
| `StacksAreOne`, `VPreIsItsElement` | - | `ParserInv`: the stack of tags names the elements on the stack of elements, `lastTag` the innermost; `inVPre` is set exactly while one of these, and only one, carries `v-pre`. `ParserSpec` is the part of the specification of `VueCodegen` that reads the template |
| `TemplateIsTree` | - | `TreeInv`: the open elements are the way from the root to where the parser is; what is placed somewhere is later than what stands there already, and earlier than the open element of that place if there is one. Opening, closing and attaching a `v-else` to its `v-if` keep it |
| `PatchInvariant` | - | `Inv` of `VuePatchProofs`: the old children between the pointers remain, the new ones outside of theirs are done; the document holds the elements of both and those that leave, in the order of the new list around the old one (in the first pass of `<transition-group>` in the order there was); a reference names the element of a child that is done or that of one that remains; a child of both renders has its element already or will find it. A new node is always left, because two lists and the leaving cannot use up `Elms` |
| `ListShowsRender`, `KeyedKeepTheirElement`, `ReferencesAreTrue`, `FirstPassMovesNothing` | - | from `PatchInvariant`, the last as a step property |
| `PatchEnds` | - | `ToGo`: the old and the new children between the pointers, with those of the second pass where one follows; every step of a patch lowers it, and it is 0 only outside of patches |

`AssignmentsApart`, `WritesApart` and `ConversionsApart` are not assumptions about the code: nothing
in it keeps such requests apart, and the runs `clue_race` and `deal_race` do without
them. They are the antecedents of theorems that say which lock would be enough, and that a wider
one is not needed. One request at a time (the runs `clue_serial` and `deal_serial`) implies each of them.

Only model-checked:

* the liveness properties (`AssignmentSettles`, `ConversionSettles`, `FlushEnds`, `EachEnds`,
  `LoadingEnds`), which need fairness. Their safety half is proved for all but `FlushEnds`:
  `RequestsEnd` and `CallsEnd` give a measure that each step under fairness lowers and none raises, `MaskHasItsCall` names
  the call that `LoadingEnds` waits for, and `EachIsDue` says that no transition of `EachEnds` is stuck. What of this
  needs fairness, and that a step is enabled as long as something is to be done, is left to TLC;
* `RenderMeans` and `OnceFixed`: the compiler and the renderer recurse over trees, so that what they do
  to every template is an induction over data, which is out of the prover's reach. That what they recurse over is a
  tree, so that they end, is `TemplateIsTree`.

## Not modelled

* Server: queries, statistics, reports, the code generator, file handling and the log
  tables change no state another handler depends on. Transfer, pool rules, the name check
  of activities, session objects and their refresh, the two caches, departments, users, roles and menus
  have state of their own that the models do not have; where it can go
  wrong is listed among the hazards, each with a note. No module puts clues and businesses over
  one `tb_assign_record`, so that equal numbers of a clue and a business do not meet.
* Transfer writes a record with an update whose condition compares the record's id with the *user's*
  (`TbAssignRecordMapper.xml:34`), so that it changes another row or none: its department and name, not its
  `user_id`, of which `BatchRecorded` speaks.
* Texts and dates are left out, except whether an end date is set. In `DealDesk` activities and the user of a
  conversion appear only as lookups that may fail; the uniqueness of activity names is in `ClientPages` only as a refusal.
* Pages: paging, sorting, multiple selection, validation and layout of the three pages;
  the other screens, which add calls of the same shape; `getDicts`, which fills
  option lists.
* vue.js: components with their props, slots and events, `keep-alive`, functional and async
  components, the compiler's attributes, events and `v-model`; sync and deep watchers, arrays and nested
  objects; references inside `v-for`; the modules of the patch other than references and
  transition. The pages are single root components that use few of these themselves.
* axios and element-ui, which are minified.
