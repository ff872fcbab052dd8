----------------------------- MODULE ClientPages -----------------------------
(***************************************************************************)
(* The pages of one browser: the login page, the list of courses and the   *)
(* list of activities (static/huike/page), over the axios instance of      *)
(* request.js, and what the server does with their calls.                  *)
(*                                                                         *)
(* The page runs one function at a time; between the sending of a call and *)
(* its answer the user and the other answers may do anything.  Answers     *)
(* come in any order, a call may fail, be given up after ten seconds or    *)
(* find the session gone.  A page that is left drops its answers, not what *)
(* the server has been asked to do.                                        *)
(***************************************************************************)
EXTENDS ClientApi

CONSTANTS
    Courses,    \* the courses there may be
    Activities, \* the activities there may be
    Data,       \* what a row may say
    Patient,    \* the user does nothing while a call is under way
    MaxCalls,   \* bound: calls the user makes; answers lead to two more each at most
    MaxFaults   \* bound: calls that fail or are given up

ASSUME PageAssumption ==
    /\ Courses \cap Activities = {}
    /\ "all" \notin Data /\ "gone" \notin Data /\ "blank" \notin Data
    /\ Patient \in BOOLEAN
    /\ MaxCalls \in Nat \ {0} /\ MaxFaults \in Nat

Rows == Courses \cup Activities

CONSTANT NoRow
ASSUME NoRowAssumption == NoRow \notin Rows

Pages == {"course", "activity"}

VARIABLES
    at,        \* the page that is shown
    token,     \* Admin-Token in the local storage: whether its session lives
    captchas,  \* the captchas the server keeps
    uuid,      \* loginForm.uuid, 0 for none
    logging,   \* loading, of the login page
    query,     \* queryParams
    asked,     \* the query of the last getList
    list,      \* dataList, and the query it answers
    loading,   \* dataListLoading
    visible,   \* the dialog is shown
    form,      \* the row the dialog edits, NoRow to add one, and what it says
    opened,    \* the row the dialog was opened for
    calls,     \* the calls under way
    sent,      \* calls so far
    faults,    \* faults so far
    table,     \* what the rows in the database say, "gone" where there is none
    flagged    \* the courses with is_delete = 1

login == <<uuid, logging>>
dialog == <<visible, form, opened>>
lists == <<query, asked, list, loading>>
page == <<at, login, lists, dialog>>
vars == <<page, token, captchas, calls, sent, faults, table, flagged>>

Ids == 1 .. 3 * MaxCalls
Filters == {"all"} \cup Data
Session == {"none", "live", "dead"}

\* The rows a page is about, and those there are.
RowsOf(p) == IF p = "course" THEN Courses ELSE Activities
Existing == {r \in Rows : table[r] # "gone"}

IsDelete(r) == IF r \in flagged THEN 1 ELSE 0

\* The rows a list shows for a query: is_delete is shown, but not asked about.
Answer(p, q) ==
    {<<r, table[r], IsDelete(r)>> :
         r \in {s \in RowsOf(p) \cap Existing : q \in {"all", table[s]}}}

NoList == [of |-> "all", rows |-> {}]

TypeOK ==
    /\ at \in Pages \cup {"login", "other"}
    /\ token \in Session
    /\ captchas \in SUBSET Ids
    /\ uuid \in Ids \cup {0}
    /\ logging \in BOOLEAN /\ loading \in BOOLEAN /\ visible \in BOOLEAN
    /\ query \in Filters /\ asked \in Filters
    /\ list \in [of : Filters, rows : SUBSET (Rows \X Data \X {0, 1})]
    /\ form \in [row : Rows \cup {NoRow}, data : Data \cup {"blank"}]
    /\ opened \in Rows \cup {NoRow}
    /\ \A c \in calls :
          /\ c.id \in 1 .. sent
          /\ c.bearer \in Session
          /\ c.out \in {"sent", "read", "ok", "failed", "denied", "rejected"}
    /\ sent \in Ids
    /\ faults \in 0 .. MaxFaults
    /\ table \in [Rows -> Data \cup {"gone"}]
    /\ flagged \in SUBSET Courses

-----------------------------------------------------------------------------
(* Sending *)

\* The functions of the api files the pages use.
Function ==
    LET named(name) == CHOOSE q \in Requests : q.call.name = name IN
    [login    |-> [code |-> named("getCodeImg"), login |-> named("login")],
     course   |-> [list |-> named("listCourse"), info |-> named("getCourse"),
                   add |-> named("addCourse"), update |-> named("updateCourse"),
                   delete |-> named("delCourse")],
     activity |-> [list |-> named("listActivity"), info |-> named("getActivity"),
                   add |-> named("addActivity"), update |-> named("updateActivity"),
                   delete |-> named("delActivity")]]

\* The request interceptor takes the token as it is then.
Request(p, op, q, arg, bearer) ==
    [id |-> sent + 1, page |-> p, op |-> op, leads |-> q.leads, meant |-> q.meant, arg |-> arg,
     bearer |-> bearer, here |-> TRUE, out |-> "sent", got |-> "nothing"]

Send(cs, p, op, arg) ==
    /\ sent' = sent + 1
    /\ calls' = cs \cup {Request(p, op, Function[p][op], arg, token)}

Ready == Patient => calls = {}
MayCall == Ready /\ sent < MaxCalls

-----------------------------------------------------------------------------
(* Pages come and go *)

\* What the server has been asked to do, it does whether or not the page stays.
Orphans(cs) ==
    {[c EXCEPT !.here = FALSE] : c \in {d \in cs : d.op \in {"add", "update", "delete"}
                                                /\ d.out = "sent"}}

\* What a page starts from.
Blank ==
    /\ uuid' = 0 /\ logging' = FALSE
    /\ query' = "all" /\ asked' = "all" /\ list' = NoList
    /\ visible' = FALSE /\ form' = [row |-> NoRow, data |-> "blank"] /\ opened' = NoRow

\* The created hooks ask for a captcha, or for the list.
Load(p, cs) ==
    /\ at' = p
    /\ Blank
    /\ loading' = (p \in Pages)
    /\ Send(Orphans(cs), p, IF p = "login" THEN "code" ELSE "list", "all")

\* The user opens a page, by its address or from the menu.
Visit(p) ==
    /\ MayCall
    /\ Load(p, calls)
    /\ UNCHANGED <<token, captchas, faults, table, flagged>>

\* The user opens another screen of the system ...
VisitOther ==
    /\ Ready
    /\ at' = "other"
    /\ Blank
    /\ loading' = FALSE
    /\ calls' = Orphans(calls)
    /\ UNCHANGED <<token, captchas, sent, faults, table, flagged>>

\* ... which calls one of the functions of the api files.
Ask(q) ==
    /\ at = "other"
    /\ calls = {}
    /\ MayCall
    /\ sent' = sent + 1
    /\ calls' = {Request("other", "other", q, "all", token)}
    /\ UNCHANGED <<page, token, captchas, faults, table, flagged>>

-----------------------------------------------------------------------------
(* The login page *)

\* A click on the captcha.
GetCode ==
    /\ MayCall
    /\ at = "login"
    /\ Send(calls, "login", "code", "all")
    /\ UNCHANGED <<page, token, captchas, faults, table, flagged>>

\* The button, which loading disables, or the Enter key, which it does not.
HandleLogin(right) ==
    /\ MayCall
    /\ at = "login"
    /\ logging' = TRUE
    /\ Send(calls, "login", "login", [uuid |-> uuid, right |-> right])
    /\ UNCHANGED <<at, uuid, lists, dialog, token, captchas, faults, table, flagged>>

-----------------------------------------------------------------------------
(* The lists *)

\* The rows below the loading mask and those behind the dialog are out of reach.
Uncovered == Ready /\ at \in Pages /\ ~ visible

\* The query changes as the user types.
TypeQuery(f) ==
    /\ Uncovered
    /\ query' = f
    /\ UNCHANGED <<at, login, asked, list, loading, dialog, token, captchas, calls,
                   sent, faults, table, flagged>>

GetList(cs) ==
    /\ loading' = TRUE
    /\ asked' = query
    /\ Send(cs, at, "list", query)
    /\ UNCHANGED <<query, list>>

HandleQuery ==
    /\ Uncovered /\ MayCall
    /\ GetList(calls)
    /\ UNCHANGED <<at, login, dialog, token, captchas, faults, table, flagged>>

Shown == {e[1] : e \in list.rows}

HandleDelete(r) ==
    /\ Uncovered /\ MayCall
    /\ ~ loading
    /\ r \in Shown
    /\ Send(calls, at, "delete", r)
    /\ UNCHANGED <<page, token, captchas, faults, table, flagged>>

\* Fault: the row is taken over only when there is one.
OpenKeepingRow(r) ==
    /\ Uncovered
    /\ r # NoRow => MayCall /\ ~ loading /\ r \in Shown
    /\ visible' = TRUE
    /\ opened' = r
    /\ form' = [row |-> IF r = NoRow THEN form.row ELSE r, data |-> "blank"]
    /\ IF r = NoRow THEN UNCHANGED <<calls, sent>> ELSE Send(calls, at, "info", r)
    /\ UNCHANGED <<at, login, lists, token, captchas, faults, table, flagged>>

\* addOrUpdateHandle: the fields are reset in the next tick, and what a row says
\* is asked for.
AddOrUpdateHandle(r) ==
    /\ Uncovered
    /\ r # NoRow => MayCall /\ ~ loading /\ r \in Shown
    /\ visible' = TRUE
    /\ opened' = r
    /\ form' = [row |-> r, data |-> "blank"]
    /\ IF r = NoRow THEN UNCHANGED <<calls, sent>> ELSE Send(calls, at, "info", r)
    /\ UNCHANGED <<at, login, lists, token, captchas, faults, table, flagged>>

-----------------------------------------------------------------------------
(* The dialog *)

TypeForm(d) ==
    /\ Ready
    /\ visible
    /\ form' = [form EXCEPT !.data = d]
    /\ UNCHANGED <<at, login, lists, visible, opened, token, captchas, calls, sent,
                   faults, table, flagged>>

\* The required fields are filled in; the button stays enabled.
SubmitForm ==
    /\ MayCall
    /\ visible
    /\ form.data # "blank"
    /\ Send(calls, at, IF form.row = NoRow THEN "add" ELSE "update", form)
    /\ UNCHANGED <<page, token, captchas, faults, table, flagged>>

Cancel ==
    /\ Ready
    /\ visible
    /\ visible' = FALSE
    /\ UNCHANGED <<at, login, lists, form, opened, token, captchas, calls, sent,
                   faults, table, flagged>>

-----------------------------------------------------------------------------
(* The server *)

Answered(c, out, got) ==
    calls' = (calls \ {c}) \cup {[c EXCEPT !.out = out, !.got = got]}

\* Fault: everybody may ask for a captcha.
ForbidNobody(c) == FALSE

\* "/login" and "/captchaImage" are for those who are not logged in; the
\* interceptor sends their token all the same.
Forbidden(c) == c.op \in {"code", "login"} /\ c.bearer = "live"

Authorized(c) ==
    /\ c.out = "sent"
    /\ ~ Forbidden(c)
    /\ c.op \in {"code", "login"} \/ c.bearer = "live"

\* The filter chain answers by itself.
Refuse(c) ==
    /\ c.out = "sent"
    /\ ~ Authorized(c)
    /\ Answered(c, IF Forbidden(c) THEN "rejected" ELSE "denied", "nothing")
    /\ UNCHANGED <<page, token, captchas, sent, faults, table, flagged>>

\* No route, or one that cannot make out the value in the path.
ServeUnknown(c) ==
    /\ Authorized(c)
    /\ c.leads \cap c.meant = {}
    /\ Answered(c, IF c.leads = {} THEN "rejected" ELSE "failed", "nothing")
    /\ UNCHANGED <<page, token, captchas, sent, faults, table, flagged>>

Reaches(c, op, out, got) ==
    /\ Authorized(c)
    /\ c.op = op
    /\ c.leads \cap c.meant # {}
    /\ Answered(c, out, got)
    /\ UNCHANGED <<page, token, sent, faults>>

\* getCode.
ServeCode(c) ==
    /\ Reaches(c, "code", "ok", c.id)
    /\ captchas' = captchas \cup {c.id}
    /\ UNCHANGED <<table, flagged>>

\* login: the captcha is read ...
ReadCaptcha(c) ==
    /\ Reaches(c, "login", "read", c.arg.uuid \in captchas)
    /\ UNCHANGED <<captchas, table, flagged>>

\* ... and deleted, before the code, the name and the password are compared.
ServeLogin(c) ==
    /\ c.op = "login"
    /\ c.out = "read"
    /\ captchas' = captchas \ {c.arg.uuid}
    /\ IF c.got /\ c.arg.right THEN Answered(c, "ok", "live")
                               ELSE Answered(c, "failed", "nothing")
    /\ UNCHANGED <<page, token, sent, faults, table, flagged>>

ServeList(c) ==
    /\ Reaches(c, "list", "ok", Answer(c.page, c.arg))
    /\ UNCHANGED <<captchas, table, flagged>>

\* The row as it is, flagged or not, "gone" for null.
ServeInfo(c) ==
    /\ Reaches(c, "info", "ok", table[c.arg])
    /\ UNCHANGED <<captchas, table, flagged>>

\* An activity is refused the name of another one.
MayClash(c, row) == c.page = "activity" /\ (Activities \cap Existing) \ {row} # {}

\* Rows is the bound: no row is added when it is reached.
ServeAdd(c) ==
    /\ \/ \E r \in RowsOf(c.page) \ Existing :
             /\ Reaches(c, "add", "ok", "nothing")
             /\ table' = [table EXCEPT ![r] = c.arg.data]
       \/ /\ MayClash(c, NoRow) \/ RowsOf(c.page) \subseteq Existing
          /\ Reaches(c, "add", "failed", "nothing")
          /\ UNCHANGED table
    /\ UNCHANGED <<captchas, flagged>>

\* Whatever row has the id is written, flagged or not.
ServeUpdate(c) ==
    /\ \/ /\ Reaches(c, "update", "ok", "nothing")
          /\ table' = IF c.arg.row \in Existing THEN [table EXCEPT ![c.arg.row] = c.arg.data]
                      ELSE table
       \/ /\ Reaches(c, "update", "failed", "nothing")
          /\ MayClash(c, c.arg.row)
          /\ UNCHANGED table
    /\ UNCHANGED <<captchas, flagged>>

\* Nothing is done when no business names the course; otherwise the update has no
\* condition and flags every course.
ServeDeleteCourse(c) ==
    /\ c.page = "course"
    /\ Reaches(c, "delete", "ok", "nothing")
    /\ flagged' \in {flagged, Courses \cap Existing}
    /\ UNCHANGED <<captchas, table>>

\* An activity under way is not deleted; reading one that is gone fails too.
ServeDeleteActivity(c) ==
    /\ c.page = "activity"
    /\ \/ /\ c.arg \in Existing
          /\ Reaches(c, "delete", "ok", "nothing")
          /\ table' = [table EXCEPT ![c.arg] = "gone"]
       \/ /\ Reaches(c, "delete", "failed", "nothing")
          /\ UNCHANGED table
    /\ UNCHANGED <<captchas, flagged>>

ServeOther(c) ==
    /\ Reaches(c, "other", "ok", "nothing")
    /\ UNCHANGED <<captchas, table, flagged>>

\* An exception in the handler.
ServeFails(c) ==
    /\ Authorized(c)
    /\ faults < MaxFaults
    /\ faults' = faults + 1
    /\ Answered(c, "failed", "nothing")
    /\ UNCHANGED <<page, token, captchas, sent, table, flagged>>

\* A session times out, or the store of sessions is restarted.
Expire ==
    /\ token = "live"
    /\ token' = "dead"
    /\ calls' = {[c EXCEPT !.bearer = IF @ = "live" THEN "dead" ELSE @] : c \in calls}
    /\ UNCHANGED <<page, captchas, sent, faults, table, flagged>>

ExpireCaptcha(u) ==
    /\ u \in captchas
    /\ captchas' = captchas \ {u}
    /\ UNCHANGED <<page, token, calls, sent, faults, table, flagged>>

-----------------------------------------------------------------------------
(* The answers *)

Rest(c) == calls \ {c}

Handled(c) == calls' = Rest(c) /\ UNCHANGED sent

\* Code 401: back to the login page.
ReceiveDenied(c) ==
    /\ c.out = "denied"
    /\ Load("login", Rest(c))
    /\ UNCHANGED <<token, captchas, faults, table, flagged>>

ReceiveCode(c) ==
    /\ c.op = "code"
    /\ \/ c.out = "ok" /\ uuid' = c.got
       \/ c.out = "failed" /\ uuid' = 0
       \/ c.out = "rejected" /\ UNCHANGED uuid
    /\ Handled(c)
    /\ UNCHANGED <<at, logging, lists, dialog, token, captchas, faults, table, flagged>>

\* The token is kept and the page left; nothing undoes loading when the call is
\* rejected.
ReceiveLogin(c) ==
    /\ c.op = "login"
    /\ \/ /\ c.out = "ok"
          /\ token' = c.got
          /\ at' = "other"
          /\ Blank
          /\ loading' = FALSE
          /\ calls' = Orphans(Rest(c))
          /\ UNCHANGED sent
       \/ /\ c.out = "failed"
          /\ logging' = FALSE
          /\ Handled(c)
          /\ UNCHANGED <<at, uuid, lists, dialog, token>>
       \/ /\ c.out = "rejected"
          /\ Handled(c)
          /\ UNCHANGED <<page, token>>
    /\ UNCHANGED <<captchas, faults, table, flagged>>

\* Fault: the rejection is not caught.
ReceiveListUncaught(c) ==
    /\ c.op = "list"
    /\ \/ c.out = "ok" /\ list' = [of |-> c.arg, rows |-> c.got] /\ loading' = FALSE
       \/ c.out = "failed" /\ list' = [of |-> c.arg, rows |-> {}] /\ loading' = FALSE
       \/ c.out = "rejected" /\ UNCHANGED <<list, loading>>
    /\ Handled(c)
    /\ UNCHANGED <<at, login, query, asked, dialog, token, captchas, faults, table, flagged>>

ReceiveList(c) ==
    /\ c.op = "list"
    /\ loading' = FALSE
    /\ \/ c.out = "ok" /\ list' = [of |-> c.arg, rows |-> c.got]
       \/ c.out = "failed" /\ list' = [of |-> c.arg, rows |-> {}]
       \/ c.out = "rejected" /\ UNCHANGED list
    /\ Handled(c)
    /\ UNCHANGED <<at, login, query, asked, dialog, token, captchas, faults, table, flagged>>

\* Fault: the answer replaces the form, be it null.
ReceiveInfoWhole(c) ==
    /\ c.op = "info"
    /\ c.out \in {"ok", "failed", "rejected"}
    /\ form' = IF c.out = "ok" THEN [row |-> c.arg, data |-> c.got] ELSE form
    /\ Handled(c)
    /\ UNCHANGED <<at, login, lists, visible, opened, token, captchas, faults, table, flagged>>

\* The answer goes over what the dialog holds, the id included.
ReceiveInfo(c) ==
    /\ c.op = "info"
    /\ c.out \in {"ok", "failed", "rejected"}
    /\ form' = IF c.out = "ok" /\ c.got # "gone" THEN [row |-> c.arg, data |-> c.got]
               ELSE form
    /\ Handled(c)
    /\ UNCHANGED <<at, login, lists, visible, opened, token, captchas, faults, table, flagged>>

\* Fault: the list is left as it is.
ReceiveSavedOnly(c) ==
    /\ c.op \in {"add", "update"}
    /\ visible' = (visible /\ c.out # "ok")
    /\ c.out \in {"ok", "failed", "rejected"}
    /\ Handled(c)
    /\ UNCHANGED <<at, login, lists, form, opened, token, captchas, faults, table, flagged>>

\* The course page asks for its list again; the activity page emits an event
\* nobody listens to.
ReceiveSaved(c) ==
    /\ c.op \in {"add", "update"}
    /\ \/ /\ c.out = "ok"
          /\ visible' = FALSE
          /\ \/ at = "course" /\ GetList(Rest(c))
             \/ at = "activity" /\ Handled(c) /\ UNCHANGED lists
       \/ /\ c.out \in {"failed", "rejected"}
          /\ Handled(c)
          /\ UNCHANGED <<lists, visible>>
    /\ UNCHANGED <<at, login, form, opened, token, captchas, faults, table, flagged>>

ReceiveDeleted(c) ==
    /\ c.op = "delete"
    /\ \/ c.out = "ok" /\ GetList(Rest(c))
       \/ c.out \in {"failed", "rejected"} /\ Handled(c) /\ UNCHANGED lists
    /\ UNCHANGED <<at, login, dialog, token, captchas, faults, table, flagged>>

ReceiveOther(c) ==
    /\ c.op = "other"
    /\ c.out \in {"ok", "failed", "rejected"}
    /\ Handled(c)
    /\ UNCHANGED <<page, token, captchas, faults, table, flagged>>

\* The page is gone.
Drop(c) ==
    /\ ~ c.here
    /\ c.out # "sent"
    /\ Handled(c)
    /\ UNCHANGED <<page, token, captchas, faults, table, flagged>>

Receive(c) ==
    /\ c.here
    /\ \/ ReceiveDenied(c) \/ ReceiveCode(c) \/ ReceiveLogin(c) \/ ReceiveList(c)
       \/ ReceiveInfo(c) \/ ReceiveSaved(c) \/ ReceiveDeleted(c) \/ ReceiveOther(c)

\* timeout: 10000.  The server may have answered, or answer later: to nobody.
TimeOut(c) ==
    /\ c.here
    /\ c.out # "rejected"
    /\ faults < MaxFaults
    /\ faults' = faults + 1
    /\ calls' = Rest(c) \cup {[c EXCEPT !.out = "rejected"]} \cup Orphans({c})
    /\ UNCHANGED <<page, token, captchas, sent, table, flagged>>

-----------------------------------------------------------------------------
Init ==
    /\ at = "login"
    /\ token \in Session
    /\ captchas = {}
    /\ uuid = 0 /\ logging = FALSE
    /\ query = "all" /\ asked = "all" /\ list = NoList /\ loading = FALSE
    /\ visible = FALSE /\ form = [row |-> NoRow, data |-> "blank"] /\ opened = NoRow
    /\ sent = 1
    /\ calls = {[Request("login", "code", Function["login"]["code"], "all", token) EXCEPT !.id = 1]}
    /\ faults = 0
    /\ table \in [Rows -> Data \cup {"gone"}]
    /\ flagged \in SUBSET (Courses \cap Existing)

User ==
    \/ \E p \in Pages \cup {"login"} : Visit(p)
    \/ VisitOther
    \/ \E q \in Requests : Ask(q)
    \/ GetCode
    \/ \E right \in BOOLEAN : HandleLogin(right)
    \/ \E f \in Filters : TypeQuery(f)
    \/ HandleQuery
    \/ \E r \in Rows : HandleDelete(r)
    \/ \E r \in Rows \cup {NoRow} : AddOrUpdateHandle(r)
    \/ \E d \in Data : TypeForm(d)
    \/ SubmitForm \/ Cancel

Serve(c) ==
    \/ Refuse(c) \/ ServeUnknown(c)
    \/ ServeCode(c) \/ ReadCaptcha(c) \/ ServeLogin(c)
    \/ ServeList(c) \/ ServeInfo(c) \/ ServeAdd(c) \/ ServeUpdate(c)
    \/ ServeDeleteCourse(c) \/ ServeDeleteActivity(c) \/ ServeOther(c)

Network == \E c \in calls : Serve(c) \/ Receive(c) \/ Drop(c)

Next ==
    \/ User
    \/ Network
    \/ \E c \in calls : ServeFails(c) \/ TimeOut(c)
    \/ Expire
    \/ \E u \in captchas : ExpireCaptcha(u)

Spec == Init /\ [][Next]_vars

\* The server answers and the browser hands the answers over.
FairSpec == Spec /\ WF_calls(Network)

-----------------------------------------------------------------------------
(* Properties *)

\* The dialog edits the row it was opened for, or none when it was opened to add
\* one: what submitForm sends is what the title of the dialog says.
DialogIsOpened == visible => form.row = opened

\* When nothing is under way and nothing has failed the list of courses shows
\* what the database holds for the query asked last.
ListUpToDate ==
    (at = "course" /\ calls = {} /\ faults = 0)
        => list = [of |-> asked, rows |-> Answer("course", asked)]

\* A page that is opened to log in again while the session lives gets no captcha
\* and lets nobody in: the interceptor sends the token with every call.
NoCaptchaInSession == (at = "login" /\ token = "live") => uuid = 0

\* The mask over a list goes: the call that put it there is answered, fails or
\* is given up.
LoadingEnds == loading ~> ~ loading
=============================================================================
