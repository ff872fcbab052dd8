------------------------------ MODULE ClientApi ------------------------------
(***************************************************************************)
(* What the pages may ask of the server and what the server answers: one   *)
(* call per function of the api files, one route per mapping annotation of *)
(* the controllers they call, and the choice among the routes that match.  *)
(* Parameters in the query and in the body are left out: no route depends  *)
(* on them.                                                                *)
(***************************************************************************)
EXTENDS Sequences, FiniteSets, Naturals

\* What stands in a path for a value the page fills in, which is a number or a
\* name no route spells out, and for a path variable of a route.
Value == "*"
Var == "{}"

Call(name, method, path) == [name |-> name, method |-> method, path |-> path]
Route(method, path) == [method |-> method, path |-> path]

-----------------------------------------------------------------------------
(* The api files *)

ActivityCalls ==
    LET below(p) == <<"clues", "activity">> \o p IN
    {Call("listActivity", "GET", below(<<"list">>)),
     Call("getActivityByChannel", "GET", below(<<"listselect", Value>>)),
     Call("getActivity", "GET", below(<<Value>>)),
     Call("addActivity", "POST", below(<<>>)),
     Call("updateActivity", "PUT", below(<<>>)),
     Call("delActivity", "DELETE", below(<<Value>>)),
     Call("exportActivity", "GET", below(<<"export">>)),
     Call("passActivity", "PUT", below(<<"pass", Value>>)),
     Call("rejectActivity", "PUT", below(<<"reject", Value>>))}

BusinessCalls ==
    LET below(p) == <<"business">> \o p IN
    {Call("listBusiness", "GET", below(<<"list">>)),
     Call("listBusinessPool", "GET", below(<<"pool">>)),
     Call("getBusiness", "GET", below(<<Value>>)),
     Call("addBusiness", "POST", below(<<>>)),
     Call("updateBusiness", "PUT", below(<<>>)),
     Call("delBusiness", "DELETE", below(<<Value>>)),
     Call("exportBusiness", "GET", below(<<"export">>)),
     Call("assignmentBusiness", "PUT", below(<<"assignment">>)),
     Call("gainBusiness", "PUT", below(<<"gain">>)),
     Call("listBusinessRecord", "GET", below(<<"record", "list">>)),
     Call("addBusinessRecord", "POST", below(<<"record">>)),
     Call("backBusiness", "PUT", below(<<"back", Value, Value>>))}

ClueCalls ==
    LET below(p) == <<"clues">> \o p IN
    {Call("listClue", "GET", below(<<"clue", "list">>)),
     Call("listCluePool", "GET", below(<<"clue", "pool">>)),
     Call("getClue", "GET", below(<<"clue", Value>>)),
     Call("addClue", "POST", below(<<"clue">>)),
     Call("updateClue", "PUT", below(<<"clue">>)),
     Call("delClue", "DELETE", below(<<"clue", Value>>)),
     Call("exportClue", "GET", below(<<"clue", "export">>)),
     Call("assignmentClue", "PUT", below(<<"clue", "assignment">>)),
     Call("gainClue", "PUT", below(<<"clue", "gain">>)),
     Call("turnBusiness", "PUT", below(<<"clue", "changeBusiness", Value>>)),
     Call("reportClue", "PUT", below(<<"clue", "false", Value>>)),
     Call("listClueRecord", "GET", below(<<"record", "list">>)),
     Call("addClueRecord", "POST", below(<<"record">>))}

ContractCalls ==
    LET below(p) == <<"contract">> \o p IN
    {Call("listContract", "GET", below(<<"list">>)),
     Call("getContract", "GET", below(<<Value>>)),
     Call("getContractInfo", "GET", below(<<"detail", Value>>)),
     Call("addContract", "POST", below(<<>>)),
     Call("updateContract", "PUT", below(<<>>)),
     Call("delContract", "DELETE", below(<<Value>>)),
     Call("exportContract", "GET", below(<<"export">>)),
     Call("passContract", "PUT", below(<<"pass", Value>>)),
     Call("rejectContract", "PUT", below(<<"reject">>)),
     Call("changeContract", "PUT", below(<<"changeContract", Value>>))}

CourseCalls ==
    LET below(p) == <<"clues", "course">> \o p IN
    {Call("listCourse", "GET", below(<<"list">>)),
     Call("listCourseSelect", "GET", below(<<"listselect">>)),
     Call("getCourse", "GET", below(<<Value>>)),
     Call("addCourse", "POST", below(<<>>)),
     Call("updateCourse", "PUT", below(<<>>)),
     Call("delCourse", "DELETE", below(<<Value>>)),
     Call("exportCourse", "GET", below(<<"export">>))}

LoginCalls ==
    {Call("login", "POST", <<"login">>),
     Call("getInfo", "GET", <<"getInfo">>),
     Call("logout", "POST", <<"logout">>),
     Call("getCodeImg", "GET", <<"captchaImage">>)}

CluePoolCalls ==
    LET below(p) == <<"rule", "pool">> \o p IN
    {Call("addCluesRulePool", "POST", below(<<>>)),
     Call("updateCluesRulePool", "PUT", below(<<>>)),
     Call("getCluesRulePool", "GET", below(<<Value>>))}

ClueRuleCalls ==
    LET below(p) == <<"rule">> \o p IN
    {Call("addCluesRule", "POST", below(<<>>)),
     Call("listCluesRule", "GET", below(<<"list", Value>>)),
     Call("getCluesRule", "GET", below(<<Value>>)),
     Call("updateCluesRule", "PUT", below(<<>>)),
     Call("delCluesRule", "DELETE", below(<<Value>>)),
     Call("updateCluesRuleOrder", "PUT", below(<<"order">>))}

ConfigCalls ==
    LET below(p) == <<"system", "config">> \o p IN
    {Call("listConfig", "GET", below(<<"list">>)),
     Call("getConfig", "GET", below(<<Value>>)),
     Call("getConfigKey", "GET", below(<<"configKey", Value>>)),
     Call("addConfig", "POST", below(<<>>)),
     Call("updateConfig", "PUT", below(<<>>)),
     Call("delConfig", "DELETE", below(<<Value>>)),
     Call("clearCache", "DELETE", below(<<"clearCache">>)),
     Call("exportConfig", "GET", below(<<"export">>))}

DeptCalls ==
    LET below(p) == <<"system", "dept">> \o p IN
    {Call("listDept", "GET", below(<<"list">>)),
     Call("listDeptExcludeChild", "GET", below(<<"list", "exclude", Value>>)),
     Call("getDept", "GET", below(<<Value>>)),
     Call("treeselect", "GET", below(<<"treeselect">>)),
     Call("roleDeptTreeselect", "GET", below(<<"roleDeptTreeselect", Value>>)),
     Call("addDept", "POST", below(<<>>)),
     Call("updateDept", "PUT", below(<<>>)),
     Call("delDept", "DELETE", below(<<Value>>)),
     Call("deptAndUserTreeList", "GET", below(<<"treeAnduser">>))}

DictDataCalls ==
    LET below(p) == <<"system", "dict", "data">> \o p IN
    {Call("listData", "GET", below(<<"list">>)),
     Call("getData", "GET", below(<<Value>>)),
     Call("getDicts", "GET", below(<<"type", Value>>)),
     Call("addData", "POST", below(<<>>)),
     Call("updateData", "PUT", below(<<>>)),
     Call("delData", "DELETE", below(<<Value>>)),
     Call("exportData", "GET", below(<<"export">>))}

DictTypeCalls ==
    LET below(p) == <<"system", "dict", "type">> \o p IN
    {Call("listType", "GET", below(<<"list">>)),
     Call("getType", "GET", below(<<Value>>)),
     Call("addType", "POST", below(<<>>)),
     Call("updateType", "PUT", below(<<>>)),
     Call("delType", "DELETE", below(<<Value>>)),
     Call("clearCache", "DELETE", below(<<"clearCache">>)),
     Call("exportType", "GET", below(<<"export">>)),
     Call("optionselect", "GET", below(<<"optionselect">>))}

MenuCalls ==
    LET below(p) == <<"system", "menu">> \o p IN
    {Call("listMenu", "GET", below(<<"list">>)),
     Call("getMenu", "GET", below(<<Value>>)),
     Call("treeselect", "GET", below(<<"treeselect">>)),
     Call("roleMenuTreeselect", "GET", below(<<"roleMenuTreeselect", Value>>)),
     Call("addMenu", "POST", below(<<>>)),
     Call("updateMenu", "PUT", below(<<>>)),
     Call("delMenu", "DELETE", below(<<Value>>))}

NoticeCalls ==
    LET below(p) == <<"system", "notice">> \o p IN
    {Call("listNotice", "GET", below(<<"list">>)),
     Call("getNotice", "GET", below(<<Value>>)),
     Call("addNotice", "POST", below(<<>>)),
     Call("updateNotice", "PUT", below(<<>>)),
     Call("delNotice", "DELETE", below(<<Value>>))}

NoticeCenterCalls ==
    LET below(p) == <<"system", "notice">> \o p IN
    {Call("systemNoticePagelistStatus", "GET", below(<<"pagelist", Value>>)),
     Call("systemNoticeBynoticeId", "PUT", below(<<Value>>)),
     Call("allSystemNoticeListByStatus", "GET", below(<<"list", Value>>))}

PostCalls ==
    LET below(p) == <<"system", "post">> \o p IN
    {Call("listPost", "GET", below(<<"list">>)),
     Call("getPost", "GET", below(<<Value>>)),
     Call("addPost", "POST", below(<<>>)),
     Call("updatePost", "PUT", below(<<>>)),
     Call("delPost", "DELETE", below(<<Value>>)),
     Call("exportPost", "GET", below(<<"export">>)),
     Call("getAllPostList", "GET", below(<<"optionselect">>))}

RoleCalls ==
    LET below(p) == <<"system", "role">> \o p IN
    {Call("listRole", "GET", below(<<"list">>)),
     Call("getRole", "GET", below(<<Value>>)),
     Call("addRole", "POST", below(<<>>)),
     Call("updateRole", "PUT", below(<<>>)),
     Call("dataScope", "PUT", below(<<"dataScope">>)),
     Call("changeRoleStatus", "PUT", below(<<"changeStatus">>)),
     Call("delRole", "DELETE", below(<<Value>>)),
     Call("exportRole", "GET", below(<<"export">>)),
     Call("getRoleSelect", "GET", below(<<"optionselect">>))}

OperLogCalls ==
    LET below(p) == <<"monitor", "operlog">> \o p IN
    {Call("monitorOperlogByOperIds", "DELETE", below(<<Value>>)),
     Call("monitorOperlogClean", "DELETE", below(<<"clean">>)),
     Call("monitorOperlogExport", "GET", below(<<"export">>)),
     Call("monitorOperlogList", "GET", below(<<"list">>))}

UserCalls ==
    LET below(p) == <<"system", "user">> \o p IN
    {Call("listUser", "GET", below(<<"list">>)),
     Call("listUserSelect", "GET", below(<<"listselect">>)),
     Call("getUser", "GET", below(<<Value>>)),
     Call("addUser", "POST", below(<<>>)),
     Call("updateUser", "PUT", below(<<>>)),
     Call("delUser", "DELETE", below(<<Value>>)),
     Call("exportUser", "GET", below(<<"export">>)),
     Call("resetUserPwd", "PUT", below(<<"resetPwd">>)),
     Call("changeUserStatus", "PUT", below(<<"changeStatus">>)),
     Call("getUserProfile", "GET", below(<<"profile">>)),
     Call("updateUserProfile", "PUT", below(<<"profile">>)),
     Call("updateUserPwd", "PUT", below(<<"profile", "updatePwd">>)),
     Call("uploadAvatar", "POST", below(<<"profile", "avatar">>)),
     Call("importTemplate", "GET", below(<<"importTemplate">>))}

-----------------------------------------------------------------------------
(* The controllers *)

BusinessRoutes ==
    LET below(p) == <<"business">> \o p IN
    {Route("POST", below(<<>>)),
     Route("PUT", below(<<>>)),
     Route("PUT", below(<<"assignment">>)),
     Route("GET", below(<<"list">>)),
     Route("DELETE", below(<<Var>>)),
     Route("PUT", below(<<"back", Var, Var>>)),
     Route("GET", below(<<Var>>)),
     Route("GET", below(<<"pool">>)),
     Route("PUT", below(<<"gain">>))}

BusinessTrackRecordRoutes ==
    LET below(p) == <<"business", "record">> \o p IN
    {Route("POST", below(<<>>)),
     Route("GET", below(<<"list">>)),
     Route("GET", below(<<Var>>))}

ActivityRoutes ==
    LET below(p) == <<"clues", "activity">> \o p IN
    {Route("POST", below(<<>>)),
     Route("PUT", below(<<>>)),
     Route("GET", below(<<"list">>)),
     Route("GET", below(<<"listselect", Var>>)),
     Route("DELETE", below(<<Var>>)),
     Route("GET", below(<<Var>>))}

ClueRoutes ==
    LET below(p) == <<"clues", "clue">> \o p IN
    {Route("POST", below(<<>>)),
     Route("GET", below(<<Var>>)),
     Route("PUT", below(<<>>)),
     Route("GET", below(<<"list">>)),
     Route("PUT", below(<<"assignment">>)),
     Route("PUT", below(<<"false", Var>>)),
     Route("PUT", below(<<"changeBusiness", Var>>)),
     Route("PUT", below(<<"gain">>)),
     Route("GET", below(<<"pool">>))}

ClueTrackRecordRoutes ==
    LET below(p) == <<"clues", "record">> \o p IN
    {Route("GET", below(<<Var>>)),
     Route("GET", below(<<"list">>)),
     Route("POST", below(<<>>))}

CourseRoutes ==
    LET below(p) == <<"clues", "course">> \o p IN
    {Route("GET", below(<<Var>>)),
     Route("GET", below(<<"list">>)),
     Route("GET", below(<<"listselect">>)),
     Route("DELETE", below(<<Var>>)),
     Route("POST", below(<<>>)),
     Route("PUT", below(<<>>))}

CaptchaRoutes ==
    {Route("GET", <<"captchaImage">>)}

ContractRoutes ==
    LET below(p) == <<"contract">> \o p IN
    {Route("POST", below(<<>>)),
     Route("GET", below(<<"list">>)),
     Route("GET", below(<<"detail", Var>>)),
     Route("GET", below(<<Var>>)),
     Route("PUT", below(<<"changeContract", Var>>))}

OperlogRoutes ==
    LET below(p) == <<"monitor", "operlog">> \o p IN
    {Route("GET", below(<<"list">>)),
     Route("DELETE", below(<<Var>>)),
     Route("DELETE", below(<<"clean">>)),
     Route("GET", below(<<"export">>))}

RulePoolRoutes ==
    LET below(p) == <<"rule", "pool">> \o p IN
    {Route("GET", below(<<Var>>)),
     Route("PUT", below(<<>>))}

ConfigRoutes ==
    LET below(p) == <<"system", "config">> \o p IN
    {Route("GET", below(<<"list">>)),
     Route("GET", below(<<"export">>)),
     Route("GET", below(<<Var>>)),
     Route("GET", below(<<"configKey", Var>>)),
     Route("POST", below(<<>>)),
     Route("PUT", below(<<>>)),
     Route("DELETE", below(<<Var>>)),
     Route("DELETE", below(<<"clearCache">>))}

DeptRoutes ==
    LET below(p) == <<"system", "dept">> \o p IN
    {Route("GET", below(<<"list">>)),
     Route("POST", below(<<>>)),
     Route("GET", below(<<Var>>)),
     Route("PUT", below(<<>>)),
     Route("GET", below(<<"list", "exclude", Var>>)),
     Route("GET", below(<<"roleDeptTreeselect", Var>>)),
     Route("DELETE", below(<<Var>>)),
     Route("GET", below(<<"treeselect">>))}

DictDataRoutes ==
    LET below(p) == <<"system", "dict", "data">> \o p IN
    {Route("POST", below(<<>>)),
     Route("GET", below(<<"list">>)),
     Route("GET", below(<<"type", Var>>)),
     Route("DELETE", below(<<Var>>)),
     Route("PUT", below(<<>>)),
     Route("GET", below(<<Var>>)),
     Route("GET", below(<<"export">>))}

DictTypeRoutes ==
    LET below(p) == <<"system", "dict", "type">> \o p IN
    {Route("POST", below(<<>>)),
     Route("PUT", below(<<>>)),
     Route("GET", below(<<"list">>)),
     Route("DELETE", below(<<"clearCache">>)),
     Route("GET", below(<<"optionselect">>)),
     Route("GET", below(<<Var>>)),
     Route("DELETE", below(<<Var>>)),
     Route("GET", below(<<"export">>))}

LoginRoutes ==
    {Route("POST", <<"login">>),
     Route("GET", <<"getInfo">>),
     Route("GET", <<"getRouters">>)}

MenuRoutes ==
    LET below(p) == <<"system", "menu">> \o p IN
    {Route("GET", below(<<Var>>)),
     Route("GET", below(<<"list">>)),
     Route("GET", below(<<"treeselect">>)),
     Route("GET", below(<<"roleMenuTreeselect", Var>>)),
     Route("PUT", below(<<>>)),
     Route("POST", below(<<>>)),
     Route("DELETE", below(<<Var>>))}

NoticeRoutes ==
    LET below(p) == <<"system", "notice">> \o p IN
    {Route("GET", below(<<"list", Var>>)),
     Route("GET", below(<<"pagelist", Var>>)),
     Route("GET", below(<<Var>>)),
     Route("PUT", below(<<Var>>))}

ProfileRoutes ==
    LET below(p) == <<"system", "user", "profile">> \o p IN
    {Route("GET", below(<<>>)),
     Route("PUT", below(<<>>)),
     Route("PUT", below(<<"updatePwd">>)),
     Route("POST", below(<<"avatar">>))}

RoleRoutes ==
    LET below(p) == <<"system", "role">> \o p IN
    {Route("POST", below(<<>>)),
     Route("GET", below(<<"list">>)),
     Route("GET", below(<<Var>>)),
     Route("PUT", below(<<>>)),
     Route("PUT", below(<<"changeStatus">>)),
     Route("PUT", below(<<"dataScope">>)),
     Route("GET", below(<<"optionselect">>)),
     Route("DELETE", below(<<Var>>))}

UserRoutes ==
    LET below(p) == <<"system", "user">> \o p IN
    {Route("GET", below(<<"list">>)),
     Route("GET", below(<<"listselect">>)),
     Route("GET", below(<<"export">>)),
     Route("POST", below(<<"importData">>)),
     Route("GET", below(<<"importTemplate">>)),
     Route("GET", below(<<>>)),
     Route("GET", below(<<Var>>)),
     Route("POST", below(<<>>)),
     Route("PUT", below(<<>>)),
     Route("DELETE", below(<<Var>>)),
     Route("PUT", below(<<"resetPwd">>)),
     Route("PUT", below(<<"changeStatus">>))}

-----------------------------------------------------------------------------
(* Which route answers *)

Calls ==
    ActivityCalls \cup BusinessCalls \cup ClueCalls \cup
    ContractCalls \cup CourseCalls \cup LoginCalls \cup
    CluePoolCalls \cup ClueRuleCalls \cup ConfigCalls \cup
    DeptCalls \cup DictDataCalls \cup DictTypeCalls \cup MenuCalls \cup
    NoticeCalls \cup NoticeCenterCalls \cup PostCalls \cup
    RoleCalls \cup OperLogCalls \cup UserCalls

\* /logout is answered by the filter of Spring Security.
Routes ==
    {Route("POST", <<"logout">>)}
    \cup BusinessRoutes \cup BusinessTrackRecordRoutes \cup
    ActivityRoutes \cup ClueRoutes \cup ClueTrackRecordRoutes \cup
    CourseRoutes \cup CaptchaRoutes \cup ContractRoutes \cup
    OperlogRoutes \cup RulePoolRoutes \cup ConfigRoutes \cup
    DeptRoutes \cup DictDataRoutes \cup DictTypeRoutes \cup
    LoginRoutes \cup MenuRoutes \cup NoticeRoutes \cup
    ProfileRoutes \cup RoleRoutes \cup UserRoutes

Matches(r, c) ==
    /\ r.method = c.method
    /\ Len(r.path) = Len(c.path)
    /\ \A i \in DOMAIN r.path : r.path[i] = Var \/ r.path[i] = c.path[i]

Variables(r) == Cardinality({i \in DOMAIN r.path : r.path[i] = Var})

\* Of the routes that match a call, the one with the fewest variables.
Best(c) ==
    LET match == {r \in Routes : Matches(r, c)}
    IN  {r \in match : \A s \in match : Variables(r) <= Variables(s)}

\* The route written for the call: its variables stand where the call fills in
\* values, and only there.
Own(c) ==
    {r \in Routes : /\ Matches(r, c)
                    /\ \A i \in DOMAIN r.path : r.path[i] = Var <=> c.path[i] = Value}

\* Where a call leads, which does not depend on the state of the server: at most
\* one route.
Leads(c) == Best(c)

\* The calls with the routes they lead to and the routes they are meant for.
Requests == {[call |-> c, leads |-> Leads(c), meant |-> Own(c)] : c \in Calls}
=============================================================================
