------------------------------ MODULE WebForms ------------------------------
(***************************************************************************)
(* The pages of the web interface that change the configuration, and the   *)
(* session they are used in.  The router mounts one page at a time and a   *)
(* page shares nothing with the next one but the server: a behavior is     *)
(* that of one page, chosen at the start, with every order of its          *)
(* handlers, of the server's work and of the answers.                      *)
(***************************************************************************)
EXTENDS ListEditors, UsersPage, DevicePages, PolicyPage, PolicyTools, PolicyDraft,
        SettingFields, StatusPages, WebSession

VARIABLE page

(* The state of a page that is not mounted.  The draft is that of a new    *)
(* policy, and the session that of a browser tab just opened.              *)
ListOff ==
  /\ editor = None /\ stored = None /\ data = None /\ nextId = None /\ loading = None
  /\ loadFailed = None /\ load = None /\ saving = None /\ saves = None /\ post = None
  /\ editingRowId = None /\ editingText = None /\ showForm = None /\ editingUid = None
  /\ pendingDelete = None /\ nextUid = None /\ blind = None /\ unconfirmed = None
UsersOff == users = None /\ usersNet = None /\ accounts = None
DevicesOff == devicesUi = None /\ devicesNet = None /\ inventory = None
PoliciesOff == policies = None /\ policiesNet = None /\ policyStore = None
ToolsOff == tab = None /\ tool = None /\ toolNet = None /\ gatewayCategories = None
DraftOff == draft = emptyGroup(FALSE) /\ advanced = Opened(draft)
FieldsOff == control = None /\ field = None /\ fieldNet = None /\ setting = None
StatusOff == statusPage = None /\ shown = None /\ statusNet = None /\ gateway = None
SessionOff ==
  /\ session = Loaded("/", None, {}, FALSE)
  /\ sessionNet = None
  /\ auth = [complete |-> FALSE, generation |-> 0]

DevicePageNames == {"device list", "device policy", "device connections"}
Pages == {"lists", "users", "policies", "tools", "draft", "fields", "status", "session"}
         \cup DevicePageNames

WebInit ==
  /\ page \in Pages
  /\ IF page = "lists" THEN ListInit ELSE ListOff
  /\ IF page = "users" THEN UsersInit ELSE UsersOff
  /\ CASE page = "device list" -> ListPageInit
       [] page = "device policy" -> PolicyTabInit
       [] page = "device connections" -> PeersTabInit
       [] OTHER -> DevicesOff
  /\ IF page = "policies" THEN PoliciesInit ELSE PoliciesOff
  /\ IF page = "tools" THEN ToolsInit ELSE ToolsOff
  /\ IF page = "draft" THEN DraftInit ELSE DraftOff
  /\ IF page = "fields" THEN FieldsInit ELSE FieldsOff
  /\ IF page = "status" THEN StatusInit ELSE StatusOff
  /\ IF page = "session" THEN SessionInit ELSE SessionOff

webVars == <<page, listVars, usersVars, devicesVars, policiesVars, toolVars, draftVars,
             fieldVars, statusVars, sessionVars>>

WebNext ==
  /\ UNCHANGED page
  /\ \/ page = "lists" /\ ListNext
     \/ page # "lists" /\ UNCHANGED listVars
  /\ \/ page = "users" /\ UsersNext
     \/ page # "users" /\ UNCHANGED usersVars
  /\ \/ page = "device list" /\ ListPageNext
     \/ page = "device policy" /\ PolicyTabNext
     \/ page = "device connections" /\ PeersTabNext
     \/ page \notin DevicePageNames /\ UNCHANGED devicesVars
  /\ \/ page = "policies" /\ PoliciesNext
     \/ page # "policies" /\ UNCHANGED policiesVars
  /\ \/ page = "tools" /\ ToolsNext
     \/ page # "tools" /\ UNCHANGED toolVars
  /\ \/ page = "draft" /\ DraftNext
     \/ page # "draft" /\ UNCHANGED draftVars
  /\ \/ page = "fields" /\ FieldsNext
     \/ page # "fields" /\ UNCHANGED fieldVars
  /\ \/ page = "status" /\ StatusNext
     \/ page # "status" /\ UNCHANGED statusVars
  /\ \/ page = "session" /\ SessionNext
     \/ page # "session" /\ UNCHANGED sessionVars

WebSpec == WebInit /\ [][WebNext]_webVars

(***************************************************************************)
(* Properties of every page.  Those of one page are in its module.         *)
(***************************************************************************)
(* With no request under way, what a page shows is what the server has,    *)
(* whichever handlers ran, in whatever order their requests were served    *)
(* and answered.  Each page's part names the exceptions the code makes:    *)
(* a request failed or its answer was lost, or two requests that end in    *)
(* the same field were under way together; an API key is not told, a URL   *)
(* that was refused shows as saved, and a count of blocked domains is that *)
(* of the last reading.                                                    *)
ScreenIsStored ==
  CASE page = "lists" -> ListsAgree
    [] page = "users" -> UsersAgree
    [] page = "device list" -> ListPageAgrees
    [] page = "device policy" -> PolicyTabAgrees
    [] page = "device connections" -> PeersTabAgrees
    [] page = "policies" -> PoliciesAgree
    [] page = "tools" -> ToolsAgree
    [] page = "fields" -> FieldsAgree
    [] page = "status" -> StatusAgrees
    [] OTHER -> TRUE

(* A control that is disabled, or a spinner that turns, while something    *)
(* loads or saves has a request under way whose answer releases it: no     *)
(* failure, closed dialog or overlapping request leaves one behind.  The   *)
(* one exception is named in FieldsBusy: the spinner of a switch stays     *)
(* when the load of its setting failed (toggle.svelte).                    *)
BusyHasRequest ==
  CASE page = "lists" -> ListsBusy
    [] page = "users" -> UsersBusy
    [] page = "device list" -> ListPageBusy
    [] page = "device policy" -> PolicyTabBusy
    [] page = "device connections" -> PeersTabBusy
    [] page = "policies" -> PoliciesBusy
    [] page = "tools" -> ToolsBusy
    [] page = "fields" -> FieldsBusy
    [] page = "status" -> StatusBusy
    [] page = "session" -> SessionBusy
    [] OTHER -> TRUE
=============================================================================
