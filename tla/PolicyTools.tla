----------------------------- MODULE PolicyTools -----------------------------
(***************************************************************************)
(* The other two tabs of the policies page (policygroups.svelte): the site *)
(* tester, and the categories blocked for everyone with the control that   *)
(* selects them (categoryselect.svelte).                                   *)
(***************************************************************************)
EXTENDS WebCommon

CONSTANTS Targets,       \* domains and URLs to test
          Categories,    \* categories of the feeds
          MaxToolOps     \* bound: requests of the administrator

ASSUME ToolsAssumption == MaxToolOps \in Nat

VARIABLES tab, tool, toolNet,
          gatewayCategories   \* on the server

toolVars == <<tab, tool, toolNet, gatewayCategories>>

ToolsInit ==
  /\ gatewayCategories = {}
  /\ toolNet = {}
  /\ \/ /\ tab = "test"
        /\ tool = [testTarget |-> None, testing |-> FALSE, testResult |-> None, testError |-> FALSE,
                   lastAsked |-> None, ops |-> 0, behind |-> FALSE]
     \/ /\ tab = "defaults"
        /\ tool = [categories |-> {}, gatewaySelection |-> {}, savingCategories |-> FALSE,
                   error |-> FALSE, ops |-> 0, behind |-> FALSE]

(* behind: two tests overlapped, or the answer to a save was lost.         *)
AskTool(ui, op, args) ==
  /\ tool.ops < MaxToolOps
  /\ tool' = [ui EXCEPT !.ops = @ + 1, !.behind = (tab = "defaults" /\ @) \/ toolNet # {}]
  /\ toolNet' = Send(toolNet, op, args)
  /\ UNCHANGED <<tab, gatewayCategories>>

ToolRests(ui, r) ==
  /\ tool' = ui
  /\ toolNet' = toolNet \ {r}
  /\ UNCHANGED <<tab, gatewayCategories>>

TypeTarget(t) ==
  /\ tab = "test" /\ t # tool.testTarget
  /\ tool' = [tool EXCEPT !.testTarget = t]
  /\ UNCHANGED <<tab, toolNet, gatewayCategories>>

(* runTest.  The button waits for the answer, Enter in the field does not. *)
runTest ==
  /\ tab = "test" /\ tool.testTarget # None
  /\ AskTool([tool EXCEPT !.testing = TRUE, !.testError = FALSE, !.testResult = None,
                          !.lastAsked = tool.testTarget],
             "preview", [target |-> tool.testTarget])

testAnswered(r, ok) ==
  /\ r.op = "preview"
  /\ ToolRests([tool EXCEPT !.testing = FALSE, !.testResult = IF ok THEN r.args.target ELSE @,
                            !.testError = IF ok THEN @ ELSE TRUE], r)

(* toggle of the control: a change that changes nothing is not announced.  *)
ToggleCategory(c) ==
  /\ tab = "defaults" /\ ~tool.savingCategories
  /\ tool' = [tool EXCEPT !.gatewaySelection = IF c \in @ THEN @ \ {c} ELSE @ \cup {c}]
  /\ UNCHANGED <<tab, toolNet, gatewayCategories>>

saveGatewayCategories ==
  /\ tab = "defaults" /\ ~tool.savingCategories
  /\ AskTool([tool EXCEPT !.savingCategories = TRUE, !.error = FALSE],
             "categories", [value |-> tool.gatewaySelection])

categoriesSaved(r, ok) ==
  /\ r.op = "categories" /\ (ok => r.done)
  /\ ToolRests(IF ok THEN [tool EXCEPT !.savingCategories = FALSE, !.categories = r.snap,
                                       !.gatewaySelection = r.snap, !.behind = FALSE]
               ELSE [tool EXCEPT !.savingCategories = FALSE, !.error = TRUE, !.behind = @ \/ r.done], r)

ServeTool(r) ==
  /\ ~r.done /\ r.op = "categories"
  /\ gatewayCategories' = r.args.value
  /\ toolNet' = Served(toolNet, r, r.args.value)
  /\ UNCHANGED <<tab, tool>>

ToolsNext ==
  \/ \E t \in Targets : TypeTarget(t)
  \/ runTest
  \/ \E c \in Categories : ToggleCategory(c)
  \/ saveGatewayCategories
  \/ \E r \in toolNet :
       \/ ServeTool(r)
       \/ \E ok \in BOOLEAN : testAnswered(r, ok) \/ categoriesSaved(r, ok)

(* The result on the screen is that of the last test, and the categories   *)
(* are the stored ones, once no request is under way.                      *)
ToolsAgree ==
  toolNet = {} /\ ~tool.behind =>
    IF tab = "test" THEN tool.testResult \in {None, tool.lastAsked}
    ELSE tool.categories = gatewayCategories

ToolsBusy ==
  IF tab = "test" THEN tool.testing => toolNet # {}
  ELSE tool.savingCategories <=> toolNet # {}
=============================================================================
