----------------------------- MODULE PolicyPage -----------------------------
(***************************************************************************)
(* The policies page (src/ui/src/routes/rules/policygroups.svelte): the    *)
(* policies with their drafts, and the devices assigned to them.  One flag *)
(* (saving) covers every save, but closing the tag of a device and the     *)
(* Cancel and Start-blank buttons do not look at it, so that saves can     *)
(* overlap and an answer can meet another editor than the one it left.     *)
(* What a draft holds is the matter of PolicyDraft.                        *)
(***************************************************************************)
EXTENDS WebCommon, Functions

CONSTANTS DefaultGroup,  \* DEFAULT_GROUP_ID
          Starter,       \* the policy that the one template adds
          OwnPolicy,     \* a policy the administrator made before
          NewPolicy,     \* the policy that "Create policy" adds
          Contents,      \* what a policy can say
          PolicyDevices, \* the devices
          MaxPolicyOps   \* bound: requests of the administrator

ASSUME PolicyPageAssumption ==
  /\ Cardinality({DefaultGroup, Starter, OwnPolicy, NewPolicy}) = 4
  /\ MaxPolicyOps \in Nat

VARIABLES policies,     \* the state of the page
          policiesNet,  \* its requests
          policyStore   \* on the server: the policies, and the policy of each device

policiesVars == <<policies, policiesNet, policyStore>>

WithGroup(groups, id, content) == [g \in DOMAIN groups \cup {id} |-> IF g = id THEN content ELSE groups[g]]

PoliciesInit ==
  /\ policyStore = [groups |-> [g \in {DefaultGroup, OwnPolicy} |-> CHOOSE c \in Contents : TRUE],
                    assign |-> [d \in PolicyDevices |-> OwnPolicy]]
  /\ policiesNet = Send({}, "load", None)
  /\ policies = [groups |-> <<>>, assignments |-> <<>>, loading |-> TRUE, saving |-> FALSE,
                 error |-> FALSE,
                 editing |-> None,       \* editingGroupId: "choose", "new" or a policy
                 draft |-> None,         \* the draft, once something is typed
                 deletingGroup |-> None, dialog |-> FALSE, ops |-> 0,
                 behind |-> FALSE,       \* assignments: loads overlapped, failed, or a write got lost
                 groupsBehind |-> FALSE] \* groups: writes overlapped, or an answer was lost

(* load: five requests and three more that may fail, answered together.    *)
PoliciesLoaded(r, ok) ==
  /\ r.op = "load" /\ (ok => r.done)
  /\ policies' = [policies EXCEPT !.loading = FALSE, !.error = ~ok,
                    !.groups = IF ok THEN r.snap.groups ELSE @,
                    !.assignments = IF ok THEN r.snap.assign ELSE @,
                    !.behind = ~ok, !.groupsBehind = ~ok]
  /\ policiesNet' = policiesNet \ {r}
  /\ UNCHANGED policyStore

(* What the markup offers.  The row of the policy being edited is its form *)
(* instead; the starter panel leaves the rows where they are.              *)
Idle == ~policies.loading /\ ~policies.dialog
RowsShown == IF Idle THEN DOMAIN policies.groups \ {policies.editing} ELSE {}
FormShown == Idle /\ policies.editing \in {"new"} \cup DOMAIN policies.groups

openCreate ==
  /\ Idle /\ ~policies.saving
  /\ policies' = [policies EXCEPT !.editing = "choose", !.draft = None]
  /\ UNCHANGED <<policiesNet, policyStore>>

beginCreate ==
  /\ Idle /\ policies.editing = "choose"
  /\ policies' = [policies EXCEPT !.editing = "new", !.draft = None]
  /\ UNCHANGED <<policiesNet, policyStore>>

beginEdit(g) ==
  /\ g \in RowsShown /\ ~policies.saving
  /\ policies' = [policies EXCEPT !.editing = g, !.draft = policies.groups[g]]
  /\ UNCHANGED <<policiesNet, policyStore>>

cancelEdit(ui) == [ui EXCEPT !.editing = None, !.draft = None]

CancelDraft ==
  /\ Idle /\ policies.editing # None
  /\ policies' = cancelEdit(policies)
  /\ UNCHANGED <<policiesNet, policyStore>>

TypeDraft(c) ==
  /\ FormShown /\ c # policies.draft
  /\ policies' = [policies EXCEPT !.draft = c]
  /\ UNCHANGED <<policiesNet, policyStore>>

GroupWrites == {"save", "apply", "delete"}

AskPolicies(op, args) ==
  /\ policies.ops < MaxPolicyOps
  /\ policies' = [policies EXCEPT !.ops = @ + 1, !.saving = TRUE, !.error = FALSE,
                    !.groupsBehind = @ \/ (op \in GroupWrites /\ InFlight(policiesNet, GroupWrites))]
  /\ policiesNet' = Send(policiesNet, op, args)
  /\ UNCHANGED policyStore

(* saveGroup: a draft without a name is refused on the spot.               *)
saveGroup ==
  /\ FormShown /\ ~policies.saving
  /\ IF policies.draft = None
     THEN /\ policies' = [policies EXCEPT !.error = TRUE]
          /\ UNCHANGED <<policiesNet, policyStore>>
     ELSE AskPolicies("save", [id |-> policies.editing, content |-> policies.draft])

groupSaved(r, ok) ==
  /\ r.op = "save" /\ (ok => r.done)
  /\ policies' = IF ok
       THEN [cancelEdit(policies) EXCEPT !.saving = FALSE,
               !.groups = IF r.args.id = "new" THEN WithGroup(@, NewPolicy, r.args.content)
                          ELSE [g \in DOMAIN @ |-> IF g = r.args.id THEN r.args.content ELSE @[g]]]
       ELSE [policies EXCEPT !.saving = FALSE, !.error = TRUE, !.groupsBehind = @ \/ r.done]
  /\ policiesNet' = policiesNet \ {r}
  /\ UNCHANGED policyStore

applyTemplate ==
  /\ Idle /\ policies.editing = "choose"
  /\ ~policies.saving /\ Starter \notin DOMAIN policies.groups
  /\ AskPolicies("apply", None)

(* The answer opens the editor on the new policy, over whatever is open.   *)
templateApplied(r, ok) ==
  /\ r.op = "apply" /\ (ok => r.done)
  /\ policies' = IF ok
       THEN [policies EXCEPT !.saving = FALSE, !.editing = Starter, !.draft = r.snap,
               !.groups = WithGroup(@, Starter, r.snap)]
       ELSE [policies EXCEPT !.saving = FALSE, !.error = TRUE, !.groupsBehind = @ \/ r.done]
  /\ policiesNet' = policiesNet \ {r}
  /\ UNCHANGED policyStore

openDeleteGroup(g) ==
  /\ g \in RowsShown \ {DefaultGroup} /\ ~policies.saving
  /\ policies' = [policies EXCEPT !.deletingGroup = g, !.dialog = TRUE]
  /\ UNCHANGED <<policiesNet, policyStore>>

(* The modal disappears; the page forgets the policy unless it is saving.  *)
closeDeleteGroup ==
  /\ policies.dialog
  /\ policies' = [policies EXCEPT !.dialog = FALSE,
                                  !.deletingGroup = IF policies.saving THEN @ ELSE None]
  /\ UNCHANGED <<policiesNet, policyStore>>

confirmDeleteGroup ==
  /\ policies.dialog /\ policies.deletingGroup # None /\ ~policies.saving
  /\ AskPolicies("delete", [id |-> policies.deletingGroup])

reloadAssignments(ui, net) ==
  /\ policies' = [ui EXCEPT !.behind = InFlight(net, {"assignments"})]
  /\ policiesNet' = Send(net, "assignments", None)

\* Mutant: assignments are not read again after a policy is deleted.
GroupDeletedNoReload(r, ok) ==
  /\ r.op = "delete" /\ (ok => r.done)
  /\ policies' = [policies EXCEPT !.saving = FALSE, !.deletingGroup = None, !.dialog = FALSE,
                    !.groups = IF ok THEN Restrict(@, DOMAIN @ \ {r.args.id}) ELSE @,
                    !.behind = @ \/ (~ok /\ r.done), !.groupsBehind = @ \/ (~ok /\ r.done)]
  /\ policiesNet' = policiesNet \ {r}
  /\ UNCHANGED policyStore

groupDeleted(r, ok) ==
  /\ r.op = "delete" /\ (ok => r.done)
  /\ IF ok
     THEN reloadAssignments([policies EXCEPT !.deletingGroup = None, !.dialog = FALSE,
                               !.groups = Restrict(@, DOMAIN @ \ {r.args.id})],
                            policiesNet \ {r})
     ELSE /\ policies' = [policies EXCEPT !.saving = FALSE, !.error = TRUE,
                            !.behind = @ \/ r.done, !.groupsBehind = @ \/ r.done]
          /\ policiesNet' = policiesNet \ {r}
  /\ UNCHANGED policyStore

assignedByGroup(g) == {d \in DOMAIN policies.assignments : policies.assignments[d] = g}

(* The cross of a device's tag, which does not look at saving.             *)
setDevicePolicy(d) ==
  /\ \E g \in RowsShown \ {DefaultGroup} : d \in assignedByGroup(g)
  /\ AskPolicies("assign", [devices |-> {d}, to |-> DefaultGroup, written |-> FALSE])

assignSelectedDevices(g, ds) ==
  /\ g \in RowsShown \ {DefaultGroup} /\ ~policies.saving
  /\ ds # {} /\ ds \cap assignedByGroup(g) = {}
  /\ AskPolicies("assign", [devices |-> ds, to |-> g, written |-> FALSE])

(* writeDevicePolicy, one device after the other; the first failure ends   *)
(* the loop without a reload.  Which device is next is the server's step.  *)
devicesWritten(r, ok) ==
  /\ r.op = "assign" /\ (ok => r.done)
  /\ IF ~ok
     THEN /\ policies' = [policies EXCEPT !.saving = FALSE, !.error = TRUE,
                            !.behind = @ \/ r.done \/ r.args.written]
          /\ policiesNet' = policiesNet \ {r}
     ELSE IF r.args.devices # {}
     THEN /\ policiesNet' = Send(policiesNet \ {r}, "assign", [r.args EXCEPT !.written = TRUE])
          /\ UNCHANGED policies
     ELSE reloadAssignments(policies, policiesNet \ {r})
  /\ UNCHANGED policyStore

AssignmentsLoaded(r, ok) ==
  /\ r.op = "assignments" /\ (ok => r.done)
  /\ policies' = [policies EXCEPT !.saving = FALSE, !.error = @ \/ ~ok,
                    !.assignments = IF ok THEN r.snap.assign ELSE @,
                    !.behind = @ \/ ~ok]
  /\ policiesNet' = policiesNet \ {r}
  /\ UNCHANGED policyStore

(* The server.  What names a policy that is gone is refused.               *)
ServePolicies(r) ==
  /\ ~r.done
  /\ CASE r.op \in {"load", "assignments"} ->
            /\ policiesNet' = Served(policiesNet, r, policyStore)
            /\ UNCHANGED policyStore
       [] r.op = "save" ->
            /\ r.args.id = "new" \/ r.args.id \in DOMAIN policyStore.groups
            /\ policyStore' = [policyStore EXCEPT !.groups =
                 WithGroup(@, IF r.args.id = "new" THEN NewPolicy ELSE r.args.id, r.args.content)]
            /\ policiesNet' = Served(policiesNet, r, Unread)
       [] r.op = "apply" ->
            \E c \in Contents :
              /\ policyStore' = [policyStore EXCEPT !.groups = WithGroup(@, Starter, c)]
              /\ policiesNet' = Served(policiesNet, r, c)
       [] r.op = "delete" ->
            /\ policyStore' = [groups |-> Restrict(policyStore.groups, DOMAIN policyStore.groups \ {r.args.id}),
                               assign |-> [d \in PolicyDevices |->
                                 IF policyStore.assign[d] = r.args.id THEN DefaultGroup ELSE policyStore.assign[d]]]
            /\ policiesNet' = Served(policiesNet, r, Unread)
       [] r.op = "assign" ->
            /\ r.args.to \in DOMAIN policyStore.groups
            /\ \E d \in r.args.devices :
                 /\ policyStore' = [policyStore EXCEPT !.assign[d] = r.args.to]
                 /\ policiesNet' = Served(policiesNet \ {r}, [r EXCEPT !.args.devices = @ \ {d}], Unread)
  /\ UNCHANGED policies

PoliciesNext ==
  \/ openCreate \/ beginCreate \/ CancelDraft \/ saveGroup \/ applyTemplate
  \/ closeDeleteGroup \/ confirmDeleteGroup
  \/ \E g \in DOMAIN policies.groups :
       \/ beginEdit(g) \/ openDeleteGroup(g)
       \/ \E ds \in SUBSET PolicyDevices : assignSelectedDevices(g, ds)
  \/ \E c \in Contents : TypeDraft(c)
  \/ \E d \in PolicyDevices : setDevicePolicy(d)
  \/ \E r \in policiesNet :
       \/ ServePolicies(r)
       \/ \E ok \in BOOLEAN :
            \/ PoliciesLoaded(r, ok) \/ groupSaved(r, ok) \/ templateApplied(r, ok)
            \/ groupDeleted(r, ok) \/ devicesWritten(r, ok) \/ AssignmentsLoaded(r, ok)

(* Between requests the page shows the policies and assignments of the     *)
(* server, and what shows as under way is.                                 *)
PoliciesAgree ==
  policiesNet = {} =>
    /\ policies.groupsBehind \/ policies.groups = policyStore.groups
    /\ policies.behind \/ policies.assignments = policyStore.assign

PoliciesBusy ==
  /\ policies.loading => InFlight(policiesNet, {"load"})
  /\ policies.saving => policiesNet # {}
=============================================================================
