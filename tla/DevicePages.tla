----------------------------- MODULE DevicePages -----------------------------
(***************************************************************************)
(* The device list (devicelist.svelte) and the tabs of the device dialog   *)
(* (devicedetail.svelte) that change something: labels, policy, Tailscale  *)
(* connections.  The Activity tab is DeviceActivity.  The dialog is        *)
(* destroyed when it closes; its saves go on and still report to the list. *)
(***************************************************************************)
EXTENDS WebCommon

CONSTANTS Labels,        \* names that can be given to a device
          PolicyIds,     \* the policies, without the default
          DefaultPolicy,
          Peers,         \* Tailscale nodes
          MaxDeviceOps   \* bound: requests of the administrator and of the timer

ASSUME DevicePagesAssumption == DefaultPolicy \notin PolicyIds /\ MaxDeviceOps \in Nat

VARIABLES devicesUi,   \* the state of the component
          devicesNet,  \* its requests
          inventory    \* on the server: the label, policy and peers of one device

devicesVars == <<devicesUi, devicesNet, inventory>>

AskDevices(ui, op, args) ==
  /\ devicesUi.ops < MaxDeviceOps
  /\ devicesUi' = [ui EXCEPT !.ops = @ + 1]
  /\ devicesNet' = Send(devicesNet, op, args)
  /\ UNCHANGED inventory

Reads == {"devices", "policy", "peers"}

(* The server, for all of them.  A peer is linked to one device at most.   *)
ServeDevices(r) ==
  /\ ~r.done
  /\ inventory' = CASE r.op = "name" -> [inventory EXCEPT !.label = r.args.label]
                    [] r.op = "remove" -> [inventory EXCEPT !.present = FALSE]
                    [] r.op = "assignment" -> [inventory EXCEPT !.policy = r.args.policy]
                    [] r.op = "link" -> [inventory EXCEPT !.peers = @ \cup {r.args.peer}]
                    [] r.op = "unlink" -> [inventory EXCEPT !.peers = @ \ {r.args.peer}]
                    [] OTHER -> inventory
  /\ devicesNet' = Served(devicesNet, r, IF r.op \in Reads THEN inventory ELSE Unread)
  /\ UNCHANGED devicesUi

Failed(r) == [devicesUi EXCEPT !.error = TRUE, !.behind = @ \/ r.done]

(***************************************************************************)
(* The list, with its refresh every thirty seconds, the removal of a       *)
(* device and the saving of its labels in the dialog.                      *)
(***************************************************************************)
ListPageInit ==
  /\ inventory \in [present : BOOLEAN, label : Labels, policy : {DefaultPolicy}, peers : {{}}]
  /\ devicesNet = Send({}, "devices", [by |-> "mount"])
  /\ devicesUi = [devices |-> None,   \* the device as last listed
                  loading |-> TRUE, loaded |-> FALSE, error |-> FALSE, ops |-> 0,
                  detail |-> 0,       \* dialogs opened so far
                  detailOpen |-> FALSE, saving |-> FALSE,
                  pendingRemoval |-> FALSE, dialog |-> FALSE, removing |-> FALSE,
                  behind |-> FALSE]

listOffered ==
  LET covered == devicesUi.detailOpen \/ devicesUi.dialog IN
  [refresh |-> ~covered /\ ~devicesUi.loading,
   row     |-> ~covered /\ devicesUi.devices # None,
   save    |-> devicesUi.detailOpen /\ ~devicesUi.saving,
   confirm |-> devicesUi.dialog /\ ~devicesUi.removing]

loadDevicesFrom(ui, net, by) ==
  /\ devicesUi' = [ui EXCEPT !.loading = TRUE, !.error = FALSE,
                             !.behind = InFlight(net, {"devices"})]
  /\ devicesNet' = Send(net, "devices", [by |-> by])

(* "Refresh", or the interval timer, which does not look at loading.       *)
RefreshDevices(by) ==
  /\ by = "button" => listOffered.refresh
  /\ devicesUi.ops < MaxDeviceOps
  /\ loadDevicesFrom([devicesUi EXCEPT !.ops = @ + 1], devicesNet, by)
  /\ UNCHANGED inventory

(* The rest of loadDevices.  An answer that the service is not available   *)
(* empties the list.                                                       *)
DevicesLoaded(r, answer) ==
  /\ r.op = "devices" /\ (answer = "ok" => r.done)
  /\ devicesUi' =
       [devicesUi EXCEPT !.loading = FALSE, !.loaded = TRUE,
          !.removing = @ /\ r.args.by # "remove",
          !.devices = CASE answer = "ok" -> IF r.snap.present THEN r.snap.label ELSE None
                        [] answer = "unavailable" -> None
                        [] OTHER -> @,
          !.error = @ \/ answer = "error",
          !.behind = @ \/ answer # "ok"]
  /\ devicesNet' = devicesNet \ {r}
  /\ UNCHANGED inventory

openDetailDialog ==
  /\ listOffered.row
  /\ devicesUi' = [devicesUi EXCEPT !.detailOpen = TRUE, !.saving = FALSE, !.detail = @ + 1]
  /\ devicesUi.detail < MaxDeviceOps
  /\ UNCHANGED <<devicesNet, inventory>>

closeDetailDialog(ui) == [ui EXCEPT !.detailOpen = FALSE, !.saving = FALSE]

CloseDetail ==
  /\ devicesUi.detailOpen
  /\ devicesUi' = closeDetailDialog(devicesUi)
  /\ UNCHANGED <<devicesNet, inventory>>

saveLabels(label) ==
  /\ listOffered.save
  /\ AskDevices([devicesUi EXCEPT !.saving = TRUE, !.error = FALSE], "name",
         [label |-> label, detail |-> devicesUi.detail])

(* The rest of save, and handleNameSaved: the list closes whatever dialog  *)
(* is open.  Only the dialog that saved has its own saving reset.          *)
handleNameSaved(r, ok) ==
  /\ r.op = "name" /\ (ok => r.done)
  /\ IF ok THEN loadDevicesFrom(closeDetailDialog(devicesUi), devicesNet \ {r}, "save")
     ELSE /\ devicesUi' = IF devicesUi.detailOpen /\ r.args.detail = devicesUi.detail
                          THEN [Failed(r) EXCEPT !.saving = FALSE]
                          ELSE [devicesUi EXCEPT !.behind = @ \/ r.done]
          /\ devicesNet' = devicesNet \ {r}
  /\ UNCHANGED inventory

requestRemoval ==
  /\ listOffered.row
  /\ devicesUi' = [devicesUi EXCEPT !.pendingRemoval = TRUE, !.dialog = TRUE]
  /\ UNCHANGED <<devicesNet, inventory>>

CloseRemoval ==
  /\ devicesUi.dialog
  /\ devicesUi' = [devicesUi EXCEPT !.dialog = FALSE, !.pendingRemoval = devicesUi.removing]
  /\ UNCHANGED <<devicesNet, inventory>>

confirmRemoval ==
  /\ listOffered.confirm /\ devicesUi.pendingRemoval
  /\ AskDevices([devicesUi EXCEPT !.removing = TRUE, !.error = FALSE], "remove", None)

removalDone(r, ok) ==
  /\ r.op = "remove" /\ (ok => r.done)
  /\ IF ok THEN loadDevicesFrom([devicesUi EXCEPT !.pendingRemoval = FALSE, !.dialog = FALSE],
                                devicesNet \ {r}, "remove")
     ELSE /\ devicesUi' = [Failed(r) EXCEPT !.removing = FALSE]
          /\ devicesNet' = devicesNet \ {r}
  /\ UNCHANGED inventory

ListPageNext ==
  \/ \E by \in {"button", "timer"} : RefreshDevices(by)
  \/ openDetailDialog \/ CloseDetail \/ requestRemoval \/ CloseRemoval \/ confirmRemoval
  \/ \E label \in Labels : saveLabels(label)
  \/ \E r \in devicesNet :
       \/ ServeDevices(r)
       \/ \E answer \in {"ok", "unavailable", "error"} : DevicesLoaded(r, answer)
       \/ \E ok \in BOOLEAN : handleNameSaved(r, ok) \/ removalDone(r, ok)

(***************************************************************************)
(* The Policy tab.                                                         *)
(***************************************************************************)
PolicyTabInit ==
  /\ inventory \in [present : {TRUE}, label : {None},
                    policy : PolicyIds \cup {DefaultPolicy}, peers : {{}}]
  /\ devicesNet = Send({}, "policy", [by |-> "open"])
  /\ devicesUi = [selectedGroup |-> DefaultPolicy, policyView |-> None,
                  policyLoading |-> TRUE, assignmentSaving |-> FALSE, assignmentSaved |-> FALSE,
                  error |-> FALSE, ops |-> 0,
                  groups |-> FALSE,   \* loadGroups has answered
                  behind |-> FALSE]

(* loadGroups: what the select offers besides the default policy.          *)
GroupsLoaded ==
  /\ ~devicesUi.groups
  /\ devicesUi' = [devicesUi EXCEPT !.groups = TRUE]
  /\ UNCHANGED <<devicesNet, inventory>>

policyOffered ==
  [select |-> IF devicesUi.assignmentSaving THEN {}
              ELSE {DefaultPolicy} \cup (IF devicesUi.groups THEN PolicyIds ELSE {}),
   save   |-> ~devicesUi.assignmentSaving]

SelectPolicy(p) ==
  /\ p \in policyOffered.select
  /\ p # devicesUi.selectedGroup
  /\ devicesUi' = [devicesUi EXCEPT !.selectedGroup = p]
  /\ UNCHANGED <<devicesNet, inventory>>

saveAssignment ==
  /\ policyOffered.save
  /\ AskDevices([devicesUi EXCEPT !.assignmentSaving = TRUE, !.assignmentSaved = FALSE, !.error = FALSE],
         "assignment", [policy |-> devicesUi.selectedGroup])

(* A confirmed assignment reads the effective policy again.                *)
assignmentDone(r, ok) ==
  /\ r.op = "assignment" /\ (ok => r.done)
  /\ IF ok
     THEN /\ devicesUi' = [devicesUi EXCEPT !.policyLoading = TRUE,
                             !.behind = InFlight(devicesNet, {"policy"})]
          /\ devicesNet' = Send(devicesNet \ {r}, "policy", [by |-> "save"])
     ELSE /\ devicesUi' = [Failed(r) EXCEPT !.assignmentSaving = FALSE]
          /\ devicesNet' = devicesNet \ {r}
  /\ UNCHANGED inventory

loadPolicyView(r, ok) ==
  /\ r.op = "policy" /\ (ok => r.done)
  /\ devicesUi' =
       [devicesUi EXCEPT !.policyLoading = FALSE,
          !.policyView = IF ok THEN r.snap.policy ELSE @,
          !.selectedGroup = IF ok THEN r.snap.policy ELSE @,
          !.assignmentSaving = @ /\ r.args.by # "save",
          !.assignmentSaved = @ \/ r.args.by = "save",
          !.behind = @ \/ ~ok]
  /\ devicesNet' = devicesNet \ {r}
  /\ UNCHANGED inventory

PolicyTabNext ==
  \/ GroupsLoaded \/ saveAssignment
  \/ \E p \in PolicyIds \cup {DefaultPolicy} : SelectPolicy(p)
  \/ \E r \in devicesNet :
       \/ ServeDevices(r)
       \/ \E ok \in BOOLEAN : assignmentDone(r, ok) \/ loadPolicyView(r, ok)

(***************************************************************************)
(* The Connections tab.  The peers start as the list had them.             *)
(***************************************************************************)
PeersTabInit ==
  /\ inventory \in [present : {TRUE}, label : {None}, policy : {DefaultPolicy},
                    peers : SUBSET Peers]
  /\ devicesNet = Send({}, "peers", [by |-> "open"])
  /\ devicesUi = [linked |-> inventory.peers, available |-> {}, state |-> None,
                  tailscaleLoading |-> TRUE, tailscaleLoaded |-> FALSE, tailscaleSaving |-> FALSE,
                  selectedPeer |-> None, pendingUnlink |-> None, error |-> FALSE, ops |-> 0,
                  behind |-> FALSE]

peersOffered ==
  LET listed == ~(devicesUi.tailscaleLoading /\ ~devicesUi.tailscaleLoaded)
               /\ devicesUi.pendingUnlink = None
      connected == listed /\ devicesUi.state = "connected" IN
  [select  |-> IF connected /\ ~devicesUi.tailscaleSaving /\ ~devicesUi.tailscaleLoading
               THEN devicesUi.available ELSE {},
   link    |-> connected /\ ~devicesUi.tailscaleSaving /\ devicesUi.selectedPeer # None,
   unlink  |-> IF listed /\ ~devicesUi.tailscaleSaving THEN devicesUi.linked ELSE {},
   refresh |-> listed /\ ~devicesUi.tailscaleSaving /\ ~devicesUi.tailscaleLoading,
   confirm |-> devicesUi.pendingUnlink # None /\ ~devicesUi.tailscaleSaving]

SelectPeer(p) ==
  /\ p \in peersOffered.select
  /\ devicesUi' = [devicesUi EXCEPT !.selectedPeer = p]
  /\ UNCHANGED <<devicesNet, inventory>>

RefreshPeers ==
  /\ peersOffered.refresh
  /\ AskDevices([devicesUi EXCEPT !.tailscaleLoading = TRUE, !.error = FALSE,
            !.behind = InFlight(devicesNet, {"peers"})], "peers", [by |-> "button"])

linkTailscalePeer ==
  /\ peersOffered.link
  /\ AskDevices([devicesUi EXCEPT !.tailscaleSaving = TRUE, !.error = FALSE],
         "link", [peer |-> devicesUi.selectedPeer])

requestUnlink(p) ==
  /\ p \in peersOffered.unlink
  /\ devicesUi' = [devicesUi EXCEPT !.pendingUnlink = p]
  /\ UNCHANGED <<devicesNet, inventory>>

CloseUnlink ==
  /\ devicesUi.pendingUnlink # None /\ ~devicesUi.tailscaleSaving
  /\ devicesUi' = [devicesUi EXCEPT !.pendingUnlink = None]
  /\ UNCHANGED <<devicesNet, inventory>>

confirmUnlink ==
  /\ peersOffered.confirm
  /\ AskDevices([devicesUi EXCEPT !.tailscaleSaving = TRUE, !.error = FALSE],
         "unlink", [peer |-> devicesUi.pendingUnlink])

(* The rest of both: the peers are read again before the save ends, and    *)
(* the list is told to reload.                                             *)
peerSaved(r, ok) ==
  /\ r.op \in {"link", "unlink"} /\ (ok => r.done)
  /\ IF ok
     THEN /\ devicesUi' = [devicesUi EXCEPT
                !.selectedPeer = IF r.op = "link" THEN None ELSE @,
                !.linked = IF r.op = "unlink" THEN @ \ {r.args.peer} ELSE @,
                !.pendingUnlink = IF r.op = "unlink" THEN None ELSE @,
                !.tailscaleLoading = TRUE, !.error = FALSE,
                !.behind = InFlight(devicesNet, {"peers"})]
          /\ devicesNet' = Send(devicesNet \ {r}, "peers", [by |-> "save"])
     ELSE /\ devicesUi' = [Failed(r) EXCEPT !.tailscaleSaving = FALSE]
          /\ devicesNet' = devicesNet \ {r}
  /\ UNCHANGED inventory

(* The rest of loadTailscalePeers.  The linked peers are only replaced     *)
(* when the node is connected; a failure forgets the state and the peers.  *)
loadTailscalePeers(r, answer) ==
  /\ r.op = "peers" /\ (answer # "error" => r.done)
  /\ devicesUi' =
       [devicesUi EXCEPT
          !.tailscaleLoading = FALSE,
          !.tailscaleLoaded = @ \/ answer # "error",
          !.tailscaleSaving = @ /\ r.args.by # "save",
          !.state = IF answer = "error" THEN None ELSE answer,
          !.available = IF answer = "connected" THEN Peers \ r.snap.peers ELSE {},
          !.linked = IF answer = "connected" THEN r.snap.peers ELSE @,
          !.error = @ \/ answer = "error",
          !.behind = @ \/ answer # "connected"]
  /\ devicesNet' = devicesNet \ {r}
  /\ UNCHANGED inventory

PeersTabNext ==
  \/ RefreshPeers \/ linkTailscalePeer \/ CloseUnlink \/ confirmUnlink
  \/ \E p \in Peers : SelectPeer(p) \/ requestUnlink(p)
  \/ \E r \in devicesNet :
       \/ ServeDevices(r)
       \/ \E ok \in BOOLEAN : peerSaved(r, ok)
       \/ \E answer \in {"connected", "disabled", "error"} : loadTailscalePeers(r, answer)

(***************************************************************************)
(* Between requests each shows what the server has, and what shows as      *)
(* under way is.                                                           *)
(***************************************************************************)
Steady == devicesNet = {} /\ ~devicesUi.behind

ListPageAgrees ==
  Steady => devicesUi.devices = IF inventory.present THEN inventory.label ELSE None

PolicyTabAgrees == Steady => devicesUi.policyView = inventory.policy

PeersTabAgrees == Steady => devicesUi.linked = inventory.peers

SaveUnderWay(ops, by) ==
  \E r \in devicesNet : r.op \in ops \/ (r.op \in Reads /\ r.args.by = by)

ListPageBusy ==
  /\ devicesUi.loading => InFlight(devicesNet, {"devices"})
  /\ devicesUi.saving => InFlight(devicesNet, {"name"})
  /\ devicesUi.removing => SaveUnderWay({"remove"}, "remove")

PolicyTabBusy ==
  /\ devicesUi.policyLoading => InFlight(devicesNet, {"policy"})
  /\ devicesUi.assignmentSaving => SaveUnderWay({"assignment"}, "save")

PeersTabBusy ==
  /\ devicesUi.tailscaleLoading => InFlight(devicesNet, {"peers"})
  /\ devicesUi.tailscaleSaving => SaveUnderWay({"link", "unlink"}, "save")
=============================================================================
