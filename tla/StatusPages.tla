----------------------------- MODULE StatusPages -----------------------------
(***************************************************************************)
(* The pages that show the state of the gateway and act on it once:        *)
(*                                                                         *)
(*   "dns"        the block-list status (routes/dns/dns.svelte)            *)
(*   "tailscale"  Connectivity and Diagnostics (settings.svelte)           *)
(*   "ai"         the provider of image filtering (ai.svelte)              *)
(*   "home"       the overview and the protection check (home.svelte)      *)
(*                                                                         *)
(* `gateway' is what the server would answer: the state of the block       *)
(* lists, the switch of the integration, the provider, or whether          *)
(* protection was verified.                                                *)
(***************************************************************************)
EXTENDS WebCommon

CONSTANTS Providers,     \* the providers of image filtering, "disabled" among them
          MaxStatusOps   \* bound: requests of the administrator

ASSUME StatusAssumption ==
  "disabled" \in Providers /\ None \notin Providers \cup {"ok", "failed"} /\ MaxStatusOps \in Nat

VARIABLES statusPage, shown, statusNet, gateway

statusVars == <<statusPage, shown, statusNet, gateway>>

StatusPageNames == {"dns", "tailscale", "ai", "home"}

(* behind: a request failed, or two that write the same field overlapped.  *)
AskStatus(ui, ops) ==
  /\ shown.ops < MaxStatusOps
  /\ shown' = [ui EXCEPT !.ops = @ + 1, !.behind = @ \/ InFlight(statusNet, ops)]

StatusRests(ui, r) ==
  /\ shown' = ui
  /\ statusNet' = statusNet \ {r}
  /\ UNCHANGED <<statusPage, gateway>>

StatusGoesOn(ui, r, op, args) ==
  /\ shown' = [ui EXCEPT !.behind = @ \/ InFlight(statusNet \ {r}, {op})]
  /\ statusNet' = Send(statusNet \ {r}, op, args)
  /\ UNCHANGED <<statusPage, gateway>>

(***************************************************************************)
(* The server.  What does not depend on `gateway' needs no step of it.     *)
(***************************************************************************)
ServeRead(r, snap) ==
  /\ statusNet' = Served(statusNet, r, snap)
  /\ UNCHANGED <<statusPage, shown>>

ServeDnsInfo(r) ==
  /\ statusPage = "dns" /\ r.op = "info"
  /\ gateway' = [gateway EXCEPT !.changed = FALSE]
  /\ ServeRead(r, gateway.reported)

ServeTailscale(r) ==
  /\ statusPage = "tailscale" /\ r.op \in {"status", "set"}
  /\ gateway' = IF r.op = "set" THEN r.args.value ELSE gateway
  /\ ServeRead(r, gateway)

ServeProvider(r) ==
  /\ statusPage = "ai" /\ r.op \in {"configured", "probe", "set"}
  /\ gateway' = IF r.op = "set" THEN r.args.value ELSE gateway
  /\ ServeRead(r, gateway)

ServeOnboardingStatus(r) ==
  /\ statusPage = "home" /\ r.op = "status"
  /\ UNCHANGED gateway
  /\ ServeRead(r, gateway)

(* The controlled domain was blocked, which is recorded the first time, or *)
(* it was not: the answer is 200 both times.                               *)
ServeProtectionCheck(r, state) ==
  /\ statusPage = "home" /\ r.op = "check"
  /\ gateway' = (gateway \/ state = "ok")
  /\ ServeRead(r, state)

ServeStatus(r) ==
  /\ ~r.done
  /\ \/ ServeDnsInfo(r) \/ ServeTailscale(r) \/ ServeProvider(r) \/ ServeOnboardingStatus(r)
     \/ \E state \in {"ok", "failed"} : ServeProtectionCheck(r, state)

(***************************************************************************)
(* DNS status.  The editors of lists and records announce every save; the  *)
(* page reads the status again three seconds later.  The server forgets    *)
(* its domains when it refreshes the lists (reported is 0) and counts them *)
(* again when the lists it had read are downloaded, sooner or later than   *)
(* that.  lists numbers the versions that were saved; changed: the count   *)
(* has changed since the page read it last.                                *)
(***************************************************************************)
DnsInit ==
  /\ gateway = [lists |-> 1, read |-> 1, reported |-> 1, changed |-> FALSE]
  /\ shown = [dnsInfo |-> None, loading |-> TRUE, refreshing |-> TRUE, statusError |-> FALSE, refreshTimer |-> FALSE,
              destroyed |-> FALSE, ops |-> 0, behind |-> FALSE]
  /\ statusNet = Send({}, "info", None)

(* loadDnsInfo does nothing while it runs.                                 *)
loadDnsInfo(ui) ==
  IF ui.refreshing THEN shown' = ui /\ UNCHANGED statusNet
  ELSE /\ shown' = [ui EXCEPT !.refreshing = TRUE, !.statusError = FALSE]
       /\ statusNet' = Send(statusNet, "info", None)

dnsInfoLoaded(r, ok) ==
  /\ statusPage = "dns" /\ r.op = "info" /\ (ok => r.done)
  /\ StatusRests([shown EXCEPT !.dnsInfo = IF ok THEN r.snap ELSE @, !.statusError = ~ok,
                               !.loading = FALSE, !.refreshing = FALSE], r)

RefreshDns ==
  /\ statusPage = "dns" /\ ~shown.destroyed /\ ~shown.refreshing
  /\ shown.ops < MaxStatusOps
  /\ loadDnsInfo([shown EXCEPT !.ops = @ + 1])
  /\ UNCHANGED <<statusPage, gateway>>

onUpdateDnsInfo ==
  /\ statusPage = "dns" /\ ~shown.destroyed
  /\ AskStatus([shown EXCEPT !.dnsInfo = None, !.loading = TRUE, !.refreshTimer = TRUE], {})
  /\ gateway' = [gateway EXCEPT !.lists = @ + 1]
  /\ UNCHANGED <<statusPage, statusNet>>

(* After a save and on schedule.                                           *)
InitializeFilters ==
  /\ statusPage = "dns" /\ gateway.reported # 0
  /\ gateway' = [gateway EXCEPT !.read = gateway.lists, !.reported = 0, !.changed = TRUE]
  /\ UNCHANGED <<statusPage, shown, statusNet>>

BlocklistsDownloaded ==
  /\ statusPage = "dns" /\ gateway.reported = 0
  /\ gateway' = [gateway EXCEPT !.reported = gateway.read, !.changed = TRUE]
  /\ UNCHANGED <<statusPage, shown, statusNet>>

refreshTimerFires ==
  /\ statusPage = "dns" /\ shown.refreshTimer
  /\ loadDnsInfo([shown EXCEPT !.refreshTimer = FALSE])
  /\ UNCHANGED <<statusPage, gateway>>

LeaveDns ==
  /\ statusPage = "dns" /\ ~shown.destroyed
  /\ shown' = [shown EXCEPT !.destroyed = TRUE, !.refreshTimer = FALSE]
  /\ UNCHANGED <<statusPage, statusNet, gateway>>

dnsView == IF shown.loading /\ shown.dnsInfo = None THEN "loading"
           ELSE IF shown.dnsInfo = None THEN "unavailable" ELSE "status"

(***************************************************************************)
(* Settings: the Tailscale switch, the diagnostics and the support bundle. *)
(***************************************************************************)
TailscaleInit ==
  /\ gateway \in BOOLEAN
  /\ shown = [status |-> None, loading |-> TRUE, saving |-> FALSE, error |-> FALSE,
              diagnostics |-> FALSE, loadingDiagnostics |-> TRUE,
              bundlePreview |-> FALSE, loadingBundle |-> FALSE, ops |-> 0, behind |-> FALSE]
  /\ statusNet = Send(Send({}, "diagnostics", None), "status", None)

tailscaleOffered ==
  [set      |-> ~shown.loading /\ ~shown.saving /\ shown.status # None,
   refresh  |-> ~shown.loading /\ ~shown.saving,
   check    |-> ~shown.loadingDiagnostics,
   preview  |-> ~shown.loadingBundle]

setTailscaleEnabled ==
  /\ statusPage = "tailscale" /\ tailscaleOffered.set
  /\ AskStatus([shown EXCEPT !.saving = TRUE, !.error = FALSE], {"set", "status"})
  /\ statusNet' = Send(statusNet, "set", [value |-> ~shown.status])
  /\ UNCHANGED <<statusPage, gateway>>

RefreshTailscale ==
  /\ statusPage = "tailscale" /\ tailscaleOffered.refresh
  /\ AskStatus([shown EXCEPT !.loading = TRUE, !.error = FALSE], {"set", "status"})
  /\ statusNet' = Send(statusNet, "status", None)
  /\ UNCHANGED <<statusPage, gateway>>

(* A failed change leaves the status as it was, whatever the server did.   *)
tailscaleSet(r, ok) ==
  /\ statusPage = "tailscale" /\ r.op = "set" /\ (ok => r.done)
  /\ IF ok THEN StatusGoesOn([shown EXCEPT !.loading = TRUE], r, "status", None)
     ELSE StatusRests([shown EXCEPT !.saving = FALSE, !.error = TRUE, !.behind = TRUE], r)

(* The load that ends a change ends both.                                  *)
loadTailscaleStatus(r, ok) ==
  /\ statusPage = "tailscale" /\ r.op = "status" /\ (ok => r.done)
  /\ StatusRests([shown EXCEPT !.status = IF ok THEN r.snap ELSE @, !.loading = FALSE,
                    !.saving = FALSE, !.error = ~ok, !.behind = ~ok], r)

RunDiagnostics ==
  /\ statusPage = "tailscale" /\ tailscaleOffered.check
  /\ AskStatus([shown EXCEPT !.loadingDiagnostics = TRUE], {})
  /\ statusNet' = Send(statusNet, "diagnostics", None)
  /\ UNCHANGED <<statusPage, gateway>>

loadDiagnostics(r, ok) ==
  /\ statusPage = "tailscale" /\ r.op = "diagnostics"
  /\ StatusRests([shown EXCEPT !.diagnostics = @ \/ ok, !.loadingDiagnostics = FALSE], r)

PreviewBundle ==
  /\ statusPage = "tailscale" /\ tailscaleOffered.preview
  /\ AskStatus([shown EXCEPT !.loadingBundle = TRUE], {})
  /\ statusNet' = Send(statusNet, "bundle", None)
  /\ UNCHANGED <<statusPage, gateway>>

previewBundle(r, ok) ==
  /\ statusPage = "tailscale" /\ r.op = "bundle"
  /\ StatusRests([shown EXCEPT !.bundlePreview = @ \/ ok, !.loadingBundle = FALSE], r)

(***************************************************************************)
(* Image filtering.  Choosing a provider saves it and then, still saving,  *)
(* reads the status again; the first reading may still be under way.       *)
(***************************************************************************)
AiInit ==
  /\ gateway \in Providers
  /\ shown = [status |-> None, filterMode |-> "disabled", probing |-> TRUE, statusError |-> FALSE,
              radio |-> gateway, persisted |-> gateway, saving |-> FALSE, ops |-> 0, behind |-> FALSE]
  /\ statusNet = Send({}, "configured", [by |-> "page"])

refreshStatus(ui, net, by) ==
  /\ shown' = [ui EXCEPT !.probing = TRUE, !.statusError = FALSE,
                         !.behind = @ \/ InFlight(net, {"configured", "probe"})]
  /\ statusNet' = Send(net, "configured", [by |-> by])
  /\ UNCHANGED <<statusPage, gateway>>

RefreshAi ==
  /\ statusPage = "ai" /\ ~shown.probing
  /\ shown.ops < MaxStatusOps
  /\ refreshStatus([shown EXCEPT !.ops = @ + 1], statusNet, "page")

(* The end of refreshStatus; awaited by a save, it also ends that.         *)
Probed(ui, r) ==
  StatusRests([ui EXCEPT !.probing = FALSE,
                         !.saving = IF r.args.by = "save" THEN FALSE ELSE @], r)

ProbeFails(r) == Probed([shown EXCEPT !.status = None, !.statusError = TRUE, !.behind = TRUE], r)

loadConfigured(r, ok) ==
  /\ statusPage = "ai" /\ r.op = "configured" /\ (ok => r.done)
  /\ IF ok THEN StatusGoesOn([shown EXCEPT !.filterMode = r.snap], r, "probe", r.args)
     ELSE ProbeFails(r)

(* withTimeout: after 12 seconds the answer no longer counts.              *)
aiStatus(r, outcome) ==
  /\ statusPage = "ai" /\ r.op = "probe"
  /\ \/ /\ outcome = "ok" /\ r.done
        /\ Probed([shown EXCEPT !.status = r.snap, !.filterMode = r.snap], r)
     \/ /\ outcome \in {"failed", "timeout"}
        /\ ProbeFails(r)

ChooseProvider(p) ==
  /\ statusPage = "ai" /\ ~shown.saving /\ p # shown.persisted
  /\ AskStatus([shown EXCEPT !.radio = p, !.saving = TRUE], {})
  /\ statusNet' = Send(statusNet, "set", [value |-> p])
  /\ UNCHANGED <<statusPage, gateway>>

providerSaved(r, ok) ==
  /\ statusPage = "ai" /\ r.op = "set" /\ (ok => r.done)
  /\ IF ok THEN refreshStatus([shown EXCEPT !.persisted = r.args.value, !.filterMode = r.args.value],
                              statusNet \ {r}, "save")
     ELSE StatusRests([shown EXCEPT !.radio = shown.persisted, !.saving = FALSE, !.behind = TRUE], r)

(* What the panel of the selected provider says.                           *)
selectedProviderProbe ==
  LET mode == IF shown.status # None THEN shown.status ELSE shown.filterMode
  IN IF mode = "disabled" THEN "disabled"
     ELSE IF shown.status # None THEN "probed"
     ELSE IF shown.probing THEN "checking" ELSE "unreachable"

(***************************************************************************)
(* Overview: three requests that do not know of each other, and the check. *)
(* The timer of the summary runs while the page is on the screen.          *)
(***************************************************************************)
HomeInit ==
  /\ gateway = FALSE
  /\ shown = [status |-> None, statusError |-> FALSE, summary |-> FALSE, httpsOn |-> FALSE,
              checking |-> FALSE, checkState |-> None, timer |-> TRUE, ops |-> 0, behind |-> FALSE]
  /\ statusNet = Send(Send(Send({}, "status", [by |-> "page"]), "summary", None), "https", None)

homeRefresh ==
  /\ statusPage = "home" /\ shown.timer
  /\ AskStatus([shown EXCEPT !.statusError = FALSE], {"status"})
  /\ statusNet' = Send(Send(Send(statusNet, "status", [by |-> "page"]), "summary", None), "https", None)
  /\ UNCHANGED <<statusPage, gateway>>

SummaryInterval ==
  /\ statusPage = "home" /\ shown.timer
  /\ AskStatus(shown, {})
  /\ statusNet' = Send(statusNet, "summary", None)
  /\ UNCHANGED <<statusPage, gateway>>

homeSummaryLoaded(r, ok) ==
  /\ statusPage = "home" /\ r.op = "summary"
  /\ StatusRests([shown EXCEPT !.summary = ok], r)

(* Inspection is on; a failed request shows it as off.                     *)
homeHttpsLoaded(r, ok) ==
  /\ statusPage = "home" /\ r.op = "https"
  /\ StatusRests([shown EXCEPT !.httpsOn = ok], r)

homeStatusLoaded(r, ok) ==
  /\ statusPage = "home" /\ r.op = "status" /\ (ok => r.done)
  /\ StatusRests([shown EXCEPT !.status = IF ok THEN r.snap ELSE @, !.statusError = ~ok,
                    !.checking = IF r.args.by = "check" THEN FALSE ELSE @,
                    !.behind = @ \/ ~ok], r)

(* The DNS server runs; without it the button is disabled too.             *)
runProtectionCheck ==
  /\ statusPage = "home" /\ shown.timer /\ shown.status # None /\ ~shown.checking
  /\ AskStatus([shown EXCEPT !.checking = TRUE, !.checkState = None], {})
  /\ statusNet' = Send(statusNet, "check", None)
  /\ UNCHANGED <<statusPage, gateway>>

(* An answer is shown, whatever its state, and the status read again; a    *)
(* request that failed ends the check.                                     *)
protectionChecked(r, ok) ==
  /\ statusPage = "home" /\ r.op = "check" /\ (ok => r.done)
  /\ IF ok THEN StatusGoesOn([shown EXCEPT !.checkState = r.snap, !.statusError = FALSE],
                             r, "status", [by |-> "check"])
     ELSE StatusRests([shown EXCEPT !.checkState = "failed", !.checking = FALSE], r)

LeaveHome ==
  /\ statusPage = "home" /\ shown.timer
  /\ shown' = [shown EXCEPT !.timer = FALSE]
  /\ UNCHANGED <<statusPage, statusNet, gateway>>

StatusInit ==
  /\ statusPage \in StatusPageNames
  /\ \/ statusPage = "dns" /\ DnsInit
     \/ statusPage = "tailscale" /\ TailscaleInit
     \/ statusPage = "ai" /\ AiInit
     \/ statusPage = "home" /\ HomeInit

StatusNext ==
  \/ RefreshDns \/ onUpdateDnsInfo \/ refreshTimerFires \/ LeaveDns
  \/ InitializeFilters \/ BlocklistsDownloaded
  \/ setTailscaleEnabled \/ RefreshTailscale \/ RunDiagnostics \/ PreviewBundle
  \/ RefreshAi \/ \E p \in Providers : ChooseProvider(p)
  \/ homeRefresh \/ SummaryInterval \/ runProtectionCheck \/ LeaveHome
  \/ \E r \in statusNet :
       \/ ServeStatus(r)
       \/ \E outcome \in {"ok", "failed", "timeout"} : aiStatus(r, outcome)
       \/ \E ok \in BOOLEAN :
            \/ dnsInfoLoaded(r, ok) \/ tailscaleSet(r, ok) \/ loadTailscaleStatus(r, ok)
            \/ loadDiagnostics(r, ok) \/ previewBundle(r, ok)
            \/ loadConfigured(r, ok) \/ providerSaved(r, ok)
            \/ homeSummaryLoaded(r, ok) \/ homeHttpsLoaded(r, ok)
            \/ homeStatusLoaded(r, ok) \/ protectionChecked(r, ok)

(* What a page shows once no request is under way is what the server has.  *)
(* The count of blocked domains is the one of the last reading: a download *)
(* that ends later changes it unseen, and a failed reading leaves the old  *)
(* one under its error.                                                    *)
StatusAgrees ==
  statusNet = {} /\ ~shown.behind =>
    CASE statusPage = "dns" -> \/ dnsView # "status" \/ shown.statusError \/ gateway.changed
                               \/ shown.dnsInfo = gateway.reported
      [] statusPage = "tailscale" -> shown.status = gateway
      [] statusPage = "ai" ->
           /\ shown.persisted = gateway /\ shown.filterMode = gateway
           /\ selectedProviderProbe = IF gateway = "disabled" THEN "disabled" ELSE "probed"
      [] statusPage = "home" -> shown.checkState = "ok" => shown.status

(* Nothing shows as loading without a request, or a timer, under way.      *)
StatusBusy ==
  CASE statusPage = "dns" -> /\ shown.refreshing <=> statusNet # {}
                             /\ dnsView = "loading" /\ ~shown.destroyed => shown.refreshing \/ shown.refreshTimer
    [] statusPage = "tailscale" ->
         /\ shown.loading => InFlight(statusNet, {"status"})
         /\ shown.saving => InFlight(statusNet, {"set", "status"})
         /\ shown.loadingDiagnostics <=> InFlight(statusNet, {"diagnostics"})
         /\ shown.loadingBundle <=> InFlight(statusNet, {"bundle"})
    [] statusPage = "ai" ->
         /\ shown.probing => InFlight(statusNet, {"configured", "probe"})
         /\ shown.saving => \E r \in statusNet : r.op = "set" \/ r.args.by = "save"
    [] statusPage = "home" ->
         shown.checking => \E r \in statusNet : r.op = "check" \/ (r.op = "status" /\ r.args.by = "check")
=============================================================================
