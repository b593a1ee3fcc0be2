# GateSentry: a TLA+ verification project

GateSentry is a gateway that filters DNS and web traffic for a household or a
small organisation. It answers DNS queries, runs an HTTP(S) proxy and a web
interface, and keeps an inventory of the devices it has seen. Administrators
write *policies* (ordered rules, domain lists, categories), assign devices and
users to them, and grant temporary exceptions and pauses.

This directory holds TLA+ models of the parts of the gateway (Go) and of its web
interface (Svelte and TypeScript, `src/ui`) in which state, concurrency and
failures meet, the TLC configurations that check them, and TLAPS proofs for the
parts where a small instance is not enough. `PROJECT.json` maps
every definition to the lines it models and lists the runs, the hazards, the
theorems and the places where code and comments disagree.

    tlc -workers 2 -config MCDnsServer.cfg MCDnsServer
    tlapm DnsServerProofs.tla

## 1. The system

### Parts, their state and their operations

| Part | State | Operations | What makes it correct |
|---|---|---|---|
| Encrypted settings storage (`application/storage`) | one encrypted file per store, the installation key file, the payload in memory | open, get, update, set; create, rotate and prune keys; migrate legacy files | no store ever loses its key; what was reported as saved survives every crash; memory agrees with the file |
| Policy decisions (`policy/rules.go`, `schedule.go`) | none: a policy, a request, the clock | evaluate rules, lists, categories; the outcomes for DNS and proxy | first match wins; DNS and proxy agree or say why not; pauses only lift blocks; schedules across midnight |
| Policy identity (`policy/service.go`, `dns/server/server.go`) | the devices seen, with address and age; the snapshot of policies | from address and login to device, policy and grants | nobody gets the policy or the exception of someone else |
| Policy document (`policy/service.go`, handlers, migrations) | the stored document, its copy in memory, the selected categories | create, update, delete, replace, assign, presets, reload, start-up migrations | a user is in one policy; memory follows the document; migrations are repeatable and lose nothing |
| Temporary access (`policy/exception.go`, `pause.go`, `access_request.go`) | stored exceptions, pauses, requests; copies in memory; a rate limiter | create, revoke, prune, submit, approve, reject, refresh | what is honoured was stored; a revocation holds; reviewed once; the rate per address is bounded |
| Device inventory (`dns/discovery`, `dns/server/ddns.go`) | devices in memory and indexes; the durable subset in a store | observe, label, assign, link, unlink, Tailscale refresh, DNS UPDATE, restart | the durable subset agrees with memory; a node is linked once; addresses of linked devices are unambiguous |
| Tailscale manager (`tailscale/manager.go`, `handler_tailscale.go`) | enabled, status, peers, a transition token, a sequence number; addresses put into the inventory | enable, disable, refresh, poll, stop | switched off it leaves nothing behind; the later request wins; stop is final and returns |
| DNS server lifecycle (`dns.go`, `start.go`, `dns/server/server.go`) | a channel of one message, handles, sockets, the mDNS browser | reload, start, stop, join, shut down | one server at a time; a clean shutdown is complete; a stop is joined |
| DNS query handler, block lists, categories | lists in maps, refreshed in the background | answer, refresh | planned |
| Activity logger | a queue, one writer, barriers | append, flush, close | planned |
| Administrator authentication, onboarding | credential record, session generation; the wizard's steps | bootstrap, login, verify, change | planned |
| Proxy, transparent proxy, certificates, content filters | connections, caches, counters | serve, intercept, scan | the order of the checks is planned, the rest is out of reach |
| Backup and restore (`backup/backup.go`) | the settings and devices read for a rollback | export, restore, roll back | a restore is all or nothing; the part that replaces the policies is in `PolicyStore` |
| Templates, preview, users, diagnostics | little or none of their own | read, convert, present | not modelled, see section 8 |
| Web interface: decision log, statistics, activity of a device (`routes/logs`, `routes/stats`, `routes/devices/devicedetail.svelte`) | the choice of the administrator, the rows shown, a request or a timer, a pending refresh | choose, retry, refresh by timer, open, switch, close | rows belong to what is chosen; one loop per page; the page catches up |
| Web interface: list editors (`components/dnslists.svelte`, `dnsArecords.svelte`, `filtereditor.svelte`) | the rows loaded, a form, a confirmation, a save | load, add, edit, delete; every save sends the whole list | a save drops no row that was not named; a dialog speaks of the row it was opened for |
| Web interface: proxy users, devices, policies (`routes/users`, `routes/devices`, `routes/rules`) | rows, forms, dialogs, flags that disable controls | create, edit, delete, assign, link, apply a template, test a site | the screen ends with what is stored; nothing stays disabled |
| Web interface: draft of a policy (`routes/rules/groupform.svelte`, `policymodel.ts`) | rules, the bedtime switch, the advanced section | edit, move, remove, switch | switching bedtime off undoes switching it on; no rule is hidden |
| Web interface: setting fields and status pages (`components/connected*.svelte`, `toggle.svelte`; `routes/dns`, `settings`, `ai`, `home`) | the value shown, the value stored, probes with a time-out | load, type, save, refresh, check | as for the other pages |
| Web interface: session (`App.svelte`, `lib/api.ts`, `routes/login`, `routes/setup`, the account menu) | the state of the shell, the path, the token, the history | check, set up, log in and out, navigate, refuse | no blank screen; a valid session is kept; logging out shows the login |

### How they interact

* Every HTTP handler runs in its own goroutine. It changes a document in one
  storage transaction (`UpdateValue` reloads, changes and persists under a lock
  per path) and *afterwards* refreshes the copy in memory that decisions read.
  Between the two other handlers, and every DNS query and proxy request, run.
* The DNS server and the proxy call the policy service with an address (and a
  login); the service asks the device inventory through `DeviceResolver`, three
  times, with the inventory's lock taken and released each time.
* Discovery, mDNS, DNS UPDATE messages, the Tailscale manager and the API all
  write the device inventory. Its mutations are serialised by `mutationMu`, the
  sequences of mutations that callers make are not.
* A settings request ends in `Reload`, which runs `GSRuntime.Init`, whose last step
  sends *start* or *stop* into `DNSServerChannel`; one controller goroutine
  receives these messages, starts a goroutine per server and joins it.
* The web interface is one JavaScript thread: a handler runs to its next `await`
  without interruption. Its pages talk to the gateway with `fetch` through
  `AppAPI` of `lib/api.ts`; several requests may be under way, they are served and answered in any
  order, and each may fail before or after the gateway acted on it. The router
  of `App.svelte` mounts one page at a time; a page that was left may still
  receive answers. Pages share nothing but the gateway, the token and the list of
  notifications.
* `application.Stop` shuts down the web server, the DNS server, the controller, the
  policy enforcement (and with it the Tailscale manager) and the logger, in this
  order, under one context.

### What is hard here

Crashes between the writes of a key rotation; renames that succeed while the
directory sync fails; copies in memory refreshed out of order; look-ups whose
answer is stale when it is used; a token that several goroutines want while one
of them waits for the others; a channel of one message whose reader has gone; a
listener that opens after it was told to stop. In the web interface: answers that
arrive after the choice they belong to; a page that sends back a whole list it
loaded earlier; rows named by their position; flags that disable a page until an
answer comes; overlapping saves that each read the page again; what is shown
decided by two variables that change one after the other. The `hazards` of `PROJECT.json`
list them with their lines and the properties that would notice.

## 2. The modules

| Module | Models | Checked by | Proved in |
|---|---|---|---|
| `SettingsStorage` | the storage and its keys | `MCSettingsStorage` | `SettingsStorageProofs` |
| `PolicySchedule` | weekly windows in a time zone (operators) | through `PolicyDecision` | `PolicyRequestProofs` |
| `PolicyDecision` | one decision, rule by rule; extends `PolicySchedule` | through `PolicyRequest` | `PolicyRequestProofs` |
| `PolicyIdentity` | whose policy and whose grants | through `PolicyRequest` | `PolicyRequestProofs` |
| `PolicyRequest` | the way of a request through both | `MCPolicyRequest` | `PolicyRequestProofs` |
| `PolicyStore` | the policy document and its copy | `MCPolicyStore` | `PolicyStoreProofs` |
| `TemporaryAccess` | exceptions, pauses, access requests | `MCTemporaryAccess` | `TemporaryAccessProofs` |
| `DeviceStore` | the device inventory | `MCDeviceStore` | `DeviceStoreProofs` |
| `TailscaleManager` | the manager and those who drive it | `MCTailscaleManager` | `TailscaleManagerProofs` |
| `DnsServer` | lifecycle of the listeners and shutdown | `MCDnsServer` | `DnsServerProofs` |
| `WebCommon` | requests under way, shared by the pages | through the pages | |
| `LiveFeed` | what a page that refreshes itself promises (abstract) | as a property of `MCLivePages` | `WebProofs` |
| `DecisionLog`, `Statistics`, `DeviceActivity` | the three pages that implement it | through `LivePages` | `WebProofs` |
| `LivePages` | these pages under the router, the refinement mappings | `MCLivePages` | `WebProofs` |
| `ListEditors` | block lists, custom records, filter lists | through `WebForms` | `WebProofs` |
| `UsersPage`, `DevicePages`, `PolicyPage`, `PolicyTools` | the pages of users, devices, policies; tester and categories | through `WebForms` | `WebProofs` |
| `PolicyDraft` | the form of a policy | through `WebForms` | `WebProofs` |
| `SettingFields`, `StatusPages` | fields bound to a setting; pages that show the gateway | through `WebForms` | `WebProofs` |
| `WebSession` | shell, router, API client, login, setup | through `WebForms` | `WebProofs` |
| `WebForms` | one of these pages, chosen at the start | `MCWebForms` | `WebProofs` |

How they fit together. `SettingsStorage` justifies that the modules above it take
a storage transaction as one step: the payload becomes visible at one rename, and
what was reported as saved survives. `PolicyIdentity` uses the device inventory
reduced to addresses and ages, `DeviceStore` has the whole of it. `TailscaleManager`
treats a snapshot as opaque where `DeviceStore` says what it does to the devices.
`PolicyDecision` starts where `PolicyIdentity` ends: from the chosen policy and
whether an exception or pause applies. `TemporaryAccess` says when that is.
`DnsServer` shuts down the policy enforcement in the step in which
`TailscaleManager` begins to stop. `PolicyRequest` composes the identity of a
request with the decision about it. The modules of the web interface take a request to the gateway as one step of
the server (the handler's transaction) between two steps of the page; what
happens inside the gateway is the matter of the modules above.

### SettingsStorage

`disk` is what every process sees, `survivors` the set of disks that a crash may
leave: a write adds a disk, a directory sync keeps only the visible one.
`Load`/`Open`/`GetE`/`UpdateValue`/`Set` begin an operation of a `Store`;
`ReadKey`, `Scan`, `RereadKey`, `CreateKey`, `SyncKey` are `loadInstallationKeys`
and `atomicCreate` (a link, so that the first creator wins); `Rename`,
`SyncWrite`, `SyncWriteFails` are `persistLocked`; `Rotate`, `Prune`,
`WriteKeyring`, `Reencrypt`, `SkipMissing`, `ToolSync`, `ToolEnds` are the
offline key maintenance, which may stop anywhere. `Stop` is the crash of a process, `PowerLoss` that of
the host, `LoseKeyFile` and `RestoreKeyFile` the operator's accident and its repair.
A payload is the number of the write that made it; encryption is "opens with one
of the keys or not".

### PolicySchedule and PolicyDecision

`IsActive` is `Schedule.IsActive`: local weekday and minute in the schedule's
zone, the morning part of an overnight window counted to the day before.
`OpenWindow` is the reference: some window opened on one of the weekdays has not
closed. `PolicyDecision` runs the loop of `evaluateGroup` with one step per rule
(`NextRuleOrDecide`), after `Exception` and before `Lists`. `FirstMatch`,
`Conditions` and `ProxyMatch` say without a loop what the comments promise.

### PolicyIdentity

`Find`, `Count` and `Seen` are the three look-ups of `ResolveDeviceByIP`; `Base`
is `resolveBaseIdentity`, `UserLoop` the loop over a Go map, hence in any order,
`Choose` the choice of the policy, `Grant` the choice of the exception or pause.
`Observe`, `Clear` and `Age` are discovery at work between these steps.

### PolicyRequest

The two modules over one request. `PolicyDecision` accepts every policy and
every grant, so what the first half chooses is among the inputs of the second: a
behaviour is about one of the halves, and TLC explores both without their product.

### PolicyStore

Each write is a `Commit` followed by `ReloadReadDoc`, `ReloadReadCats`,
`ReloadInstall` as steps of their own, because `Service.Reload` reads without a
common lock. `AssignAllCheck`/`SaveAssignments` and `PresetRead`/`PresetSave` are
the handlers that look at the memory and write later; `GiveUp` is a second half that is
refused. `SetEnabledCategories` and `CacheCategories` are the category selection.
`RestoreRead`, `RestoreWrite` and `Rollback` are a restored backup: it replaces the
settings unseen by what an archive holds, a document that cannot be decoded included
(`Broken`), and puts the old ones back when the devices cannot be written.
`Restart`, `MigrateLegacyPolicy`, `BlockListStep`, `BlockListEnd`, `BlockListFails` are a
start and its two migrations; after a start that could not read the policies there is
no policy service (`boot` is "off"), but a restore is still possible.

Reads and writes may fail wherever they are made. A write that fails after its rename
has changed the file, is answered with an error and closes the store until the next
start (`fenced`). `ReloadFails` leaves memory as it was. Categories that cannot be
read count as none. Two history variables say what an old copy is due to: `stale`, per
handler, what it carries and another one has overwritten since; `behind`, the parts of
memory whose last refresh was overtaken or did not happen.

### TemporaryAccess

`CreateGrant`, `Revoke`, `Prune` end in `Update`, a transaction; `LoadRead` and
`LoadPut` refresh the copy, or `LoadFails`. `ChangeGroups` is a change of the policies, whose
`Reload` (`ReloadGroups`, `InstallGroups`) refreshes these copies too. `Submit` holds the rate limiter and the limit of
kept requests; storing the request may fail after the limiter has counted it. Requests
are counted for the address that `clientIPFromRequest` finds: that of the connection, or
the first one of `X-Forwarded-For`, which whoever connects may write. `Approve` makes the exception first and `MarkApproved` reviews the
request in a second transaction that may find it gone. `Tick` is the clock. A hit
of the limiter carries the number of its request, so that two at one moment are two;
`accepted`, every request stored since the start, and `ended`, the grants whose revocation
was answered with success, are history variables.

### DeviceStore

One action per operation of the store, with the write to disk inside it (`Mutate`):
a device is changed in memory only if its record could be written, and a write that
fails after the rename has changed the file and leaves the store `broken`. DNS
UPDATE takes several actions, as in `ddns.go`: `DDNSDelete`, `DDNSClear`, `DDNSFind`, `DDNSUpsert`,
`DDNSList`, `DDNSRemove`. `LinkRequest` reads the protected IDs,
`LinkTailscaleIdentity` links later. `Start` restores the document and migrates
version 1, `Crash` forgets the memory.

### TailscaleManager

A critical section of `m.mu` is one step. `SetEnabled`, `lockTransition`,
`Transition`, `Clear`, and `Detect`, `Status`, `Apply`, `Install` (a refresh) are the
code of a transition; `Tick`, `Poll`, `PollStopped`, `DetectOnly` the poll loop;
`CloseStop`, `MarkStopped`, `lockTransitionForStop`, `StopEnds` are `Stop`;
`NewManager` and `Publish` the start; `PutConfig`, `PutLock`, `Persist` the handler
of the switch. `LinkRead` and `LinkWrite` are the request that links a peer to a device
(`Linkers`): it copies the peer from the snapshot and later writes its addresses into the
inventory, with neither the token nor `tailscaleConfigMu`. `linked` says for what was
written so whether the integration was on at that moment.
A context may end whenever it is looked at.

### DnsServer

`PostSettings`, `ReadSetting`, `Send` are a request and its reload; `StartServer`,
`Ready`, `StopMessage`, `CtxDone`, `StopServer`, `Join` the controller; `Publish`,
`CloseReady`, `ListenUDP`, `ListenTCP`, `ServeEnds` the goroutine of one server and
the DNS library; `Cancel`, `StopBegins`, `Expires`, `WebShutdown`, `DnsShutdown`,
`AwaitController`, `LoggerClose` the shutdown.

### WebCommon

A request is a record in the set of requests of a page: `Send` adds it, the step
of the server (`Served`) marks it done and keeps what the server had at that
moment, and the answer is an action of the page. A request that is answered with
a failure may or may not have been served: a lost answer is a failure.

### LiveFeed, DecisionLog, Statistics, DeviceActivity, LivePages

`LiveFeed` is the abstract page: a subject chosen, a request for a subject, the
subject of the rows on the screen; `Open`, `Choose`, `Ask`, `Answer`, `Close`.
`DecisionLog` (`loadDecisions`, `refreshDecisions`, `TypeSearch`, `clearSearch`,
`ChooseFilter`, `DecisionTimerFires`, `DecisionsAnswer`, `LeaveLogs`, and the loop
of the device names) and `Statistics` remember a wanted refresh in a flag and
compare the query of an answer with the current one. `DeviceActivity` has a
generation per dialog, aborts requests, and lets every destroyed dialog go on
receiving answers. `LivePages` puts them under the router and maps each to
`LiveFeed` with `INSTANCE ... WITH` (`LogsFeed`, `StatsFeed`, `ActivityFeed`): the
subject is the query, the window or the device, `asked` is the request the
page still counts on.

### ListEditors

One set of variables for the three editors, which have the same state and differ
in what identifies a row, what a failed load leaves and whether a save reloads
the list. A row carries a `uid` the program does not have, so that the
properties can say which row was meant. Actions have the names of the handlers
with the editor in front: `filterSaveData`, `listsPersist`, `recordsPersist`, ...
`StoreList` is the server, `TypeText`, `CloseForm`, `CloseDialog` the
administrator. What is disabled or covered by a dialog is in `filterOffered`,
`listsOffered`, `recordsOffered`. A dialog and a save remember whether they are for
a draft, a row of an inspection list that was never saved: those have no number of
their own after a reload, and the properties except them (section 5).

### UsersPage, DevicePages, PolicyPage, PolicyTools

The state of a page is a record with the names of its variables. A handler that
awaits is two actions: the one that sends (`confirmUserDelete`) and the one that
goes on with the answer (`userDeleted`), which often sends the next request.
`...Offered` says which controls the markup enables. `behind` is a history
variable: a request failed, or two requests that end in the same field were
under way together, so that no agreement is claimed until the page is read again.

### PolicyDraft

The draft of a policy without its server. `isBedtimeRule` recognizes the rule of
the switch by its shape; `rowsOf` are the others; `hasAdvancedSettings` opens the
advanced section; `ruleEdits` are the edits of one row; `Submitted` is what a save
sends and what an edit opens again.

### SettingFields, StatusPages

One variable says which control or page the behaviour is about. `text` is what the
input of the component library shows, which follows the value it is given only
when that changes. The server is `GSApiSettingsGET` and `GSApiSettingsPOST`: it does not
return API keys ("secret"), trims the URL of the local model ("url") and answers a URL
it refuses with 200 and stores nothing; `UrlOf` says what it makes of a text. `StandsFor` is what
can still be said then of the value a field takes for the stored one.
`loadFailed` marks a switch whose load failed and whose spinner therefore stays.

`aiStatus` has the outcome "timeout": the promise that
`withTimeout` raced no longer counts, the request goes on. The protection check is
answered with 200 also when the domain was not blocked; the page shows that and reads the status
all the same. The lists of the DNS page are refreshed by `InitializeFilters`, which forgets
the count, and `BlocklistsDownloaded`, which has the new one at some later time, before or
after the page looks. The summary of the
home page and its inspection card are only loaded or failed.

### WebSession

`Screen` is what `App.svelte` and its router show for a state and a path. A token is
the session generation in which it was issued; the server accepts those of the
current one. `setupStatus`, `verifyToken` are `checkSession`; `doCall` drops the
token at a 401; `SetupElsewhere` and `PasswordElsewhere` are other administrators.
`PasswordElsewhere` also stands for the hour after which a token expires: to the page, both are a token
that was good and is refused. Up to `MaxCalls` calls of a page, and as many requests for a new password, are under
way together. `GoBack` is the browser's history and `ReloadPage` a reload, after which only the token is left.

### WebForms

Chooses one page in the initial state and runs it; the variables of the others
stay in one idle state. Pages are never on the screen together, so this explores
them all in one run without their product.

## 3. The runs

| Run | Expected | States | Properties |
|---|---|---|---|
| `settings_storage` | pass | 450,705 | `NoOrphanedStore`, `SavedSurvives`, `MemoryMatchesFile`, `WinnersKeyKept` |
| `policy_request` | pass | 3,989,618 | `DecisionIsFirstMatch`, `ConditionsAreAbove`, `LayersAgree`, `PauseOnlyLifts`, `ActiveIsOpenWindow`, `UserPolicyIsDeterminate`, `QuietMeansOwnPolicy` |
| `policy_store` | pass | 2,735,135 | `SettledIsCurrent`, `DanglingOnlyByReplace`, `BlockListMovedWhole` |
| `temporary_access` | pass | 299,450 | `MemoryFromStore`, `RateBounded`, `ReviewedOnce`, `RevocationHolds` |
| `devices` | pass | 609,613 | `DurableMatchesMemory`, `NodeLinkedOnce`, `SharedMACOnlyByDDNS`, `PersistentStays` |
| `tailscale_manager` | pass | 447,007 | `OffIsClean`, `StopIsFinal`, `LaterTransitionWins`, `ConnectedIsApplied`, `StopReturns` |
| `dns_server` | pass | 737,556 | `OneServer`, `CleanStop` |
| `web_live` | pass | 19,185 | `OneLoop`, `FeedsImplemented`, `CatchesUp` |
| `web_forms` | pass | 2,536,805 | `ScreenIsStored`, `BusyHasRequest`, `DialogNamesItsRow`, `BedtimeUndo`, `NothingHidden`, `NotBlank`, `OnlyNamedRowsDropped`, `SessionKept` |
| `dns_server_join` | violation | | `StopJoins` |
| `session_logout` | violation | | `LogoutShowsLogin` |
| `list_identity` | violation | | `EditsByIdentity` |

Three further configurations state what a comment promises and the code does not
do; TLC finds each of them violated (section 5): `MCPolicyRequestGrant.cfg`,
`MCTemporaryAccessRevoke.cfg`, `MCWebAllowConditions.cfg`,
for the MC module of the same prefix (`MCWebForms` for the last).

For each property of a passing run `PROJECT.json` names a mutant, an operator
next to the definition it replaces (`PruneUnverified`, `JoinAtOnce`, ...). It is a
bug the code might plausibly have had, and the property fails with it.

### What each run shows, its bounds, and why they are enough

**settings_storage.** Two processes, each with its own store, two keys, one write
per store beyond the first. Two processes are needed for competing key creation,
two stores for a rotation that stops between them, two keys for a rotation and a
prune. A second write per store adds no new relation between memory, file and
survivors: a write depends only on the newest payload. Keys are
interchangeable (symmetry). The run has no deadlock: a process can always be
stopped or opened. For any number of each, see the proofs.

**policy_request.** The decision: every policy of up to three rules out of eleven
kinds, every combination of the four lists, both layers, every user, with and
without exception and pause; and 51 schedules at each half hour of a week in three
zones. Three rules are what it takes to have a condition above a decider above a
rule that would decide otherwise. A day has 48 units, and every boundary in the
schedules and presets falls on one of them, so a finer clock shows nothing new.
The identity: two devices that share, swap or lose one address, one user, the
default policy and another, every snapshot, one move of discovery while the
request is resolved. Ambiguity and staleness concern an address and the devices
that claim it, so one address and two devices reach every case. A behaviour ends
with the decision, so deadlock is not checked.

**policy_store.** Three handlers, at most two at once, and restarts, over two
policies, one user, one device, two category selections, and two archives: one in which the
device is assigned to a policy that is missing, one that cannot be decoded. Every read and
write may fail. Two handlers at once are
enough for a stale read, also against a restore or its rollback; the third lets something happen after the race.

**temporary_access.** Two handlers at once and three in all, two grants, two
requests of which one is kept, one address of a connection and one forwarded, one hit per
window of two, time up to three. With limits of one the boundary cases of the rate limiter, the retention and the expiry
all happen. The late refresh that `RevocationHolds` leaves out
and `MCTemporaryAccessRevoke.cfg` shows needs all three: one makes the grant, one reads it, one revokes it.

**devices.** Three devices, a LAN and an overlay address, one MAC, one name, one
node, four operations (crashes, failed writes and the steps of a DNS UPDATE
included), from an empty document and from one of version 1 with a bare and an edited
record. Sharing needs two devices; the third is the transient one that a link removes.

**tailscale_manager.** The start, the poll loop, the shutdown and two requests, each of them
to switch or to link; a link may be at work together with a switch. `tailscaleConfigMu`
serialises the handlers of the switch, so a second one at work would only wait. Two snapshots tell a stale snapshot from a fresh one.

**dns_server.** Two reloads at once, three in all, two server goroutines, ports
that may be taken, a shutdown at any time, whose context may expire at any time. Two
servers are enough for an earlier one to interfere with a later one. `dns_server_join`
needs one server and one reload.

**web_live.** Two searches, two filters, two windows, two devices; two dialogs one
after the other, with up to three generations each. Two subjects are enough for
an answer to meet another choice, three generations for an aborted request, its
successor and one more choice; the second dialog meets what the first left
behind. Numbers of dialogs and generations are bounded, nothing else is.

**web_forms.** Each page with two requests of the administrator (three in the
tester and the categories) besides the loads that the page makes itself. Two are enough for every pair of
handlers to overlap, in every order of the server's steps and of the answers, with
each of them failing before or after the server acted. The lists start with two
equal rows and may grow to three, so that a renumbered row exists and contents do
not give it away; a draft has up to two rules, one for the switch and one beside
it; a setting has three values, of which one is trimmed to another and one is refused
where they are URLs; the session has two credential changes, so that a token can be two
generations old, and two calls at once. `session_logout` and `list_identity` use the same instance.

Deadlock is not checked where a run has bounded counters or the program is meant
to stop: a state in which every counter is used up has no successor.

### Fairness

* `TailscaleManager`: weak fairness of every goroutine, and strong fairness of the
  step in which `Stop` takes the transition token. The token is a channel of one
  element; Go serves blocked receivers in order, so `Stop` is not overtaken for ever.
  The requests and the shutdown itself are not fair. `StopReturns` follows.
* `DnsServer`: weak fairness of the controller and of the server goroutines. Even
  so `StopJoins` fails, which is finding 1 below.
* `LivePages`: weak fairness of a timer that is armed and of the answers (the browser
  runs armed timers, and `fetch` always settles), and strong fairness of a successful
  answer: not every request fails for ever. Nobody is obliged to choose, retry
  or leave. `CatchesUp` holds for an administrator who stops changing the choice.

## 4. Proofs

The proofs are checked by TLAPS. They hold for every value of the constants that
satisfies the assumption of the module, so for any number of processes, stores,
keys, handlers, policies, devices, clients, snapshots and servers.

**`SettingsStorageProofs`** (assumes `StorageAssumption`: every process has a store
of its own, `NoKey` is not a key).
`StorageTypeCorrect`, `NoStoreIsOrphaned`, `SavedWritesSurvive`,
`MemoryAlwaysMatches`, `WinnersKeyIsKept`.
Two inductive invariants. `KeyInv` strengthens `NoOrphanedStore` to *every* surviving disk,
the one without its key file included, which must be openable with the operator's
backup (`StoresOpen`); to what a process holds between
finding a key and using it (`JobKeys`); to the fact that nobody creates a key while
an authenticated store exists (`CreateSafe`); and to what the maintenance has
established at each of its steps (`ToolSafe`). `SavedInv` adds that a write under way
is newer than everything acknowledged (`JobsNewer`) and what memory, file and stage of
an operation have to do with each other (`MemoryInv`).

**`TailscaleManagerProofs`** (assumes `TailscaleAssumption`: the goroutines are different
from each other and `None` is none of them).
`TypeCorrect`, `OffLeavesNothing`, `StoppedForGood`, `LatestDecides`,
`ShownIsApplied`. The argument is about the token: its holder is at a known place
(`Roles`, `TokenHeld`), so that a refresh under way is not overtaken by a disable
(`Refreshing`), and a stop that has the token has outlived every refresh (`StopState`).
The numbers of requests are unique (`Numbered`), so the later one wins. What a link request writes
while the integration is on is cleared with the rest; what it writes afterwards is not, and
`OffLeavesNothing` and `StoppedForGood` say nothing of it.

**`DnsServerProofs`** (assumes `DnsAssumption`: the bounds are natural numbers).
`DnsTypeCorrect`, `OneServerAtATime`, `CleanStopIsComplete`. `OneServer` lacks for
induction that the controller joins the goroutine it started last (`Joining`).
`CleanStop` needs that a UDP socket is open only while its goroutine serves
(`Open`), and that what the shutdown has waited for stays so (`Stopping`): this
holds because requests cannot begin once the web server is down, and a controller
that has returned starts nothing.

**`WebProofs`, the pages that refresh themselves** (assumes `LogsAssumption`, `StatsAssumption`, `ActivityAssumption`: `None` is no
query, window, device or dialog; the defaults are among the choices).
`PagesHaveOneLoop` and `PagesImplementFeeds`, for any searches, windows, devices
and dialogs. The inductive invariant `LiveInv` has one part per page. For the log
and the statistics it says that exactly one of request and timer exists while the
page is on the screen, no timer once it is gone, and that requests and rows are about
a query or a window. For the activity (`ActivityInv`) it orders the dialogs
(`DialogsInOrder`: the one on the screen was created last, all earlier ones are
destroyed), says that the open dialog loads its own device (`OpenDialogOwns`), that a
request of its current generation is the one it waits for and is about that
device, and none is of a later one (`RequestsOwned`), and that destroyed dialogs
neither load nor wait (`OneActivityLoop`). The refinement shows initial state and every action of every page
to be a step of `LiveFeed` or a stutter, from this invariant.

**`WebProofs`, the pages that change the configuration** (assumes `ListAssumption`, `DraftAssumption`, `FieldsAssumption`,
`StatusAssumption`, `SessionAssumption`: `None` and the other markers are none of the
values they stand beside, the first list is a list, and the server turns a URL into a value or refuses it).
`NoControlStaysBusy`, `ScreensAgree`, `NeverBlank`, `TokenStays`, `DialogsNameTheirRow`, `SavesDropNothingElse`,
`FormHidesNothing`, `BedtimeCanBeUndone`: the eight properties of `web_forms`, for any number of requests, rows, rules,
users, devices and logins.
`WebInv` has one part per page, the one on the screen keeps it, and a step of `WebForms` is a step of that page (`WebStep`).
The parts have a common form. That a control is busy is tied to the one request whose answer
releases it, by its kind and by what it carries (`UsersInv`, `ListPageInv`, ...). Agreement between requests only
is not inductive: what is needed is what an answer *will* show, while requests are under way.
`ReaderSteady` says it for a field that one kind of request reads: at most one read is under way; while no other
request is served and unanswered, a read that was served is current, and where no read is
under way the field itself is. For the fields of a setting this is said of the value the server would
return, and `StandsFor` of it. What `ScreensAgree` and `NoControlStaysBusy` leave out is
written into the properties: controls whose requests failed or overlapped, API keys, URLs the
server trims or refuses, the count of blocked domains after a download nobody has looked at,
the spinner of a switch whose load failed. `GroupsSteady`, `AssignSteady` and the steady parts of the fields and status pages are the
same for fields that answers to writes change too.
The list editors (`ListInv`): rows that are no drafts come first and are numbered by their places (`ListRows`);
the phases of a save and of its reload exclude each other (`ListPhases`); and, as long as nothing was saved before the list was
there (`ListSighted`), an open dialog names the row at a place (`Names`), a save under way keeps every row in its place
(`Covers`), so that the renumbering at its end leaves the dialog's row where it was, and drops only the row of
its deletion (`Drops`), because the screen it was made from had the server's rows in their places (`Aligned`).
The session (`SessionInv`) relates the state to the paths that the router shows in it, and the token to those the requests
under way carry. The draft (`DraftInv`) has the shape of the rules; that the first rule of bedtime shape is the
least such position, and that removing a position keeps the order of the others, are lemmas about sequences.

**`PolicyRequestProofs`** (assumes `ScheduleAssumption`: a day has a length and zone
offsets are natural numbers; `DecisionAssumption`: the rules are rules, no user is
*no user*, *always* is no schedule; `IdentityAssumption`: devices and policies are finite sets of numbers,
one of them the default). The theorems are about the two halves that
`PolicyRequest` joins, `Spec` of `PolicyDecision` and `IdentitySpec` of `PolicyIdentity`.
`DecisionIsFirstMatchAlways`, `ConditionsAreAboveAlways`, `LayersAgreeAlways`, `PauseOnlyLiftsAlways`: the invariant of
the loop (`DecisionInv`) says that no rule passed so far decides and that the conditions collected
are those of the rules passed (`Passed`), so that the rule it stops at is the first that decides; the
four properties follow from it without looking at the loop again.
`ActiveIsOpenWindowAlways` is arithmetic modulo a day and a week: the two
comparisons of `IsActive`, one for a window inside a day and one for the two ends of
an overnight window, come to "less time has passed since it opened than it lasts".
`UserPolicyIsDeterminateAlways`, `QuietMeansOwnPolicyAlways`: of the policies already visited the
one held is the first choice (`UserInv`), whatever order the map gives; and while discovery is
quiet what each look-up returned is about the same device (`QuietInv`).

**`PolicyStoreProofs`** (assumes `StoreAssumption`: the default policy exists, `None` is
nothing else, a document that cannot be decoded is none, no categories is a selection, legacy
documents are documents; of an archive only that it holds a document, none, or one that cannot be decoded).
`StoreTypeCorrect`, `SettledStoreIsCurrent`, `BlockListIsMovedWhole`, `DanglingIsByReplace`.
`SettledIsCurrent` speaks of moments without a handler; inductively it needs that at every other moment each
part of memory is current, `behind`, or owed by a handler at work (`Accounted`, `Owes`), and that what a handler
carries and nobody has overtaken is what is stored (`Fresh`). `Fresh` also says that assignments checked against a
current memory name existing policies, which is `DanglingIsByReplace`. `BlockListMovedWhole` needs
that a stored policy that is no longer to do has its entries although memory is refreshed
only at the end (`Moving`). The invariant is about the stored document as well when it cannot be
decoded, the store is closed or there is no policy service.

**`DeviceStoreProofs`** (assumes `DeviceAssumption`: bounds are natural numbers, `None` is no
address, MAC, name, node or record, the old documents are documents).
`DevicesTypeCorrect`, `MemoryAndDocumentAgree`, `EveryNodeLinkedOnce`, `MACSharedOnlyByDDNS`, `EditedDevicesStay`.
`DevicesInv` adds to the type invariant: every record in the document is the record of
the device in memory, and a bare record is that of a device not seen since the start
(`Matching`); no two devices and no two records have one node (`NodesApart`, `RecordsApart`). The middle one
is what the migration of version 1 leaves and the first observation removes; without it
`DurableMatchesMemory` is not inductive. That a device removed by a cleanup had no record
(`TransientHasNoRecord`) and what a failed write may leave (`MutateStep`) are lemmas used by every operation.

**`TemporaryAccessProofs`** (assumes `AccessAssumption`: limits are positive, bounds natural,
`None` is no policy, number or grant).
`AccessTypeCorrect`, `HonouredWasStored`, `RateIsBounded`, `AnswersAreFinal`, `RevocationsHold`.
`MemoryFromStore` needs the same of the copies that handlers carry and that a
grant pruned meanwhile was over (`CopiesOK`). `RateBounded` speaks of one address, as `clientIPFromRequest` finds it, and of every window, wherever it begins,
also of those that reach back beyond what the limiter still knows: inductively, the limiter knows every accepted
request that still counts (`RatesOK`). `ReviewedOnce` needs that request numbers are
unique in the list (`RequestsOK`), because `MarkApproved` finds the request again by its number.
`RevocationHolds` needs that a grant whose revocation was answered is over in its document (`RevokedOK`), and that the
revoking handler carries a copy in which it is (`RevokerOK`), so that only a copy read before can bring it back.

The type invariants of the modules above other than `LivePages` and the two halves of
`PolicyRequest` are proved as theorems and not repeated by the runs; those of the halves
are part of `DecisionInv` and `IdentityInv`.

Only model-checked: the liveness properties (`StopReturns`,
`StopJoins`, `CatchesUp`), which are out of reach of this prover. Every invariant and
action property of a passing run is a theorem.

Two things the proofs of the pages found that the runs had not, their bounds being too small: the
deletion of a draft in an inspection list can reach its neighbour, and writes of policies of
*different* kinds can cross as two saves can (both in section 5). `DialogNamesItsRow`,
`OnlyNamedRowsDropped` and `PoliciesAgree` name these cases as exceptions.

## 5. Where code and comments disagree

With a run that shows it:

1. *dns_server_join*, `dns/server/server.go:601`. A stop between the publication of the handles and
   `ListenAndServe` shuts nothing down; the controller waits for a server that then listens.
2. *session_logout*, `components/connectedGeneralSettingInputs.svelte:78`. A change of the administrator
   password drops the token and goes to `/login`, but the shell still takes itself for
   authenticated and shows page not found. The changelog promises the login page.
3. *list_identity*, `components/dnslists.svelte:127`. A block list is edited by index. A deletion that is
   confirmed, its dialog closed by the cross while it is under way, and an edit form
   opened meanwhile: when the deletion lands, saving the form overwrites another row.
   Two tests are named after the stable identity of rows.

With a configuration of their own beside the runs:

* `StaleGrantsNothing` (`MCPolicyRequestGrant.cfg`), `policy/exception.go:345`. The comment on `DeviceResolver`
  (`policy/service.go:38`) calls a stale observation "unsafe to enforce against";
  an exception or pause for such a device still applies to whoever has its address now.
* `RevocationTakesEffect` (`MCTemporaryAccessRevoke.cfg`), `policy/exception.go:401`. A refresh that read the
  document before a revocation can install it afterwards; the revoked exception is
  honoured until the next refresh or its expiry, although the change is said to take
  "effect immediately" (`exception.go:369`).
* `LinkStaysAttached` (violated as a `PROPERTY` of `MCDeviceStore.cfg`), `dns/server/ddns.go:266`. Any DNS UPDATE removes a linked
  device that has no LAN address, its stored link included; `docs/configuration-migrations.md:39`
  says that a restored link remains attached.
* `AllowHasNoConditions` (`MCWebAllowConditions.cfg`), `groupform.svelte:112`. The comment says that "the form
  turns the fields off rather than letting an administrator write it"; an existing
  blocking rule switched to *allow* keeps its conditions, now hidden.

Seen while modelling, reproduced by the models, and not promised otherwise by a comment
that could serve as a property (or promised only in part):

* a refresh that fails after a stored change leaves the old policies in force until the next one
  (`service.go:314`), and the request is answered with an error although it was carried out;
* categories that cannot be read count as none and are installed so (`category.go:158`), although
  `service.go:310` says that on error the previous snapshot is retained: filtering by category is off then;
* a restored backup replaces the policies unvalidated (`backup.go:210`): assignments may name
  policies that do not exist, and a document that cannot be decoded leaves no policy service after the next start;
* the rollback of a restore overwrites whatever other requests stored in between (`backup.go:215`), and nothing is
  reloaded after it (`handler_backup.go`);
* the retired block list is emptied although policies lack its entries when these policies were made from old
  records a moment ago and could not be read again (`policy_migration.go:83` and `:138`);
* the rate limiter counts requests for the address in `X-Forwarded-For` (`handler_exceptions.go:27`), so that its limit is
  one per address named, not per connection, as "per client IP" has it (`:195`);
* a link request that has read its peer writes its addresses also after the integration was switched off
  (`handler_tailscale.go:309`), where they stay until the next refresh or switch (the case `OffIsClean` leaves out);
* the preset handler reads a policy from memory and writes it back whole, so an edit
  stored in between is lost (`handler_pauses.go:133` and `:151`);
* a rule limited to users is only seen by the proxy (`rules.go:331`), which
  `LayersAgree` accounts for: DNS reports it as something it could not see;
* the cache of selected categories is set after the transaction, so that two
  handlers may leave the older selection in memory;
* the look-up of the policy of a new exception can miss a stored deletion
  (`exception.go:268`); the grant then names a policy nobody has;
* the three look-ups of `ResolveDeviceByIP` can mix two devices (`server.go:302`);
* a login replaces the source *stale device* of an identity (`service.go:654`), so the
  assignment of the stale device decides when no policy lists the user;
* after a failed directory sync a store is quarantined until it is opened again
  (`storage.go:332`), but `Set` and `Persist` do not ask: they go on replacing the
  visible file, while reads and updates are refused;
* the cleanup of a DNS UPDATE removes a device labelled after it was listed
  (`ddns.go:266`), which `PersistentStays` has to except;
* a version 1 record kept only because a policy refers to it is dropped at the first
  observation of its device (`persistence.go:190`);
* the stored Tailscale setting and the manager may disagree after a cancelled request
  (`handler_tailscale.go:151`);
* reloads may send their messages in the other order than they read the setting
  (`runtime.go:491`);
* the protected IDs of a link request are read before the store takes its lock
  (`handler_tailscale.go:319`), so a device assigned in between may be removed;
* after a failed bind the mDNS browser goes on (`server.go:609`), and a TCP listener stopped
  before its `ListenAndServe` is left open.

And in the web interface:

* lists and settings: Cancel in the filter editor keeps the text typed into an existing
  row, and deleting another row sends it; text typed during a save of a setting field is
  replaced when the save ends; a failed switch stays flipped, and a switch whose load
  failed spins for ever; the privacy notice of the HTTPS switch does not hold the save
  back; the certificate information is not read again after an edit; a URL of the local model that the server refuses is answered
  with 200 (`handler_settings.go:86`) and shown as saved (`api.ts:160`), one that it trims is shown untrimmed; the
  field of an API key is empty whether or not there is one (`handler_settings.go:42`);
* DNS status: three seconds after a change of the lists the count read may be 0, or the old one, if the
  downloads take longer (`dns/filter/domains.go:26`), and the page does not look again (the case `StatusAgrees` leaves out);
* inspection lists: editing another row while a draft is being saved leaves the draft behind
  (`filtereditor.svelte:125`); the reload then renumbers the rows (`:61`) under a
  dialog opened for the draft, and confirming it deletes the row that has its number
  now (`:156`), the exception `DialogNamesItsRow` and `OnlyNamedRowsDropped` make;
* the header's password field sends the general settings it loaded, and so reverts a
  log location changed meanwhile; every submission of that dialog logs out, a blank one too;
* policies: the tag of a device is not disabled during a save, so saves overlap, and the
  answer to one may close the draft opened after the other; a save, a template and a
  deletion that overlap so are each answered with what they made of the list of policies,
  and the answers may come in the other order (the exception `PoliciesAgree` makes); Enter in the tester is not
  held back by a test under way, so the older result may come last;
* draft: a disabled rule of bedtime shape shows the switch on, with no control to enable
  it; a row edited into that shape vanishes into the switch; Enter in a field of a rule
  submits the whole form; a save drops the text of an entry field whose Add was not pressed;
* image filtering: overlapping status reads may leave "disabled" on the panel while
  another provider is stored; the home page shows inspection as off when its request failed;
* session: the browser's Back after a logout, and a setup completed elsewhere between the
  two readings of its status, leave a blank screen (the exceptions `NotBlank` makes);
  any answer but 200 to the check of the token drops it; a 401 for an older token drops
  a newer login (the exception `SessionKept` makes);
* notifications: an identifier is the length of the list plus one and repeats after a removal.

## 6. Bounds by name

`MaxVer`, `MaxRules`, `MaxMoves`, `MaxOps`, `MaxGrants`, `MaxRequests`, `MaxTime`, `MaxDevices`, `MaxPuts`, `MaxStarts`,
`MaxPosts`, and for the web interface `Dialogs`, `MaxGen`, `MaxUid`, `MaxSaves`, `MaxUserOps`, `MaxDeviceOps`, `MaxPolicyOps`,
`MaxToolOps`, `MaxFieldOps`, `MaxStatusOps`, `MaxGeneration` and `MaxCalls` are bounds of the models. They appear in the guards of the actions that use
them up, and nowhere else. `MaxDuration`, `Window`, `MaxHits` and `MaxKept` are limits of
the code with smaller values.

## 7. Plan

Done: the storage, the policies, temporary access, the inventory, the Tailscale
manager, the lifecycle of the DNS server, and the web interface with its
refinement. What is left, in this order:

1. **Block list and category refresh, DNS query handler.** A module for the refresh
   (lists emptied before they are downloaded, requests dropped while one runs, feeds
   kept when a download fails) and one for the order in which `handleDNSRequest`
   consults its sources, over the decision of `PolicyDecision`. Properties: a listed domain is
   never answered in steady state; a failed download does not forget what was
   known; a query is decided by one snapshot of each list.
2. **Activity logger.** Queue, writer, barriers, `Flush` against a full queue, `Close` against
   producers. What was accepted is written or counted as dropped; `Flush` and `Close` end.
   An abstract log (accepted entries in order) as the specification it implements.
3. **Administrator authentication and onboarding.** `Verify` and `CreateToken` read the state separately;
   a session of an older generation is never accepted after a credential change.
   The wizard's transactions and what a crash between them leaves.
4. **Proxy.** The order of the checks of `ServeHTTP` over `PolicyDecision`.
5. **Proofs.** Those of the modules above as they come, and the refinement of the logger.

## 8. Not modelled, and why

* Upgrade of version 1 policy documents, import of retired rules, templates, the export of a
  backup and the validation of an archive: conversions of one value into another without interleaving.
  A restore is in `PolicyStore` as far as it replaces policies and categories; that it also
  replaces exceptions, pauses, access requests and devices is not modelled.
* Generated DNS records and zones, online flags, and the operations of the inventory nothing calls.
* The bytes on the wire: the parsing of ClientHello and DNS messages, TLS
  interception, content scanning; cryptography; the scores of the filters.
* The mDNS scan: its start and stop are in `DnsServer`, what it reports is an
  observation in `DeviceStore`.
* Defaults, users and certificate in `GSRuntime.Init`, and the shutdown of the proxies.
* Diagnostics and the statistics of the gateway: reports that only read.
* The block list refresh empties the list and fills it after the downloads
  (`dns/filter/domains.go:20`). `StatusPages` has it as far as the count that is shown; the
  rest belongs to the first step of the plan.
* Of the web interface: markup, texts, charts, clipboard and downloads; the navigation
  menus, the notifications, the information about the certificate, the parsing of
  domains and the wording of schedules. They change nothing on the gateway and keep
  no state another part relies on.
