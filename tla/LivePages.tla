------------------------------ MODULE LivePages ------------------------------
(***************************************************************************)
(* The pages that refresh themselves, as the router of App.svelte shows    *)
(* them: one of them is on the screen.  Each implements LiveFeed.          *)
(***************************************************************************)
EXTENDS DecisionLog, Statistics, DeviceActivity

VARIABLE route   \* the page that is mounted

liveVars == <<route, logsVars, statsVars, activityVars>>

LiveRoutes == {"/logs", "/stats", "/devices"}

LiveInit ==
  /\ route \in LiveRoutes
  /\ LogsInit /\ StatsInit /\ ActivityInit

OnLogs(step) == route = "/logs" /\ step /\ UNCHANGED <<route, statsVars, activityVars>>
OnStats(step) == route = "/stats" /\ step /\ UNCHANGED <<route, logsVars, activityVars>>
OnDevices(step) == route = "/devices" /\ step /\ UNCHANGED <<route, logsVars, statsVars>>

LiveNext == OnLogs(LogsNext) \/ OnStats(StatsNext) \/ OnDevices(ActivityNext)

(* Timers fire, requests end, and not every request fails: the browser     *)
(* runs every timer it armed, and fetch always settles.                    *)
LiveFairness ==
  /\ WF_liveVars(OnLogs(DecisionTimerFires))
  /\ WF_liveVars(OnLogs(\E ok \in BOOLEAN : DecisionsAnswer(ok)))
  /\ SF_liveVars(OnLogs(DecisionsAnswer(TRUE)))
  /\ WF_liveVars(OnStats(SummaryTimerFires))
  /\ WF_liveVars(OnStats(\E ok \in BOOLEAN : SummaryAnswer(ok)))
  /\ SF_liveVars(OnStats(SummaryAnswer(TRUE)))
  /\ \A i \in Dialogs :
       /\ WF_liveVars(OnDevices(ActivityTimerFires(i)))
       /\ WF_liveVars(OnDevices(\E r \in activityRequests, ok \in BOOLEAN :
                                  r.dialog = i /\ ActivityAnswer(r, ok)))
       /\ SF_liveVars(OnDevices(\E r \in activityRequests :
                                  /\ r.dialog = i /\ r.gen = activityGeneration[i]
                                  /\ ActivityAnswer(r, TRUE)))

LiveSafety == LiveInit /\ [][LiveNext]_liveVars
LiveSpec == LiveSafety /\ LiveFairness

(***************************************************************************)
(* The refinement mappings.                                                *)
(***************************************************************************)
LogsFeed == INSTANCE LiveFeed WITH
  Subjects <- Queries, Nothing <- None,
  open    <- ~logsGone,
  subject <- IF logsGone THEN None ELSE buildQuery,
  shown   <- IF logsGone THEN None ELSE decisions,
  asked   <- IF ~logsGone /\ decisionsLoading THEN asking ELSE None

StatsFeed == INSTANCE LiveFeed WITH
  Subjects <- Windows, Nothing <- None,
  open    <- ~statsGone,
  subject <- IF statsGone THEN None ELSE selected,
  shown   <- IF statsGone THEN None ELSE summary,
  asked   <- IF ~statsGone /\ summaryLoading THEN requested ELSE None

ActivityFeed == INSTANCE LiveFeed WITH
  Subjects <- Devices, Nothing <- None,
  open    <- dialog # None,
  subject <- IF dialog = None THEN None ELSE device[dialog],
  shown   <- IF dialog = None THEN None ELSE activity[dialog],
  asked   <- IF dialog # None /\ activityRequestRunning[dialog]
             THEN activityDeviceID[dialog] ELSE None

(* Each page implements LiveFeed, with a pending flag, a timer and, for    *)
(* the activity, generations around its request: the answer to an older    *)
(* search or filter never replaces the rows of the newer one (logs.svelte);*)
(* the summary of a window the administrator has left is never shown as    *)
(* that of the one selected (stats.svelte); what an aborted, late or       *)
(* orphaned request returns is never shown for another device or dialog    *)
(* (devicedetail.svelte).                                                  *)
FeedsImplemented == LogsFeed!Spec /\ StatsFeed!Spec /\ ActivityFeed!Spec

(* Every feed has exactly one loop while its page is on the screen, a      *)
(* request or a timer, and no timer once it is gone: it neither stops      *)
(* refreshing nor refreshes twice as often after a retry, a new choice or  *)
(* a reopened dialog.                                                      *)
OneLoop ==
  /\ IF logsGone THEN ~decisionTimer /\ ~deviceTimer
     ELSE decisionTimer # decisionsLoading /\ deviceTimer # devicesLoading
  /\ IF statsGone THEN ~summaryTimer /\ ~trafficTimer
     ELSE summaryTimer # summaryLoading /\ trafficTimer # trafficLoading
  /\ \A i \in Dialogs :
       IF i = dialog THEN activityTimer[i] # activityRequestRunning[i]
       ELSE ~activityTimer[i] /\ ~activityRequestRunning[i]

(* A page catches up with the administrator: who stops changing the        *)
(* search, the filters, the window or the device sees the rows for the     *)
(* last choice, over and over, while the page is open.                     *)
CatchesUp ==
  /\ \/ []<><<buildQuery' # buildQuery>>_logsVars
     \/ []<>(route = "/logs" => logsGone \/ (LogsView = "rows" /\ decisions = buildQuery))
  /\ \/ []<><<selected' # selected>>_statsVars
     \/ []<>(route = "/stats" => statsGone \/ StatsView.numbers = selected)
  /\ []<>(dialog = None \/ activity[dialog] = device[dialog])
=============================================================================
