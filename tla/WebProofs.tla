------------------------------ MODULE WebProofs ------------------------------
(***************************************************************************)
(* The web interface, for any number of rows, users, devices, policies,    *)
(* rules, requests and dialogs.                                            *)
(*                                                                         *)
(* The pages that refresh themselves (LivePages) implement LiveFeed and    *)
(* each has one loop while it is on the screen.  The pages that change the *)
(* configuration (WebForms) never show that they are busy without a        *)
(* request, and agree with the server once no request is under way; the    *)
(* list editors, the policy form and the session have properties of their  *)
(* own.  Each page has an inductive invariant; a step of one page leaves   *)
(* the variables of the others alone.                                      *)
(***************************************************************************)
EXTENDS LivePages, WebForms, FiniteSetTheorems, SequenceTheorems, WellFoundedInduction, TLAPS

-----------------------------------------------------------------------------
(* The decision log *)

LogsInv ==
  /\ search \in Searches /\ filter \in Filters
  /\ asking \in Queries /\ decisions \in Queries \cup {None}
  /\ decisionsLoading \in BOOLEAN /\ decisionTimer \in BOOLEAN
  /\ devicesLoading \in BOOLEAN /\ deviceTimer \in BOOLEAN
  /\ decisionRefreshPending \in BOOLEAN /\ logsGone \in BOOLEAN
  /\ logsGone => ~decisionTimer /\ ~deviceTimer
  /\ ~logsGone => (decisionTimer <=> ~decisionsLoading) /\ (deviceTimer <=> ~devicesLoading)

(* What is searched for is a query.                                        *)
LEMMA QueryType == \A s \in Searches, f \in Filters : <<s, f>> \in Queries
  BY DEF Queries

(* The page starts with a request of each loop.                            *)
LEMMA LogsInvInit == LogsInit => LogsInv
  BY LogsAssumption, QueryType DEF LogsInit, LogsInv, buildQuery

(* Every handler of logs.svelte keeps the invariant.                       *)
LEMMA LogsInvStep == LogsInv /\ [LogsNext]_logsVars => LogsInv'
<1> SUFFICES ASSUME LogsInv, [LogsNext]_logsVars PROVE LogsInv'
  OBVIOUS
<1> USE LogsAssumption, QueryType DEF LogsInv, buildQuery, deviceLoop, loadDecisions, refreshDecisions
<1>1. ASSUME NEW s \in Searches, TypeSearch(s) PROVE LogsInv'
  BY <1>1 DEF TypeSearch
<1>2. ASSUME NEW f \in Filters, ChooseFilter(f) PROVE LogsInv'
  <2>1. asking' \in Queries
    BY <1>2 DEF ChooseFilter
  <2>2. CASE decisionsLoading
    BY <1>2, <2>1, <2>2 DEF ChooseFilter
  <2>3. CASE ~decisionsLoading
    BY <1>2, <2>1, <2>3 DEF ChooseFilter
  <2> QED
    BY <2>2, <2>3
<1>3. CASE clearSearch
  <2>1. asking' \in Queries
    BY <1>3 DEF clearSearch
  <2>2. CASE decisionsLoading
    BY <1>3, <2>1, <2>2 DEF clearSearch
  <2>3. CASE ~decisionsLoading
    BY <1>3, <2>1, <2>3 DEF clearSearch
  <2> QED
    BY <2>2, <2>3
<1>4. CASE RetryDecisions
  <2>1. asking' \in Queries
    BY <1>4 DEF RetryDecisions
  <2>2. CASE decisionsLoading
    BY <1>4, <2>1, <2>2 DEF RetryDecisions
  <2>3. CASE ~decisionsLoading
    BY <1>4, <2>1, <2>3 DEF RetryDecisions
  <2> QED
    BY <2>2, <2>3
<1>5. CASE DecisionTimerFires
  BY <1>5 DEF DecisionTimerFires
<1>6. ASSUME NEW ok \in BOOLEAN, DecisionsAnswer(ok) PROVE LogsInv'
  <2>1. asking' \in Queries
    BY <1>6 DEF DecisionsAnswer, answerCounts
  <2>2. decisions' \in Queries \cup {None}
    BY <1>6 DEF DecisionsAnswer, answerCounts
  <2>3. UNCHANGED <<search, filter, logsGone, devicesLoading, deviceTimer>> /\ decisionsLoading
    BY <1>6 DEF DecisionsAnswer
  <2>4. CASE logsGone
    <3>1. decisionsLoading' = FALSE /\ UNCHANGED <<decisionTimer, decisionRefreshPending>>
      BY <1>6, <2>4 DEF DecisionsAnswer
    <3> QED
      BY <2>1, <2>2, <2>3, <2>4, <3>1
  <2>5. CASE ~logsGone /\ decisionRefreshPending
    <3>1. decisionsLoading' = TRUE /\ decisionTimer' = decisionTimer /\ decisionRefreshPending' = FALSE
      BY <1>6, <2>5 DEF DecisionsAnswer
    <3> QED
      BY <2>1, <2>2, <2>3, <2>5, <3>1
  <2>6. CASE ~logsGone /\ ~decisionRefreshPending
    <3>1. decisionsLoading' = FALSE /\ decisionTimer' = TRUE /\ decisionRefreshPending' = decisionRefreshPending
      BY <1>6, <2>6 DEF DecisionsAnswer
    <3> QED
      BY <2>1, <2>2, <2>3, <2>6, <3>1
  <2> QED
    BY <2>4, <2>5, <2>6
<1>7. ASSUME NEW ok \in BOOLEAN, DeviceNamesAnswer(ok) PROVE LogsInv'
  BY <1>7 DEF DeviceNamesAnswer
<1>8. CASE DeviceTimerFires
  BY <1>8 DEF DeviceTimerFires
<1>9. CASE LeaveLogs
  BY <1>9 DEF LeaveLogs
<1>10. CASE UNCHANGED logsVars
  BY <1>10 DEF logsVars
<1> QED
  BY <1>1, <1>2, <1>3, <1>4, <1>5, <1>6, <1>7, <1>8, <1>9, <1>10 DEF LogsNext

(* The page starts as an open feed that asks for the empty search.         *)
LEMMA LogsRefineInit == LogsInit => LogsFeed!Init
  BY LogsAssumption DEF LogsInit, LogsFeed!Init, Queries, buildQuery

(* Every handler is a step of the feed, or none.                           *)
LEMMA LogsRefineStep == LogsInv /\ [LogsNext]_logsVars => [LogsFeed!Next]_(LogsFeed!vars)
<1> SUFFICES ASSUME LogsInv, [LogsNext]_logsVars PROVE [LogsFeed!Next]_(LogsFeed!vars)
  OBVIOUS
<1> USE LogsAssumption DEF LogsInv, Queries, buildQuery, deviceLoop, loadDecisions, refreshDecisions,
      LogsFeed!vars
<1>1. ASSUME NEW s \in Searches, TypeSearch(s) PROVE LogsFeed!Choose(<<s, filter>>)
  BY <1>1 DEF TypeSearch, LogsFeed!Choose
<1>2. ASSUME NEW f \in Filters, ChooseFilter(f) PROVE LogsFeed!Choose(<<search, f>>)
  BY <1>2 DEF ChooseFilter, LogsFeed!Choose
<1>3. CASE clearSearch
  <2>1. LogsFeed!Choose(<<NoSearch, filter>>)
    BY <1>3 DEF clearSearch, LogsFeed!Choose
  <2> QED
    BY <2>1 DEF LogsFeed!Next
<1>4. CASE RetryDecisions
  <2>1. CASE decisionsLoading
    BY <1>4, <2>1 DEF RetryDecisions
  <2>2. CASE ~decisionsLoading
    <3>1. LogsFeed!Ask
      BY <1>4, <2>2 DEF RetryDecisions, LogsFeed!Ask
    <3> QED
      BY <3>1 DEF LogsFeed!Next
  <2> QED
    BY <2>1, <2>2
<1>5. CASE DecisionTimerFires
  <2>1. LogsFeed!Ask
    BY <1>5 DEF DecisionTimerFires, LogsFeed!Ask
  <2> QED
    BY <2>1 DEF LogsFeed!Next
<1>6. ASSUME NEW ok \in BOOLEAN, DecisionsAnswer(ok) PROVE [LogsFeed!Next]_(LogsFeed!vars)
  <2>1. CASE logsGone
    BY <1>6, <2>1 DEF DecisionsAnswer, answerCounts
  <2>2. CASE ~logsGone
    <3>1. LogsFeed!Answer
      BY <1>6, <2>2 DEF DecisionsAnswer, answerCounts, LogsFeed!Answer
    <3> QED
      BY <3>1 DEF LogsFeed!Next
  <2> QED
    BY <2>1, <2>2
<1>7. ASSUME NEW ok \in BOOLEAN, DeviceNamesAnswer(ok) PROVE UNCHANGED LogsFeed!vars
  BY <1>7 DEF DeviceNamesAnswer
<1>8. CASE DeviceTimerFires
  BY <1>8 DEF DeviceTimerFires
<1>9. CASE LeaveLogs
  <2>1. LogsFeed!Close
    BY <1>9 DEF LeaveLogs, LogsFeed!Close
  <2> QED
    BY <2>1 DEF LogsFeed!Next
<1>10. CASE UNCHANGED logsVars
  BY <1>10 DEF logsVars
<1> QED
  BY <1>1, <1>2, <1>3, <1>4, <1>5, <1>6, <1>7, <1>8, <1>9, <1>10 DEF LogsNext, LogsFeed!Next

-----------------------------------------------------------------------------
(* The statistics *)

StatsInv ==
  /\ selected \in Windows /\ requested \in Windows /\ summary \in Windows \cup {None}
  /\ summaryLoading \in BOOLEAN /\ summaryTimer \in BOOLEAN
  /\ trafficLoading \in BOOLEAN /\ trafficTimer \in BOOLEAN
  /\ summaryRefreshPending \in BOOLEAN /\ statsGone \in BOOLEAN
  /\ statsGone => ~summaryTimer /\ ~trafficTimer
  /\ ~statsGone => (summaryTimer <=> ~summaryLoading) /\ (trafficTimer <=> ~trafficLoading)

(* The page starts with a request of each loop.                            *)
LEMMA StatsInvInit == StatsInit => StatsInv
  BY StatsAssumption DEF StatsInit, StatsInv

(* Every handler of stats.svelte keeps the invariant.                      *)
LEMMA StatsInvStep == StatsInv /\ [StatsNext]_statsVars => StatsInv'
<1> SUFFICES ASSUME StatsInv, [StatsNext]_statsVars PROVE StatsInv'
  OBVIOUS
<1> USE StatsAssumption DEF StatsInv, summaryLoop, trafficLoop, loadSummary, refreshSummary
<1>1. ASSUME NEW w \in Windows, selectWindow(w) PROVE StatsInv'
  <2>1. CASE summaryLoading
    BY <1>1, <2>1 DEF selectWindow
  <2>2. CASE ~summaryLoading
    BY <1>1, <2>2 DEF selectWindow
  <2> QED
    BY <2>1, <2>2
<1>2. CASE RetrySummary
  <2>1. CASE summaryLoading
    BY <1>2, <2>1 DEF RetrySummary
  <2>2. CASE ~summaryLoading
    BY <1>2, <2>2 DEF RetrySummary
  <2> QED
    BY <2>1, <2>2
<1>3. CASE SummaryTimerFires
  BY <1>3 DEF SummaryTimerFires
<1>4. ASSUME NEW ok \in BOOLEAN, SummaryAnswer(ok) PROVE StatsInv'
  <2>1. requested' \in Windows /\ summary' \in Windows \cup {None}
    BY <1>4 DEF SummaryAnswer
  <2>2. UNCHANGED <<selected, statsGone, trafficLoading, trafficTimer>> /\ summaryLoading
    BY <1>4 DEF SummaryAnswer
  <2>3. CASE statsGone
    <3>1. summaryLoading' = FALSE /\ UNCHANGED <<summaryTimer, summaryRefreshPending>>
      BY <1>4, <2>3 DEF SummaryAnswer
    <3> QED
      BY <2>1, <2>2, <2>3, <3>1
  <2>4. CASE ~statsGone /\ summaryRefreshPending
    <3>1. summaryLoading' = TRUE /\ summaryTimer' = summaryTimer /\ summaryRefreshPending' = FALSE
      BY <1>4, <2>4 DEF SummaryAnswer
    <3> QED
      BY <2>1, <2>2, <2>4, <3>1
  <2>5. CASE ~statsGone /\ ~summaryRefreshPending
    <3>1. summaryLoading' = FALSE /\ summaryTimer' = TRUE /\ summaryRefreshPending' = summaryRefreshPending
      BY <1>4, <2>5 DEF SummaryAnswer
    <3> QED
      BY <2>1, <2>2, <2>5, <3>1
  <2> QED
    BY <2>3, <2>4, <2>5
<1>5. ASSUME NEW ok \in BOOLEAN, TrafficAnswer(ok) PROVE StatsInv'
  BY <1>5 DEF TrafficAnswer
<1>6. CASE TrafficTimerFires
  BY <1>6 DEF TrafficTimerFires
<1>7. CASE LeaveStats
  BY <1>7 DEF LeaveStats
<1>8. CASE UNCHANGED statsVars
  BY <1>8 DEF statsVars
<1> QED
  BY <1>1, <1>2, <1>3, <1>4, <1>5, <1>6, <1>7, <1>8 DEF StatsNext

(* The page starts as an open feed that asks for the last day.             *)
LEMMA StatsRefineInit == StatsInit => StatsFeed!Init
  BY StatsAssumption DEF StatsInit, StatsFeed!Init

(* Every handler is a step of the feed, or none.                           *)
LEMMA StatsRefineStep == StatsInv /\ [StatsNext]_statsVars => [StatsFeed!Next]_(StatsFeed!vars)
<1> SUFFICES ASSUME StatsInv, [StatsNext]_statsVars PROVE [StatsFeed!Next]_(StatsFeed!vars)
  OBVIOUS
<1> USE StatsAssumption DEF StatsInv, summaryLoop, trafficLoop, loadSummary, refreshSummary, StatsFeed!vars
<1>1. ASSUME NEW w \in Windows, selectWindow(w) PROVE StatsFeed!Choose(w)
  BY <1>1 DEF selectWindow, StatsFeed!Choose
<1>2. CASE RetrySummary
  <2>1. CASE summaryLoading
    BY <1>2, <2>1 DEF RetrySummary
  <2>2. CASE ~summaryLoading
    <3>1. StatsFeed!Ask
      BY <1>2, <2>2 DEF RetrySummary, StatsFeed!Ask
    <3> QED
      BY <3>1 DEF StatsFeed!Next
  <2> QED
    BY <2>1, <2>2
<1>3. CASE SummaryTimerFires
  <2>1. StatsFeed!Ask
    BY <1>3 DEF SummaryTimerFires, StatsFeed!Ask
  <2> QED
    BY <2>1 DEF StatsFeed!Next
<1>4. ASSUME NEW ok \in BOOLEAN, SummaryAnswer(ok) PROVE [StatsFeed!Next]_(StatsFeed!vars)
  <2>1. CASE statsGone
    BY <1>4, <2>1 DEF SummaryAnswer
  <2>2. CASE ~statsGone
    <3>1. StatsFeed!Answer
      BY <1>4, <2>2 DEF SummaryAnswer, StatsFeed!Answer
    <3> QED
      BY <3>1 DEF StatsFeed!Next
  <2> QED
    BY <2>1, <2>2
<1>5. ASSUME NEW ok \in BOOLEAN, TrafficAnswer(ok) PROVE UNCHANGED StatsFeed!vars
  BY <1>5 DEF TrafficAnswer
<1>6. CASE TrafficTimerFires
  BY <1>6 DEF TrafficTimerFires
<1>7. CASE LeaveStats
  <2>1. StatsFeed!Close
    BY <1>7 DEF LeaveStats, StatsFeed!Close
  <2> QED
    BY <2>1 DEF StatsFeed!Next
<1>8. CASE UNCHANGED statsVars
  BY <1>8 DEF statsVars
<1> QED
  BY <1>1, <1>2, <1>3, <1>4, <1>5, <1>6, <1>7, <1>8 DEF StatsNext, StatsFeed!Next

-----------------------------------------------------------------------------
(* The activity of a device *)

ActivityTypes ==
  /\ created \in Nat /\ dialog \in Dialogs \cup {None}
  /\ device \in [Dialogs -> Devices \cup {None}]
  /\ activityDeviceID \in [Dialogs -> Devices \cup {None}]
  /\ activity \in [Dialogs -> Devices \cup {None}]
  /\ activityRequestRunning \in [Dialogs -> BOOLEAN]
  /\ activityTimer \in [Dialogs -> BOOLEAN]
  /\ detailDestroyed \in [Dialogs -> BOOLEAN]
  /\ activityGeneration \in [Dialogs -> Nat]
  /\ activityRequests \subseteq [dialog : Dialogs, device : Devices, gen : Nat]

(* The dialogs were created in order, and all but the open one destroyed.  *)
DialogsInOrder ==
  /\ dialog # None => dialog = created
  /\ \A i \in Dialogs : detailDestroyed[i] <=> i <= created /\ i # dialog

(* The open dialog is about its device.                                    *)
OpenDialogOwns ==
  dialog # None => activityDeviceID[dialog] = device[dialog] /\ device[dialog] \in Devices

(* No request is from the future, and one of the current generation is the *)
(* one the open dialog waits for.                                          *)
RequestsOwned ==
  \A r \in activityRequests :
    /\ r.dialog <= created /\ r.gen <= activityGeneration[r.dialog]
    /\ r.dialog = dialog /\ r.gen = activityGeneration[r.dialog] =>
         activityRequestRunning[r.dialog] /\ r.device = device[r.dialog]

OneActivityLoop ==
  \A i \in Dialogs :
    IF i = dialog THEN activityTimer[i] <=> ~activityRequestRunning[i]
    ELSE ~activityTimer[i] /\ ~activityRequestRunning[i]

ActivityInv ==
  ActivityTypes /\ DialogsInOrder /\ OpenDialogOwns /\ RequestsOwned /\ OneActivityLoop

(* There is no dialog at first.                                            *)
LEMMA ActivityInvInit == ActivityInit => ActivityInv
  BY ActivityAssumption DEF ActivityInit, ActivityInv, ActivityTypes, DialogsInOrder, OpenDialogOwns,
     RequestsOwned, OneActivityLoop

(* Opening a dialog or giving it another device starts a new generation.   *)
LEMMA StartKeepsInv ==
  ASSUME ActivityInv, NEW d \in Devices, openDetail(d) \/ switchDetail(d)
  PROVE  ActivityInv'
<1> DEFINE i == dialog'
<1>1. /\ i \in Dialogs /\ i # None /\ i = created' /\ created' \in Nat /\ created <= created'
      /\ device' = [device EXCEPT ![i] = d]
      /\ activityGeneration' = [activityGeneration EXCEPT ![i] = @ + 1]
      /\ activityTimer' = [activityTimer EXCEPT ![i] = FALSE]
      /\ activityDeviceID' = [activityDeviceID EXCEPT ![i] = d]
      /\ activity' = [activity EXCEPT ![i] = None]
      /\ activityRequestRunning' = [activityRequestRunning EXCEPT ![i] = TRUE]
      /\ activityRequests' = activityRequests \cup {[dialog |-> i, device |-> d, gen |-> activityGeneration[i] + 1]}
      /\ detailDestroyed' = detailDestroyed
  BY ActivityAssumption DEF ActivityInv, ActivityTypes, DialogsInOrder, openDetail, switchDetail,
     startActivity, loadActivity
<1>2. \A j \in Dialogs : (j <= created' /\ j # dialog') <=> (j <= created /\ j # dialog)
  BY ActivityAssumption DEF ActivityInv, ActivityTypes, DialogsInOrder, openDetail, switchDetail
<1>3. \A j \in Dialogs : j # i => j # dialog
  BY ActivityAssumption DEF openDetail, switchDetail
<1> HIDE DEF i
<1> USE ActivityAssumption DEF ActivityInv, ActivityTypes
<1>4. ActivityTypes'
  BY <1>1 DEF i
<1>5. DialogsInOrder'
  BY <1>1, <1>2 DEF DialogsInOrder, i
<1>6. OpenDialogOwns'
  BY <1>1 DEF OpenDialogOwns, i
<1>7. RequestsOwned'
  <2> SUFFICES ASSUME NEW r \in activityRequests'
               PROVE  /\ r.dialog <= created' /\ r.gen <= activityGeneration'[r.dialog]
                      /\ r.dialog = i /\ r.gen = activityGeneration'[r.dialog] =>
                           activityRequestRunning'[r.dialog] /\ r.device = device'[r.dialog]
    BY DEF RequestsOwned, i
  <2>1. CASE r \in activityRequests
    <3>1. r.dialog \in Dialogs /\ r.gen \in Nat /\ r.dialog <= created /\ r.gen <= activityGeneration[r.dialog]
      BY <2>1 DEF RequestsOwned
    <3>2. r.dialog <= created'
      <4>1. created \in Nat /\ created' \in Nat /\ created <= created'
        BY <1>1
      <4>2. r.dialog \in Nat
        BY <3>1
      <4> QED
        BY <3>1, <4>1, <4>2
    <3>3. CASE r.dialog = i
      <4>1. activityGeneration'[r.dialog] = activityGeneration[r.dialog] + 1
        BY <1>1, <3>1, <3>3
      <4>2. activityGeneration[r.dialog] \in Nat
        BY <3>1
      <4> QED
        BY <3>1, <3>2, <4>1, <4>2
    <3>4. CASE r.dialog # i
      <4>1. activityGeneration'[r.dialog] = activityGeneration[r.dialog]
        BY <1>1, <3>1, <3>4
      <4> QED
        BY <3>1, <3>2, <3>4, <4>1
    <3> QED
      BY <3>3, <3>4
  <2>2. CASE r = [dialog |-> i, device |-> d, gen |-> activityGeneration[i] + 1]
    <3>1. r.dialog = i /\ r.device = d /\ r.gen = activityGeneration[i] + 1
      BY <2>2
    <3>2. /\ activityGeneration'[i] = activityGeneration[i] + 1
          /\ activityRequestRunning'[i] = TRUE /\ device'[i] = d
      BY <1>1
    <3>3. i <= created' /\ activityGeneration[i] \in Nat
      BY <1>1
    <3> QED
      BY <3>1, <3>2, <3>3
  <2> QED
    BY <1>1, <2>1, <2>2
<1>8. OneActivityLoop'
  BY <1>1, <1>3 DEF OneActivityLoop, i
<1> QED
  BY <1>4, <1>5, <1>6, <1>7, <1>8

(* A dialog that closes leaves no loop.                                    *)
LEMMA CloseKeepsInv ==
  ASSUME ActivityInv, NEW stops \in {1, 2}, closeDetail(stops)
  PROVE  ActivityInv'
<1> USE ActivityAssumption DEF ActivityInv, ActivityTypes, closeDetail, stopActivity
<1>1. ActivityTypes'
  OBVIOUS
<1>2. DialogsInOrder'
  BY DEF DialogsInOrder
<1>3. OpenDialogOwns'
  BY DEF OpenDialogOwns
<1>4. RequestsOwned'
  BY <1>1 DEF RequestsOwned
<1>5. OneActivityLoop'
  BY DEF OneActivityLoop
<1> QED
  BY <1>1, <1>2, <1>3, <1>4, <1>5

(* A timer belongs to the open dialog, which has no request then.          *)
LEMMA TimerKeepsInv ==
  ASSUME ActivityInv, NEW i \in Dialogs, ActivityTimerFires(i)
  PROVE  /\ ActivityInv'
         /\ i = dialog /\ ~activityRequestRunning[i]
         /\ activityRequestRunning' = [activityRequestRunning EXCEPT ![i] = TRUE]
<1> USE ActivityAssumption DEF ActivityInv, ActivityTypes
<1>1. i = dialog /\ ~activityRequestRunning[i] /\ activityTimer[i]
  BY DEF OneActivityLoop, ActivityTimerFires
<1>2. ~detailDestroyed[i] /\ activityDeviceID[i] \in Devices /\ activityDeviceID[i] = device[i]
  BY <1>1 DEF DialogsInOrder, OpenDialogOwns
<1>3. /\ activityRequestRunning' = [activityRequestRunning EXCEPT ![i] = TRUE]
      /\ activityRequests' = activityRequests \cup
           {[dialog |-> i, device |-> activityDeviceID[i], gen |-> activityGeneration[i]]}
      /\ activityTimer' = [activityTimer EXCEPT ![i] = FALSE]
      /\ UNCHANGED <<dialog, created, device, activityDeviceID, activity, activityGeneration, detailDestroyed>>
  BY <1>1, <1>2 DEF ActivityTimerFires, loadActivity
<1>4. ActivityTypes'
  BY <1>2, <1>3
<1>5. DialogsInOrder' /\ OpenDialogOwns'
  BY <1>3 DEF DialogsInOrder, OpenDialogOwns
<1>6. RequestsOwned'
  BY <1>1, <1>2, <1>3, <1>4 DEF RequestsOwned, DialogsInOrder
<1>7. OneActivityLoop'
  BY <1>1, <1>3 DEF OneActivityLoop
<1> QED
  BY <1>1, <1>3, <1>4, <1>5, <1>6, <1>7

(* An answer that counts belongs to the open dialog; any other changes     *)
(* nothing that is shown.                                                  *)
LEMMA AnswerKeepsInv ==
  ASSUME ActivityInv, NEW r \in activityRequests, NEW ok \in BOOLEAN, ActivityAnswer(r, ok)
  PROVE  /\ ActivityInv'
         /\ UNCHANGED <<dialog, device, activityDeviceID>>
         /\ \/ UNCHANGED <<activity, activityRequestRunning>>
            \/ /\ dialog \in Dialogs /\ dialog # None /\ activityRequestRunning[dialog]
               /\ activityRequestRunning' = [activityRequestRunning EXCEPT ![dialog] = FALSE]
               /\ activity' \in {activity, [activity EXCEPT ![dialog] = device[dialog]]}
<1> DEFINE i == r.dialog
<1> USE ActivityAssumption
<1>1. ActivityTypes /\ DialogsInOrder /\ OpenDialogOwns /\ RequestsOwned /\ OneActivityLoop
  BY DEF ActivityInv
<1>2. i \in Dialogs /\ r.gen \in Nat /\ r.device \in Devices /\ i <= created /\ i # None
  BY <1>1 DEF ActivityTypes, RequestsOwned
<1>3. /\ UNCHANGED <<dialog, created, device, activityDeviceID, activityGeneration, detailDestroyed>>
      /\ activityRequests' = activityRequests \ {r}
  BY DEF ActivityAnswer
<1>4. DialogsInOrder' /\ OpenDialogOwns'
  BY <1>1, <1>3 DEF DialogsInOrder, OpenDialogOwns
<1>5. CASE r.gen # activityGeneration[i]
  <2>1. UNCHANGED <<activity, activityRequestRunning, activityTimer>>
    BY <1>5 DEF ActivityAnswer
  <2>2. ActivityTypes'
    BY <1>1, <1>3, <2>1 DEF ActivityTypes
  <2>3. RequestsOwned'
    BY <1>1, <1>3, <2>1 DEF RequestsOwned
  <2>4. OneActivityLoop'
    BY <1>1, <1>3, <2>1 DEF OneActivityLoop
  <2> QED
    BY <1>3, <1>4, <2>1, <2>2, <2>3, <2>4 DEF ActivityInv
<1>6. CASE r.gen = activityGeneration[i] /\ i # dialog
  <2>1. detailDestroyed[i] /\ ~activityRequestRunning[i]
    BY <1>1, <1>2, <1>6 DEF DialogsInOrder, OneActivityLoop
  <2>2. UNCHANGED <<activity, activityRequestRunning, activityTimer>>
    BY <1>1, <1>2, <1>6, <2>1 DEF ActivityAnswer, ActivityTypes
  <2>3. ActivityTypes'
    BY <1>1, <1>3, <2>2 DEF ActivityTypes
  <2>4. RequestsOwned'
    BY <1>1, <1>3, <2>2 DEF RequestsOwned
  <2>5. OneActivityLoop'
    BY <1>1, <1>3, <2>2 DEF OneActivityLoop
  <2> QED
    BY <1>3, <1>4, <2>2, <2>3, <2>4, <2>5 DEF ActivityInv
<1>7. CASE r.gen = activityGeneration[i] /\ i = dialog
  <2>1. /\ activityRequestRunning[i] /\ r.device = device[i] /\ ~detailDestroyed[i]
        /\ r.device = activityDeviceID[i]
    BY <1>1, <1>2, <1>7 DEF DialogsInOrder, OpenDialogOwns, RequestsOwned
  <2>2. /\ activity' = IF ok THEN [activity EXCEPT ![i] = r.device] ELSE activity
        /\ activityRequestRunning' = [activityRequestRunning EXCEPT ![i] = FALSE]
        /\ activityTimer' = [activityTimer EXCEPT ![i] = TRUE]
    BY <1>7, <2>1 DEF ActivityAnswer
  <2>3. activity' \in {activity, [activity EXCEPT ![i] = r.device]}
    BY <2>2
  <2>4. ActivityTypes'
    BY <1>1, <1>2, <1>3, <2>2, <2>3 DEF ActivityTypes
  <2>5. \A q \in activityRequests' : ~(q.dialog = i /\ q.gen = activityGeneration[i])
    <3> SUFFICES ASSUME NEW q \in activityRequests', q.dialog = i, q.gen = activityGeneration[i]
                 PROVE  FALSE
      OBVIOUS
    <3>1. q \in activityRequests /\ q # r
      BY <1>3
    <3>2. q.device = device[i]
      BY <1>1, <1>7, <3>1 DEF RequestsOwned
    <3>3. q = [dialog |-> i, device |-> device[i], gen |-> activityGeneration[i]]
      BY <1>1, <3>1, <3>2 DEF ActivityTypes
    <3>4. r = [dialog |-> i, device |-> device[i], gen |-> activityGeneration[i]]
      BY <1>1, <1>7, <2>1 DEF ActivityTypes
    <3> QED
      BY <3>1, <3>3, <3>4
  <2>6. RequestsOwned'
    <3> SUFFICES ASSUME NEW q \in activityRequests'
                 PROVE  /\ q.dialog <= created' /\ q.gen <= activityGeneration'[q.dialog]
                        /\ ~(q.dialog = dialog' /\ q.gen = activityGeneration'[q.dialog])
      BY DEF RequestsOwned
    <3>1. q.dialog <= created /\ q.gen <= activityGeneration[q.dialog]
      BY <1>1, <1>3 DEF RequestsOwned
    <3>2. ~(q.dialog = i /\ q.gen = activityGeneration[q.dialog])
      BY <2>5
    <3> QED
      BY <1>3, <1>7, <3>1, <3>2
  <2>7. OneActivityLoop'
    BY <1>1, <1>2, <1>3, <1>7, <2>2 DEF OneActivityLoop, ActivityTypes
  <2>8. ActivityInv'
    BY <1>4, <2>4, <2>6, <2>7 DEF ActivityInv
  <2> QED
    BY <1>2, <1>3, <1>7, <2>1, <2>2, <2>3, <2>8
<1> QED
  BY <1>5, <1>6, <1>7

(* Every step of the dialog keeps the invariant.                           *)
LEMMA ActivityInvStep == ActivityInv /\ [ActivityNext]_activityVars => ActivityInv'
<1> SUFFICES ASSUME ActivityInv, [ActivityNext]_activityVars PROVE ActivityInv'
  OBVIOUS
<1>1. CASE UNCHANGED activityVars
  BY <1>1 DEF activityVars, ActivityInv, ActivityTypes, DialogsInOrder, OpenDialogOwns, RequestsOwned,
     OneActivityLoop
<1>2. CASE ActivityNext
  BY <1>2, StartKeepsInv, CloseKeepsInv, TimerKeepsInv, AnswerKeepsInv DEF ActivityNext
<1> QED
  BY <1>1, <1>2

(* No dialog is a closed feed.                                             *)
LEMMA ActivityRefineInit == ActivityInit => ActivityFeed!Init
  BY DEF ActivityInit, ActivityFeed!Init

(* Every step of the dialog is a step of the feed, or none.                *)
LEMMA ActivityRefineStep ==
  ActivityInv /\ [ActivityNext]_activityVars => [ActivityFeed!Next]_(ActivityFeed!vars)
<1> SUFFICES ASSUME ActivityInv, [ActivityNext]_activityVars
             PROVE  [ActivityFeed!Next]_(ActivityFeed!vars)
  OBVIOUS
<1> USE ActivityAssumption
<1>1. ASSUME NEW d \in Devices, openDetail(d) \/ switchDetail(d) PROVE ActivityFeed!Open(d)
  <2>1. ActivityInv'
    BY <1>1, StartKeepsInv
  <2>2. dialog' # None /\ dialog' \in Dialogs
    BY <1>1 DEF openDetail, switchDetail, ActivityInv, ActivityTypes
  <2>3. device'[dialog'] = d /\ activity'[dialog'] = None /\ activityRequestRunning'[dialog'] = TRUE
    BY <1>1, <2>2 DEF openDetail, switchDetail, startActivity, loadActivity, ActivityInv, ActivityTypes
  <2>4. activityDeviceID'[dialog'] = d
    BY <2>1, <2>2, <2>3 DEF ActivityInv, OpenDialogOwns
  <2> QED
    BY <2>2, <2>3, <2>4 DEF ActivityFeed!Open
<1>2. ASSUME NEW stops \in {1, 2}, closeDetail(stops) PROVE ActivityFeed!Close
  BY <1>2 DEF closeDetail, ActivityFeed!Close
<1>3. ASSUME NEW i \in Dialogs, ActivityTimerFires(i) PROVE ActivityFeed!Ask
  <2>1. /\ i = dialog /\ ~activityRequestRunning[i]
        /\ activityRequestRunning' = [activityRequestRunning EXCEPT ![i] = TRUE]
    BY <1>3, TimerKeepsInv
  <2>2. UNCHANGED <<dialog, device, activity, activityDeviceID>>
    BY <1>3 DEF ActivityTimerFires
  <2>3. dialog # None /\ activityRequestRunning'[dialog] = TRUE /\ activityDeviceID[dialog] = device[dialog]
    BY <2>1 DEF ActivityInv, ActivityTypes, OpenDialogOwns
  <2> QED
    BY <2>1, <2>2, <2>3 DEF ActivityFeed!Ask
<1>4. ASSUME NEW r \in activityRequests, NEW ok \in BOOLEAN, ActivityAnswer(r, ok)
      PROVE  ActivityFeed!Answer \/ UNCHANGED ActivityFeed!vars
  <2>1. /\ UNCHANGED <<dialog, device, activityDeviceID>>
        /\ \/ UNCHANGED <<activity, activityRequestRunning>>
           \/ /\ dialog \in Dialogs /\ dialog # None /\ activityRequestRunning[dialog]
              /\ activityRequestRunning' = [activityRequestRunning EXCEPT ![dialog] = FALSE]
              /\ activity' \in {activity, [activity EXCEPT ![dialog] = device[dialog]]}
    BY <1>4, AnswerKeepsInv
  <2>2. CASE UNCHANGED <<activity, activityRequestRunning>>
    BY <2>1, <2>2 DEF ActivityFeed!vars
  <2>3. CASE /\ dialog \in Dialogs /\ dialog # None /\ activityRequestRunning[dialog]
             /\ activityRequestRunning' = [activityRequestRunning EXCEPT ![dialog] = FALSE]
             /\ activity' \in {activity, [activity EXCEPT ![dialog] = device[dialog]]}
    <3>1. activityDeviceID[dialog] = device[dialog] /\ device[dialog] \in Devices /\ device[dialog] # None
      BY <2>3 DEF ActivityInv, OpenDialogOwns
    <3>2. activityRequestRunning'[dialog] = FALSE
      BY <2>3 DEF ActivityInv, ActivityTypes
    <3>3. activity'[dialog] \in {activity[dialog], device[dialog]}
      BY <2>3 DEF ActivityInv, ActivityTypes
    <3>4. ActivityFeed!Answer
      BY <2>1, <2>3, <3>1, <3>2, <3>3 DEF ActivityFeed!Answer
    <3> QED
      BY <3>4
  <2> QED
    BY <2>1, <2>2, <2>3
<1>5. CASE UNCHANGED activityVars
  BY <1>5 DEF activityVars, ActivityFeed!vars
<1> QED
  BY <1>1, <1>2, <1>3, <1>4, <1>5 DEF ActivityNext, ActivityFeed!Next

-----------------------------------------------------------------------------
(* The pages together *)

LiveInv == LogsInv /\ StatsInv /\ ActivityInv

(* A step of the interface is a step of one page that leaves the others.   *)
LEMMA StepOfEach ==
  [LiveNext]_liveVars =>
    [LogsNext]_logsVars /\ [StatsNext]_statsVars /\ [ActivityNext]_activityVars
  BY DEF LiveNext, liveVars, OnLogs, OnStats, OnDevices

(* The invariants of the three pages hold together.                        *)
LEMMA LiveInvariant == LiveSafety => []LiveInv
<1>1. LiveInit => LiveInv
  BY LogsInvInit, StatsInvInit, ActivityInvInit DEF LiveInit, LiveInv
<1>2. LiveInv /\ [LiveNext]_liveVars => LiveInv'
  BY StepOfEach, LogsInvStep, StatsInvStep, ActivityInvStep DEF LiveInv
<1> QED
  BY <1>1, <1>2, PTL DEF LiveSafety

(* Every page that refreshes itself has exactly one loop while it is on    *)
(* the screen and none afterwards, however searches, retries, timers,      *)
(* answers, reopened dialogs and departures interleave.                    *)
THEOREM PagesHaveOneLoop == LiveSpec => []OneLoop
<1>1. LogsInv => IF logsGone THEN ~decisionTimer /\ ~deviceTimer
                 ELSE decisionTimer # decisionsLoading /\ deviceTimer # devicesLoading
  BY DEF LogsInv
<1>2. StatsInv => IF statsGone THEN ~summaryTimer /\ ~trafficTimer
                  ELSE summaryTimer # summaryLoading /\ trafficTimer # trafficLoading
  BY DEF StatsInv
<1>3. ActivityInv => \A i \in Dialogs :
        IF i = dialog THEN activityTimer[i] # activityRequestRunning[i]
        ELSE ~activityTimer[i] /\ ~activityRequestRunning[i]
  BY DEF ActivityInv, ActivityTypes, OneActivityLoop
<1>4. LiveInv => OneLoop
  BY <1>1, <1>2, <1>3 DEF LiveInv, OneLoop
<1> QED
  BY <1>4, LiveInvariant, PTL DEF LiveSpec

(* The decision log, the statistics and the activity of a device implement *)
(* LiveFeed: what they show is always about what is selected when it       *)
(* arrives, and a page that was left neither asks nor shows anything.      *)
THEOREM PagesImplementFeeds == LiveSpec => FeedsImplemented
<1>1. LiveInit => LogsFeed!Init /\ StatsFeed!Init /\ ActivityFeed!Init
  BY LogsRefineInit, StatsRefineInit, ActivityRefineInit DEF LiveInit
<1>2. LiveInv /\ [LiveNext]_liveVars => [LogsFeed!Next]_(LogsFeed!vars)
  BY StepOfEach, LogsRefineStep DEF LiveInv
<1>3. LiveInv /\ [LiveNext]_liveVars => [StatsFeed!Next]_(StatsFeed!vars)
  BY StepOfEach, StatsRefineStep DEF LiveInv
<1>4. LiveInv /\ [LiveNext]_liveVars => [ActivityFeed!Next]_(ActivityFeed!vars)
  BY StepOfEach, ActivityRefineStep DEF LiveInv
<1> QED
  BY <1>1, <1>2, <1>3, <1>4, LiveInvariant, PTL
     DEF LiveSpec, LiveSafety, FeedsImplemented, LogsFeed!Spec, StatsFeed!Spec, ActivityFeed!Spec

-----------------------------------------------------------------------------
(* The requests of a page *)

\* A record with the fields F.
HasFields(s, F) == s = [f \in F |-> s[f]]

IsRequest(r) == HasFields(r, {"n", "op", "args", "done", "snap"})
Requests(net) == \A r \in net : IsRequest(r)

\* The requests next are those of net and a new one, not served yet.
Adds(net, next, op, args) ==
    \E q : /\ next = net \cup {q} /\ q.op = op /\ q.args = args /\ ~q.done
           /\ Requests(next)

\* The requests next are those of net, r replaced by itself when served.
Serves(net, next, r, s) ==
    \E q : /\ next = (net \ {r}) \cup {q}
           /\ q.op = r.op /\ q.args = r.args /\ q.done /\ q.snap = s
           /\ Requests(next)

\* What Send does.
LEMMA SendAdds ==
    ASSUME NEW net, NEW op, NEW args, Requests(net)
    PROVE  Adds(net, Send(net, op, args), op, args)
<1> DEFINE q == [n |-> Fresh(net), op |-> op, args |-> args, done |-> FALSE, snap |-> Unread]
<1>1. Send(net, op, args) = net \cup {q}
  BY DEF Send
<1>2. q.op = op /\ q.args = args /\ ~q.done /\ IsRequest(q)
  BY DEF IsRequest, HasFields
<1> HIDE DEF q
<1> QED
  BY <1>1, <1>2 DEF Requests, Adds

\* What Served does.
LEMMA ServedServes ==
    ASSUME NEW net, Requests(net), NEW r \in net, NEW s
    PROVE  Serves(net, Served(net, r, s), r, s)
<1> DEFINE q == [r EXCEPT !.done = TRUE, !.snap = s]
<1>1. Served(net, r, s) = (net \ {r}) \cup {q}
  BY DEF Served
<1>2. q.op = r.op /\ q.args = r.args /\ q.done /\ q.snap = s /\ IsRequest(q)
  BY DEF Requests, IsRequest, HasFields
<1> HIDE DEF q
<1> QED
  BY <1>1, <1>2 DEF Requests, Serves

\* Requests without one of them.
LEMMA AnsweredRequests ==
    ASSUME NEW net, Requests(net), NEW r
    PROVE  Requests(net \ {r})
BY DEF Requests

\* A field that requests of one kind, op, read.  One read at most is under way.
\* While no other request is served and unanswered, a read that was served is
\* current, and without a read the field is: now is what the server has, fresh
\* says that the field shows it.
ReaderSteady(net, op, now, fresh) ==
    /\ \A q, r \in net : q.op = op /\ r.op = op => q = r
    /\ (\A w \in net : w.op # op => ~w.done) =>
         /\ \A r \in net : r.op = op /\ r.done => r.snap = now
         /\ (\A r \in net : r.op # op) => fresh

-----------------------------------------------------------------------------
(* The page of the proxy users *)

UsersFields == {"rows", "loading", "error", "ops", "form", "savingUser", "pendingDelete", "dialog",
                "deleting", "behind"}

\* One list at most is under way.  While no write is served and unanswered,
\* a list that was read is current, and without one the rows are.
UsersSteady ==
    /\ \A q, r \in usersNet : q.op = "list" /\ r.op = "list" => q = r
    /\ (\A w \in usersNet : w.op # "list" => ~w.done) =>
         /\ \A r \in usersNet : r.op = "list" /\ r.done => r.snap = accounts
         /\ (\A r \in usersNet : r.op # "list") => users.rows = accounts

UsersInv ==
    /\ HasFields(users, UsersFields) /\ Requests(usersNet)
    /\ UsersBusy
    /\ ~users.behind => UsersSteady

\* The page is mounted with its first load.
LEMMA UsersInitInv == UsersInit => UsersInv
<1> SUFFICES ASSUME UsersInit PROVE UsersInv
  OBVIOUS
<1>1. Requests({})
  BY DEF Requests
<1>2. Adds({}, usersNet, "list", [by |-> "mount"])
  <2>1. usersNet = Send({}, "list", [by |-> "mount"])
    BY DEF UsersInit
  <2> QED
    BY <1>1, <2>1, SendAdds, Zenon
<1>3. PICK q : usersNet = {q} /\ q.op = "list" /\ ~q.done /\ Requests(usersNet)
  BY <1>2 DEF Adds
<1>4. /\ HasFields(users, UsersFields) /\ users.loading /\ ~users.savingUser /\ ~users.deleting
  BY DEF UsersInit, HasFields, UsersFields
<1> QED
  BY <1>3, <1>4 DEF UsersInv, UsersBusy, UsersSteady, InFlight

\* Steps that only touch what is open on the page.
LEMMA UsersQuiet ==
    ASSUME UsersInv,
           \/ addUser \/ CloseUserModal \/ CloseUserDialog
           \/ \E u \in DOMAIN users.rows : editUser(u) \/ requestDelete(u)
    PROVE  UsersInv'
<1>1. /\ usersNet' = usersNet /\ accounts' = accounts
      /\ HasFields(users', UsersFields)
      /\ users'.rows = users.rows /\ users'.loading = users.loading /\ users'.behind = users.behind
      /\ users'.deleting = users.deleting
      /\ users'.savingUser => users.savingUser
  BY DEF UsersInv, HasFields, UsersFields, addUser, CloseUserModal, closeUserForm, CloseUserDialog, editUser, requestDelete
<1> QED
  BY <1>1 DEF UsersInv, UsersBusy, UsersSteady, InFlight

\* A request of the administrator that writes.
LEMMA UsersAsk ==
    ASSUME UsersInv,
           \/ confirmUserDelete
           \/ \E u \in DOMAIN users.rows : setAccess(u)
           \/ \E u \in ProxyUsers, allow \in BOOLEAN : submitUser(u, allow)
    PROVE  UsersInv'
<1>1. PICK op, args : /\ op \in {"save", "access", "delete"} /\ Asked(op, args)
                      /\ \/ op = "save" /\ users' = [users EXCEPT !.savingUser = TRUE, !.ops = @ + 1]
                         \/ op = "access" /\ users' = [users EXCEPT !.error = FALSE, !.ops = @ + 1]
                         \/ op = "delete" /\ users' = [users EXCEPT !.deleting = TRUE, !.error = FALSE, !.ops = @ + 1]
  <2>1. CASE confirmUserDelete
    BY <2>1, Zenon DEF confirmUserDelete
  <2>2. CASE \E u \in DOMAIN users.rows : setAccess(u)
    BY <2>2, Zenon DEF setAccess
  <2>3. CASE \E u \in ProxyUsers, allow \in BOOLEAN : submitUser(u, allow)
    BY <2>3, Zenon DEF submitUser
  <2> QED
    BY <2>1, <2>2, <2>3
<1>2. usersNet' = Send(usersNet, op, args) /\ accounts' = accounts
  BY <1>1 DEF Asked
<1>3. Adds(usersNet, usersNet', op, args)
  BY <1>2, SendAdds, Zenon DEF UsersInv
<1>4. PICK q : usersNet' = usersNet \cup {q} /\ q.op = op /\ ~q.done /\ Requests(usersNet')
  BY <1>3 DEF Adds
<1>5. /\ HasFields(users', UsersFields)
      /\ users'.rows = users.rows /\ users'.loading = users.loading /\ users'.behind = users.behind
      /\ users'.deleting => users.deleting \/ op = "delete"
      /\ users'.savingUser => users.savingUser \/ op = "save"
  BY <1>1 DEF UsersInv, HasFields, UsersFields
<1> QED
  BY <1>1, <1>2, <1>4, <1>5 DEF UsersInv, UsersBusy, UsersSteady, InFlight

\* loadUsers, called when net are the other requests under way.
LEMMA UsersLoadStep ==
    ASSUME UsersInv, NEW ui, NEW net, NEW by, HasFields(ui, UsersFields), loadUsers(ui, net, by),
           Requests(net),
           ui.savingUser => InFlight(net, {"save"}),
           ui.deleting => \/ by = "delete"
                          \/ \E r \in net : r.op = "delete" \/ (r.op = "list" /\ r.args.by = "delete")
    PROVE  UsersInv'
<1>1. usersNet' = Send(net, "list", [by |-> by])
  BY DEF loadUsers
<1>2. Adds(net, usersNet', "list", [by |-> by])
  BY <1>1, SendAdds, Zenon
<1>3. PICK q : usersNet' = net \cup {q} /\ q.op = "list" /\ q.args = [by |-> by] /\ ~q.done /\ Requests(usersNet')
  BY <1>2 DEF Adds
<1>4. /\ HasFields(users', UsersFields) /\ users'.loading
      /\ users'.behind = InFlight(net, {"list"})
      /\ users'.savingUser = ui.savingUser /\ users'.deleting = ui.deleting
  BY DEF loadUsers, HasFields, UsersFields
<1>5. UsersBusy'
  BY <1>3, <1>4 DEF UsersBusy, InFlight
<1>6. ~users'.behind => UsersSteady'
  BY <1>3, <1>4 DEF UsersSteady, InFlight
<1> QED
  BY <1>3, <1>4, <1>5, <1>6 DEF UsersInv

\* Refresh.
LEMMA UsersRefresh ==
    ASSUME UsersInv, RefreshUsers
    PROVE  UsersInv'
<1> DEFINE ui == [users EXCEPT !.ops = @ + 1]
<1>1. HasFields(ui, UsersFields) /\ ui.savingUser = users.savingUser /\ ui.deleting = users.deleting
  BY DEF UsersInv, HasFields, UsersFields
<1>2. loadUsers(ui, usersNet, "refresh")
  BY DEF RefreshUsers
<1> HIDE DEF ui
<1> QED
  BY <1>1, <1>2, UsersLoadStep DEF UsersInv, UsersBusy

\* The server acts on a request.
LEMMA UsersServe ==
    ASSUME UsersInv, NEW r \in usersNet, ServeUsers(r)
    PROVE  UsersInv'
<1> DEFINE s == IF r.op = "list" THEN accounts ELSE Unread
<1>1. /\ usersNet' = Served(usersNet, r, s) /\ users' = users /\ ~r.done
      /\ r.op = "list" => accounts' = accounts
  BY DEF ServeUsers
<1>2. Serves(usersNet, usersNet', r, s)
  BY <1>1, ServedServes, Zenon DEF UsersInv
<1>3. PICK q : /\ usersNet' = (usersNet \ {r}) \cup {q} /\ q.op = r.op /\ q.args = r.args /\ q.done /\ q.snap = s
               /\ Requests(usersNet')
  BY <1>2 DEF Serves
<1>4. UsersBusy'
  BY <1>1, <1>3 DEF UsersInv, UsersBusy, InFlight
<1>5. ~users'.behind => UsersSteady'
  BY <1>1, <1>3 DEF UsersInv, UsersSteady
<1> QED
  BY <1>1, <1>3, <1>4, <1>5 DEF UsersInv

\* The list arrives.
LEMMA UsersLoadedInv ==
    ASSUME UsersInv, NEW r \in usersNet, NEW ok \in BOOLEAN, UsersLoaded(r, ok)
    PROVE  UsersInv'
<1>1. /\ usersNet' = usersNet \ {r} /\ accounts' = accounts /\ r.op = "list"
      /\ ok => r.done
  BY DEF UsersLoaded
<1>2. /\ HasFields(users', UsersFields) /\ ~users'.loading
      /\ users'.savingUser = users.savingUser
      /\ users'.deleting => users.deleting /\ r.args.by # "delete"
      /\ ~users'.behind => ~users.behind /\ ok
      /\ ok => users'.rows = r.snap
  BY DEF UsersInv, HasFields, UsersFields, UsersLoaded
<1>3. UsersBusy'
  BY <1>1, <1>2 DEF UsersInv, UsersBusy, InFlight
<1>4. ~users'.behind => UsersSteady'
  BY <1>1, <1>2 DEF UsersInv, UsersSteady
<1> QED
  BY <1>1, <1>2, <1>3, <1>4, AnsweredRequests DEF UsersInv

\* The answer to a write: a reload, or an error.
LEMMA UsersAnswered ==
    ASSUME UsersInv, NEW r \in usersNet, NEW ok \in BOOLEAN,
           userSaved(r, ok) \/ accessSet(r, ok) \/ userDeleted(r, ok)
    PROVE  UsersInv'
<1> DEFINE net == usersNet \ {r}
<1>1. r.op \in {"save", "access", "delete"} /\ accounts' = accounts /\ Requests(net)
  BY AnsweredRequests DEF userSaved, accessSet, userDeleted, UsersInv
<1>2. CASE ok
  <2>1. CASE userSaved(r, ok)
    <3> DEFINE ui == closeUserForm(users)
    <3>1. /\ HasFields(ui, UsersFields) /\ ~ui.savingUser /\ ui.deleting = users.deleting
      BY DEF UsersInv, HasFields, UsersFields, closeUserForm
    <3>2. loadUsers(ui, net, "save") /\ r.op = "save"
      BY <1>2, <2>1 DEF userSaved
    <3> HIDE DEF ui
    <3>3. ui.deleting => \E w \in net : w.op = "delete" \/ (w.op = "list" /\ w.args.by = "delete")
      BY <3>1, <3>2 DEF UsersInv, UsersBusy
    <3> HIDE DEF net
    <3> QED
      BY <1>1, <3>1, <3>2, <3>3, UsersLoadStep
  <2>2. CASE accessSet(r, ok)
    <3>1. loadUsers(users, net, "access") /\ r.op = "access"
      BY <1>2, <2>2 DEF accessSet
    <3>2. /\ users.savingUser => InFlight(net, {"save"})
          /\ users.deleting => \E w \in net : w.op = "delete" \/ (w.op = "list" /\ w.args.by = "delete")
          /\ HasFields(users, UsersFields)
      BY <3>1 DEF UsersInv, UsersBusy, InFlight
    <3> HIDE DEF net
    <3> QED
      BY <1>1, <3>1, <3>2, UsersLoadStep
  <2>3. CASE userDeleted(r, ok)
    <3> DEFINE ui == [users EXCEPT !.pendingDelete = None, !.dialog = FALSE]
    <3>1. HasFields(ui, UsersFields) /\ ui.savingUser = users.savingUser
      BY DEF UsersInv, HasFields, UsersFields
    <3>2. loadUsers(ui, net, "delete") /\ r.op = "delete"
      BY <1>2, <2>3 DEF userDeleted
    <3> HIDE DEF ui
    <3>3. ui.savingUser => InFlight(net, {"save"})
      BY <3>1, <3>2 DEF UsersInv, UsersBusy, InFlight
    <3> HIDE DEF net
    <3> QED
      BY <1>1, <3>1, <3>2, <3>3, UsersLoadStep
  <2> QED
    BY <2>1, <2>2, <2>3
<1>3. CASE ~ok
  <2>1. /\ usersNet' = net /\ HasFields(users', UsersFields)
        /\ users'.rows = users.rows /\ users'.loading = users.loading
        /\ users'.savingUser => users.savingUser /\ r.op # "save"
        /\ users'.deleting => users.deleting /\ r.op # "delete"
        /\ ~users'.behind => ~users.behind /\ ~r.done
    <3>1. CASE userSaved(r, ok)
      BY <1>3, <3>1 DEF userSaved, Unconfirmed, UsersInv, HasFields, UsersFields
    <3>2. CASE accessSet(r, ok)
      BY <1>3, <3>2 DEF accessSet, Unconfirmed, UsersInv, HasFields, UsersFields
    <3>3. CASE userDeleted(r, ok)
      BY <1>3, <3>3 DEF userDeleted, Unconfirmed, UsersInv, HasFields, UsersFields
    <3> QED
      BY <3>1, <3>2, <3>3
  <2>2. UsersBusy'
    BY <1>1, <2>1 DEF UsersInv, UsersBusy, InFlight
  <2>3. ~users'.behind => UsersSteady'
    BY <1>1, <2>1 DEF UsersInv, UsersSteady
  <2> QED
    BY <1>1, <2>1, <2>2, <2>3 DEF UsersInv
<1> QED
  BY <1>2, <1>3

\* Every step of the page.
LEMMA UsersNextInv == UsersInv /\ [UsersNext]_usersVars => UsersInv'
<1>1. CASE UNCHANGED usersVars
  BY <1>1 DEF usersVars, UsersInv, UsersBusy, UsersSteady, InFlight
<1> QED
  BY <1>1, UsersQuiet, UsersAsk, UsersRefresh, UsersServe, UsersLoadedInv, UsersAnswered DEF UsersNext

-----------------------------------------------------------------------------
(* The device list *)

ListPageFields == {"devices", "loading", "loaded", "error", "ops", "detail", "detailOpen", "saving",
                   "pendingRemoval", "dialog", "removing", "behind"}

ListPageSteady ==
    ReaderSteady(devicesNet, "devices", inventory,
                 devicesUi.devices = IF inventory.present THEN inventory.label ELSE None)

\* The dialog that shows a save is the one that asked for it.
ListPageInv ==
    /\ HasFields(devicesUi, ListPageFields) /\ Requests(devicesNet)
    /\ ListPageBusy
    /\ devicesUi.saving => /\ devicesUi.detailOpen
                           /\ \E r \in devicesNet : r.op = "name" /\ r.args.detail = devicesUi.detail
    /\ ~devicesUi.behind => ListPageSteady

\* The page is mounted with its first load.
LEMMA ListPageInitInv == ListPageInit => ListPageInv
<1> SUFFICES ASSUME ListPageInit PROVE ListPageInv
  OBVIOUS
<1>1. Requests({})
  BY DEF Requests
<1>2. Adds({}, devicesNet, "devices", [by |-> "mount"])
  <2>1. devicesNet = Send({}, "devices", [by |-> "mount"])
    BY DEF ListPageInit
  <2> QED
    BY <1>1, <2>1, SendAdds, Zenon
<1>3. PICK q : devicesNet = {q} /\ q.op = "devices" /\ ~q.done /\ Requests(devicesNet)
  BY <1>2 DEF Adds
<1>4. HasFields(devicesUi, ListPageFields) /\ devicesUi.loading /\ ~devicesUi.saving /\ ~devicesUi.removing
  BY DEF ListPageInit, HasFields, ListPageFields
<1> QED
  BY <1>3, <1>4 DEF ListPageInv, ListPageBusy, ListPageSteady, ReaderSteady, InFlight

\* Steps that only open and close something.
LEMMA ListPageQuiet ==
    ASSUME ListPageInv, openDetailDialog \/ CloseDetail \/ requestRemoval \/ CloseRemoval
    PROVE  ListPageInv'
<1>1. /\ devicesNet' = devicesNet /\ inventory' = inventory
      /\ HasFields(devicesUi', ListPageFields)
      /\ devicesUi'.devices = devicesUi.devices /\ devicesUi'.loading = devicesUi.loading
      /\ devicesUi'.behind = devicesUi.behind /\ devicesUi'.removing = devicesUi.removing
      /\ devicesUi'.saving => /\ devicesUi.saving /\ devicesUi'.detail = devicesUi.detail
                              /\ devicesUi'.detailOpen = devicesUi.detailOpen
  BY DEF ListPageInv, HasFields, ListPageFields, openDetailDialog, CloseDetail, closeDetailDialog,
         requestRemoval, CloseRemoval
<1> QED
  BY <1>1 DEF ListPageInv, ListPageBusy, ListPageSteady, ReaderSteady, InFlight, SaveUnderWay

\* saveLabels and confirmRemoval.
LEMMA ListPageAsk ==
    ASSUME ListPageInv, confirmRemoval \/ \E label \in Labels : saveLabels(label)
    PROVE  ListPageInv'
<1>1. PICK ui, op, args :
        /\ AskDevices(ui, op, args)
        /\ \/ /\ op = "name" /\ ui = [devicesUi EXCEPT !.saving = TRUE, !.error = FALSE]
              /\ devicesUi.detailOpen /\ \E label : args = [label |-> label, detail |-> devicesUi.detail]
           \/ op = "remove" /\ ui = [devicesUi EXCEPT !.removing = TRUE, !.error = FALSE]
  <2>1. CASE confirmRemoval
    BY <2>1, Zenon DEF confirmRemoval
  <2>2. ASSUME NEW label \in Labels, saveLabels(label) PROVE devicesUi.detailOpen
    BY <2>2 DEF saveLabels, listOffered
  <2>3. CASE \E label \in Labels : saveLabels(label)
    BY <2>2, <2>3, Zenon DEF saveLabels
  <2> QED
    BY <2>1, <2>3
<1>2. devicesNet' = Send(devicesNet, op, args) /\ inventory' = inventory
  BY <1>1 DEF AskDevices
<1>3. Adds(devicesNet, devicesNet', op, args)
  BY <1>2, SendAdds, Zenon DEF ListPageInv
<1>4. PICK q : /\ devicesNet' = devicesNet \cup {q} /\ q.op = op /\ q.args = args /\ ~q.done
               /\ Requests(devicesNet')
  BY <1>3 DEF Adds
<1>5. /\ HasFields(devicesUi', ListPageFields)
      /\ devicesUi'.devices = devicesUi.devices /\ devicesUi'.loading = devicesUi.loading
      /\ devicesUi'.behind = devicesUi.behind
      /\ devicesUi'.detail = devicesUi.detail /\ devicesUi'.detailOpen = devicesUi.detailOpen
      /\ devicesUi'.saving => devicesUi.saving \/ (op = "name" /\ devicesUi.detailOpen /\ args.detail = devicesUi.detail)
      /\ devicesUi'.removing => devicesUi.removing \/ op = "remove"
  <2>1. devicesUi' = [ui EXCEPT !.ops = @ + 1]
    BY <1>1 DEF AskDevices
  <2>2. CASE op = "name" /\ ui = [devicesUi EXCEPT !.saving = TRUE, !.error = FALSE]
    <3>1. devicesUi.detailOpen /\ args.detail = devicesUi.detail
      BY <1>1, <2>2
    <3> QED
      BY <2>1, <2>2, <3>1 DEF ListPageInv, HasFields, ListPageFields
  <2>3. CASE op = "remove" /\ ui = [devicesUi EXCEPT !.removing = TRUE, !.error = FALSE]
    BY <2>1, <2>3 DEF ListPageInv, HasFields, ListPageFields
  <2> QED
    BY <1>1, <2>2, <2>3
<1>6. op # "devices"
  BY <1>1
<1>7. ListPageBusy'
  BY <1>4, <1>5, <1>6 DEF ListPageInv, ListPageBusy, InFlight, SaveUnderWay
<1>8. ~devicesUi'.behind => ListPageSteady'
  BY <1>2, <1>4, <1>5, <1>6 DEF ListPageInv, ListPageSteady, ReaderSteady
<1> QED
  BY <1>4, <1>5, <1>7, <1>8 DEF ListPageInv

\* loadDevices, called when net are the other requests under way.
LEMMA ListPageLoadStep ==
    ASSUME ListPageInv, NEW ui, NEW net, NEW by, HasFields(ui, ListPageFields),
           loadDevicesFrom(ui, net, by), Requests(net),
           ui.saving => ui.detailOpen /\ \E r \in net : r.op = "name" /\ r.args.detail = ui.detail,
           ui.removing => \/ by = "remove"
                          \/ \E r \in net : r.op = "remove" \/ (r.op \in Reads /\ r.args.by = "remove")
    PROVE  ListPageInv'
<1>1. devicesNet' = Send(net, "devices", [by |-> by])
  BY DEF loadDevicesFrom
<1>2. Adds(net, devicesNet', "devices", [by |-> by])
  BY <1>1, SendAdds, Zenon
<1>3. PICK q : /\ devicesNet' = net \cup {q} /\ q.op = "devices" /\ q.args = [by |-> by] /\ ~q.done
               /\ Requests(devicesNet')
  BY <1>2 DEF Adds
<1>4. /\ HasFields(devicesUi', ListPageFields) /\ devicesUi'.loading
      /\ devicesUi'.behind = InFlight(net, {"devices"})
      /\ devicesUi'.saving = ui.saving /\ devicesUi'.removing = ui.removing
      /\ devicesUi'.detail = ui.detail /\ devicesUi'.detailOpen = ui.detailOpen
  BY DEF loadDevicesFrom, HasFields, ListPageFields
<1>5. ListPageBusy'
  BY <1>3, <1>4 DEF ListPageBusy, InFlight, SaveUnderWay, Reads
<1>6. ~devicesUi'.behind => ListPageSteady'
  BY <1>3, <1>4 DEF ListPageSteady, ReaderSteady, InFlight
<1> QED
  BY <1>3, <1>4, <1>5, <1>6 DEF ListPageInv

\* Refresh, by the button or the timer.
LEMMA ListPageRefresh ==
    ASSUME ListPageInv, NEW by, RefreshDevices(by)
    PROVE  ListPageInv'
<1> DEFINE ui == [devicesUi EXCEPT !.ops = @ + 1]
<1>1. /\ HasFields(ui, ListPageFields) /\ ui.saving = devicesUi.saving /\ ui.removing = devicesUi.removing
      /\ ui.detail = devicesUi.detail /\ ui.detailOpen = devicesUi.detailOpen
  BY DEF ListPageInv, HasFields, ListPageFields
<1>2. loadDevicesFrom(ui, devicesNet, by)
  BY DEF RefreshDevices
<1> HIDE DEF ui
<1> QED
  BY <1>1, <1>2, ListPageLoadStep DEF ListPageInv, ListPageBusy, SaveUnderWay

\* The list arrives.
LEMMA ListPageLoaded ==
    ASSUME ListPageInv, NEW r \in devicesNet, NEW answer \in {"ok", "unavailable", "error"},
           DevicesLoaded(r, answer)
    PROVE  ListPageInv'
<1>1. /\ devicesNet' = devicesNet \ {r} /\ inventory' = inventory /\ r.op = "devices"
      /\ answer = "ok" => r.done
  BY DEF DevicesLoaded
<1>2. /\ HasFields(devicesUi', ListPageFields) /\ ~devicesUi'.loading
      /\ devicesUi'.saving = devicesUi.saving
      /\ devicesUi'.detail = devicesUi.detail /\ devicesUi'.detailOpen = devicesUi.detailOpen
      /\ devicesUi'.removing => devicesUi.removing /\ r.args.by # "remove"
      /\ ~devicesUi'.behind => ~devicesUi.behind /\ answer = "ok"
      /\ answer = "ok" => devicesUi'.devices = IF r.snap.present THEN r.snap.label ELSE None
  BY DEF ListPageInv, HasFields, ListPageFields, DevicesLoaded
<1>3. ListPageBusy'
  BY <1>1, <1>2 DEF ListPageInv, ListPageBusy, InFlight, SaveUnderWay
<1>4. ~devicesUi'.behind => ListPageSteady'
  BY <1>1, <1>2 DEF ListPageInv, ListPageSteady, ReaderSteady
<1> QED
  BY <1>1, <1>2, <1>3, <1>4, AnsweredRequests DEF ListPageInv

\* The answer to a save or a removal: a reload, or an error.
LEMMA ListPageAnswered ==
    ASSUME ListPageInv, NEW r \in devicesNet, NEW ok \in BOOLEAN,
           handleNameSaved(r, ok) \/ removalDone(r, ok)
    PROVE  ListPageInv'
<1> DEFINE net == devicesNet \ {r}
<1>1. r.op \in {"name", "remove"} /\ inventory' = inventory /\ Requests(net)
  BY AnsweredRequests DEF handleNameSaved, removalDone, ListPageInv
<1>2. CASE ok /\ handleNameSaved(r, ok)
  <2> DEFINE ui == closeDetailDialog(devicesUi)
  <2>1. HasFields(ui, ListPageFields) /\ ~ui.saving /\ ui.removing = devicesUi.removing
    BY DEF ListPageInv, HasFields, ListPageFields, closeDetailDialog
  <2>2. loadDevicesFrom(ui, net, "save") /\ r.op = "name"
    BY <1>2 DEF handleNameSaved
  <2> HIDE DEF ui
  <2>3. ui.removing => \E w \in net : w.op = "remove" \/ (w.op \in Reads /\ w.args.by = "remove")
    BY <2>1, <2>2 DEF ListPageInv, ListPageBusy, SaveUnderWay, Reads
  <2> HIDE DEF net
  <2> QED
    BY <1>1, <2>1, <2>2, <2>3, ListPageLoadStep
<1>3. CASE ok /\ removalDone(r, ok)
  <2> DEFINE ui == [devicesUi EXCEPT !.pendingRemoval = FALSE, !.dialog = FALSE]
  <2>1. /\ HasFields(ui, ListPageFields) /\ ui.saving = devicesUi.saving
        /\ ui.detail = devicesUi.detail /\ ui.detailOpen = devicesUi.detailOpen
    BY DEF ListPageInv, HasFields, ListPageFields
  <2>2. loadDevicesFrom(ui, net, "remove") /\ r.op = "remove"
    BY <1>3 DEF removalDone
  <2> HIDE DEF ui
  <2>3. ui.saving => ui.detailOpen /\ \E w \in net : w.op = "name" /\ w.args.detail = ui.detail
    BY <2>1, <2>2 DEF ListPageInv
  <2> HIDE DEF net
  <2> QED
    BY <1>1, <2>1, <2>2, <2>3, ListPageLoadStep
<1>4. CASE ~ok
  <2>1. /\ devicesNet' = net /\ HasFields(devicesUi', ListPageFields)
        /\ devicesUi'.devices = devicesUi.devices /\ devicesUi'.loading = devicesUi.loading
        /\ devicesUi'.detail = devicesUi.detail /\ devicesUi'.detailOpen = devicesUi.detailOpen
        /\ devicesUi'.saving => devicesUi.saving
        /\ devicesUi'.removing => devicesUi.removing /\ r.op # "remove"
        /\ ~devicesUi'.behind => ~devicesUi.behind /\ ~r.done
    <3>1. CASE handleNameSaved(r, ok)
      BY <1>4, <3>1 DEF handleNameSaved, Failed, ListPageInv, HasFields, ListPageFields
    <3>2. CASE removalDone(r, ok)
      BY <1>4, <3>2 DEF removalDone, Failed, ListPageInv, HasFields, ListPageFields
    <3> QED
      BY <3>1, <3>2
  <2>2. devicesUi'.saving => \E w \in net : w.op = "name" /\ w.args.detail = devicesUi.detail
    <3>1. CASE handleNameSaved(r, ok)
      <4>1. CASE devicesUi.detailOpen /\ r.args.detail = devicesUi.detail
        BY <1>4, <3>1, <4>1 DEF handleNameSaved, Failed, ListPageInv, HasFields, ListPageFields
      <4>2. CASE ~(devicesUi.detailOpen /\ r.args.detail = devicesUi.detail)
        BY <2>1, <4>2 DEF ListPageInv
      <4> QED
        BY <4>1, <4>2
    <3>2. CASE removalDone(r, ok)
      BY <2>1, <3>2 DEF removalDone, ListPageInv
    <3> QED
      BY <3>1, <3>2
  <2>3. ListPageBusy'
    BY <1>1, <2>1, <2>2 DEF ListPageInv, ListPageBusy, InFlight, SaveUnderWay, Reads
  <2>4. ~devicesUi'.behind => ListPageSteady'
    BY <1>1, <2>1 DEF ListPageInv, ListPageSteady, ReaderSteady
  <2> QED
    BY <1>1, <2>1, <2>2, <2>3, <2>4 DEF ListPageInv
<1> QED
  BY <1>2, <1>3, <1>4

\* The server acts on a request of the list or of a tab.
LEMMA DevicesServed ==
    ASSUME Requests(devicesNet), NEW r \in devicesNet, ServeDevices(r)
    PROVE  /\ devicesUi' = devicesUi /\ ~r.done
           /\ Serves(devicesNet, devicesNet', r, IF r.op \in Reads THEN inventory ELSE Unread)
           /\ r.op \in Reads => inventory' = inventory
<1> DEFINE s == IF r.op \in Reads THEN inventory ELSE Unread
<1>1. /\ devicesNet' = Served(devicesNet, r, s) /\ devicesUi' = devicesUi /\ ~r.done
      /\ r.op \in Reads => inventory' = inventory
  BY DEF ServeDevices, Reads
<1>2. Serves(devicesNet, devicesNet', r, s)
  BY <1>1, ServedServes, Zenon
<1> QED
  BY <1>1, <1>2

\* The same, for the list.
LEMMA ListPageServe ==
    ASSUME ListPageInv, NEW r \in devicesNet, ServeDevices(r)
    PROVE  ListPageInv'
<1>1. /\ devicesUi' = devicesUi /\ ~r.done
      /\ Serves(devicesNet, devicesNet', r, IF r.op \in Reads THEN inventory ELSE Unread)
      /\ r.op \in Reads => inventory' = inventory
  BY DevicesServed DEF ListPageInv
<1>2. PICK q : /\ devicesNet' = (devicesNet \ {r}) \cup {q} /\ q.op = r.op /\ q.args = r.args /\ q.done
               /\ r.op \in Reads => q.snap = inventory
               /\ Requests(devicesNet')
  BY <1>1 DEF Serves
<1>3. ListPageBusy'
  BY <1>1, <1>2 DEF ListPageInv, ListPageBusy, InFlight, SaveUnderWay
<1>4. ~devicesUi'.behind => ListPageSteady'
  BY <1>1, <1>2 DEF ListPageInv, ListPageSteady, ReaderSteady, Reads
<1> QED
  BY <1>1, <1>2, <1>3, <1>4 DEF ListPageInv

\* Every step of the list.
LEMMA ListPageNextInv == ListPageInv /\ [ListPageNext]_devicesVars => ListPageInv'
<1>1. CASE UNCHANGED devicesVars
  BY <1>1 DEF devicesVars, ListPageInv, ListPageBusy, ListPageSteady, ReaderSteady, InFlight, SaveUnderWay
<1> QED
  BY <1>1, ListPageQuiet, ListPageAsk, ListPageRefresh, ListPageServe, ListPageLoaded, ListPageAnswered
     DEF ListPageNext

-----------------------------------------------------------------------------
(* The policy of a device *)

PolicyTabFields == {"selectedGroup", "policyView", "policyLoading", "assignmentSaving", "assignmentSaved",
                    "error", "ops", "groups", "behind"}

PolicyTabSteady ==
    ReaderSteady(devicesNet, "policy", inventory, devicesUi.policyView = inventory.policy)

PolicyTabInv ==
    /\ HasFields(devicesUi, PolicyTabFields) /\ Requests(devicesNet)
    /\ PolicyTabBusy
    /\ ~devicesUi.behind => PolicyTabSteady

\* The tab opens with its first load.
LEMMA PolicyTabInitInv == PolicyTabInit => PolicyTabInv
<1> SUFFICES ASSUME PolicyTabInit PROVE PolicyTabInv
  OBVIOUS
<1>1. Requests({})
  BY DEF Requests
<1>2. Adds({}, devicesNet, "policy", [by |-> "open"])
  <2>1. devicesNet = Send({}, "policy", [by |-> "open"])
    BY DEF PolicyTabInit
  <2> QED
    BY <1>1, <2>1, SendAdds, Zenon
<1>3. PICK q : devicesNet = {q} /\ q.op = "policy" /\ ~q.done /\ Requests(devicesNet)
  BY <1>2 DEF Adds
<1>4. HasFields(devicesUi, PolicyTabFields) /\ devicesUi.policyLoading /\ ~devicesUi.assignmentSaving
  BY DEF PolicyTabInit, HasFields, PolicyTabFields
<1> QED
  BY <1>3, <1>4 DEF PolicyTabInv, PolicyTabBusy, PolicyTabSteady, ReaderSteady, InFlight

\* Steps without a request.
LEMMA PolicyTabQuiet ==
    ASSUME PolicyTabInv, GroupsLoaded \/ \E p \in PolicyIds \cup {DefaultPolicy} : SelectPolicy(p)
    PROVE  PolicyTabInv'
<1>1. /\ devicesNet' = devicesNet /\ inventory' = inventory
      /\ HasFields(devicesUi', PolicyTabFields)
      /\ devicesUi'.policyView = devicesUi.policyView /\ devicesUi'.policyLoading = devicesUi.policyLoading
      /\ devicesUi'.behind = devicesUi.behind /\ devicesUi'.assignmentSaving = devicesUi.assignmentSaving
  BY DEF PolicyTabInv, HasFields, PolicyTabFields, GroupsLoaded, SelectPolicy
<1> QED
  BY <1>1 DEF PolicyTabInv, PolicyTabBusy, PolicyTabSteady, ReaderSteady, InFlight, SaveUnderWay

\* The assignment leaves.
LEMMA PolicyTabAsk ==
    ASSUME PolicyTabInv, saveAssignment
    PROVE  PolicyTabInv'
<1> DEFINE args == [policy |-> devicesUi.selectedGroup]
<1>1. devicesNet' = Send(devicesNet, "assignment", args) /\ inventory' = inventory
  BY DEF saveAssignment, AskDevices
<1>2. Adds(devicesNet, devicesNet', "assignment", args)
  BY <1>1, SendAdds, Zenon DEF PolicyTabInv
<1>3. PICK q : devicesNet' = devicesNet \cup {q} /\ q.op = "assignment" /\ ~q.done /\ Requests(devicesNet')
  BY <1>2 DEF Adds
<1>4. /\ HasFields(devicesUi', PolicyTabFields)
      /\ devicesUi'.policyView = devicesUi.policyView /\ devicesUi'.policyLoading = devicesUi.policyLoading
      /\ devicesUi'.behind = devicesUi.behind
  BY DEF PolicyTabInv, HasFields, PolicyTabFields, saveAssignment, AskDevices
<1>5. PolicyTabBusy'
  BY <1>3, <1>4 DEF PolicyTabInv, PolicyTabBusy, InFlight, SaveUnderWay
<1>6. ~devicesUi'.behind => PolicyTabSteady'
  BY <1>1, <1>3, <1>4 DEF PolicyTabInv, PolicyTabSteady, ReaderSteady
<1> QED
  BY <1>3, <1>4, <1>5, <1>6 DEF PolicyTabInv

\* The server acts on a request.
LEMMA PolicyTabServe ==
    ASSUME PolicyTabInv, NEW r \in devicesNet, ServeDevices(r)
    PROVE  PolicyTabInv'
<1>1. /\ devicesUi' = devicesUi /\ ~r.done
      /\ Serves(devicesNet, devicesNet', r, IF r.op \in Reads THEN inventory ELSE Unread)
      /\ r.op \in Reads => inventory' = inventory
  BY DevicesServed DEF PolicyTabInv
<1>2. PICK q : /\ devicesNet' = (devicesNet \ {r}) \cup {q} /\ q.op = r.op /\ q.args = r.args /\ q.done
               /\ r.op \in Reads => q.snap = inventory
               /\ Requests(devicesNet')
  BY <1>1 DEF Serves
<1>3. PolicyTabBusy'
  BY <1>1, <1>2 DEF PolicyTabInv, PolicyTabBusy, InFlight, SaveUnderWay
<1>4. ~devicesUi'.behind => PolicyTabSteady'
  BY <1>1, <1>2 DEF PolicyTabInv, PolicyTabSteady, ReaderSteady, Reads
<1> QED
  BY <1>1, <1>2, <1>3, <1>4 DEF PolicyTabInv

\* The effective policy arrives.
LEMMA PolicyTabLoaded ==
    ASSUME PolicyTabInv, NEW r \in devicesNet, NEW ok \in BOOLEAN, loadPolicyView(r, ok)
    PROVE  PolicyTabInv'
<1>1. /\ devicesNet' = devicesNet \ {r} /\ inventory' = inventory /\ r.op = "policy"
      /\ ok => r.done
  BY DEF loadPolicyView
<1>2. /\ HasFields(devicesUi', PolicyTabFields) /\ ~devicesUi'.policyLoading
      /\ devicesUi'.assignmentSaving => devicesUi.assignmentSaving /\ r.args.by # "save"
      /\ ~devicesUi'.behind => ~devicesUi.behind /\ ok
      /\ ok => devicesUi'.policyView = r.snap.policy
  BY DEF PolicyTabInv, HasFields, PolicyTabFields, loadPolicyView
<1>3. PolicyTabBusy'
  BY <1>1, <1>2 DEF PolicyTabInv, PolicyTabBusy, InFlight, SaveUnderWay
<1>4. ~devicesUi'.behind => PolicyTabSteady'
  BY <1>1, <1>2 DEF PolicyTabInv, PolicyTabSteady, ReaderSteady
<1> QED
  BY <1>1, <1>2, <1>3, <1>4, AnsweredRequests DEF PolicyTabInv

\* The answer to an assignment: the policy is read again, or an error.
LEMMA PolicyTabAnswered ==
    ASSUME PolicyTabInv, NEW r \in devicesNet, NEW ok \in BOOLEAN, assignmentDone(r, ok)
    PROVE  PolicyTabInv'
<1> DEFINE net == devicesNet \ {r}
<1>1. r.op = "assignment" /\ inventory' = inventory /\ Requests(net)
  BY AnsweredRequests DEF assignmentDone, PolicyTabInv
<1>2. CASE ok
  <2>1. devicesNet' = Send(net, "policy", [by |-> "save"])
    BY <1>2 DEF assignmentDone
  <2>2. Adds(net, devicesNet', "policy", [by |-> "save"])
    BY <1>1, <2>1, SendAdds, Zenon
  <2>3. PICK q : /\ devicesNet' = net \cup {q} /\ q.op = "policy" /\ q.args = [by |-> "save"] /\ ~q.done
                 /\ Requests(devicesNet')
    BY <2>2 DEF Adds
  <2>4. /\ HasFields(devicesUi', PolicyTabFields)
        /\ devicesUi'.behind = InFlight(devicesNet, {"policy"})
    BY <1>2 DEF PolicyTabInv, HasFields, PolicyTabFields, assignmentDone
  <2>5. PolicyTabBusy'
    BY <2>3 DEF PolicyTabBusy, InFlight, SaveUnderWay, Reads
  <2>6. ~devicesUi'.behind => PolicyTabSteady'
    BY <1>1, <2>3, <2>4 DEF PolicyTabSteady, ReaderSteady, InFlight
  <2> QED
    BY <2>3, <2>4, <2>5, <2>6 DEF PolicyTabInv
<1>3. CASE ~ok
  <2>1. /\ devicesNet' = net /\ HasFields(devicesUi', PolicyTabFields)
        /\ devicesUi'.policyView = devicesUi.policyView /\ devicesUi'.policyLoading = devicesUi.policyLoading
        /\ ~devicesUi'.assignmentSaving
        /\ ~devicesUi'.behind => ~devicesUi.behind /\ ~r.done
    BY <1>3 DEF assignmentDone, Failed, PolicyTabInv, HasFields, PolicyTabFields
  <2>2. PolicyTabBusy'
    BY <1>1, <2>1 DEF PolicyTabInv, PolicyTabBusy, InFlight
  <2>3. ~devicesUi'.behind => PolicyTabSteady'
    BY <1>1, <2>1 DEF PolicyTabInv, PolicyTabSteady, ReaderSteady
  <2> QED
    BY <1>1, <2>1, <2>2, <2>3 DEF PolicyTabInv
<1> QED
  BY <1>2, <1>3

\* Every step of the tab.
LEMMA PolicyTabNextInv == PolicyTabInv /\ [PolicyTabNext]_devicesVars => PolicyTabInv'
<1>1. CASE UNCHANGED devicesVars
  BY <1>1 DEF devicesVars, PolicyTabInv, PolicyTabBusy, PolicyTabSteady, ReaderSteady, InFlight, SaveUnderWay
<1> QED
  BY <1>1, PolicyTabQuiet, PolicyTabAsk, PolicyTabServe, PolicyTabLoaded, PolicyTabAnswered DEF PolicyTabNext

-----------------------------------------------------------------------------
(* The Tailscale connections of a device *)

PeersTabFields == {"linked", "available", "state", "tailscaleLoading", "tailscaleLoaded", "tailscaleSaving",
                   "selectedPeer", "pendingUnlink", "error", "ops", "behind"}

PeersTabSteady == ReaderSteady(devicesNet, "peers", inventory, devicesUi.linked = inventory.peers)

PeersTabInv ==
    /\ HasFields(devicesUi, PeersTabFields) /\ Requests(devicesNet)
    /\ PeersTabBusy
    /\ ~devicesUi.behind => PeersTabSteady

\* The tab opens with its first load.
LEMMA PeersTabInitInv == PeersTabInit => PeersTabInv
<1> SUFFICES ASSUME PeersTabInit PROVE PeersTabInv
  OBVIOUS
<1>1. Requests({})
  BY DEF Requests
<1>2. Adds({}, devicesNet, "peers", [by |-> "open"])
  <2>1. devicesNet = Send({}, "peers", [by |-> "open"])
    BY DEF PeersTabInit
  <2> QED
    BY <1>1, <2>1, SendAdds, Zenon
<1>3. PICK q : devicesNet = {q} /\ q.op = "peers" /\ ~q.done /\ Requests(devicesNet)
  BY <1>2 DEF Adds
<1>4. HasFields(devicesUi, PeersTabFields) /\ devicesUi.tailscaleLoading /\ ~devicesUi.tailscaleSaving
  BY DEF PeersTabInit, HasFields, PeersTabFields
<1> QED
  BY <1>3, <1>4 DEF PeersTabInv, PeersTabBusy, PeersTabSteady, ReaderSteady, InFlight

\* Steps without a request.
LEMMA PeersTabQuiet ==
    ASSUME PeersTabInv, CloseUnlink \/ \E p \in Peers : SelectPeer(p) \/ requestUnlink(p)
    PROVE  PeersTabInv'
<1>1. /\ devicesNet' = devicesNet /\ inventory' = inventory
      /\ HasFields(devicesUi', PeersTabFields)
      /\ devicesUi'.linked = devicesUi.linked /\ devicesUi'.tailscaleLoading = devicesUi.tailscaleLoading
      /\ devicesUi'.behind = devicesUi.behind /\ devicesUi'.tailscaleSaving = devicesUi.tailscaleSaving
  BY DEF PeersTabInv, HasFields, PeersTabFields, CloseUnlink, SelectPeer, requestUnlink
<1> QED
  BY <1>1 DEF PeersTabInv, PeersTabBusy, PeersTabSteady, ReaderSteady, InFlight, SaveUnderWay

\* A link or its removal leaves.
LEMMA PeersTabAsk ==
    ASSUME PeersTabInv, linkTailscalePeer \/ confirmUnlink
    PROVE  PeersTabInv'
<1>1. inventory' = inventory /\ Requests(devicesNet)
  BY DEF linkTailscalePeer, confirmUnlink, AskDevices, PeersTabInv
<1>2. PICK op \in {"link", "unlink"} : \E args : Adds(devicesNet, devicesNet', op, args)
  <2>1. CASE linkTailscalePeer
    <3>1. devicesNet' = Send(devicesNet, "link", [peer |-> devicesUi.selectedPeer])
      BY <2>1 DEF linkTailscalePeer, AskDevices
    <3>2. \E args : Adds(devicesNet, devicesNet', "link", args)
      BY <1>1, <3>1, SendAdds, Zenon
    <3> QED
      BY <3>2
  <2>2. CASE confirmUnlink
    <3>1. devicesNet' = Send(devicesNet, "unlink", [peer |-> devicesUi.pendingUnlink])
      BY <2>2 DEF confirmUnlink, AskDevices
    <3>2. \E args : Adds(devicesNet, devicesNet', "unlink", args)
      BY <1>1, <3>1, SendAdds, Zenon
    <3> QED
      BY <3>2
  <2> QED
    BY <2>1, <2>2
<1>4. PICK q : devicesNet' = devicesNet \cup {q} /\ q.op = op /\ ~q.done /\ Requests(devicesNet')
  BY <1>2 DEF Adds
<1>5. /\ HasFields(devicesUi', PeersTabFields)
      /\ devicesUi'.linked = devicesUi.linked /\ devicesUi'.tailscaleLoading = devicesUi.tailscaleLoading
      /\ devicesUi'.behind = devicesUi.behind
  BY DEF PeersTabInv, HasFields, PeersTabFields, linkTailscalePeer, confirmUnlink, AskDevices
<1>6. PeersTabBusy'
  BY <1>1, <1>4, <1>5 DEF PeersTabInv, PeersTabBusy, InFlight, SaveUnderWay
<1>7. ~devicesUi'.behind => PeersTabSteady'
  BY <1>1, <1>2, <1>4, <1>5 DEF PeersTabInv, PeersTabSteady, ReaderSteady
<1> QED
  BY <1>4, <1>5, <1>6, <1>7 DEF PeersTabInv

\* The peers are asked for when net are the other requests under way, with no
\* read among them unless the tab is behind.
LEMMA PeersTabLoadStep ==
    ASSUME PeersTabInv, NEW net, NEW by, Requests(net),
           Adds(net, devicesNet', "peers", [by |-> by]),
           HasFields(devicesUi', PeersTabFields),
           ~devicesUi'.behind => ~InFlight(net, {"peers"}),
           devicesUi'.tailscaleSaving => \/ by = "save"
                                         \/ \E r \in net : \/ r.op \in {"link", "unlink"}
                                                           \/ r.op \in Reads /\ r.args.by = "save"
    PROVE  PeersTabInv'
<1>1. PICK q : /\ devicesNet' = net \cup {q} /\ q.op = "peers" /\ q.args = [by |-> by] /\ ~q.done
               /\ Requests(devicesNet')
  BY DEF Adds
<1>2. PeersTabBusy'
  BY <1>1 DEF PeersTabBusy, InFlight, SaveUnderWay, Reads
<1>3. ~devicesUi'.behind => PeersTabSteady'
  BY <1>1 DEF PeersTabSteady, ReaderSteady, InFlight
<1> QED
  BY <1>1, <1>2, <1>3 DEF PeersTabInv

\* Refresh.
LEMMA PeersTabRefresh ==
    ASSUME PeersTabInv, RefreshPeers
    PROVE  PeersTabInv'
<1>1. devicesNet' = Send(devicesNet, "peers", [by |-> "button"])
  BY DEF RefreshPeers, AskDevices
<1>2. Adds(devicesNet, devicesNet', "peers", [by |-> "button"])
  BY <1>1, SendAdds, Zenon DEF PeersTabInv
<1>3. /\ HasFields(devicesUi', PeersTabFields)
      /\ devicesUi'.behind = InFlight(devicesNet, {"peers"})
      /\ devicesUi'.tailscaleSaving = devicesUi.tailscaleSaving
  BY DEF PeersTabInv, HasFields, PeersTabFields, RefreshPeers, AskDevices
<1>4. PeersTabBusy /\ Requests(devicesNet)
  BY DEF PeersTabInv
<1> QED
  BY <1>2, <1>3, <1>4, PeersTabLoadStep DEF PeersTabBusy, SaveUnderWay

\* The server acts on a request.
LEMMA PeersTabServe ==
    ASSUME PeersTabInv, NEW r \in devicesNet, ServeDevices(r)
    PROVE  PeersTabInv'
<1>1. /\ devicesUi' = devicesUi /\ ~r.done
      /\ Serves(devicesNet, devicesNet', r, IF r.op \in Reads THEN inventory ELSE Unread)
      /\ r.op \in Reads => inventory' = inventory
  BY DevicesServed DEF PeersTabInv
<1>2. PICK q : /\ devicesNet' = (devicesNet \ {r}) \cup {q} /\ q.op = r.op /\ q.args = r.args /\ q.done
               /\ r.op \in Reads => q.snap = inventory
               /\ Requests(devicesNet')
  BY <1>1 DEF Serves
<1>3. PeersTabBusy'
  BY <1>1, <1>2 DEF PeersTabInv, PeersTabBusy, InFlight, SaveUnderWay
<1>4. ~devicesUi'.behind => PeersTabSteady'
  BY <1>1, <1>2 DEF PeersTabInv, PeersTabSteady, ReaderSteady, Reads
<1> QED
  BY <1>1, <1>2, <1>3, <1>4 DEF PeersTabInv

\* The peers arrive.
LEMMA PeersTabLoaded ==
    ASSUME PeersTabInv, NEW r \in devicesNet, NEW answer \in {"connected", "disabled", "error"},
           loadTailscalePeers(r, answer)
    PROVE  PeersTabInv'
<1>1. /\ devicesNet' = devicesNet \ {r} /\ inventory' = inventory /\ r.op = "peers"
      /\ answer = "connected" => r.done
  BY DEF loadTailscalePeers
<1>2. /\ HasFields(devicesUi', PeersTabFields) /\ ~devicesUi'.tailscaleLoading
      /\ devicesUi'.tailscaleSaving => devicesUi.tailscaleSaving /\ r.args.by # "save"
      /\ ~devicesUi'.behind => ~devicesUi.behind /\ answer = "connected"
      /\ answer = "connected" => devicesUi'.linked = r.snap.peers
  BY DEF PeersTabInv, HasFields, PeersTabFields, loadTailscalePeers
<1>3. PeersTabBusy'
  BY <1>1, <1>2 DEF PeersTabInv, PeersTabBusy, InFlight, SaveUnderWay
<1>4. ~devicesUi'.behind => PeersTabSteady'
  BY <1>1, <1>2 DEF PeersTabInv, PeersTabSteady, ReaderSteady
<1> QED
  BY <1>1, <1>2, <1>3, <1>4, AnsweredRequests DEF PeersTabInv

\* The answer to a link or its removal: the peers are read again, or an error.
LEMMA PeersTabAnswered ==
    ASSUME PeersTabInv, NEW r \in devicesNet, NEW ok \in BOOLEAN, peerSaved(r, ok)
    PROVE  PeersTabInv'
<1> DEFINE net == devicesNet \ {r}
<1>1. r.op \in {"link", "unlink"} /\ inventory' = inventory /\ Requests(net)
  BY AnsweredRequests DEF peerSaved, PeersTabInv
<1>2. CASE ok
  <2>1. devicesNet' = Send(net, "peers", [by |-> "save"])
    BY <1>2 DEF peerSaved
  <2>2. Adds(net, devicesNet', "peers", [by |-> "save"])
    BY <1>1, <2>1, SendAdds, Zenon
  <2>3. /\ HasFields(devicesUi', PeersTabFields)
        /\ devicesUi'.behind = InFlight(devicesNet, {"peers"})
    BY <1>2 DEF PeersTabInv, HasFields, PeersTabFields, peerSaved
  <2>4. ~devicesUi'.behind => ~InFlight(net, {"peers"})
    BY <2>3 DEF InFlight
  <2> HIDE DEF net
  <2> QED
    BY <1>1, <2>2, <2>3, <2>4, PeersTabLoadStep
<1>3. CASE ~ok
  <2>1. /\ devicesNet' = net /\ HasFields(devicesUi', PeersTabFields)
        /\ devicesUi'.linked = devicesUi.linked /\ devicesUi'.tailscaleLoading = devicesUi.tailscaleLoading
        /\ ~devicesUi'.tailscaleSaving
        /\ ~devicesUi'.behind => ~devicesUi.behind /\ ~r.done
    BY <1>3 DEF peerSaved, Failed, PeersTabInv, HasFields, PeersTabFields
  <2>2. PeersTabBusy'
    BY <1>1, <2>1 DEF PeersTabInv, PeersTabBusy, InFlight
  <2>3. ~devicesUi'.behind => PeersTabSteady'
    BY <1>1, <2>1 DEF PeersTabInv, PeersTabSteady, ReaderSteady
  <2> QED
    BY <1>1, <2>1, <2>2, <2>3 DEF PeersTabInv
<1> QED
  BY <1>2, <1>3

\* Every step of the tab.
LEMMA PeersTabNextInv == PeersTabInv /\ [PeersTabNext]_devicesVars => PeersTabInv'
<1>1. CASE UNCHANGED devicesVars
  BY <1>1 DEF devicesVars, PeersTabInv, PeersTabBusy, PeersTabSteady, ReaderSteady, InFlight, SaveUnderWay
<1> QED
  BY <1>1, PeersTabQuiet, PeersTabAsk, PeersTabRefresh, PeersTabServe, PeersTabLoaded, PeersTabAnswered
     DEF PeersTabNext

-----------------------------------------------------------------------------
(* The site tester and the categories blocked for everyone *)

TestFields == {"testTarget", "testing", "testResult", "testError", "lastAsked", "ops", "behind"}
DefaultsFields == {"categories", "gatewaySelection", "savingCategories", "error", "ops", "behind"}

\* Unless two tests overlapped, the one under way is the last one asked for.
TestInv ==
    /\ HasFields(tool, TestFields)
    /\ \A r \in toolNet : r.op = "preview"
    /\ tool.testing => toolNet # {}
    /\ ~tool.behind => /\ \A r \in toolNet : r.args.target = tool.lastAsked
                       /\ tool.testResult \in {None, tool.lastAsked}

\* One save at most is under way.
DefaultsInv ==
    /\ HasFields(tool, DefaultsFields)
    /\ \A r \in toolNet : r.op = "categories"
    /\ \A q, r \in toolNet : q = r
    /\ tool.savingCategories <=> toolNet # {}
    /\ \A r \in toolNet : r.done => r.snap = gatewayCategories
    /\ ~tool.behind /\ (\A r \in toolNet : ~r.done) => tool.categories = gatewayCategories

ToolsInv ==
    /\ tab \in {"test", "defaults"} /\ Requests(toolNet)
    /\ tab = "test" => TestInv
    /\ tab = "defaults" => DefaultsInv

\* Both tabs open without a request.
LEMMA ToolsInitInv == ToolsInit => ToolsInv
<1> SUFFICES ASSUME ToolsInit PROVE ToolsInv
  OBVIOUS
<1>1. toolNet = {} /\ gatewayCategories = {} /\ tab \in {"test", "defaults"}
  BY DEF ToolsInit
<1>2. tab = "test" => /\ HasFields(tool, TestFields) /\ ~tool.testing /\ tool.testResult = None
  BY DEF ToolsInit, HasFields, TestFields
<1>3. tab = "defaults" => HasFields(tool, DefaultsFields) /\ tool.savingCategories = FALSE /\ tool.categories = {}
  BY DEF ToolsInit, HasFields, DefaultsFields
<1> QED
  BY <1>1, <1>2, <1>3 DEF ToolsInv, TestInv, DefaultsInv, Requests

\* Typing and ticking.
LEMMA ToolsQuiet ==
    ASSUME ToolsInv, (\E t \in Targets : TypeTarget(t)) \/ (\E c \in Categories : ToggleCategory(c))
    PROVE  ToolsInv'
<1>1. CASE \E t \in Targets : TypeTarget(t)
  <2>1. PICK t : TypeTarget(t)
    BY <1>1
  <2>2. /\ tab = "test" /\ tab' = tab /\ toolNet' = toolNet /\ HasFields(tool', TestFields)
        /\ tool'.testing = tool.testing /\ tool'.behind = tool.behind
        /\ tool'.lastAsked = tool.lastAsked /\ tool'.testResult = tool.testResult
    BY <2>1 DEF TypeTarget, ToolsInv, TestInv, HasFields, TestFields
  <2> QED
    BY <2>2 DEF ToolsInv, TestInv
<1>2. CASE \E c \in Categories : ToggleCategory(c)
  <2>1. PICK c : ToggleCategory(c)
    BY <1>2
  <2>2. /\ tab = "defaults" /\ tab' = tab /\ toolNet' = toolNet /\ HasFields(tool', DefaultsFields)
        /\ gatewayCategories' = gatewayCategories
        /\ tool'.savingCategories = tool.savingCategories /\ tool'.behind = tool.behind
        /\ tool'.categories = tool.categories
    BY <2>1 DEF ToggleCategory, ToolsInv, DefaultsInv, HasFields, DefaultsFields
  <2> QED
    BY <2>2 DEF ToolsInv, DefaultsInv
<1> QED
  BY <1>1, <1>2

\* A test.
LEMMA ToolsTest ==
    ASSUME ToolsInv, runTest
    PROVE  ToolsInv'
<1> DEFINE args == [target |-> tool.testTarget]
<1>1. toolNet' = Send(toolNet, "preview", args) /\ tab = "test" /\ tab' = tab
  BY DEF runTest, AskTool
<1>2. Adds(toolNet, toolNet', "preview", args)
  BY <1>1, SendAdds, Zenon DEF ToolsInv
<1>3. PICK q : toolNet' = toolNet \cup {q} /\ q.op = "preview" /\ q.args = args /\ Requests(toolNet')
  BY <1>2 DEF Adds
<1>4. /\ HasFields(tool', TestFields) /\ tool'.testResult = None /\ tool'.lastAsked = tool.testTarget
      /\ ~tool'.behind => toolNet = {}
  BY <1>1 DEF runTest, AskTool, ToolsInv, TestInv, HasFields, TestFields
<1>5. q.args.target = tool.testTarget
  BY <1>3
<1> QED
  BY <1>1, <1>3, <1>4, <1>5 DEF ToolsInv, TestInv

\* Its answer.
LEMMA ToolsTested ==
    ASSUME ToolsInv, NEW r \in toolNet, NEW ok \in BOOLEAN, testAnswered(r, ok)
    PROVE  ToolsInv'
<1>1. /\ tab = "test" /\ tab' = tab /\ toolNet' = toolNet \ {r} /\ Requests(toolNet')
  BY AnsweredRequests DEF testAnswered, ToolRests, ToolsInv, DefaultsInv
<1>2. /\ HasFields(tool', TestFields) /\ ~tool'.testing
      /\ tool'.behind = tool.behind /\ tool'.lastAsked = tool.lastAsked
      /\ tool'.testResult = IF ok THEN r.args.target ELSE tool.testResult
  BY <1>1 DEF testAnswered, ToolRests, ToolsInv, TestInv, HasFields, TestFields
<1> QED
  BY <1>1, <1>2 DEF ToolsInv, TestInv

\* A save of the categories.
LEMMA ToolsSave ==
    ASSUME ToolsInv, saveGatewayCategories
    PROVE  ToolsInv'
<1> DEFINE args == [value |-> tool.gatewaySelection]
<1>1. /\ toolNet' = Send(toolNet, "categories", args) /\ tab = "defaults" /\ tab' = tab
      /\ gatewayCategories' = gatewayCategories /\ ~tool.savingCategories
  BY DEF saveGatewayCategories, AskTool
<1>2. Adds(toolNet, toolNet', "categories", args)
  BY <1>1, SendAdds, Zenon DEF ToolsInv
<1>3. PICK q : toolNet' = toolNet \cup {q} /\ q.op = "categories" /\ ~q.done /\ Requests(toolNet')
  BY <1>2 DEF Adds
<1>4. toolNet = {}
  BY <1>1 DEF ToolsInv, DefaultsInv
<1>5. /\ HasFields(tool', DefaultsFields) /\ tool'.savingCategories = TRUE
      /\ tool'.categories = tool.categories
      /\ ~tool'.behind => ~tool.behind
  BY <1>1, <1>4 DEF saveGatewayCategories, AskTool, ToolsInv, DefaultsInv, HasFields, DefaultsFields
<1> QED
  BY <1>1, <1>3, <1>4, <1>5 DEF ToolsInv, DefaultsInv

\* Its execution.
LEMMA ToolsServe ==
    ASSUME ToolsInv, NEW r \in toolNet, ServeTool(r)
    PROVE  ToolsInv'
<1> DEFINE v == r.args.value
<1>1. /\ tab = "defaults" /\ tab' = tab /\ tool' = tool
      /\ gatewayCategories' = v /\ toolNet' = Served(toolNet, r, v)
  BY DEF ServeTool, ToolsInv, TestInv
<1>2. Serves(toolNet, toolNet', r, v)
  BY <1>1, ServedServes, Zenon DEF ToolsInv
<1>3. PICK q : toolNet' = (toolNet \ {r}) \cup {q} /\ q.op = r.op /\ q.done /\ q.snap = v /\ Requests(toolNet')
  BY <1>2 DEF Serves
<1> QED
  BY <1>1, <1>3 DEF ToolsInv, DefaultsInv

\* Its answer.
LEMMA ToolsSaved ==
    ASSUME ToolsInv, NEW r \in toolNet, NEW ok \in BOOLEAN, categoriesSaved(r, ok)
    PROVE  ToolsInv'
<1>1. /\ tab = "defaults" /\ tab' = tab /\ toolNet' = toolNet \ {r} /\ Requests(toolNet')
      /\ gatewayCategories' = gatewayCategories /\ (ok => r.done)
  BY AnsweredRequests DEF categoriesSaved, ToolRests, ToolsInv, TestInv
<1>2. /\ HasFields(tool', DefaultsFields) /\ tool'.savingCategories = FALSE
      /\ ok => tool'.categories = r.snap
      /\ ~ok => tool'.categories = tool.categories /\ (~tool'.behind => ~tool.behind /\ ~r.done)
  BY <1>1 DEF categoriesSaved, ToolRests, ToolsInv, DefaultsInv, HasFields, DefaultsFields
<1>3. toolNet = {r}
  BY <1>1 DEF ToolsInv, DefaultsInv
<1> QED
  BY <1>1, <1>2, <1>3 DEF ToolsInv, DefaultsInv

\* Every step of the two tabs.
LEMMA ToolsNextInv == ToolsInv /\ [ToolsNext]_toolVars => ToolsInv'
<1>1. CASE UNCHANGED toolVars
  BY <1>1 DEF toolVars, ToolsInv, TestInv, DefaultsInv
<1> QED
  BY <1>1, ToolsQuiet, ToolsTest, ToolsTested, ToolsSave, ToolsServe, ToolsSaved DEF ToolsNext

-----------------------------------------------------------------------------
(* The policies page *)

PoliciesFields == {"groups", "assignments", "loading", "saving", "error", "editing", "draft",
                   "deletingGroup", "dialog", "ops", "behind", "groupsBehind"}

\* What the answer to a write makes of the policies on the screen.
GroupsAfter(r) ==
    CASE r.op = "save" ->
           IF r.args.id = "new" THEN WithGroup(policies.groups, NewPolicy, r.args.content)
           ELSE [g \in DOMAIN policies.groups |-> IF g = r.args.id THEN r.args.content ELSE policies.groups[g]]
      [] r.op = "apply" -> WithGroup(policies.groups, Starter, r.snap)
      [] r.op = "delete" -> Restrict(policies.groups, DOMAIN policies.groups \ {r.args.id})

\* The first load is alone.
PoliciesLoading ==
    /\ policies.loading => /\ ~policies.saving /\ ~policies.dialog
                           /\ \E r : policiesNet = {r} /\ r.op = "load" /\ (r.done => r.snap = policyStore)
    /\ ~policies.loading => \A r \in policiesNet : r.op # "load"

\* One write of a policy at most is under way.  Once it is served the policies
\* on the screen will be those of the server, and until then they are.
GroupsSteady ==
    /\ \A q, r \in policiesNet : q.op \in GroupWrites /\ r.op \in GroupWrites => q = r
    /\ \A r \in policiesNet : r.op \in GroupWrites /\ r.done => GroupsAfter(r) = policyStore.groups
    /\ (\A r \in policiesNet : r.op \in GroupWrites => ~r.done) => policies.groups = policyStore.groups

\* One read of the assignments at most is under way.  While no write of them
\* is served and unanswered it is current, and without it the screen is.
AssignSteady ==
    /\ \A q, r \in policiesNet : q.op = "assignments" /\ r.op = "assignments" => q = r
    /\ (\A w \in policiesNet : /\ w.op \in {"assign", "delete"} => ~w.done
                               /\ w.op = "assign" => ~w.args.written) =>
         /\ \A r \in policiesNet : r.op = "assignments" /\ r.done => r.snap.assign = policyStore.assign
         /\ (\A r \in policiesNet : r.op # "assignments") => policies.assignments = policyStore.assign

PoliciesInv ==
    /\ HasFields(policies, PoliciesFields) /\ HasFields(policyStore, {"groups", "assign"})
    /\ Requests(policiesNet)
    /\ \A r \in policiesNet : /\ r.op \in GroupWrites \cup {"load", "assign", "assignments"}
                              /\ r.op = "assign" => HasFields(r.args, {"devices", "to", "written"})
    /\ policies.saving => policiesNet # {}
    /\ PoliciesLoading
    /\ ~policies.loading /\ ~policies.groupsBehind => GroupsSteady
    /\ ~policies.loading /\ ~policies.behind => AssignSteady

\* The page is mounted with its load.
LEMMA PoliciesInitInv == PoliciesInit => PoliciesInv
<1> SUFFICES ASSUME PoliciesInit PROVE PoliciesInv
  OBVIOUS
<1>1. Requests({})
  BY DEF Requests
<1>2. Adds({}, policiesNet, "load", None)
  BY <1>1, SendAdds, Zenon DEF PoliciesInit
<1>3. PICK q : policiesNet = {q} /\ q.op = "load" /\ ~q.done /\ Requests(policiesNet)
  BY <1>2 DEF Adds
<1>4. /\ HasFields(policies, PoliciesFields) /\ HasFields(policyStore, {"groups", "assign"})
      /\ policies.loading = TRUE /\ ~policies.saving /\ ~policies.dialog
  BY DEF PoliciesInit, HasFields, PoliciesFields
<1> QED
  BY <1>3, <1>4 DEF PoliciesInv, PoliciesLoading

\* The load arrives.
LEMMA PoliciesLoadedInv ==
    ASSUME PoliciesInv, NEW r \in policiesNet, NEW ok \in BOOLEAN, PoliciesLoaded(r, ok)
    PROVE  PoliciesInv'
<1>1. /\ r.op = "load" /\ (ok => r.done) /\ policiesNet' = policiesNet \ {r} /\ policyStore' = policyStore
  BY DEF PoliciesLoaded
<1>2. policiesNet = {r} /\ ~policies.saving /\ (r.done => r.snap = policyStore)
  BY <1>1 DEF PoliciesInv, PoliciesLoading
<1>3. /\ HasFields(policies', PoliciesFields) /\ policies'.loading = FALSE
      /\ policies'.saving = policies.saving
      /\ policies'.behind = ~ok /\ policies'.groupsBehind = ~ok
      /\ ok => policies'.groups = r.snap.groups /\ policies'.assignments = r.snap.assign
  BY DEF PoliciesLoaded, PoliciesInv, HasFields, PoliciesFields
<1>4. policiesNet' = {} /\ Requests(policiesNet')
  BY <1>1, <1>2 DEF Requests
<1> QED
  BY <1>1, <1>2, <1>3, <1>4 DEF PoliciesInv, PoliciesLoading, GroupsSteady, AssignSteady

\* Steps that only touch what is open on the page.
LEMMA PoliciesQuiet ==
    ASSUME PoliciesInv, UNCHANGED <<policiesNet, policyStore>>,
           HasFields(policies', PoliciesFields),
           \A f \in {"groups", "assignments", "loading", "saving", "behind", "groupsBehind"} : policies'[f] = policies[f],
           policies'.dialog => policies.dialog \/ ~policies.loading
    PROVE  PoliciesInv'
<1>1. /\ policies'.groups = policies.groups /\ policies'.assignments = policies.assignments
      /\ policies'.loading = policies.loading /\ policies'.saving = policies.saving
      /\ policies'.behind = policies.behind /\ policies'.groupsBehind = policies.groupsBehind
  OBVIOUS
<1>2. PoliciesLoading'
  BY <1>1 DEF PoliciesInv, PoliciesLoading
<1>3. GroupsSteady => GroupsSteady'
  BY <1>1 DEF GroupsSteady, GroupsAfter
<1>4. AssignSteady => AssignSteady'
  BY <1>1 DEF AssignSteady
<1> QED
  BY <1>1, <1>2, <1>3, <1>4 DEF PoliciesInv

\* Those steps.
LEMMA PoliciesOpen ==
    ASSUME PoliciesInv,
           \/ openCreate \/ beginCreate \/ CancelDraft \/ closeDeleteGroup
           \/ \E g \in DOMAIN policies.groups : beginEdit(g) \/ openDeleteGroup(g)
           \/ \E c \in Contents : TypeDraft(c)
           \/ saveGroup /\ policies.draft = None
    PROVE  PoliciesInv'
<1> DEFINE Same == \A f \in {"groups", "assignments", "loading", "saving", "behind", "groupsBehind"} :
                     policies'[f] = policies[f]
<1>1. /\ UNCHANGED <<policiesNet, policyStore>>
      /\ HasFields(policies', PoliciesFields) /\ Same
      /\ policies'.dialog => policies.dialog \/ ~policies.loading
  <2> USE DEF PoliciesInv, HasFields, PoliciesFields
  <2>1. CASE openCreate
    BY <2>1 DEF openCreate
  <2>6. CASE beginCreate
    BY <2>6 DEF beginCreate
  <2>7. CASE CancelDraft
    BY <2>7 DEF CancelDraft, cancelEdit
  <2>2. CASE closeDeleteGroup
    BY <2>2 DEF closeDeleteGroup
  <2>3. CASE \E g \in DOMAIN policies.groups : beginEdit(g) \/ openDeleteGroup(g)
    BY <2>3 DEF beginEdit, openDeleteGroup, RowsShown, Idle
  <2>4. CASE \E c \in Contents : TypeDraft(c)
    BY <2>4 DEF TypeDraft
  <2>5. CASE saveGroup /\ policies.draft = None
    BY <2>5 DEF saveGroup
  <2> QED
    BY <2>1, <2>2, <2>3, <2>4, <2>5, <2>6, <2>7
<1> QED
  BY <1>1, PoliciesQuiet

\* A request of the administrator leaves.
LEMMA PoliciesAsk ==
    ASSUME PoliciesInv, ~policies.loading, NEW op, NEW args, AskPolicies(op, args),
           op \in {"save", "apply", "delete", "assign"},
           op = "assign" => HasFields(args, {"devices", "to", "written"})
    PROVE  PoliciesInv'
<1>1. policiesNet' = Send(policiesNet, op, args) /\ policyStore' = policyStore
  BY DEF AskPolicies
<1>2. Adds(policiesNet, policiesNet', op, args)
  BY <1>1, SendAdds, Zenon DEF PoliciesInv
<1>3. PICK q : /\ policiesNet' = policiesNet \cup {q} /\ q.op = op /\ q.args = args /\ ~q.done
               /\ Requests(policiesNet')
  BY <1>2 DEF Adds
<1>4. /\ HasFields(policies', PoliciesFields)
      /\ policies'.groups = policies.groups /\ policies'.assignments = policies.assignments
      /\ policies'.loading = policies.loading /\ policies'.behind = policies.behind
      /\ ~policies'.groupsBehind => ~policies.groupsBehind /\ ~(op \in GroupWrites /\ InFlight(policiesNet, GroupWrites))
  BY DEF AskPolicies, PoliciesInv, HasFields, PoliciesFields
<1>5. PoliciesLoading'
  BY <1>3, <1>4 DEF PoliciesInv, PoliciesLoading
<1>6. ~policies'.groupsBehind => GroupsSteady'
  <2> SUFFICES ASSUME ~policies'.groupsBehind PROVE GroupsSteady'
    OBVIOUS
  <2>1. GroupsSteady /\ ~(op \in GroupWrites /\ InFlight(policiesNet, GroupWrites))
    BY <1>4 DEF PoliciesInv
  <2> QED
    BY <1>1, <1>3, <1>4, <2>1 DEF GroupsSteady, GroupsAfter, InFlight
<1>7. ~policies'.behind => AssignSteady'
  BY <1>1, <1>3, <1>4 DEF PoliciesInv, AssignSteady
<1> QED
  BY <1>1, <1>3, <1>4, <1>5, <1>6, <1>7 DEF PoliciesInv, GroupWrites

\* The handlers that ask.
LEMMA PoliciesAsks ==
    ASSUME PoliciesInv,
           \/ saveGroup /\ policies.draft # None
           \/ applyTemplate \/ confirmDeleteGroup
           \/ \E d \in PolicyDevices : setDevicePolicy(d)
           \/ \E g \in DOMAIN policies.groups, ds \in SUBSET PolicyDevices : assignSelectedDevices(g, ds)
    PROVE  PoliciesInv'
<1>1. CASE saveGroup /\ policies.draft # None
  <2> DEFINE args == [id |-> policies.editing, content |-> policies.draft]
  <2>1. ~policies.loading /\ AskPolicies("save", args)
    BY <1>1 DEF saveGroup, FormShown, Idle
  <2> HIDE DEF args
  <2> QED
    BY <2>1, PoliciesAsk
<1>2. CASE applyTemplate
  <2>1. ~policies.loading /\ AskPolicies("apply", None)
    BY <1>2 DEF applyTemplate, Idle
  <2> QED
    BY <2>1, PoliciesAsk
<1>3. CASE confirmDeleteGroup
  <2> DEFINE args == [id |-> policies.deletingGroup]
  <2>1. ~policies.loading /\ AskPolicies("delete", args)
    BY <1>3 DEF confirmDeleteGroup, PoliciesInv, PoliciesLoading
  <2> HIDE DEF args
  <2> QED
    BY <2>1, PoliciesAsk
<1>4. CASE \E d \in PolicyDevices : setDevicePolicy(d)
  <2>1. PICK d : setDevicePolicy(d)
    BY <1>4
  <2> DEFINE args == [devices |-> {d}, to |-> DefaultGroup, written |-> FALSE]
  <2>2. ~policies.loading /\ AskPolicies("assign", args) /\ HasFields(args, {"devices", "to", "written"})
    BY <2>1 DEF setDevicePolicy, RowsShown, Idle, HasFields
  <2> HIDE DEF args
  <2> QED
    BY <2>2, PoliciesAsk
<1>5. CASE \E g \in DOMAIN policies.groups, ds \in SUBSET PolicyDevices : assignSelectedDevices(g, ds)
  <2>1. PICK g, ds : assignSelectedDevices(g, ds)
    BY <1>5
  <2> DEFINE args == [devices |-> ds, to |-> g, written |-> FALSE]
  <2>2. ~policies.loading /\ AskPolicies("assign", args) /\ HasFields(args, {"devices", "to", "written"})
    BY <2>1 DEF assignSelectedDevices, RowsShown, Idle, HasFields
  <2> HIDE DEF args
  <2> QED
    BY <2>2, PoliciesAsk
<1> QED
  BY <1>1, <1>2, <1>3, <1>4, <1>5

\* The answer to a write of a policy, when only that policy is on the screen
\* afterwards.
LEMMA GroupWritten ==
    ASSUME PoliciesInv, NEW r \in policiesNet, NEW ok \in BOOLEAN,
           groupSaved(r, ok) \/ templateApplied(r, ok)
    PROVE  PoliciesInv'
<1>1. /\ r.op \in {"save", "apply"} /\ (ok => r.done) /\ policiesNet' = policiesNet \ {r}
      /\ policyStore' = policyStore /\ Requests(policiesNet')
  BY AnsweredRequests DEF groupSaved, templateApplied, PoliciesInv
<1>2. /\ HasFields(policies', PoliciesFields)
      /\ ~policies'.saving /\ policies'.assignments = policies.assignments
      /\ policies'.loading = policies.loading /\ policies'.behind = policies.behind
      /\ policies'.dialog = policies.dialog
      /\ ok => policies'.groups = GroupsAfter(r) /\ policies'.groupsBehind = policies.groupsBehind
      /\ ~ok => /\ policies'.groups = policies.groups
                /\ ~policies'.groupsBehind => ~policies.groupsBehind /\ ~r.done
  <2>1. CASE groupSaved(r, ok)
    BY <2>1 DEF groupSaved, cancelEdit, GroupsAfter, PoliciesInv, HasFields, PoliciesFields
  <2>2. CASE templateApplied(r, ok)
    BY <2>2 DEF templateApplied, GroupsAfter, PoliciesInv, HasFields, PoliciesFields
  <2> QED
    BY <2>1, <2>2
<1>3. ~policies.loading
  BY <1>1 DEF PoliciesInv, PoliciesLoading
<1>4. PoliciesLoading'
  BY <1>1, <1>2, <1>3 DEF PoliciesInv, PoliciesLoading
<1>5. ~policies'.groupsBehind => GroupsSteady'
  <2> SUFFICES ASSUME ~policies'.groupsBehind PROVE GroupsSteady'
    OBVIOUS
  <2>1. GroupsSteady /\ r.op \in GroupWrites
    BY <1>1, <1>2, <1>3 DEF PoliciesInv, GroupWrites
  <2>2. \A q \in policiesNet' : q.op \notin GroupWrites
    BY <1>1, <2>1 DEF GroupsSteady
  <2>3. policies'.groups = policyStore.groups
    BY <1>1, <1>2, <2>1 DEF GroupsSteady
  <2> QED
    BY <1>1, <2>2, <2>3 DEF GroupsSteady
<1>6. ~policies'.behind => AssignSteady'
  BY <1>1, <1>2, <1>3 DEF PoliciesInv, AssignSteady
<1> QED
  BY <1>1, <1>2, <1>3, <1>4, <1>5, <1>6 DEF PoliciesInv

\* The assignments are asked for when net are the other requests under way.
LEMMA ReloadStep ==
    ASSUME PoliciesInv, ~policies.loading, NEW ui, NEW net, NEW r \in policiesNet, net = policiesNet \ {r},
           reloadAssignments(ui, net), policyStore' = policyStore,
           HasFields(ui, PoliciesFields), ~ui.loading,
           ui.groupsBehind = policies.groupsBehind,
           IF r.op = "delete" THEN ui.groups = GroupsAfter(r) /\ r.done
           ELSE ui.groups = policies.groups /\ r.op \notin GroupWrites
    PROVE  PoliciesInv'
<1>1. Requests(net) /\ policiesNet' = Send(net, "assignments", None)
  BY AnsweredRequests DEF reloadAssignments, PoliciesInv
<1>2. Adds(net, policiesNet', "assignments", None)
  BY <1>1, SendAdds, Zenon
<1>3. PICK q : policiesNet' = net \cup {q} /\ q.op = "assignments" /\ ~q.done /\ Requests(policiesNet')
  BY <1>2 DEF Adds
<1>4. /\ HasFields(policies', PoliciesFields) /\ policies'.groups = ui.groups
      /\ policies'.loading = ui.loading /\ policies'.groupsBehind = ui.groupsBehind
      /\ policies'.behind = InFlight(net, {"assignments"})
  BY DEF reloadAssignments, HasFields, PoliciesFields
<1>5. PoliciesLoading'
  BY <1>3, <1>4 DEF PoliciesInv, PoliciesLoading
<1>6. ~policies'.groupsBehind => GroupsSteady'
  <2> SUFFICES ASSUME ~policies'.groupsBehind PROVE GroupsSteady'
    OBVIOUS
  <2>1. GroupsSteady
    BY <1>4 DEF PoliciesInv
  <2>2. CASE r.op = "delete"
    <3>1. \A w \in policiesNet' : w.op \notin GroupWrites
      BY <1>3, <2>1, <2>2 DEF GroupsSteady, GroupWrites
    <3>2. policies'.groups = policyStore.groups
      BY <1>4, <2>1, <2>2 DEF GroupsSteady, GroupWrites
    <3> QED
      BY <3>1, <3>2 DEF GroupsSteady
  <2>3. CASE r.op # "delete"
    <3>1. \A w : w \in policiesNet' /\ w.op \in GroupWrites <=> w \in policiesNet /\ w.op \in GroupWrites
      BY <1>3, <2>3 DEF GroupWrites
    <3>2. policies'.groups = policies.groups
      BY <1>4, <2>3
    <3> QED
      BY <2>1, <3>1, <3>2 DEF GroupsSteady, GroupsAfter
  <2> QED
    BY <2>2, <2>3
<1>7. ~policies'.behind => AssignSteady'
  BY <1>3, <1>4 DEF AssignSteady, InFlight
<1> QED
  BY <1>3, <1>4, <1>5, <1>6, <1>7 DEF PoliciesInv

\* A request fails, or one that writes nothing more is answered: it is gone,
\* and the policies on the screen are the same.
LEMMA PoliciesRest ==
    ASSUME PoliciesInv, ~policies.loading, NEW r \in policiesNet,
           policiesNet' = policiesNet \ {r}, policyStore' = policyStore,
           HasFields(policies', PoliciesFields), ~policies'.loading, ~policies'.saving,
           policies'.groups = policies.groups,
           ~policies'.groupsBehind => ~policies.groupsBehind /\ ~(r.op \in GroupWrites /\ r.done),
           ~policies'.behind =>
             /\ ~policies.behind
             /\ IF r.op = "assignments" THEN r.done /\ policies'.assignments = r.snap.assign
                ELSE /\ policies'.assignments = policies.assignments
                     /\ ~(r.op \in {"assign", "delete"} /\ r.done) /\ ~(r.op = "assign" /\ r.args.written)
    PROVE  PoliciesInv'
<1>1. Requests(policiesNet') /\ PoliciesLoading'
  BY AnsweredRequests DEF PoliciesInv, PoliciesLoading
<1>2. ~policies'.groupsBehind => GroupsSteady'
  BY DEF PoliciesInv, GroupsSteady, GroupsAfter
<1>3. ~policies'.behind => AssignSteady'
  BY DEF PoliciesInv, AssignSteady
<1> QED
  BY <1>1, <1>2, <1>3 DEF PoliciesInv

\* The answer to a deletion.
LEMMA GroupDeletedInv ==
    ASSUME PoliciesInv, NEW r \in policiesNet, NEW ok \in BOOLEAN, groupDeleted(r, ok)
    PROVE  PoliciesInv'
<1>1. r.op = "delete" /\ (ok => r.done) /\ policyStore' = policyStore /\ ~policies.loading
  BY DEF groupDeleted, PoliciesInv, PoliciesLoading
<1>2. CASE ok
  <2> DEFINE ui == [policies EXCEPT !.deletingGroup = None, !.dialog = FALSE,
                      !.groups = Restrict(@, DOMAIN @ \ {r.args.id})]
             net == policiesNet \ {r}
  <2>1. /\ HasFields(ui, PoliciesFields) /\ ui.loading = policies.loading
        /\ ui.groupsBehind = policies.groupsBehind /\ ui.groups = GroupsAfter(r)
    BY <1>1 DEF PoliciesInv, HasFields, PoliciesFields, GroupsAfter
  <2>2. reloadAssignments(ui, net)
    BY <1>2 DEF groupDeleted
  <2> HIDE DEF ui
  <2> QED
    BY <1>1, <1>2, <2>1, <2>2, ReloadStep
<1>3. CASE ~ok
  <2>1. /\ policiesNet' = policiesNet \ {r}
        /\ HasFields(policies', PoliciesFields) /\ policies'.loading = policies.loading /\ ~policies'.saving
        /\ policies'.groups = policies.groups /\ policies'.assignments = policies.assignments
        /\ ~policies'.groupsBehind => ~policies.groupsBehind /\ ~r.done
        /\ ~policies'.behind => ~policies.behind /\ ~r.done
    BY <1>3 DEF groupDeleted, PoliciesInv, HasFields, PoliciesFields
  <2> QED
    BY <1>1, <2>1, PoliciesRest
<1> QED
  BY <1>2, <1>3

\* The assignments arrive.
LEMMA AssignmentsLoadedInv ==
    ASSUME PoliciesInv, NEW r \in policiesNet, NEW ok \in BOOLEAN, AssignmentsLoaded(r, ok)
    PROVE  PoliciesInv'
<1>1. /\ r.op = "assignments" /\ (ok => r.done) /\ policyStore' = policyStore /\ ~policies.loading
      /\ policiesNet' = policiesNet \ {r}
  BY DEF AssignmentsLoaded, PoliciesInv, PoliciesLoading
<1>2. /\ HasFields(policies', PoliciesFields) /\ policies'.loading = policies.loading /\ ~policies'.saving
      /\ policies'.groups = policies.groups /\ policies'.groupsBehind = policies.groupsBehind
      /\ ~policies'.behind => ~policies.behind /\ ok
      /\ ok => policies'.assignments = r.snap.assign
  BY DEF AssignmentsLoaded, PoliciesInv, HasFields, PoliciesFields
<1>3. r.op \notin GroupWrites
  BY <1>1 DEF GroupWrites
<1> QED
  BY <1>1, <1>2, <1>3, PoliciesRest

\* The answer to the assignment of one device.
LEMMA DevicesWrittenInv ==
    ASSUME PoliciesInv, NEW r \in policiesNet, NEW ok \in BOOLEAN, devicesWritten(r, ok)
    PROVE  PoliciesInv'
<1> DEFINE net == policiesNet \ {r}
<1>1. /\ r.op = "assign" /\ (ok => r.done) /\ policyStore' = policyStore /\ ~policies.loading
      /\ r.op \notin GroupWrites /\ Requests(net)
  BY AnsweredRequests DEF devicesWritten, PoliciesInv, PoliciesLoading, GroupWrites
<1>2. CASE ~ok
  <2>1. /\ policiesNet' = net
        /\ HasFields(policies', PoliciesFields) /\ policies'.loading = policies.loading /\ ~policies'.saving
        /\ policies'.groups = policies.groups /\ policies'.assignments = policies.assignments
        /\ policies'.groupsBehind = policies.groupsBehind
        /\ ~policies'.behind => ~policies.behind /\ ~r.done /\ ~r.args.written
    BY <1>2 DEF devicesWritten, PoliciesInv, HasFields, PoliciesFields
  <2> QED
    BY <1>1, <2>1, PoliciesRest
<1>3. CASE ok /\ r.args.devices # {}
  <2> DEFINE args == [r.args EXCEPT !.written = TRUE]
  <2>1. policiesNet' = Send(net, "assign", args) /\ policies' = policies
    BY <1>3 DEF devicesWritten
  <2>2. args.written = TRUE /\ HasFields(args, {"devices", "to", "written"})
    BY <1>1 DEF PoliciesInv, HasFields
  <2> HIDE DEF args
  <2>3. Adds(net, policiesNet', "assign", args)
    BY <1>1, <2>1, SendAdds, Zenon
  <2>4. PICK q : policiesNet' = net \cup {q} /\ q.op = "assign" /\ q.args = args /\ ~q.done /\ Requests(policiesNet')
    BY <2>3 DEF Adds
  <2>5. PoliciesLoading'
    BY <1>1, <2>1, <2>4 DEF PoliciesInv, PoliciesLoading
  <2>6. GroupsSteady => GroupsSteady'
    <3>1. \A w : w \in policiesNet' /\ w.op \in GroupWrites <=> w \in policiesNet /\ w.op \in GroupWrites
      BY <1>1, <2>4
    <3> QED
      BY <1>1, <2>1, <3>1 DEF GroupsSteady, GroupsAfter
  <2>7. AssignSteady => AssignSteady'
    BY <1>1, <2>1, <2>2, <2>4 DEF AssignSteady
  <2> QED
    BY <1>1, <2>1, <2>2, <2>4, <2>5, <2>6, <2>7 DEF PoliciesInv
<1>4. CASE ok /\ r.args.devices = {}
  <2>1. reloadAssignments(policies, net) /\ r.op # "delete"
    BY <1>1, <1>4 DEF devicesWritten
  <2> QED
    BY <1>1, <2>1, ReloadStep DEF PoliciesInv
<1> QED
  BY <1>2, <1>3, <1>4

\* The server reads.
LEMMA PoliciesServeRead ==
    ASSUME PoliciesInv, NEW r \in policiesNet, ServePolicies(r), r.op \in {"load", "assignments"}
    PROVE  PoliciesInv'
<1>1. policiesNet' = Served(policiesNet, r, policyStore) /\ policyStore' = policyStore /\ policies' = policies
  BY DEF ServePolicies
<1>2. Serves(policiesNet, policiesNet', r, policyStore)
  BY <1>1, ServedServes, Zenon DEF PoliciesInv
<1>3. PICK q : /\ policiesNet' = (policiesNet \ {r}) \cup {q} /\ q.op = r.op /\ q.done /\ q.snap = policyStore
               /\ Requests(policiesNet')
  BY <1>2 DEF Serves
<1>4. PoliciesLoading'
  BY <1>1, <1>3 DEF PoliciesInv, PoliciesLoading
<1>5. GroupsSteady => GroupsSteady'
  <2>1. \A w : w \in policiesNet' /\ w.op \in GroupWrites <=> w \in policiesNet /\ w.op \in GroupWrites
    BY <1>3 DEF GroupWrites
  <2> QED
    BY <1>1, <2>1 DEF GroupsSteady, GroupsAfter
<1>6. AssignSteady => AssignSteady'
  BY <1>1, <1>3 DEF AssignSteady
<1> QED
  BY <1>1, <1>3, <1>4, <1>5, <1>6 DEF PoliciesInv

\* The server writes one policy, or deletes one.
LEMMA PoliciesServeGroup ==
    ASSUME PoliciesInv, NEW r \in policiesNet, ServePolicies(r), r.op \in GroupWrites
    PROVE  PoliciesInv'
<1>1. ~r.done /\ policies' = policies /\ ~policies.loading
  BY DEF ServePolicies, PoliciesInv, PoliciesLoading, GroupWrites
<1>2. PICK s : policiesNet' = Served(policiesNet, r, s)
  BY DEF ServePolicies, GroupWrites
<1>3. Serves(policiesNet, policiesNet', r, s)
  BY <1>2, ServedServes, Zenon DEF PoliciesInv
<1>4. PICK q : /\ policiesNet' = (policiesNet \ {r}) \cup {q} /\ q.op = r.op /\ q.args = r.args /\ q.done
               /\ q.snap = s /\ Requests(policiesNet')
  BY <1>3 DEF Serves
<1>5. /\ HasFields(policyStore', {"groups", "assign"})
      /\ r.op # "delete" => policyStore'.assign = policyStore.assign
  BY DEF ServePolicies, PoliciesInv, HasFields, GroupWrites
<1>6. PoliciesLoading'
  BY <1>1, <1>4 DEF PoliciesInv, PoliciesLoading
<1>7. ~policies.groupsBehind => GroupsSteady'
  <2> SUFFICES ASSUME ~policies.groupsBehind PROVE GroupsSteady'
    OBVIOUS
  <2>1. GroupsSteady
    BY <1>1 DEF PoliciesInv
  <2>2. policies.groups = policyStore.groups
    BY <1>1, <2>1 DEF GroupsSteady
  <2>3. GroupsAfter(q) = policyStore'.groups
    <3>1. CASE r.op = "save"
      <4>1. r.args.id = "new" \/ r.args.id \in DOMAIN policyStore.groups
        BY <3>1 DEF ServePolicies
      <4>2. policyStore'.groups = WithGroup(policyStore.groups, IF r.args.id = "new" THEN NewPolicy ELSE r.args.id,
                                            r.args.content)
        BY <3>1 DEF ServePolicies, PoliciesInv, HasFields
      <4> QED
        BY <1>4, <2>2, <3>1, <4>1, <4>2 DEF GroupsAfter, WithGroup
    <3>2. CASE r.op = "apply"
      <4>1. PICK c : /\ policyStore' = [policyStore EXCEPT !.groups = WithGroup(@, Starter, c)]
                     /\ policiesNet' = Served(policiesNet, r, c)
        BY <3>2 DEF ServePolicies
      <4>2. policyStore'.groups = WithGroup(policyStore.groups, Starter, c)
        BY <4>1 DEF PoliciesInv, HasFields
      <4>3. q.snap = c
        <5>1. Serves(policiesNet, policiesNet', r, c)
          BY <4>1, ServedServes, Zenon DEF PoliciesInv
        <5>2. PICK p : policiesNet' = (policiesNet \ {r}) \cup {p} /\ p.done /\ p.op = r.op /\ p.snap = c
          BY <5>1 DEF Serves
        <5>3. \A w \in policiesNet \ {r} : w.op \notin GroupWrites
          BY <2>1 DEF GroupsSteady
        <5> QED
          BY <1>4, <5>2, <5>3
      <4> QED
        BY <1>4, <2>2, <3>2, <4>2, <4>3 DEF GroupsAfter
    <3>3. CASE r.op = "delete"
      BY <1>4, <2>2, <3>3 DEF ServePolicies, GroupsAfter
    <3> QED
      BY <3>1, <3>2, <3>3 DEF GroupWrites
  <2>4. \A w \in policiesNet' : w.op \in GroupWrites => w = q
    BY <1>4, <2>1 DEF GroupsSteady
  <2>5. GroupsAfter(q)' = GroupsAfter(q)
    BY <1>1 DEF GroupsAfter
  <2> QED
    BY <1>4, <2>3, <2>4, <2>5 DEF GroupsSteady
<1>8. AssignSteady => AssignSteady'
  BY <1>1, <1>4, <1>5 DEF AssignSteady, GroupWrites
<1> QED
  BY <1>1, <1>4, <1>5, <1>6, <1>7, <1>8 DEF PoliciesInv, GroupWrites

\* The server assigns the policy to one device.
LEMMA PoliciesServeAssign ==
    ASSUME PoliciesInv, NEW r \in policiesNet, ServePolicies(r), r.op = "assign"
    PROVE  PoliciesInv'
<1>1. ~r.done /\ policies' = policies /\ ~policies.loading
  BY DEF ServePolicies, PoliciesInv, PoliciesLoading
<1>2. PICK d : /\ policyStore' = [policyStore EXCEPT !.assign[d] = r.args.to]
               /\ policiesNet' = Served(policiesNet \ {r}, [r EXCEPT !.args.devices = @ \ {d}], Unread)
  BY DEF ServePolicies
<1>3. HasFields(policyStore', {"groups", "assign"}) /\ policyStore'.groups = policyStore.groups
  BY <1>2 DEF PoliciesInv, HasFields
<1> DEFINE p == [r EXCEPT !.args.devices = @ \ {d}]
           q == [p EXCEPT !.done = TRUE, !.snap = Unread]
<1>4. policiesNet' = ((policiesNet \ {r}) \ {p}) \cup {q}
  BY <1>2 DEF Served
<1>5. /\ p.op = "assign" /\ IsRequest(q) /\ q.op = "assign" /\ q.done
      /\ HasFields(q.args, {"devices", "to", "written"})
  <2>1. IsRequest(r) /\ HasFields(r.args, {"devices", "to", "written"})
    BY DEF PoliciesInv, Requests
  <2>2. IsRequest(p) /\ p.op = "assign"
    BY <2>1 DEF IsRequest, HasFields
  <2>3. HasFields(p.args, {"devices", "to", "written"})
    BY <2>1 DEF IsRequest, HasFields
  <2> HIDE DEF p
  <2>4. IsRequest(q) /\ q.op = p.op /\ q.done /\ q.args = p.args
    BY <2>2 DEF IsRequest, HasFields
  <2> QED
    BY <2>2, <2>3, <2>4
<1> HIDE DEF p, q
<1>6. Requests(policiesNet')
  BY <1>4, <1>5 DEF PoliciesInv, Requests
<1>7. PoliciesLoading'
  BY <1>1, <1>4, <1>5 DEF PoliciesInv, PoliciesLoading
<1>8. GroupsSteady => GroupsSteady'
  <2>1. \A w : w \in policiesNet' /\ w.op \in GroupWrites <=> w \in policiesNet /\ w.op \in GroupWrites
    BY <1>4, <1>5 DEF GroupWrites
  <2> QED
    BY <1>1, <1>3, <2>1 DEF GroupsSteady, GroupsAfter
<1>9. AssignSteady => AssignSteady'
  BY <1>1, <1>4, <1>5 DEF AssignSteady
<1> QED
  BY <1>1, <1>3, <1>4, <1>5, <1>6, <1>7, <1>8, <1>9 DEF PoliciesInv

\* Every step of the page.
LEMMA PoliciesNextInv == PoliciesInv /\ [PoliciesNext]_policiesVars => PoliciesInv'
<1> SUFFICES ASSUME PoliciesInv, [PoliciesNext]_policiesVars PROVE PoliciesInv'
  OBVIOUS
<1>1. CASE UNCHANGED policiesVars
  <2>1. policies' = policies /\ policiesNet' = policiesNet /\ policyStore' = policyStore
    BY <1>1 DEF policiesVars
  <2>2. PoliciesLoading'
    BY <2>1 DEF PoliciesInv, PoliciesLoading
  <2>3. GroupsSteady => GroupsSteady'
    BY <2>1 DEF GroupsSteady, GroupsAfter
  <2>4. AssignSteady => AssignSteady'
    BY <2>1 DEF AssignSteady
  <2> QED
    BY <2>1, <2>2, <2>3, <2>4 DEF PoliciesInv
<1>2. ASSUME NEW r \in policiesNet, ServePolicies(r) PROVE PoliciesInv'
  <2>1. r.op \in {"load", "assignments"} \/ r.op \in GroupWrites \/ r.op = "assign"
    BY <1>2 DEF PoliciesInv
  <2> QED
    BY <1>2, <2>1, PoliciesServeRead, PoliciesServeGroup, PoliciesServeAssign
<1> QED
  BY <1>1, <1>2, PoliciesOpen, PoliciesAsks, PoliciesLoadedInv, GroupWritten, GroupDeletedInv, DevicesWrittenInv,
     AssignmentsLoadedInv DEF PoliciesNext

-----------------------------------------------------------------------------
(* The controls bound to a setting *)

GeneralFields == {"data", "internalFormValue", "loading", "saving", "loggedOut", "ops", "behind"}
TextFields == {"data", "persistedValue", "internalFormValue", "text", "loaded", "saving", "saveError",
               "ops", "behind"}
ToggleFields == {"settingValue", "text", "notice", "loadFailed", "ops", "behind"}
CertificateFields == {"data", "text", "ops", "behind"}

\* A save is alone.  While none is served and unanswered, the loads that were
\* served are current, and without a load the field on the settings page is.
GeneralSteady ==
    /\ \A r \in fieldNet : r.op = "save" => fieldNet = {r}
    /\ (\A w \in fieldNet : w.op = "save" => ~w.done) =>
         /\ \A r \in fieldNet : r.op = "load" /\ r.done => r.snap = setting
         /\ (\A r \in fieldNet : ~(r.op = "load" /\ r.args.key = "log_location")) =>
              field.data["log_location"].log_location = setting.log_location

GeneralInv ==
    /\ HasFields(field, GeneralFields)
    /\ \A f \in {"data", "internalFormValue", "loading", "saving"} : HasFields(field[f], GeneralKeys)
    /\ \A r \in fieldNet : r.args.key \in GeneralKeys
    /\ \A k \in GeneralKeys : field.loading[k] => \E r \in fieldNet : r.op = "load" /\ r.args.key = k
    /\ \A k \in GeneralKeys : field.saving[k] => \E r \in fieldNet : r.args.key = k
    /\ ~field.behind /\ ~field.loggedOut => GeneralSteady

\* The same for a field of its own setting; what a save that was served has
\* sent stands for what is stored.
TextSteady ==
    /\ \A r \in fieldNet : r.op = "save" => fieldNet = {r} /\ (r.done => StandsFor(r.args.value))
    /\ (\A w \in fieldNet : w.op = "save" => ~w.done) =>
         /\ \A r \in fieldNet : r.op = "load" /\ r.done => StandsFor(r.snap)
         /\ (\A r \in fieldNet : r.op # "load") => StandsFor(field.persistedValue)

TextInv ==
    /\ HasFields(field, TextFields)
    /\ ~field.loaded => InFlight(fieldNet, {"load"})
    /\ field.saving => InFlight(fieldNet, {"save"})
    /\ ~field.behind => TextSteady

\* One request at most is under way.  During a save the switch shows the new
\* position and its page the old one; a load comes when the page is out of date,
\* so that its answer turns the switch where it is not yet.
ToggleSteady ==
    /\ \A q, r \in fieldNet : q = r
    /\ fieldNet = {} => field.settingValue = setting /\ field.text = setting
    /\ \A r \in fieldNet : r.op = "save" =>
         /\ field.settingValue \in BOOLEAN /\ field.text # field.settingValue
         /\ r.args.value # field.settingValue
         /\ IF r.done THEN setting # field.settingValue ELSE setting = field.settingValue
    /\ \A r \in fieldNet : r.op = "load" => /\ field.settingValue # setting
                                            /\ r.done => r.snap = setting

ToggleInv ==
    /\ HasFields(field, ToggleFields)
    /\ field.settingValue \in BOOLEAN \cup {None} /\ field.text \in BOOLEAN /\ setting \in BOOLEAN
    /\ \A r \in fieldNet : r.op = "save" => r.args.value \in BOOLEAN
    /\ \A r \in fieldNet : r.op = "load" /\ r.done => r.snap \in BOOLEAN
    /\ field.settingValue = None => InFlight(fieldNet, {"load"}) \/ field.loadFailed
    /\ ~field.behind => ToggleSteady

\* One request at most is under way.
CertificateInv ==
    /\ HasFields(field, CertificateFields)
    /\ ~field.behind => /\ \A q, r \in fieldNet : q = r
                        /\ \A r \in fieldNet : r.op = "load" /\ r.done => r.snap = setting
                        /\ fieldNet = {} => field.data = setting

FieldsInv ==
    /\ control \in Controls /\ Requests(fieldNet)
    /\ \A r \in fieldNet : r.op \in {"load", "save"}
    /\ control = "general" => GeneralInv
    /\ control \in TextControls => TextInv
    /\ control = "toggle" => ToggleInv
    /\ control = "certificate" => CertificateInv

\* A request of the control leaves.
LEMMA FieldAsked ==
    ASSUME Requests(fieldNet), NEW ui, NEW op, NEW args, AskField(ui, op, args)
    PROVE  /\ control' = control /\ setting' = setting
           /\ field' = [ui EXCEPT !.ops = @ + 1, !.behind = @ \/ fieldNet # {}]
           /\ Adds(fieldNet, fieldNet', op, args)
<1>1. fieldNet' = Send(fieldNet, op, args)
  BY DEF AskField
<1>2. Adds(fieldNet, fieldNet', op, args)
  BY <1>1, SendAdds, Zenon
<1> QED
  BY <1>2 DEF AskField

\* A load follows a save.
LEMMA FieldReloads ==
    ASSUME Requests(fieldNet), NEW ui, NEW r, NEW args, Reload(ui, r, args)
    PROVE  /\ control' = control /\ setting' = setting /\ field' = ui
           /\ Adds(fieldNet \ {r}, fieldNet', "load", args)
<1> DEFINE net == fieldNet \ {r}
<1>1. Requests(net)
  BY AnsweredRequests
<1>2. fieldNet' = Send(net, "load", args)
  BY DEF Reload
<1> HIDE DEF net
<1>3. Adds(net, fieldNet', "load", args)
  BY <1>1, <1>2, SendAdds, Zenon
<1> QED
  BY <1>3 DEF Reload, net

\* The server acts on a request.
LEMMA FieldServed ==
    ASSUME FieldsInv, NEW r \in fieldNet, ServeField(r)
    PROVE  /\ control' = control /\ field' = field /\ ~r.done
           /\ r.op = "load" => setting' = setting
           /\ r.op = "save" => setting' = GSApiSettingsPOST(r.args.value)
           /\ \E q : /\ fieldNet' = (fieldNet \ {r}) \cup {q} /\ q.op = r.op /\ q.args = r.args /\ q.done
                     /\ r.op = "load" => q.snap = GSApiSettingsGET
                     /\ Requests(fieldNet')
<1>1. /\ control' = control /\ field' = field /\ ~r.done
      /\ r.op = "load" => setting' = setting
      /\ r.op = "save" => setting' = GSApiSettingsPOST(r.args.value)
  BY DEF ServeField
<1>2. PICK s : fieldNet' = Served(fieldNet, r, s) /\ (r.op = "load" => s = GSApiSettingsGET)
  BY DEF ServeField
<1>3. Serves(fieldNet, fieldNet', r, s)
  BY <1>2, ServedServes, Zenon DEF FieldsInv
<1> QED
  BY <1>1, <1>2, <1>3 DEF Serves

\* What a load returns stands for what is stored.
LEMMA LoadStands == control \in TextControls => StandsFor(GSApiSettingsGET)
BY DEF TextControls, StandsFor, GSApiSettingsGET

\* What stands for a stored value does so until the value changes, and what is
\* sent stands for what the server makes of it.
LEMMA StandsStays ==
    ASSUME control' = control, setting' = setting, NEW v
    PROVE  StandsFor(v) <=> (StandsFor(v))'
BY DEF StandsFor

LEMMA SaveStands ==
    ASSUME control \in TextControls, control' = control, NEW v, setting' = GSApiSettingsPOST(v)
    PROVE  (StandsFor(v))'
BY DEF TextControls, StandsFor, GSApiSettingsPOST

\* Each control is mounted with its load.
LEMMA FieldsInitInv == FieldsInit => FieldsInv
<1> SUFFICES ASSUME FieldsInit PROVE FieldsInv
  OBVIOUS
<1>1. Requests({}) /\ control \in Controls
  BY DEF Requests, FieldsInit
<1>2. CASE control = "general"
  <2> DEFINE a == [key |-> "log_location"]
             b == [key |-> "admin_password"]
             net == Send({}, "load", a)
  <2>1. a.key = "log_location" /\ b.key = "admin_password" /\ fieldNet = Send(net, "load", b)
    BY <1>2 DEF FieldsInit, GeneralInit, TextControls
  <2> HIDE DEF a, b
  <2>2. Adds({}, net, "load", a)
    BY <1>1, SendAdds, Zenon
  <2> HIDE DEF net
  <2>3. PICK p : net = {p} /\ p.op = "load" /\ p.args = a /\ ~p.done /\ Requests(net)
    BY <2>2 DEF Adds
  <2>4. Adds(net, fieldNet, "load", b)
    BY <2>1, <2>3, SendAdds, Zenon
  <2>5. PICK q : fieldNet = {p, q} /\ q.op = "load" /\ q.args = b /\ ~q.done /\ Requests(fieldNet)
    BY <2>3, <2>4 DEF Adds
  <2>6. /\ HasFields(field, GeneralFields)
        /\ \A f \in {"data", "internalFormValue", "loading", "saving"} : HasFields(field[f], GeneralKeys)
        /\ \A k \in GeneralKeys : ~field.saving[k]
    BY <1>2 DEF FieldsInit, GeneralInit, HasFields, GeneralFields, TextControls
  <2>7. GeneralInv
    BY <2>1, <2>3, <2>5, <2>6 DEF GeneralInv, GeneralSteady, GeneralKeys
  <2> QED
    BY <1>1, <1>2, <2>3, <2>5, <2>7 DEF FieldsInv, TextControls
<1>3. CASE control # "general"
  <2>1. fieldNet = Send({}, "load", None)
    BY <1>3 DEF FieldsInit, TextInit, ToggleInit, CertificateInit
  <2>2. Adds({}, fieldNet, "load", None)
    BY <1>1, <2>1, SendAdds, Zenon
  <2>3. PICK q : fieldNet = {q} /\ q.op = "load" /\ ~q.done /\ Requests(fieldNet)
    BY <2>2 DEF Adds
  <2>4. control \in TextControls => TextInv
    <3>1. control \in TextControls => HasFields(field, TextFields) /\ ~field.saving
      BY DEF FieldsInit, TextInit, HasFields, TextFields, TextControls
    <3> QED
      BY <2>3, <3>1 DEF TextInv, TextSteady, InFlight
  <2>5. control = "toggle" => ToggleInv
    <3>1. control = "toggle" => /\ HasFields(field, ToggleFields) /\ field.settingValue = None /\ field.text = FALSE
                                /\ setting \in BOOLEAN
      BY DEF FieldsInit, ToggleInit, HasFields, ToggleFields, TextControls
    <3> QED
      BY <2>3, <3>1, FieldsAssumption DEF ToggleInv, ToggleSteady, InFlight
  <2>6. control = "certificate" => CertificateInv
    <3>1. control = "certificate" => HasFields(field, CertificateFields)
      BY DEF FieldsInit, CertificateInit, HasFields, CertificateFields, TextControls
    <3> QED
      BY <2>3, <3>1 DEF CertificateInv
  <2> QED
    BY <1>1, <1>3, <2>3, <2>4, <2>5, <2>6 DEF FieldsInv
<1> QED
  BY <1>2, <1>3

\* The server acts on a request of a control.
LEMMA FieldsServe ==
    ASSUME FieldsInv, NEW r \in fieldNet, ServeField(r)
    PROVE  FieldsInv'
<1>1. /\ control' = control /\ field' = field /\ ~r.done
      /\ r.op = "load" => setting' = setting
      /\ r.op = "save" => setting' = GSApiSettingsPOST(r.args.value)
      /\ r.op \in {"load", "save"}
  BY FieldServed DEF FieldsInv
<1>2. PICK q : /\ fieldNet' = (fieldNet \ {r}) \cup {q} /\ q.op = r.op /\ q.args = r.args /\ q.done
               /\ r.op = "load" => q.snap = GSApiSettingsGET
               /\ Requests(fieldNet')
  BY FieldServed
<1>3. control = "general" => GeneralInv'
  <2>1. control = "general" /\ GeneralSteady => GeneralSteady'
    BY <1>1, <1>2 DEF GeneralSteady, GSApiSettingsGET
  <2> QED
    BY <1>1, <1>2, <2>1 DEF FieldsInv, GeneralInv
<1>4. control \in TextControls => TextInv'
  <2> SUFFICES ASSUME control \in TextControls PROVE TextInv'
    OBVIOUS
  <2>1. TextSteady => TextSteady'
    <3>1. CASE r.op = "load"
      <4>1. \A v : StandsFor(v) <=> (StandsFor(v))'
        BY <1>1, <3>1, StandsStays
      <4>2. StandsFor(q.snap)
        BY <1>2, <3>1, LoadStands
      <4> QED
        BY <1>1, <1>2, <3>1, <4>1, <4>2 DEF TextSteady
    <3>2. CASE r.op = "save"
      <4>1. (StandsFor(r.args.value))'
        BY <1>1, <3>2, SaveStands
      <4> QED
        BY <1>1, <1>2, <3>2, <4>1 DEF TextSteady
    <3> QED
      BY <1>1, <3>1, <3>2
  <2> QED
    BY <1>1, <1>2, <2>1 DEF FieldsInv, TextInv, InFlight
<1>5. control = "toggle" => ToggleInv'
  <2> SUFFICES ASSUME control = "toggle" PROVE ToggleInv'
    OBVIOUS
  <2>0. r.op = "save" => setting' = r.args.value
    BY <1>1 DEF GSApiSettingsPOST
  <2>1. ToggleInv /\ setting' \in BOOLEAN
    BY <1>1, <2>0 DEF FieldsInv, ToggleInv
  <2>2. ToggleSteady => ToggleSteady'
    BY <1>1, <1>2, <2>0, <2>1 DEF ToggleSteady, ToggleInv, GSApiSettingsGET
  <2> QED
    BY <1>1, <1>2, <2>1, <2>2 DEF ToggleInv, InFlight, GSApiSettingsGET
<1>6. control = "certificate" => CertificateInv'
  BY <1>1, <1>2 DEF FieldsInv, CertificateInv, GSApiSettingsGET
<1> QED
  BY <1>1, <1>2, <1>3, <1>4, <1>5, <1>6 DEF FieldsInv

\* The fields of general_settings: a save leaves.
LEMMA GeneralAsk ==
    ASSUME FieldsInv, control = "general", ~field.loggedOut, NEW k \in GeneralKeys, NEW value,
           generalUpdateNetwork(k, value)
    PROVE  FieldsInv'
<1> DEFINE ui == [field EXCEPT !.saving[k] = TRUE, !.internalFormValue[k] = value]
           args == [key |-> k, value |-> value]
<1>1. AskField(ui, "save", args) /\ args.key = k
  BY DEF generalUpdateNetwork
<1>2. /\ HasFields(ui, GeneralFields)
      /\ \A f \in {"data", "internalFormValue", "loading", "saving"} : HasFields(ui[f], GeneralKeys)
      /\ ui.loading = field.loading /\ ui.data = field.data
      /\ ui.behind = field.behind /\ ui.loggedOut = field.loggedOut
      /\ \A j \in GeneralKeys : ui.saving[j] => field.saving[j] \/ j = k
  BY DEF FieldsInv, GeneralInv, HasFields, GeneralFields, GeneralKeys
<1> HIDE DEF ui, args
<1>3. /\ control' = control /\ setting' = setting
      /\ field' = [ui EXCEPT !.ops = @ + 1, !.behind = @ \/ fieldNet # {}]
      /\ Adds(fieldNet, fieldNet', "save", args)
  BY <1>1, FieldAsked DEF FieldsInv
<1>4. PICK q : fieldNet' = fieldNet \cup {q} /\ q.op = "save" /\ q.args = args /\ ~q.done /\ Requests(fieldNet')
  BY <1>3 DEF Adds
<1>5. /\ HasFields(field', GeneralFields)
      /\ field'.data = ui.data /\ field'.internalFormValue = ui.internalFormValue
      /\ field'.loading = ui.loading /\ field'.saving = ui.saving /\ field'.loggedOut = ui.loggedOut
      /\ ~field'.behind => ~ui.behind /\ fieldNet = {}
  BY <1>2, <1>3 DEF HasFields, GeneralFields
<1>6. \A f \in {"data", "internalFormValue", "loading", "saving"} : HasFields(field'[f], GeneralKeys)
  BY <1>2, <1>5
<1>7. ~field'.behind => GeneralSteady'
  BY <1>2, <1>3, <1>4, <1>5 DEF FieldsInv, GeneralInv, GeneralSteady
<1>8. GeneralInv'
  BY <1>1, <1>2, <1>4, <1>5, <1>6, <1>7 DEF FieldsInv, GeneralInv
<1> QED
  BY <1>3, <1>4, <1>8 DEF FieldsInv, TextControls

\* A field is left.
LEMMA GeneralUpdate ==
    ASSUME FieldsInv, NEW k \in GeneralKeys, NEW v, generalUpdateField(k, v)
    PROVE  FieldsInv'
<1> DEFINE edited == [field.data[k] EXCEPT ![k] = v]
<1>1. control = "general" /\ ~field.loggedOut
  BY DEF generalUpdateField
<1>2. CASE k = "admin_password"
  <2>1. /\ field' = [field EXCEPT !.internalFormValue[k] = edited]
        /\ control' = control /\ fieldNet' = fieldNet /\ setting' = setting
    BY <1>2 DEF generalUpdateField
  <2> HIDE DEF edited
  <2>2. /\ HasFields(field', GeneralFields)
        /\ \A f \in {"data", "internalFormValue", "loading", "saving"} : HasFields(field'[f], GeneralKeys)
        /\ field'.data = field.data /\ field'.loading = field.loading /\ field'.saving = field.saving
        /\ field'.loggedOut = field.loggedOut /\ field'.behind = field.behind
    BY <1>1, <2>1 DEF FieldsInv, GeneralInv, HasFields, GeneralFields, GeneralKeys
  <2>3. GeneralInv'
    BY <1>1, <2>1, <2>2 DEF FieldsInv, GeneralInv, GeneralSteady
  <2> QED
    BY <1>1, <2>1, <2>3 DEF FieldsInv, TextControls
<1>3. CASE k # "admin_password"
  <2>1. generalUpdateNetwork(k, edited)
    BY <1>3 DEF generalUpdateField
  <2> HIDE DEF edited
  <2> QED
    BY <1>1, <2>1, GeneralAsk
<1> QED
  BY <1>2, <1>3

\* "Update password".
LEMMA GeneralPassword ==
    ASSUME FieldsInv, updateDataOnBackend
    PROVE  FieldsInv'
BY GeneralAsk DEF updateDataOnBackend, GeneralKeys

\* general_settings arrive, or do not.
LEMMA GeneralLoad ==
    ASSUME FieldsInv, NEW r \in fieldNet, NEW ok \in BOOLEAN, generalLoadAPIData(r, ok)
    PROVE  FieldsInv'
<1> DEFINE k == r.args.key
<1>1. /\ control = "general" /\ r.op = "load" /\ (ok => r.done) /\ k \in GeneralKeys
      /\ control' = control /\ setting' = setting /\ fieldNet' = fieldNet \ {r} /\ Requests(fieldNet')
  BY AnsweredRequests DEF generalLoadAPIData, FieldRests, FieldsInv, GeneralInv
<1>2. field' = [field EXCEPT !.loading[k] = FALSE, !.saving[k] = FALSE,
                  !.data[k] = IF ok THEN r.snap ELSE @, !.behind = @ \/ ~ok]
  BY DEF generalLoadAPIData, FieldRests
<1>3. /\ HasFields(field', GeneralFields)
      /\ \A f \in {"data", "internalFormValue", "loading", "saving"} : HasFields(field'[f], GeneralKeys)
      /\ \A j \in GeneralKeys : /\ field'.loading[j] => field.loading[j] /\ j # k
                                /\ field'.saving[j] => field.saving[j] /\ j # k
                                /\ field'.data[j] = IF j = k /\ ok THEN r.snap ELSE field.data[j]
      /\ field'.loggedOut = field.loggedOut
      /\ ~field'.behind => ~field.behind /\ ok
  BY <1>1, <1>2 DEF FieldsInv, GeneralInv, HasFields, GeneralFields, GeneralKeys
<1> HIDE DEF k
<1>4. ~field'.behind /\ ~field'.loggedOut => GeneralSteady'
  <2> SUFFICES ASSUME ~field'.behind, ~field'.loggedOut PROVE GeneralSteady'
    OBVIOUS
  <2>1. GeneralSteady /\ ok /\ r.done
    BY <1>1, <1>3 DEF FieldsInv, GeneralInv
  <2>2. \A w \in fieldNet : w.op # "save"
    BY <1>1, <2>1 DEF GeneralSteady
  <2>3. r.snap = setting
    BY <1>1, <2>1, <2>2 DEF GeneralSteady
  <2>4. field'.data["log_location"] = IF k = "log_location" THEN setting ELSE field.data["log_location"]
    BY <1>3, <2>1, <2>3 DEF GeneralKeys
  <2> QED
    BY <1>1, <2>1, <2>2, <2>4 DEF GeneralSteady, k
<1>5. GeneralInv'
  BY <1>1, <1>3, <1>4 DEF FieldsInv, GeneralInv, k
<1> QED
  BY <1>1, <1>5 DEF FieldsInv, TextControls

\* The answer to a save: the end of the session, or a load.
LEMMA GeneralSave ==
    ASSUME FieldsInv, NEW r \in fieldNet, NEW ok \in BOOLEAN, generalSaved(r, ok)
    PROVE  FieldsInv'
<1> DEFINE k == r.args.key
           sent == [field EXCEPT !.internalFormValue[k] = None]
<1>1. /\ control = "general" /\ r.op = "save" /\ (ok => r.done) /\ k \in GeneralKeys
      /\ control' = control /\ setting' = setting
  BY DEF generalSaved, FieldRests, Reload, FieldsInv, GeneralInv
<1>2. CASE ~ok \/ k = "admin_password"
  <2>1. fieldNet' = fieldNet \ {r}
    BY <1>2 DEF generalSaved, FieldRests
  <2>2. Requests(fieldNet')
    BY <2>1, AnsweredRequests DEF FieldsInv
  <2>3. /\ HasFields(field', GeneralFields)
        /\ \A f \in {"data", "internalFormValue", "loading", "saving"} : HasFields(field'[f], GeneralKeys)
        /\ \A j \in GeneralKeys : /\ field'.loading[j] = field.loading[j]
                                  /\ field'.saving[j] => field.saving[j] /\ j # k
        /\ field'.behind \/ field'.loggedOut
    <3>1. CASE ~ok
      <4>1. field' = [field EXCEPT !.saving[k] = FALSE, !.behind = TRUE]
        BY <3>1 DEF generalSaved, FieldRests
      <4> QED
        BY <1>1, <4>1 DEF FieldsInv, GeneralInv, HasFields, GeneralFields, GeneralKeys
    <3>2. CASE ok
      <4>1. field' = [sent EXCEPT !.saving[k] = FALSE, !.loggedOut = TRUE]
        BY <1>2, <3>2 DEF generalSaved, FieldRests
      <4> QED
        BY <1>1, <4>1 DEF FieldsInv, GeneralInv, HasFields, GeneralFields, GeneralKeys
    <3> QED
      BY <3>1, <3>2
  <2>4. GeneralInv'
    BY <1>1, <2>1, <2>3 DEF FieldsInv, GeneralInv
  <2> QED
    BY <1>1, <2>1, <2>2, <2>4 DEF FieldsInv, TextControls
<1>3. CASE ok /\ k # "admin_password"
  <2> DEFINE ui == [sent EXCEPT !.loading[k] = TRUE]
             args == [key |-> k]
  <2>1. Reload(ui, r, args) /\ args.key = k /\ k = "log_location"
    BY <1>1, <1>3 DEF generalSaved, GeneralKeys
  <2>2. /\ HasFields(ui, GeneralFields)
        /\ \A f \in {"data", "internalFormValue", "loading", "saving"} : HasFields(ui[f], GeneralKeys)
        /\ \A j \in GeneralKeys : /\ ui.loading[j] => field.loading[j] \/ j = k
                                  /\ ui.saving[j] = field.saving[j]
        /\ ui.behind = field.behind /\ ui.loggedOut = field.loggedOut
    BY <1>1 DEF FieldsInv, GeneralInv, HasFields, GeneralFields, GeneralKeys
  <2> HIDE DEF ui, args
  <2>3. field' = ui /\ Adds(fieldNet \ {r}, fieldNet', "load", args)
    BY <2>1, FieldReloads DEF FieldsInv
  <2>4. PICK q : /\ fieldNet' = (fieldNet \ {r}) \cup {q} /\ q.op = "load" /\ q.args = args /\ ~q.done
                 /\ Requests(fieldNet')
    BY <2>3 DEF Adds
  <2>5. ~field'.behind /\ ~field'.loggedOut => GeneralSteady'
    <3> SUFFICES ASSUME ~field'.behind, ~field'.loggedOut PROVE GeneralSteady'
      OBVIOUS
    <3>1. fieldNet' = {q}
      BY <1>1, <2>2, <2>3, <2>4 DEF FieldsInv, GeneralInv, GeneralSteady
    <3> QED
      BY <2>1, <2>4, <3>1 DEF GeneralSteady
  <2>6. /\ \A w \in fieldNet' : w.args.key \in GeneralKeys
        /\ \A j \in GeneralKeys : ui.loading[j] => \E w \in fieldNet' : w.op = "load" /\ w.args.key = j
        /\ \A j \in GeneralKeys : ui.saving[j] => \E w \in fieldNet' : w.args.key = j
    BY <1>1, <2>1, <2>2, <2>4 DEF FieldsInv, GeneralInv
  <2>7. GeneralInv'
    BY <2>2, <2>3, <2>5, <2>6 DEF GeneralInv
  <2> QED
    BY <1>1, <2>4, <2>7 DEF FieldsInv, TextControls
<1> QED
  BY <1>2, <1>3

\* A field of its own setting is typed into or left.
LEMMA TextAsk ==
    ASSUME FieldsInv, textUpdateField \/ \E v : updateInternalValue(v)
    PROVE  FieldsInv'
<1>1. CASE textUpdateField
  <2> DEFINE ui == [field EXCEPT !.internalFormValue = field.text, !.saving = TRUE, !.saveError = FALSE]
             args == [value |-> field.text]
  <2>1. AskField(ui, "save", args) /\ control \in TextControls /\ field.loaded
    BY <1>1 DEF textUpdateField
  <2>2. /\ HasFields(ui, TextFields) /\ ui.loaded = field.loaded
        /\ ui.persistedValue = field.persistedValue /\ ui.behind = field.behind
    BY <2>1 DEF FieldsInv, TextInv, HasFields, TextFields
  <2> HIDE DEF ui, args
  <2>3. /\ control' = control /\ setting' = setting
        /\ field' = [ui EXCEPT !.ops = @ + 1, !.behind = @ \/ fieldNet # {}]
        /\ Adds(fieldNet, fieldNet', "save", args)
    BY <2>1, FieldAsked DEF FieldsInv
  <2>4. PICK q : fieldNet' = fieldNet \cup {q} /\ q.op = "save" /\ ~q.done /\ Requests(fieldNet')
    BY <2>3 DEF Adds
  <2>5. /\ HasFields(field', TextFields) /\ field'.loaded = field.loaded
        /\ field'.persistedValue = field.persistedValue
        /\ ~field'.behind => ~field.behind /\ fieldNet = {}
    BY <2>2, <2>3 DEF HasFields, TextFields
  <2>6. TextInv'
    BY <2>1, <2>3, <2>4, <2>5 DEF FieldsInv, TextInv, TextSteady, InFlight, StandsFor
  <2> QED
    BY <2>1, <2>3, <2>4, <2>6 DEF FieldsInv, TextControls
<1>2. CASE \E v : updateInternalValue(v)
  <2>1. PICK v : updateInternalValue(v)
    BY <1>2
  <2>2. /\ control \in TextControls /\ control' = control /\ setting' = setting /\ fieldNet' = fieldNet
        /\ HasFields(field', TextFields) /\ field'.loaded = field.loaded /\ field'.saving = field.saving
        /\ field'.persistedValue = field.persistedValue /\ field'.behind = field.behind
    BY <2>1 DEF updateInternalValue, FieldsInv, TextInv, HasFields, TextFields
  <2>3. TextInv'
    BY <2>2 DEF FieldsInv, TextInv, TextSteady, InFlight, StandsFor
  <2> QED
    BY <2>2, <2>3 DEF FieldsInv, TextControls
<1> QED
  BY <1>1, <1>2

\* Its answers.
LEMMA TextAnswered ==
    ASSUME FieldsInv, NEW r \in fieldNet, NEW ok \in BOOLEAN,
           textLoadAPIData(r, ok) \/ textUpdateNetwork(r, ok)
    PROVE  FieldsInv'
<1>1. /\ control \in TextControls /\ (ok => r.done)
      /\ control' = control /\ setting' = setting /\ fieldNet' = fieldNet \ {r} /\ Requests(fieldNet')
  BY AnsweredRequests DEF textLoadAPIData, textUpdateNetwork, FieldRests, FieldsInv, TextControls
<1>2. CASE textLoadAPIData(r, ok)
  <2>1. /\ r.op = "load" /\ HasFields(field', TextFields) /\ field'.loaded /\ field'.saving = field.saving
        /\ ~field'.behind => ~field.behind /\ ok
        /\ ok => field'.persistedValue = r.snap
    BY <1>1, <1>2 DEF textLoadAPIData, FieldRests, Show, FieldsInv, TextInv, HasFields, TextFields
  <2>2. TextInv'
    BY <1>1, <2>1 DEF FieldsInv, TextInv, TextSteady, InFlight, StandsFor
  <2> QED
    BY <1>1, <2>2 DEF FieldsInv, TextControls
<1>3. CASE textUpdateNetwork(r, ok)
  <2>1. /\ r.op = "save" /\ HasFields(field', TextFields) /\ field'.loaded = field.loaded /\ ~field'.saving
        /\ ~field'.behind => ~field.behind /\ ok
        /\ ok => field'.persistedValue = r.args.value
    BY <1>1, <1>3 DEF textUpdateNetwork, FieldRests, Show, FieldsInv, TextInv, HasFields, TextFields
  <2>2. TextInv'
    BY <1>1, <2>1 DEF FieldsInv, TextInv, TextSteady, InFlight, StandsFor
  <2> QED
    BY <1>1, <2>2 DEF FieldsInv, TextControls
<1> QED
  BY <1>2, <1>3

\* A switch is turned, or its notice closed.
LEMMA ToggleAsk ==
    ASSUME FieldsInv, toggleSettingStatus \/ closeNotice
    PROVE  FieldsInv'
<1>1. CASE toggleSettingStatus
  <2> DEFINE v == ~field.settingValue
             ui == [field EXCEPT !.text = ~@, !.notice = @ \/ ~field.settingValue]
             args == [value |-> v]
  <2>1. AskField(ui, "save", args) /\ control = "toggle" /\ args.value = v /\ ToggleInv
    BY <1>1 DEF toggleSettingStatus, FieldsInv
  <2>2. field.settingValue \in BOOLEAN /\ v \in BOOLEAN /\ v # field.settingValue
    BY <1>1, <2>1 DEF toggleSettingStatus, ToggleInv
  <2>3. /\ HasFields(ui, ToggleFields) /\ ui.settingValue = field.settingValue
        /\ ui.behind = field.behind /\ ui.text = ~field.text
        /\ ui.loadFailed = field.loadFailed
    BY <2>1 DEF ToggleInv, HasFields, ToggleFields
  <2>4. field.text \in BOOLEAN /\ ui.text \in BOOLEAN /\ ui.text # field.text
    BY <2>1, <2>3 DEF ToggleInv
  <2> HIDE DEF ui, args, v
  <2>5. /\ control' = control /\ setting' = setting
        /\ field' = [ui EXCEPT !.ops = @ + 1, !.behind = @ \/ fieldNet # {}]
        /\ Adds(fieldNet, fieldNet', "save", args)
    BY <2>1, FieldAsked DEF FieldsInv
  <2>6. PICK q : fieldNet' = fieldNet \cup {q} /\ q.op = "save" /\ q.args = args /\ ~q.done /\ Requests(fieldNet')
    BY <2>5 DEF Adds
  <2>7. /\ HasFields(field', ToggleFields) /\ field'.settingValue = field.settingValue
        /\ field'.text = ui.text /\ field'.loadFailed = field.loadFailed
        /\ ~field'.behind => ~field.behind /\ fieldNet = {}
    BY <2>3, <2>5 DEF HasFields, ToggleFields
  <2>8. ~field'.behind => ToggleSteady'
    <3> SUFFICES ASSUME ~field'.behind PROVE ToggleSteady'
      OBVIOUS
    <3>1. field.settingValue = setting /\ field.text = setting /\ fieldNet' = {q}
      BY <2>1, <2>6, <2>7 DEF ToggleInv, ToggleSteady
    <3> QED
      BY <2>1, <2>2, <2>4, <2>5, <2>6, <2>7, <3>1 DEF ToggleSteady
  <2>9. ToggleInv'
    BY <2>1, <2>2, <2>4, <2>5, <2>6, <2>7, <2>8, FieldsAssumption DEF ToggleInv
  <2> QED
    BY <2>1, <2>5, <2>6, <2>9 DEF FieldsInv, TextControls
<1>2. CASE closeNotice
  <2>1. /\ control = "toggle" /\ control' = control /\ setting' = setting /\ fieldNet' = fieldNet
        /\ HasFields(field', ToggleFields) /\ field'.settingValue = field.settingValue
        /\ field'.text = field.text /\ field'.behind = field.behind
        /\ field'.loadFailed = field.loadFailed
    BY <1>2 DEF closeNotice, FieldsInv, ToggleInv, HasFields, ToggleFields
  <2>2. ToggleInv'
    BY <2>1 DEF FieldsInv, ToggleInv, ToggleSteady, InFlight
  <2> QED
    BY <2>1, <2>2 DEF FieldsInv, TextControls
<1> QED
  BY <1>1, <1>2

\* Its answers.
LEMMA ToggleAnswered ==
    ASSUME FieldsInv, NEW r \in fieldNet, NEW ok \in BOOLEAN,
           toggleLoadAPIData(r, ok) \/ toggleSaved(r, ok)
    PROVE  FieldsInv'
<1>1. /\ control = "toggle" /\ (ok => r.done) /\ ToggleInv
      /\ control' = control /\ setting' = setting
  BY DEF toggleLoadAPIData, toggleSaved, FieldRests, Reload, FieldsInv
<1>2. CASE toggleLoadAPIData(r, ok)
  <2>1. r.op = "load" /\ fieldNet' = fieldNet \ {r} /\ Requests(fieldNet')
    BY <1>2, AnsweredRequests DEF toggleLoadAPIData, FieldRests, FieldsInv
  <2>2. /\ HasFields(field', ToggleFields)
        /\ field'.settingValue = IF ok THEN r.snap ELSE field.settingValue
        /\ field'.text = IF ok /\ field.settingValue # r.snap THEN r.snap ELSE field.text
        /\ ~field'.behind => ~field.behind /\ ok
        /\ ~ok => field'.loadFailed
    BY <1>1, <1>2 DEF toggleLoadAPIData, FieldRests, ToggleInv, HasFields, ToggleFields
  <2>3. ok => r.snap \in BOOLEAN
    BY <1>1, <2>1 DEF ToggleInv
  <2>4. ~field'.behind => ToggleSteady'
    <3> SUFFICES ASSUME ~field'.behind PROVE ToggleSteady'
      OBVIOUS
    <3>1. ToggleSteady /\ ok /\ r.done
      BY <1>1, <2>2 DEF ToggleInv
    <3>2. fieldNet' = {} /\ r.snap = setting /\ field.settingValue # setting
      BY <2>1, <3>1 DEF ToggleSteady
    <3> QED
      BY <1>1, <2>2, <3>1, <3>2 DEF ToggleSteady
  <2>5. /\ field'.settingValue \in BOOLEAN \cup {None} /\ field'.text \in BOOLEAN
        /\ field'.settingValue = None => field'.loadFailed
    BY <1>1, <2>2, <2>3, FieldsAssumption DEF ToggleInv
  <2>6. ToggleInv'
    BY <1>1, <2>1, <2>2, <2>4, <2>5 DEF ToggleInv
  <2> QED
    BY <1>1, <2>1, <2>6 DEF FieldsInv, TextControls
<1>3. CASE toggleSaved(r, ok) /\ ok
  <2> DEFINE ui == [field EXCEPT !.behind = @ \/ fieldNet # {r}]
  <2>1. Reload(ui, r, None) /\ r.op = "save"
    BY <1>3 DEF toggleSaved
  <2>2. /\ HasFields(ui, ToggleFields) /\ ui.settingValue = field.settingValue /\ ui.text = field.text
        /\ ui.loadFailed = field.loadFailed
        /\ ~ui.behind => ~field.behind /\ fieldNet = {r}
    BY <1>1 DEF ToggleInv, HasFields, ToggleFields
  <2> HIDE DEF ui
  <2>3. field' = ui /\ Adds(fieldNet \ {r}, fieldNet', "load", None)
    BY <2>1, FieldReloads DEF FieldsInv
  <2>4. PICK q : fieldNet' = (fieldNet \ {r}) \cup {q} /\ q.op = "load" /\ ~q.done /\ Requests(fieldNet')
    BY <2>3 DEF Adds
  <2>5. ~field'.behind => ToggleSteady'
    <3> SUFFICES ASSUME ~field'.behind PROVE ToggleSteady'
      OBVIOUS
    <3>1. fieldNet' = {q} /\ field.settingValue # setting
      BY <1>1, <1>3, <2>1, <2>2, <2>3, <2>4 DEF ToggleInv, ToggleSteady
    <3> QED
      BY <1>1, <2>2, <2>3, <2>4, <3>1 DEF ToggleSteady
  <2>6. ToggleInv'
    BY <1>1, <2>2, <2>3, <2>4, <2>5 DEF ToggleInv, InFlight
  <2> QED
    BY <1>1, <2>4, <2>6 DEF FieldsInv, TextControls
<1>4. CASE toggleSaved(r, ok) /\ ~ok
  <2>0. fieldNet' = fieldNet \ {r} /\ r.op = "save"
    BY <1>4 DEF toggleSaved, FieldRests
  <2>1. fieldNet' = fieldNet \ {r} /\ Requests(fieldNet')
    BY <2>0, AnsweredRequests DEF FieldsInv
  <2>2. /\ HasFields(field', ToggleFields) /\ field'.behind = TRUE
        /\ field'.settingValue = field.settingValue /\ field'.text = field.text
        /\ field'.loadFailed = field.loadFailed
    BY <1>1, <1>4 DEF toggleSaved, FieldRests, ToggleInv, HasFields, ToggleFields
  <2>3. ToggleInv'
    BY <1>1, <2>0, <2>1, <2>2 DEF ToggleInv, InFlight
  <2> QED
    BY <1>1, <2>1, <2>3 DEF FieldsInv, TextControls
<1> QED
  BY <1>2, <1>3, <1>4

\* A certificate is typed or left, and its answers.
LEMMA CertificateAsk ==
    ASSUME FieldsInv, onBlur \/ \E v : TypeCertificate(v)
    PROVE  FieldsInv'
<1>1. CASE onBlur
  <2> DEFINE args == [value |-> field.text]
  <2>1. AskField(field, "save", args) /\ control = "certificate" /\ CertificateInv
    BY <1>1 DEF onBlur, FieldsInv
  <2> HIDE DEF args
  <2>2. /\ control' = control /\ setting' = setting
        /\ field' = [field EXCEPT !.ops = @ + 1, !.behind = @ \/ fieldNet # {}]
        /\ Adds(fieldNet, fieldNet', "save", args)
    BY <2>1, FieldAsked DEF FieldsInv
  <2>3. PICK q : fieldNet' = fieldNet \cup {q} /\ q.op = "save" /\ Requests(fieldNet')
    BY <2>2 DEF Adds
  <2>4. /\ HasFields(field', CertificateFields) /\ field'.data = field.data
        /\ ~field'.behind => ~field.behind /\ fieldNet = {}
    BY <2>1, <2>2 DEF CertificateInv, HasFields, CertificateFields
  <2>5. CertificateInv'
    BY <2>1, <2>2, <2>3, <2>4 DEF CertificateInv
  <2> QED
    BY <2>1, <2>2, <2>3, <2>5 DEF FieldsInv, TextControls
<1>2. CASE \E v : TypeCertificate(v)
  <2>1. PICK v : TypeCertificate(v)
    BY <1>2
  <2>2. /\ control = "certificate" /\ control' = control /\ setting' = setting /\ fieldNet' = fieldNet
        /\ HasFields(field', CertificateFields) /\ field'.data = field.data /\ field'.behind = field.behind
    BY <2>1 DEF TypeCertificate, FieldsInv, CertificateInv, HasFields, CertificateFields
  <2>3. CertificateInv'
    BY <2>2 DEF FieldsInv, CertificateInv
  <2> QED
    BY <2>2, <2>3 DEF FieldsInv, TextControls
<1> QED
  BY <1>1, <1>2

\* Its answers.
LEMMA CertificateAnswered ==
    ASSUME FieldsInv, NEW r \in fieldNet, NEW ok \in BOOLEAN,
           certificateLoadAPIData(r, ok) \/ certificateSaved(r, ok)
    PROVE  FieldsInv'
<1>1. /\ control = "certificate" /\ (ok => r.done) /\ CertificateInv
      /\ control' = control /\ setting' = setting
  BY DEF certificateLoadAPIData, certificateSaved, FieldRests, Reload, FieldsInv
<1>2. CASE certificateLoadAPIData(r, ok) \/ ~ok
  <2>1. fieldNet' = fieldNet \ {r}
    BY <1>2 DEF certificateLoadAPIData, certificateSaved, FieldRests
  <2>2. Requests(fieldNet')
    BY <2>1, AnsweredRequests DEF FieldsInv
  <2>3. /\ HasFields(field', CertificateFields)
        /\ ~field'.behind => ~field.behind /\ ok /\ r.op = "load" /\ field'.data = r.snap
    <3>1. CASE ~ok
      <4>1. field' = [field EXCEPT !.behind = TRUE]
        BY <3>1 DEF certificateLoadAPIData, certificateSaved, FieldRests
      <4> QED
        BY <1>1, <4>1 DEF CertificateInv, HasFields, CertificateFields
    <3>2. CASE ok
      <4>1. field' = Show(field, r.snap) /\ r.op = "load"
        BY <1>2, <3>2 DEF certificateLoadAPIData, FieldRests
      <4> QED
        BY <1>1, <3>2, <4>1 DEF CertificateInv, HasFields, CertificateFields, Show
    <3> QED
      BY <3>1, <3>2
  <2>4. CertificateInv'
    BY <1>1, <2>1, <2>3 DEF CertificateInv
  <2> QED
    BY <1>1, <2>1, <2>2, <2>4 DEF FieldsInv, TextControls
<1>3. CASE certificateSaved(r, ok) /\ ok
  <2> DEFINE ui == [field EXCEPT !.behind = @ \/ fieldNet # {r}]
  <2>1. Reload(ui, r, None)
    BY <1>3 DEF certificateSaved
  <2>2. HasFields(ui, CertificateFields) /\ (~ui.behind => fieldNet = {r})
    BY <1>1 DEF CertificateInv, HasFields, CertificateFields
  <2> HIDE DEF ui
  <2>3. field' = ui /\ Adds(fieldNet \ {r}, fieldNet', "load", None)
    BY <2>1, FieldReloads DEF FieldsInv
  <2>4. PICK q : fieldNet' = (fieldNet \ {r}) \cup {q} /\ q.op = "load" /\ ~q.done /\ Requests(fieldNet')
    BY <2>3 DEF Adds
  <2>5. CertificateInv'
    BY <2>2, <2>3, <2>4 DEF CertificateInv
  <2> QED
    BY <1>1, <2>4, <2>5 DEF FieldsInv, TextControls
<1> QED
  BY <1>2, <1>3

\* Every step of a control.
LEMMA FieldsNextInv == FieldsInv /\ [FieldsNext]_fieldVars => FieldsInv'
<1> SUFFICES ASSUME FieldsInv, [FieldsNext]_fieldVars PROVE FieldsInv'
  OBVIOUS
<1>1. CASE UNCHANGED fieldVars
  <2>1. control' = control /\ field' = field /\ fieldNet' = fieldNet /\ setting' = setting
    BY <1>1 DEF fieldVars
  <2>2. (GeneralInv => GeneralInv') /\ (TextInv => TextInv')
    BY <2>1 DEF GeneralInv, GeneralSteady, TextInv, TextSteady, StandsFor, InFlight
  <2>3. (ToggleInv => ToggleInv') /\ (CertificateInv => CertificateInv')
    BY <2>1 DEF ToggleInv, ToggleSteady, CertificateInv, InFlight
  <2> QED
    BY <2>1, <2>2, <2>3 DEF FieldsInv
<1> QED
  BY <1>1, FieldsServe, GeneralUpdate, GeneralPassword, GeneralLoad, GeneralSave, TextAsk, TextAnswered, ToggleAsk,
     ToggleAnswered, CertificateAsk, CertificateAnswered DEF FieldsNext

-----------------------------------------------------------------------------
(* The pages of status *)

GatewayFields == {"lists", "read", "reported", "changed"}
DnsFields == {"dnsInfo", "loading", "refreshing", "statusError", "refreshTimer", "destroyed", "ops", "behind"}
TailscaleFields == {"status", "loading", "saving", "error", "diagnostics", "loadingDiagnostics",
                    "bundlePreview", "loadingBundle", "ops", "behind"}
AiFields == {"status", "filterMode", "probing", "statusError", "radio", "persisted", "saving", "ops", "behind"}
HomeFields == {"status", "statusError", "summary", "httpsOn", "checking", "checkState", "timer", "ops", "behind"}

\* One request of the kinds ops at most.
One(net, ops) == \A q, r \in net : q.op \in ops /\ r.op \in ops => q = r

\* The DNS status is read by one request at a time; what it read is the count
\* of the server until that changes.
DnsInv ==
    /\ HasFields(shown, DnsFields) /\ HasFields(gateway, GatewayFields)
    /\ \A r \in statusNet : r.op = "info"
    /\ One(statusNet, {"info"})
    /\ shown.refreshing <=> statusNet # {}
    /\ shown.loading /\ ~shown.destroyed => shown.refreshing \/ shown.refreshTimer
    /\ \A r \in statusNet : r.done => gateway.changed \/ r.snap = gateway.reported
    /\ statusNet = {} /\ ~shown.statusError /\ ~gateway.changed =>
         shown.dnsInfo = None \/ shown.dnsInfo = gateway.reported

\* A change and the reading after it keep every other one out.
TailscaleInv ==
    /\ HasFields(shown, TailscaleFields)
    /\ \A r \in statusNet : r.op \in {"set", "status", "diagnostics", "bundle"}
    /\ One(statusNet, {"set", "status"}) /\ One(statusNet, {"diagnostics"}) /\ One(statusNet, {"bundle"})
    /\ shown.loading => InFlight(statusNet, {"status"})
    /\ shown.saving => InFlight(statusNet, {"set", "status"})
    /\ InFlight(statusNet, {"set", "status"}) => shown.loading \/ shown.saving
    /\ shown.loadingDiagnostics <=> InFlight(statusNet, {"diagnostics"})
    /\ shown.loadingBundle <=> InFlight(statusNet, {"bundle"})
    /\ \A r \in statusNet : r.op = "status" /\ r.done => r.snap = gateway
    /\ ~shown.behind /\ ~InFlight(statusNet, {"set", "status"}) => shown.status = gateway

\* The save of a provider, and the reading that follows it.
OfSave(r) == r.op = "set" \/ (r.op # "set" /\ r.args.by = "save")

AiSteady ==
    /\ \A q, r \in statusNet : OfSave(q) /\ OfSave(r) => q = r
    /\ \A r \in statusNet : OfSave(r) => shown.saving
    /\ One(statusNet, {"configured", "probe"})
    /\ \A r \in statusNet : r.op = "set" /\ r.done => r.args.value = gateway
    /\ (\A w \in statusNet : w.op = "set" => ~w.done) =>
         /\ shown.persisted = gateway
         /\ \A r \in statusNet : r.op # "set" /\ r.done => r.snap = gateway
         /\ (\A r \in statusNet : r.op = "set") => shown.filterMode = gateway /\ shown.status = gateway

AiInv ==
    /\ HasFields(shown, AiFields)
    /\ \A r \in statusNet : r.op \in {"set", "configured", "probe"}
    /\ gateway \in Providers
    /\ \A r \in statusNet : r.op = "set" => r.args.value \in Providers
    /\ shown.probing => InFlight(statusNet, {"configured", "probe"})
    /\ shown.saving => \E r \in statusNet : OfSave(r)
    /\ ~shown.behind => AiSteady

\* After a check that succeeded only readings of its result are under way.
HomeInv ==
    /\ HasFields(shown, HomeFields)
    /\ \A r \in statusNet : r.op \in {"status", "summary", "https", "check"}
    /\ gateway \in BOOLEAN
    /\ \A r \in statusNet : r.op = "check" /\ r.done /\ r.snap = "ok" => gateway = TRUE
    /\ shown.checking => \E r \in statusNet : r.op = "check" \/ (r.op = "status" /\ r.args.by = "check")
    /\ ~shown.behind /\ shown.checkState = "ok" =>
         /\ gateway = TRUE
         /\ \A r \in statusNet : r.op = "status" /\ r.done => r.snap = TRUE
         /\ ~InFlight(statusNet, {"status"}) => shown.status = TRUE

StatusInv ==
    /\ statusPage \in StatusPageNames /\ Requests(statusNet)
    /\ statusPage = "dns" => DnsInv
    /\ statusPage = "tailscale" => TailscaleInv
    /\ statusPage = "ai" => AiInv
    /\ statusPage = "home" => HomeInv

\* An answer arrives.
LEMMA StatusRested ==
    ASSUME Requests(statusNet), NEW ui, NEW r, StatusRests(ui, r)
    PROVE  /\ statusPage' = statusPage /\ gateway' = gateway /\ shown' = ui
           /\ statusNet' = statusNet \ {r} /\ Requests(statusNet')
<1>1. statusNet' = statusNet \ {r}
  BY DEF StatusRests
<1>2. Requests(statusNet')
  BY <1>1, AnsweredRequests
<1> QED
  BY <1>1, <1>2 DEF StatusRests

\* An answer is followed by the next request of its handler.
LEMMA StatusWentOn ==
    ASSUME Requests(statusNet), NEW ui, NEW r, NEW op, NEW args, StatusGoesOn(ui, r, op, args)
    PROVE  /\ statusPage' = statusPage /\ gateway' = gateway
           /\ shown' = [ui EXCEPT !.behind = @ \/ InFlight(statusNet \ {r}, {op})]
           /\ Adds(statusNet \ {r}, statusNet', op, args)
<1> DEFINE net == statusNet \ {r}
<1>1. Requests(net)
  BY AnsweredRequests
<1>2. statusNet' = Send(net, op, args)
  BY DEF StatusGoesOn
<1> HIDE DEF net
<1>3. Adds(net, statusNet', op, args)
  BY <1>1, <1>2, SendAdds, Zenon
<1> QED
  BY <1>3 DEF StatusGoesOn, net

\* The overview sends its three requests.
LEMMA HomeReads ==
    ASSUME NEW net, Requests(net), NEW args,
           NEW next, next = Send(Send(Send(net, "status", args), "summary", None), "https", None)
    PROVE  \E a, b, c : /\ next = net \cup {a, b, c} /\ Requests(next)
                        /\ a.op = "status" /\ a.args = args /\ ~a.done
                        /\ b.op = "summary" /\ ~b.done /\ c.op = "https" /\ ~c.done
<1> DEFINE x == Send(net, "status", args)
           y == Send(x, "summary", None)
<1>1. Adds(net, x, "status", args)
  BY SendAdds, Zenon
<1>2. next = Send(y, "https", None)
  OBVIOUS
<1>3. PICK a : x = net \cup {a} /\ a.op = "status" /\ a.args = args /\ ~a.done /\ Requests(x)
  BY <1>1 DEF Adds
<1> HIDE DEF x
<1>4. Adds(x, y, "summary", None)
  BY <1>3, SendAdds, Zenon
<1>5. PICK b : y = x \cup {b} /\ b.op = "summary" /\ ~b.done /\ Requests(y)
  BY <1>4 DEF Adds
<1> HIDE DEF y
<1>6. Adds(y, next, "https", None)
  BY <1>2, <1>5, SendAdds, Zenon
<1>7. PICK c : next = y \cup {c} /\ c.op = "https" /\ ~c.done /\ Requests(next)
  BY <1>6 DEF Adds
<1>8. next = net \cup {a, b, c}
  BY <1>3, <1>5, <1>7
<1> QED
  BY <1>3, <1>5, <1>7, <1>8

\* Each page is mounted with its requests.
LEMMA StatusInitInv == StatusInit => StatusInv
<1> SUFFICES ASSUME StatusInit PROVE StatusInv
  OBVIOUS
<1>1. Requests({}) /\ statusPage \in StatusPageNames
  BY DEF Requests, StatusInit
<1>2. CASE statusPage = "dns"
  <2>1. statusNet = Send({}, "info", None)
    BY <1>2 DEF StatusInit, DnsInit
  <2>2. Adds({}, statusNet, "info", None)
    BY <1>1, <2>1, SendAdds, Zenon
  <2>3. PICK q : statusNet = {q} /\ q.op = "info" /\ ~q.done /\ Requests(statusNet)
    BY <2>2 DEF Adds
  <2>4. /\ HasFields(shown, DnsFields) /\ shown.refreshing /\ shown.dnsInfo = None
        /\ HasFields(gateway, GatewayFields)
    BY <1>2 DEF StatusInit, DnsInit, HasFields, DnsFields, GatewayFields
  <2> QED
    BY <1>1, <1>2, <2>3, <2>4 DEF StatusInv, DnsInv, One
<1>3. CASE statusPage = "tailscale"
  <2> DEFINE net == Send({}, "diagnostics", None)
  <2>1. Adds({}, net, "diagnostics", None)
    BY <1>1, SendAdds, Zenon
  <2>2. PICK p : net = {p} /\ p.op = "diagnostics" /\ Requests(net)
    BY <2>1 DEF Adds
  <2>3. statusNet = Send(net, "status", None)
    BY <1>3 DEF StatusInit, TailscaleInit
  <2> HIDE DEF net
  <2>4. Adds(net, statusNet, "status", None)
    BY <2>2, <2>3, SendAdds, Zenon
  <2>5. PICK q : statusNet = {p, q} /\ q.op = "status" /\ ~q.done /\ Requests(statusNet)
    BY <2>2, <2>4 DEF Adds
  <2>6. /\ HasFields(shown, TailscaleFields) /\ shown.loading /\ ~shown.saving
        /\ shown.loadingDiagnostics /\ ~shown.loadingBundle
    BY <1>3 DEF StatusInit, TailscaleInit, HasFields, TailscaleFields
  <2> QED
    BY <1>1, <1>3, <2>2, <2>5, <2>6 DEF StatusInv, TailscaleInv, One, InFlight
<1>4. CASE statusPage = "ai"
  <2> DEFINE args == [by |-> "page"]
  <2>1. statusNet = Send({}, "configured", args) /\ args.by = "page" /\ gateway \in Providers
    BY <1>4 DEF StatusInit, AiInit
  <2> HIDE DEF args
  <2>2. Adds({}, statusNet, "configured", args)
    BY <1>1, <2>1, SendAdds, Zenon
  <2>3. PICK q : statusNet = {q} /\ q.op = "configured" /\ q.args = args /\ ~q.done /\ Requests(statusNet)
    BY <2>2 DEF Adds
  <2>4. HasFields(shown, AiFields) /\ ~shown.saving /\ shown.persisted = gateway
    BY <1>4 DEF StatusInit, AiInit, HasFields, AiFields
  <2> QED
    BY <1>1, <1>4, <2>1, <2>3, <2>4 DEF StatusInv, AiInv, AiSteady, OfSave, One, InFlight
<1>5. CASE statusPage = "home"
  <2> DEFINE args == [by |-> "page"]
  <2>1. statusNet = Send(Send(Send({}, "status", args), "summary", None), "https", None)
    BY <1>5 DEF StatusInit, HomeInit
  <2> HIDE DEF args
  <2>2. PICK a, b, c : /\ statusNet = {} \cup {a, b, c} /\ Requests(statusNet)
                       /\ a.op = "status" /\ b.op = "summary" /\ c.op = "https"
    BY <1>1, <2>1, HomeReads
  <2>3. HasFields(shown, HomeFields) /\ ~shown.checking /\ shown.checkState = None
    BY <1>5 DEF StatusInit, HomeInit, HasFields, HomeFields
  <2>4. shown.checkState # "ok"
    BY <2>3, StatusAssumption
  <2>5. gateway \in BOOLEAN
    BY <1>5 DEF StatusInit, HomeInit
  <2> QED
    BY <1>1, <1>5, <2>2, <2>3, <2>4, <2>5 DEF StatusInv, HomeInv, InFlight
<1> QED
  BY <1>1, <1>2, <1>3, <1>4, <1>5 DEF StatusPageNames

\* The server acts on a request.
LEMMA StatusServe ==
    ASSUME StatusInv, NEW r \in statusNet, ServeStatus(r)
    PROVE  StatusInv'
<1>1. statusPage' = statusPage /\ shown' = shown /\ ~r.done
  BY DEF ServeStatus, ServeDnsInfo, ServeTailscale, ServeProvider, ServeOnboardingStatus, ServeProtectionCheck, ServeRead
<1>2. PICK s : /\ statusNet' = Served(statusNet, r, s)
               /\ statusPage = "dns" => s = gateway.reported /\ gateway' = [gateway EXCEPT !.changed = FALSE]
               /\ statusPage \in {"tailscale", "ai"} =>
                    s = gateway /\ gateway' = IF r.op = "set" THEN r.args.value ELSE gateway
               /\ statusPage = "home" =>
                    \/ r.op = "status" /\ s = gateway /\ gateway' = gateway
                    \/ r.op = "check" /\ gateway' = (gateway \/ s = "ok")
  BY DEF ServeStatus, ServeDnsInfo, ServeTailscale, ServeProvider, ServeOnboardingStatus, ServeProtectionCheck, ServeRead
<1>3. Serves(statusNet, statusNet', r, s)
  BY <1>2, ServedServes, Zenon DEF StatusInv
<1>4. PICK q : /\ statusNet' = (statusNet \ {r}) \cup {q}
               /\ q.op = r.op /\ q.args = r.args /\ q.done /\ q.snap = s
               /\ Requests(statusNet')
  BY <1>3 DEF Serves
<1>5. statusPage = "dns" => DnsInv'
  <2> SUFFICES ASSUME statusPage = "dns" PROVE DnsInv'
    OBVIOUS
  <2>1. DnsInv /\ statusNet' = {q}
    BY <1>4 DEF StatusInv, DnsInv, One
  <2>2. HasFields(gateway', GatewayFields) /\ gateway'.reported = gateway.reported
    BY <1>2, <2>1 DEF DnsInv, HasFields, GatewayFields
  <2> QED
    BY <1>1, <1>2, <1>4, <2>1, <2>2 DEF DnsInv, One
<1>6. statusPage = "tailscale" => TailscaleInv'
  <2> SUFFICES ASSUME TailscaleInv, statusPage = "tailscale" PROVE TailscaleInv'
    BY DEF StatusInv
  <2>1. \A ops : InFlight(statusNet', ops) <=> InFlight(statusNet, ops)
    BY <1>4 DEF InFlight
  <2>2. \A ops : One(statusNet, ops) => One(statusNet', ops)
    BY <1>4 DEF One
  <2>3. /\ \A w \in statusNet' : w.op \in {"set", "status", "diagnostics", "bundle"}
        /\ \A w \in statusNet' : w.op = "status" /\ w.done => w.snap = gateway'
    BY <1>1, <1>2, <1>4 DEF TailscaleInv, One
  <2>4. ~InFlight(statusNet, {"set", "status"}) => gateway' = gateway
    BY <1>2 DEF TailscaleInv, InFlight
  <2> QED
    BY <1>1, <2>1, <2>2, <2>3, <2>4 DEF TailscaleInv
<1>7. statusPage = "ai" => AiInv'
  <2> SUFFICES ASSUME AiInv, statusPage = "ai" PROVE AiInv'
    BY DEF StatusInv
  <2>1. gateway' \in Providers
    BY <1>2 DEF AiInv
  <2>2. AiSteady => AiSteady'
    BY <1>1, <1>2, <1>4 DEF AiInv, AiSteady, One, OfSave
  <2> QED
    BY <1>1, <1>4, <2>1, <2>2 DEF AiInv, OfSave, InFlight
<1>8. statusPage = "home" => HomeInv'
  <2> SUFFICES ASSUME HomeInv, statusPage = "home" PROVE HomeInv'
    BY DEF StatusInv
  <2>1. /\ gateway' \in BOOLEAN /\ (gateway = TRUE => gateway' = TRUE)
        /\ r.op = "check" /\ s = "ok" => gateway' = TRUE
        /\ r.op = "status" => s = gateway
    BY <1>2 DEF HomeInv
  <2> QED
    BY <1>1, <1>4, <2>1 DEF HomeInv, InFlight
<1> QED
  BY <1>1, <1>4, <1>5, <1>6, <1>7, <1>8 DEF StatusInv

\* The DNS status.
LEMMA DnsStep ==
    ASSUME StatusInv, \/ RefreshDns \/ onUpdateDnsInfo \/ refreshTimerFires \/ LeaveDns
                      \/ InitializeFilters \/ BlocklistsDownloaded
    PROVE  StatusInv'
<1>1. statusPage = "dns" /\ statusPage' = statusPage /\ DnsInv /\ Requests(statusNet)
  BY DEF RefreshDns, onUpdateDnsInfo, refreshTimerFires, LeaveDns, InitializeFilters, BlocklistsDownloaded, StatusInv
<1>2. CASE RefreshDns \/ refreshTimerFires
  <2>1. PICK ui : /\ loadDnsInfo(ui) /\ gateway' = gateway
                  /\ ui = [shown EXCEPT !.ops = @ + 1] \/ ui = [shown EXCEPT !.refreshTimer = FALSE]
                  /\ shown.refreshing \/ ~shown.refreshing
    BY <1>2 DEF RefreshDns, refreshTimerFires
  <2>2. /\ HasFields(ui, DnsFields) /\ ui.refreshing = shown.refreshing /\ ui.dnsInfo = shown.dnsInfo
        /\ ui.loading = shown.loading /\ ui.destroyed = shown.destroyed
        /\ ui.statusError = shown.statusError
    BY <1>1, <2>1 DEF DnsInv, HasFields, DnsFields
  <2>3. CASE ui.refreshing
    <3>1. shown' = ui /\ statusNet' = statusNet
      BY <2>1, <2>3 DEF loadDnsInfo
    <3>2. DnsInv'
      BY <1>1, <2>1, <2>2, <2>3, <3>1 DEF DnsInv, One
    <3> QED
      BY <1>1, <3>1, <3>2 DEF StatusInv
  <2>4. CASE ~ui.refreshing
    <3>1. shown' = [ui EXCEPT !.refreshing = TRUE, !.statusError = FALSE] /\ statusNet' = Send(statusNet, "info", None)
      BY <2>1, <2>4 DEF loadDnsInfo
    <3>2. Adds(statusNet, statusNet', "info", None)
      BY <1>1, <3>1, SendAdds, Zenon
    <3>3. PICK q : statusNet' = statusNet \cup {q} /\ q.op = "info" /\ ~q.done /\ Requests(statusNet')
      BY <3>2 DEF Adds
    <3>4. statusNet = {}
      BY <1>1, <2>2, <2>4 DEF DnsInv
    <3>5. /\ HasFields(shown', DnsFields) /\ shown'.refreshing /\ shown'.dnsInfo = shown.dnsInfo
      BY <2>2, <3>1 DEF HasFields, DnsFields
    <3>6. DnsInv'
      BY <1>1, <2>1, <3>3, <3>4, <3>5 DEF DnsInv, One
    <3> QED
      BY <1>1, <3>3, <3>6 DEF StatusInv
  <2> QED
    BY <2>3, <2>4
<1>3. CASE onUpdateDnsInfo
  <2>1. /\ statusNet' = statusNet /\ gateway' = [gateway EXCEPT !.lists = @ + 1]
        /\ shown' = [[shown EXCEPT !.dnsInfo = None, !.loading = TRUE, !.refreshTimer = TRUE]
                       EXCEPT !.ops = @ + 1, !.behind = @ \/ InFlight(statusNet, {})]
    BY <1>3 DEF onUpdateDnsInfo, AskStatus
  <2>2. /\ HasFields(shown', DnsFields) /\ shown'.refreshing = shown.refreshing /\ shown'.dnsInfo = None
        /\ shown'.refreshTimer
        /\ HasFields(gateway', GatewayFields) /\ gateway'.reported = gateway.reported
        /\ gateway'.changed = gateway.changed
    BY <1>1, <2>1 DEF DnsInv, HasFields, DnsFields, GatewayFields
  <2>3. DnsInv'
    BY <1>1, <2>1, <2>2 DEF DnsInv, One
  <2> QED
    BY <1>1, <2>1, <2>3 DEF StatusInv
<1>4. CASE LeaveDns
  <2>1. /\ statusNet' = statusNet /\ gateway' = gateway
        /\ HasFields(shown', DnsFields) /\ shown'.refreshing = shown.refreshing /\ shown'.dnsInfo = shown.dnsInfo
        /\ shown'.destroyed /\ shown'.statusError = shown.statusError
    BY <1>1, <1>4 DEF LeaveDns, DnsInv, HasFields, DnsFields
  <2>2. DnsInv'
    BY <1>1, <2>1 DEF DnsInv, One
  <2> QED
    BY <1>1, <2>1, <2>2 DEF StatusInv
<1>5. CASE InitializeFilters \/ BlocklistsDownloaded
  <2>1. /\ statusNet' = statusNet /\ shown' = shown
        /\ HasFields(gateway', GatewayFields) /\ gateway'.changed
    BY <1>1, <1>5 DEF InitializeFilters, BlocklistsDownloaded, DnsInv, HasFields, GatewayFields
  <2>2. DnsInv'
    BY <1>1, <2>1 DEF DnsInv, One
  <2> QED
    BY <1>1, <2>1, <2>2 DEF StatusInv
<1> QED
  BY <1>2, <1>3, <1>4, <1>5

\* Its answer.
LEMMA DnsLoaded ==
    ASSUME StatusInv, NEW r \in statusNet, NEW ok \in BOOLEAN, dnsInfoLoaded(r, ok)
    PROVE  StatusInv'
<1> DEFINE ui == [shown EXCEPT !.dnsInfo = IF ok THEN r.snap ELSE @, !.statusError = ~ok,
                           !.loading = FALSE, !.refreshing = FALSE]
<1>1. statusPage = "dns" /\ (ok => r.done) /\ StatusRests(ui, r) /\ DnsInv /\ Requests(statusNet)
  BY DEF dnsInfoLoaded, StatusInv
<1>2. /\ HasFields(ui, DnsFields) /\ ~ui.refreshing /\ ~ui.loading /\ ui.statusError = ~ok
      /\ ui.dnsInfo = IF ok THEN r.snap ELSE shown.dnsInfo
  BY <1>1 DEF DnsInv, HasFields, DnsFields
<1> HIDE DEF ui
<1>3. /\ statusPage' = statusPage /\ gateway' = gateway /\ shown' = ui
      /\ statusNet' = statusNet \ {r} /\ Requests(statusNet')
  BY <1>1, StatusRested
<1>4. DnsInv'
  BY <1>1, <1>2, <1>3 DEF DnsInv, One
<1> QED
  BY <1>1, <1>3, <1>4 DEF StatusInv

\* Tailscale, diagnostics and support bundle: a button is pressed.
LEMMA TailscaleAsk ==
    ASSUME StatusInv, setTailscaleEnabled \/ RefreshTailscale \/ RunDiagnostics \/ PreviewBundle
    PROVE  StatusInv'
<1>1. statusPage = "tailscale" /\ statusPage' = statusPage /\ gateway' = gateway /\ TailscaleInv /\ Requests(statusNet)
  BY DEF setTailscaleEnabled, RefreshTailscale, RunDiagnostics, PreviewBundle, StatusInv
<1>2. CASE setTailscaleEnabled
  <2> DEFINE args == [value |-> ~shown.status]
  <2>1. /\ statusNet' = Send(statusNet, "set", args) /\ ~shown.loading /\ ~shown.saving
        /\ shown' = [[shown EXCEPT !.saving = TRUE, !.error = FALSE]
                       EXCEPT !.ops = @ + 1, !.behind = @ \/ InFlight(statusNet, {"set", "status"})]
    BY <1>2 DEF setTailscaleEnabled, AskStatus, tailscaleOffered
  <2> HIDE DEF args
  <2>2. Adds(statusNet, statusNet', "set", args)
    BY <1>1, <2>1, SendAdds, Zenon
  <2>3. PICK q : statusNet' = statusNet \cup {q} /\ q.op = "set" /\ ~q.done /\ Requests(statusNet')
    BY <2>2 DEF Adds
  <2>4. /\ HasFields(shown', TailscaleFields) /\ shown'.saving /\ shown'.loading = shown.loading
        /\ shown'.loadingDiagnostics = shown.loadingDiagnostics /\ shown'.loadingBundle = shown.loadingBundle
    BY <1>1, <2>1 DEF TailscaleInv, HasFields, TailscaleFields
  <2>5. TailscaleInv'
    BY <1>1, <2>1, <2>3, <2>4 DEF TailscaleInv, One, InFlight
  <2> QED
    BY <1>1, <2>3, <2>5 DEF StatusInv
<1>3. CASE RefreshTailscale
  <2>1. /\ statusNet' = Send(statusNet, "status", None) /\ ~shown.loading /\ ~shown.saving
        /\ shown' = [[shown EXCEPT !.loading = TRUE, !.error = FALSE]
                       EXCEPT !.ops = @ + 1, !.behind = @ \/ InFlight(statusNet, {"set", "status"})]
    BY <1>3 DEF RefreshTailscale, AskStatus, tailscaleOffered
  <2>2. Adds(statusNet, statusNet', "status", None)
    BY <1>1, <2>1, SendAdds, Zenon
  <2>3. PICK q : statusNet' = statusNet \cup {q} /\ q.op = "status" /\ ~q.done /\ Requests(statusNet')
    BY <2>2 DEF Adds
  <2>4. /\ HasFields(shown', TailscaleFields) /\ shown'.saving = shown.saving /\ shown'.loading
        /\ shown'.loadingDiagnostics = shown.loadingDiagnostics /\ shown'.loadingBundle = shown.loadingBundle
    BY <1>1, <2>1 DEF TailscaleInv, HasFields, TailscaleFields
  <2>5. TailscaleInv'
    BY <1>1, <2>1, <2>3, <2>4 DEF TailscaleInv, One, InFlight
  <2> QED
    BY <1>1, <2>3, <2>5 DEF StatusInv
<1>4. CASE RunDiagnostics
  <2>1. /\ statusNet' = Send(statusNet, "diagnostics", None) /\ ~shown.loadingDiagnostics
        /\ shown' = [[shown EXCEPT !.loadingDiagnostics = TRUE]
                       EXCEPT !.ops = @ + 1, !.behind = @ \/ InFlight(statusNet, {})]
    BY <1>4 DEF RunDiagnostics, AskStatus, tailscaleOffered
  <2>2. Adds(statusNet, statusNet', "diagnostics", None)
    BY <1>1, <2>1, SendAdds, Zenon
  <2>3. PICK q : statusNet' = statusNet \cup {q} /\ q.op = "diagnostics" /\ Requests(statusNet')
    BY <2>2 DEF Adds
  <2>4. /\ HasFields(shown', TailscaleFields) /\ shown'.saving = shown.saving /\ shown'.loading = shown.loading
        /\ shown'.loadingDiagnostics /\ shown'.loadingBundle = shown.loadingBundle
        /\ shown'.status = shown.status /\ (~shown'.behind => ~shown.behind)
    BY <1>1, <2>1 DEF TailscaleInv, HasFields, TailscaleFields
  <2>5. TailscaleInv'
    BY <1>1, <2>1, <2>3, <2>4 DEF TailscaleInv, One, InFlight
  <2> QED
    BY <1>1, <2>3, <2>5 DEF StatusInv
<1>5. CASE PreviewBundle
  <2>1. /\ statusNet' = Send(statusNet, "bundle", None) /\ ~shown.loadingBundle
        /\ shown' = [[shown EXCEPT !.loadingBundle = TRUE]
                       EXCEPT !.ops = @ + 1, !.behind = @ \/ InFlight(statusNet, {})]
    BY <1>5 DEF PreviewBundle, AskStatus, tailscaleOffered
  <2>2. Adds(statusNet, statusNet', "bundle", None)
    BY <1>1, <2>1, SendAdds, Zenon
  <2>3. PICK q : statusNet' = statusNet \cup {q} /\ q.op = "bundle" /\ Requests(statusNet')
    BY <2>2 DEF Adds
  <2>4. /\ HasFields(shown', TailscaleFields) /\ shown'.saving = shown.saving /\ shown'.loading = shown.loading
        /\ shown'.loadingBundle /\ shown'.loadingDiagnostics = shown.loadingDiagnostics
        /\ shown'.status = shown.status /\ (~shown'.behind => ~shown.behind)
    BY <1>1, <2>1 DEF TailscaleInv, HasFields, TailscaleFields
  <2>5. TailscaleInv'
    BY <1>1, <2>1, <2>3, <2>4 DEF TailscaleInv, One, InFlight
  <2> QED
    BY <1>1, <2>3, <2>5 DEF StatusInv
<1> QED
  BY <1>2, <1>3, <1>4, <1>5

\* The answers.
LEMMA TailscaleAnswered ==
    ASSUME StatusInv, NEW r \in statusNet, NEW ok \in BOOLEAN,
           tailscaleSet(r, ok) \/ loadTailscaleStatus(r, ok) \/ loadDiagnostics(r, ok) \/ previewBundle(r, ok)
    PROVE  StatusInv'
<1>1. statusPage = "tailscale" /\ TailscaleInv /\ Requests(statusNet)
  BY DEF tailscaleSet, loadTailscaleStatus, loadDiagnostics, previewBundle, StatusInv
<1>2. CASE tailscaleSet(r, ok) /\ ok
  <2> DEFINE ui == [shown EXCEPT !.loading = TRUE]
  <2>1. StatusGoesOn(ui, r, "status", None) /\ r.op = "set"
    BY <1>2 DEF tailscaleSet
  <2>2. /\ HasFields(ui, TailscaleFields) /\ ui.loading
        /\ ui.loadingDiagnostics = shown.loadingDiagnostics /\ ui.loadingBundle = shown.loadingBundle
    BY <1>1 DEF TailscaleInv, HasFields, TailscaleFields
  <2> HIDE DEF ui
  <2>3. /\ statusPage' = statusPage /\ gateway' = gateway
        /\ shown' = [ui EXCEPT !.behind = @ \/ InFlight(statusNet \ {r}, {"status"})]
        /\ Adds(statusNet \ {r}, statusNet', "status", None)
    BY <1>1, <2>1, StatusWentOn
  <2>4. PICK q : statusNet' = (statusNet \ {r}) \cup {q} /\ q.op = "status" /\ ~q.done /\ Requests(statusNet')
    BY <2>3 DEF Adds
  <2>5. /\ HasFields(shown', TailscaleFields) /\ shown'.loading
        /\ shown'.loadingDiagnostics = shown.loadingDiagnostics /\ shown'.loadingBundle = shown.loadingBundle
    BY <2>2, <2>3 DEF HasFields, TailscaleFields
  <2>6. TailscaleInv'
    BY <1>1, <2>1, <2>3, <2>4, <2>5 DEF TailscaleInv, One, InFlight
  <2> QED
    BY <1>1, <2>3, <2>4, <2>6 DEF StatusInv
<1>3. CASE tailscaleSet(r, ok) /\ ~ok
  <2> DEFINE ui == [shown EXCEPT !.saving = FALSE, !.error = TRUE, !.behind = TRUE]
  <2>1. StatusRests(ui, r) /\ r.op = "set"
    BY <1>3 DEF tailscaleSet
  <2>2. /\ HasFields(ui, TailscaleFields) /\ ~ui.saving /\ ui.loading = shown.loading /\ ui.behind
        /\ ui.loadingDiagnostics = shown.loadingDiagnostics /\ ui.loadingBundle = shown.loadingBundle
    BY <1>1 DEF TailscaleInv, HasFields, TailscaleFields
  <2> HIDE DEF ui
  <2>3. /\ statusPage' = statusPage /\ gateway' = gateway /\ shown' = ui
        /\ statusNet' = statusNet \ {r} /\ Requests(statusNet')
    BY <1>1, <2>1, StatusRested
  <2>4. TailscaleInv'
    BY <1>1, <2>1, <2>2, <2>3 DEF TailscaleInv, One, InFlight
  <2> QED
    BY <1>1, <2>3, <2>4 DEF StatusInv
<1>4. CASE loadTailscaleStatus(r, ok)
  <2> DEFINE ui == [shown EXCEPT !.status = IF ok THEN r.snap ELSE @, !.loading = FALSE,
                      !.saving = FALSE, !.error = ~ok, !.behind = ~ok]
  <2>1. StatusRests(ui, r) /\ r.op = "status" /\ (ok => r.done)
    BY <1>4 DEF loadTailscaleStatus
  <2>2. /\ HasFields(ui, TailscaleFields) /\ ~ui.saving /\ ~ui.loading
        /\ (~ui.behind => ok) /\ (ok => ui.status = r.snap)
        /\ ui.loadingDiagnostics = shown.loadingDiagnostics /\ ui.loadingBundle = shown.loadingBundle
    BY <1>1 DEF TailscaleInv, HasFields, TailscaleFields
  <2> HIDE DEF ui
  <2>3. /\ statusPage' = statusPage /\ gateway' = gateway /\ shown' = ui
        /\ statusNet' = statusNet \ {r} /\ Requests(statusNet')
    BY <1>1, <2>1, StatusRested
  <2>4. TailscaleInv'
    BY <1>1, <2>1, <2>2, <2>3 DEF TailscaleInv, One, InFlight
  <2> QED
    BY <1>1, <2>3, <2>4 DEF StatusInv
<1>5. CASE loadDiagnostics(r, ok)
  <2> DEFINE ui == [shown EXCEPT !.diagnostics = @ \/ ok, !.loadingDiagnostics = FALSE]
  <2>1. StatusRests(ui, r) /\ r.op = "diagnostics"
    BY <1>5 DEF loadDiagnostics
  <2>2. /\ HasFields(ui, TailscaleFields) /\ ui.saving = shown.saving /\ ui.loading = shown.loading
        /\ ui.behind = shown.behind /\ ui.status = shown.status
        /\ ~ui.loadingDiagnostics /\ ui.loadingBundle = shown.loadingBundle
    BY <1>1 DEF TailscaleInv, HasFields, TailscaleFields
  <2> HIDE DEF ui
  <2>3. /\ statusPage' = statusPage /\ gateway' = gateway /\ shown' = ui
        /\ statusNet' = statusNet \ {r} /\ Requests(statusNet')
    BY <1>1, <2>1, StatusRested
  <2>4. TailscaleInv'
    BY <1>1, <2>1, <2>2, <2>3 DEF TailscaleInv, One, InFlight
  <2> QED
    BY <1>1, <2>3, <2>4 DEF StatusInv
<1>6. CASE previewBundle(r, ok)
  <2> DEFINE ui == [shown EXCEPT !.bundlePreview = @ \/ ok, !.loadingBundle = FALSE]
  <2>1. StatusRests(ui, r) /\ r.op = "bundle"
    BY <1>6 DEF previewBundle
  <2>2. /\ HasFields(ui, TailscaleFields) /\ ui.saving = shown.saving /\ ui.loading = shown.loading
        /\ ui.behind = shown.behind /\ ui.status = shown.status
        /\ ~ui.loadingBundle /\ ui.loadingDiagnostics = shown.loadingDiagnostics
    BY <1>1 DEF TailscaleInv, HasFields, TailscaleFields
  <2> HIDE DEF ui
  <2>3. /\ statusPage' = statusPage /\ gateway' = gateway /\ shown' = ui
        /\ statusNet' = statusNet \ {r} /\ Requests(statusNet')
    BY <1>1, <2>1, StatusRested
  <2>4. TailscaleInv'
    BY <1>1, <2>1, <2>2, <2>3 DEF TailscaleInv, One, InFlight
  <2> QED
    BY <1>1, <2>3, <2>4 DEF StatusInv
<1> QED
  BY <1>2, <1>3, <1>4, <1>5, <1>6

\* Image filtering: a reading is asked for, or a provider chosen.
LEMMA AiAsk ==
    ASSUME StatusInv, RefreshAi \/ \E p \in Providers : ChooseProvider(p)
    PROVE  StatusInv'
<1>1. statusPage = "ai" /\ statusPage' = statusPage /\ gateway' = gateway /\ AiInv /\ Requests(statusNet)
  BY DEF RefreshAi, refreshStatus, ChooseProvider, StatusInv
<1>2. CASE RefreshAi
  <2> DEFINE args == [by |-> "page"]
             busy == InFlight(statusNet, {"configured", "probe"})
  <2>1. /\ statusNet' = Send(statusNet, "configured", args) /\ args.by = "page"
        /\ shown' = [[shown EXCEPT !.ops = @ + 1] EXCEPT !.probing = TRUE, !.statusError = FALSE,
                       !.behind = @ \/ busy]
    BY <1>2 DEF RefreshAi, refreshStatus
  <2> HIDE DEF args, busy
  <2>2. Adds(statusNet, statusNet', "configured", args)
    BY <1>1, <2>1, SendAdds, Zenon
  <2>3. PICK q : statusNet' = statusNet \cup {q} /\ q.op = "configured" /\ q.args = args /\ ~q.done /\ Requests(statusNet')
    BY <2>2 DEF Adds
  <2>4. /\ HasFields(shown', AiFields) /\ shown'.saving = shown.saving /\ shown'.persisted = shown.persisted
        /\ (~shown'.behind => ~shown.behind /\ ~busy)
    BY <1>1, <2>1 DEF AiInv, HasFields, AiFields
  <2>5. ~OfSave(q)
    BY <2>1, <2>3 DEF OfSave
  <2>6. ~shown'.behind => AiSteady'
    BY <1>1, <2>3, <2>4, <2>5 DEF AiInv, AiSteady, One, InFlight, busy
  <2>7. AiInv'
    BY <1>1, <2>3, <2>4, <2>6 DEF AiInv, InFlight
  <2> QED
    BY <1>1, <2>3, <2>7 DEF StatusInv
<1>3. CASE \E p \in Providers : ChooseProvider(p)
  <2>1. PICK p \in Providers : ChooseProvider(p)
    BY <1>3
  <2> DEFINE args == [value |-> p]
  <2>2. /\ statusNet' = Send(statusNet, "set", args) /\ args.value = p /\ ~shown.saving
        /\ shown' = [[shown EXCEPT !.radio = p, !.saving = TRUE]
                       EXCEPT !.ops = @ + 1, !.behind = @ \/ InFlight(statusNet, {})]
    BY <2>1 DEF ChooseProvider, AskStatus
  <2> HIDE DEF args
  <2>3. Adds(statusNet, statusNet', "set", args)
    BY <1>1, <2>2, SendAdds, Zenon
  <2>4. PICK q : statusNet' = statusNet \cup {q} /\ q.op = "set" /\ q.args = args /\ ~q.done /\ Requests(statusNet')
    BY <2>3 DEF Adds
  <2>5. /\ HasFields(shown', AiFields) /\ shown'.saving /\ shown'.probing = shown.probing
        /\ shown'.persisted = shown.persisted
        /\ shown'.filterMode = shown.filterMode /\ shown'.status = shown.status
        /\ (~shown'.behind => ~shown.behind)
    BY <1>1, <2>2 DEF AiInv, HasFields, AiFields
  <2>6. ~shown'.behind => AiSteady'
    BY <1>1, <2>2, <2>4, <2>5 DEF AiInv, AiSteady, One, OfSave
  <2>7. AiInv'
    BY <1>1, <2>2, <2>4, <2>5, <2>6 DEF AiInv, InFlight, OfSave
  <2> QED
    BY <1>1, <2>4, <2>7 DEF StatusInv
<1> QED
  BY <1>2, <1>3

\* A reading ends.
LEMMA AiProbed ==
    ASSUME StatusInv, statusPage = "ai", NEW r \in statusNet, r.op # "set", NEW ui, Probed(ui, r),
           HasFields(ui, AiFields), ui.saving = shown.saving, ui.persisted = shown.persisted,
           ~ui.behind => ~shown.behind /\ r.done /\ ui.status = r.snap /\ ui.filterMode = r.snap
    PROVE  StatusInv'
<1> DEFINE rest == [ui EXCEPT !.probing = FALSE, !.saving = IF r.args.by = "save" THEN FALSE ELSE @]
<1>1. StatusRests(rest, r) /\ AiInv /\ Requests(statusNet)
  BY DEF Probed, StatusInv
<1>2. /\ HasFields(rest, AiFields) /\ ~rest.probing /\ rest.persisted = ui.persisted /\ rest.behind = ui.behind
      /\ rest.saving = IF r.args.by = "save" THEN FALSE ELSE ui.saving
      /\ rest.status = ui.status /\ rest.filterMode = ui.filterMode
  BY DEF HasFields, AiFields
<1> HIDE DEF rest
<1>3. /\ statusPage' = statusPage /\ gateway' = gateway /\ shown' = rest
      /\ statusNet' = statusNet \ {r} /\ Requests(statusNet')
  BY <1>1, StatusRested
<1>4. ~shown'.behind => AiSteady'
  <2> SUFFICES ASSUME ~shown'.behind PROVE AiSteady'
    OBVIOUS
  <2>1. AiSteady /\ r.done /\ shown'.status = r.snap /\ shown'.filterMode = r.snap /\ shown'.persisted = shown.persisted
    BY <1>1, <1>2, <1>3 DEF AiInv
  <2>2. r.op \in {"configured", "probe"} /\ (OfSave(r) <=> r.args.by = "save")
    BY <1>1 DEF AiInv, OfSave
  <2>3. \A w \in statusNet' : OfSave(w) => shown'.saving
    BY <1>2, <1>3, <2>1, <2>2 DEF AiSteady
  <2> QED
    BY <1>3, <2>1, <2>2, <2>3 DEF AiSteady, One
<1>5. shown'.saving => \E w \in statusNet' : OfSave(w)
  <2> SUFFICES ASSUME shown'.saving PROVE \E w \in statusNet' : OfSave(w)
    OBVIOUS
  <2>1. shown.saving /\ ~OfSave(r)
    BY <1>2, <1>3 DEF OfSave
  <2> QED
    BY <1>1, <1>3, <2>1 DEF AiInv
<1>6. AiInv'
  BY <1>1, <1>2, <1>3, <1>4, <1>5 DEF AiInv
<1> QED
  BY <1>3, <1>6 DEF StatusInv

\* The answers of the readings.
LEMMA AiRead ==
    ASSUME StatusInv, NEW r \in statusNet,
           (\E ok \in BOOLEAN : loadConfigured(r, ok))
             \/ (\E outcome \in {"ok", "failed", "timeout"} : aiStatus(r, outcome))
    PROVE  StatusInv'
<1>1. statusPage = "ai" /\ AiInv /\ Requests(statusNet) /\ r.op # "set"
  BY DEF loadConfigured, aiStatus, StatusInv
<1>2. CASE ProbeFails(r)
  <2> DEFINE ui == [shown EXCEPT !.status = None, !.statusError = TRUE, !.behind = TRUE]
  <2>1. /\ Probed(ui, r) /\ HasFields(ui, AiFields) /\ ui.saving = shown.saving
        /\ ui.persisted = shown.persisted /\ ui.behind = TRUE
    BY <1>1, <1>2 DEF ProbeFails, AiInv, HasFields, AiFields
  <2> HIDE DEF ui
  <2> QED
    BY <1>1, <2>1, AiProbed
<1>3. CASE loadConfigured(r, TRUE)
  <2> DEFINE ui == [shown EXCEPT !.filterMode = r.snap]
  <2>1. StatusGoesOn(ui, r, "probe", r.args) /\ r.op = "configured" /\ r.done
    BY <1>3 DEF loadConfigured
  <2>2. /\ HasFields(ui, AiFields) /\ ui.saving = shown.saving /\ ui.persisted = shown.persisted
        /\ ui.behind = shown.behind /\ ui.probing = shown.probing
    BY <1>1 DEF AiInv, HasFields, AiFields
  <2> HIDE DEF ui
  <2>3. /\ statusPage' = statusPage /\ gateway' = gateway
        /\ shown' = [ui EXCEPT !.behind = @ \/ InFlight(statusNet \ {r}, {"probe"})]
        /\ Adds(statusNet \ {r}, statusNet', "probe", r.args)
    BY <1>1, <2>1, StatusWentOn
  <2>4. PICK q : /\ statusNet' = (statusNet \ {r}) \cup {q} /\ q.op = "probe" /\ q.args = r.args /\ ~q.done
                 /\ Requests(statusNet')
    BY <2>3 DEF Adds
  <2>5. /\ HasFields(shown', AiFields) /\ shown'.saving = shown.saving /\ shown'.persisted = shown.persisted
        /\ (~shown'.behind => ~shown.behind) /\ shown'.probing = shown.probing
    BY <2>2, <2>3 DEF HasFields, AiFields
  <2>6. OfSave(q) <=> OfSave(r)
    BY <2>1, <2>4 DEF OfSave
  <2>7. ~shown'.behind => AiSteady'
    BY <1>1, <2>1, <2>3, <2>4, <2>5, <2>6 DEF AiInv, AiSteady, One
  <2>8. AiInv'
    BY <1>1, <2>1, <2>3, <2>4, <2>5, <2>6, <2>7 DEF AiInv, InFlight
  <2> QED
    BY <1>1, <2>3, <2>4, <2>8 DEF StatusInv
<1>4. CASE aiStatus(r, "ok")
  <2> DEFINE ui == [shown EXCEPT !.status = r.snap, !.filterMode = r.snap]
  <2>1. Probed(ui, r) /\ r.done
    BY <1>4 DEF aiStatus
  <2>2. /\ HasFields(ui, AiFields) /\ ui.saving = shown.saving /\ ui.persisted = shown.persisted
        /\ ui.behind = shown.behind /\ ui.status = r.snap /\ ui.filterMode = r.snap
    BY <1>1 DEF AiInv, HasFields, AiFields
  <2> HIDE DEF ui
  <2> QED
    BY <1>1, <2>1, <2>2, AiProbed
<1>5. ProbeFails(r) \/ loadConfigured(r, TRUE) \/ aiStatus(r, "ok")
  BY DEF loadConfigured, aiStatus
<1> QED
  BY <1>2, <1>3, <1>4, <1>5

\* The answer to a save.
LEMMA AiSaved ==
    ASSUME StatusInv, NEW r \in statusNet, NEW ok \in BOOLEAN, providerSaved(r, ok)
    PROVE  StatusInv'
<1>1. statusPage = "ai" /\ AiInv /\ Requests(statusNet) /\ r.op = "set" /\ (ok => r.done)
  BY DEF providerSaved, StatusInv
<1>2. CASE ~ok
  <2> DEFINE ui == [shown EXCEPT !.radio = shown.persisted, !.saving = FALSE, !.behind = TRUE]
  <2>1. StatusRests(ui, r)
    BY <1>2 DEF providerSaved
  <2>2. HasFields(ui, AiFields) /\ ~ui.saving /\ ui.behind /\ ui.probing = shown.probing
    BY <1>1 DEF AiInv, HasFields, AiFields
  <2> HIDE DEF ui
  <2>3. /\ statusPage' = statusPage /\ gateway' = gateway /\ shown' = ui
        /\ statusNet' = statusNet \ {r} /\ Requests(statusNet')
    BY <1>1, <2>1, StatusRested
  <2>4. AiInv'
    BY <1>1, <2>2, <2>3 DEF AiInv, InFlight
  <2> QED
    BY <1>1, <2>3, <2>4 DEF StatusInv
<1>3. CASE ok
  <2> DEFINE net == statusNet \ {r}
             args == [by |-> "save"]
             busy == InFlight(net, {"configured", "probe"})
  <2>1. /\ statusPage' = statusPage /\ gateway' = gateway
        /\ statusNet' = Send(net, "configured", args) /\ args.by = "save"
        /\ shown' = [[shown EXCEPT !.persisted = r.args.value, !.filterMode = r.args.value]
                       EXCEPT !.probing = TRUE, !.statusError = FALSE, !.behind = @ \/ busy]
    BY <1>3 DEF providerSaved, refreshStatus
  <2>2. Requests(net)
    BY <1>1, AnsweredRequests
  <2> HIDE DEF net, args, busy
  <2>3. Adds(net, statusNet', "configured", args)
    BY <2>1, <2>2, SendAdds, Zenon
  <2>4. PICK q : statusNet' = net \cup {q} /\ q.op = "configured" /\ q.args = args /\ ~q.done /\ Requests(statusNet')
    BY <2>3 DEF Adds
  <2>5. /\ HasFields(shown', AiFields) /\ shown'.saving = shown.saving /\ shown'.persisted = r.args.value
        /\ (~shown'.behind => ~shown.behind /\ ~busy)
    BY <1>1, <2>1 DEF AiInv, HasFields, AiFields
  <2>6. OfSave(q) /\ OfSave(r)
    BY <1>1, <2>1, <2>4 DEF OfSave
  <2>7. ~shown'.behind => AiSteady'
    <3> SUFFICES ASSUME ~shown'.behind PROVE AiSteady'
      OBVIOUS
    <3>1. AiSteady /\ shown.saving /\ r.args.value = gateway
      BY <1>1, <1>3, <2>5, <2>6 DEF AiInv, AiSteady
    <3>2. statusNet' = {q}
      <4>1. \A w \in net : w.op \in {"configured", "probe"}
        BY <1>1, <2>6, <3>1 DEF AiSteady, AiInv, OfSave, net
      <4>2. net = {}
        BY <2>5, <4>1 DEF InFlight, busy
      <4> QED
        BY <2>4, <4>2
    <3> QED
      BY <2>1, <2>4, <2>5, <3>1, <3>2 DEF AiSteady, One
  <2>8. AiInv'
    BY <1>1, <2>1, <2>4, <2>5, <2>6, <2>7 DEF AiInv, InFlight, net
  <2> QED
    BY <1>1, <2>1, <2>4, <2>8 DEF StatusInv
<1> QED
  BY <1>2, <1>3

\* The overview: its requests, its check, and leaving it.
LEMMA HomeAsk ==
    ASSUME StatusInv, homeRefresh \/ SummaryInterval \/ runProtectionCheck \/ LeaveHome
    PROVE  StatusInv'
<1>1. statusPage = "home" /\ statusPage' = statusPage /\ gateway' = gateway /\ HomeInv /\ Requests(statusNet)
  BY DEF homeRefresh, SummaryInterval, runProtectionCheck, LeaveHome, StatusInv
<1>2. CASE homeRefresh
  <2> DEFINE args == [by |-> "page"]
  <2>1. /\ statusNet' = Send(Send(Send(statusNet, "status", args), "summary", None), "https", None)
        /\ shown' = [[shown EXCEPT !.statusError = FALSE]
                       EXCEPT !.ops = @ + 1, !.behind = @ \/ InFlight(statusNet, {"status"})]
    BY <1>2 DEF homeRefresh, AskStatus
  <2> HIDE DEF args
  <2>2. PICK a, b, c : /\ statusNet' = statusNet \cup {a, b, c} /\ Requests(statusNet')
                       /\ a.op = "status" /\ ~a.done /\ b.op = "summary" /\ c.op = "https"
    BY <1>1, <2>1, HomeReads
  <2>3. /\ HasFields(shown', HomeFields) /\ shown'.checking = shown.checking
        /\ shown'.checkState = shown.checkState /\ (~shown'.behind => ~shown.behind)
    BY <1>1, <2>1 DEF HomeInv, HasFields, HomeFields
  <2>4. HomeInv'
    BY <1>1, <2>2, <2>3 DEF HomeInv, InFlight
  <2> QED
    BY <1>1, <2>2, <2>4 DEF StatusInv
<1>3. CASE SummaryInterval
  <2>1. /\ statusNet' = Send(statusNet, "summary", None)
        /\ shown' = [shown EXCEPT !.ops = @ + 1, !.behind = @ \/ InFlight(statusNet, {})]
    BY <1>3 DEF SummaryInterval, AskStatus
  <2>2. Adds(statusNet, statusNet', "summary", None)
    BY <1>1, <2>1, SendAdds, Zenon
  <2>3. PICK q : statusNet' = statusNet \cup {q} /\ q.op = "summary" /\ Requests(statusNet')
    BY <2>2 DEF Adds
  <2>4. /\ HasFields(shown', HomeFields) /\ shown'.checking = shown.checking /\ shown'.status = shown.status
        /\ shown'.checkState = shown.checkState /\ (~shown'.behind => ~shown.behind)
    BY <1>1, <2>1 DEF HomeInv, HasFields, HomeFields
  <2>5. HomeInv'
    BY <1>1, <2>3, <2>4 DEF HomeInv, InFlight
  <2> QED
    BY <1>1, <2>3, <2>5 DEF StatusInv
<1>4. CASE runProtectionCheck
  <2>1. /\ statusNet' = Send(statusNet, "check", None)
        /\ shown' = [[shown EXCEPT !.checking = TRUE, !.checkState = None]
                       EXCEPT !.ops = @ + 1, !.behind = @ \/ InFlight(statusNet, {})]
    BY <1>4 DEF runProtectionCheck, AskStatus
  <2>2. Adds(statusNet, statusNet', "check", None)
    BY <1>1, <2>1, SendAdds, Zenon
  <2>3. PICK q : statusNet' = statusNet \cup {q} /\ q.op = "check" /\ ~q.done /\ Requests(statusNet')
    BY <2>2 DEF Adds
  <2>4. HasFields(shown', HomeFields) /\ shown'.checkState = None
    BY <1>1, <2>1 DEF HomeInv, HasFields, HomeFields
  <2>5. shown'.checkState # "ok"
    BY <2>4, StatusAssumption
  <2>6. HomeInv'
    BY <1>1, <2>3, <2>4, <2>5 DEF HomeInv
  <2> QED
    BY <1>1, <2>3, <2>6 DEF StatusInv
<1>5. CASE LeaveHome
  <2>1. /\ statusNet' = statusNet /\ HasFields(shown', HomeFields) /\ shown'.checking = shown.checking
        /\ shown'.status = shown.status /\ shown'.checkState = shown.checkState /\ shown'.behind = shown.behind
    BY <1>1, <1>5 DEF LeaveHome, HomeInv, HasFields, HomeFields
  <2>2. HomeInv'
    BY <1>1, <2>1 DEF HomeInv, InFlight
  <2> QED
    BY <1>1, <2>1, <2>2 DEF StatusInv
<1> QED
  BY <1>2, <1>3, <1>4, <1>5

\* The answers.
LEMMA HomeAnswered ==
    ASSUME StatusInv, NEW r \in statusNet, NEW ok \in BOOLEAN,
           homeSummaryLoaded(r, ok) \/ homeHttpsLoaded(r, ok) \/ homeStatusLoaded(r, ok) \/ protectionChecked(r, ok)
    PROVE  StatusInv'
<1>1. statusPage = "home" /\ HomeInv /\ Requests(statusNet)
  BY DEF homeSummaryLoaded, homeHttpsLoaded, homeStatusLoaded, protectionChecked, StatusInv
<1>2. CASE homeSummaryLoaded(r, ok) \/ homeHttpsLoaded(r, ok)
  <2>1. PICK ui : /\ StatusRests(ui, r) /\ r.op \in {"summary", "https"}
                  /\ ui = [shown EXCEPT !.summary = ok] \/ ui = [shown EXCEPT !.httpsOn = ok]
    BY <1>2 DEF homeSummaryLoaded, homeHttpsLoaded
  <2>2. /\ HasFields(ui, HomeFields) /\ ui.checking = shown.checking /\ ui.status = shown.status
        /\ ui.checkState = shown.checkState /\ ui.behind = shown.behind
    BY <1>1, <2>1 DEF HomeInv, HasFields, HomeFields
  <2>3. /\ statusPage' = statusPage /\ gateway' = gateway /\ shown' = ui
        /\ statusNet' = statusNet \ {r} /\ Requests(statusNet')
    BY <1>1, <2>1, StatusRested
  <2>4. HomeInv'
    BY <1>1, <2>1, <2>2, <2>3 DEF HomeInv, InFlight
  <2> QED
    BY <1>1, <2>3, <2>4 DEF StatusInv
<1>3. CASE homeStatusLoaded(r, ok)
  <2> DEFINE ui == [shown EXCEPT !.status = IF ok THEN r.snap ELSE @, !.statusError = ~ok,
                      !.checking = IF r.args.by = "check" THEN FALSE ELSE @,
                      !.behind = @ \/ ~ok]
  <2>1. StatusRests(ui, r) /\ r.op = "status" /\ (ok => r.done)
    BY <1>3 DEF homeStatusLoaded
  <2>2. /\ HasFields(ui, HomeFields) /\ (ui.checking => shown.checking /\ r.args.by # "check")
        /\ (ok => ui.status = r.snap)
        /\ ui.checkState = shown.checkState /\ (~ui.behind => ~shown.behind /\ ok)
    BY <1>1 DEF HomeInv, HasFields, HomeFields
  <2> HIDE DEF ui
  <2>3. /\ statusPage' = statusPage /\ gateway' = gateway /\ shown' = ui
        /\ statusNet' = statusNet \ {r} /\ Requests(statusNet')
    BY <1>1, <2>1, StatusRested
  <2>4. HomeInv'
    BY <1>1, <2>1, <2>2, <2>3 DEF HomeInv, InFlight
  <2> QED
    BY <1>1, <2>3, <2>4 DEF StatusInv
<1>4. CASE protectionChecked(r, ok) /\ ok
  <2> DEFINE ui == [shown EXCEPT !.checkState = r.snap, !.statusError = FALSE]
             args == [by |-> "check"]
             busy == InFlight(statusNet \ {r}, {"status"})
  <2>1. StatusGoesOn(ui, r, "status", args) /\ r.op = "check" /\ r.done /\ args.by = "check"
    BY <1>4 DEF protectionChecked
  <2>2. HasFields(ui, HomeFields) /\ ui.behind = shown.behind /\ ui.checkState = r.snap
    BY <1>1 DEF HomeInv, HasFields, HomeFields
  <2> HIDE DEF ui, args
  <2>3. /\ statusPage' = statusPage /\ gateway' = gateway
        /\ shown' = [ui EXCEPT !.behind = @ \/ busy]
        /\ Adds(statusNet \ {r}, statusNet', "status", args)
    BY <1>1, <2>1, StatusWentOn
  <2> HIDE DEF busy
  <2>4. PICK q : /\ statusNet' = (statusNet \ {r}) \cup {q} /\ q.op = "status" /\ q.args = args /\ ~q.done
                 /\ Requests(statusNet')
    BY <2>3 DEF Adds
  <2>5. HasFields(shown', HomeFields) /\ (~shown'.behind => ~busy) /\ shown'.checkState = r.snap
    BY <2>2, <2>3 DEF HasFields, HomeFields
  <2>6. ~busy => \A w \in statusNet' : w.op = "status" => w = q
    BY <2>4 DEF busy, InFlight
  <2>7. HomeInv'
    BY <1>1, <2>1, <2>3, <2>4, <2>5, <2>6 DEF HomeInv, InFlight
  <2> QED
    BY <1>1, <2>3, <2>4, <2>7 DEF StatusInv
<1>5. CASE protectionChecked(r, ok) /\ ~ok
  <2> DEFINE ui == [shown EXCEPT !.checkState = "failed", !.checking = FALSE]
  <2>1. StatusRests(ui, r) /\ r.op = "check"
    BY <1>5 DEF protectionChecked
  <2>2. HasFields(ui, HomeFields) /\ ~ui.checking /\ ui.checkState = "failed"
    BY <1>1 DEF HomeInv, HasFields, HomeFields
  <2> HIDE DEF ui
  <2>3. /\ statusPage' = statusPage /\ gateway' = gateway /\ shown' = ui
        /\ statusNet' = statusNet \ {r} /\ Requests(statusNet')
    BY <1>1, <2>1, StatusRested
  <2>4. HomeInv'
    BY <1>1, <2>2, <2>3 DEF HomeInv
  <2> QED
    BY <1>1, <2>3, <2>4 DEF StatusInv
<1> QED
  BY <1>2, <1>3, <1>4, <1>5

\* Every step of a page of status.
LEMMA StatusNextInv == StatusInv /\ [StatusNext]_statusVars => StatusInv'
<1> SUFFICES ASSUME StatusInv, [StatusNext]_statusVars PROVE StatusInv'
  OBVIOUS
<1>1. CASE UNCHANGED statusVars
  <2>1. statusPage' = statusPage /\ shown' = shown /\ statusNet' = statusNet /\ gateway' = gateway
    BY <1>1 DEF statusVars
  <2>2. (DnsInv => DnsInv') /\ (TailscaleInv => TailscaleInv')
    BY <2>1 DEF DnsInv, TailscaleInv, One, InFlight
  <2>3. (AiInv => AiInv') /\ (HomeInv => HomeInv')
    BY <2>1 DEF AiInv, AiSteady, HomeInv, One, InFlight
  <2> QED
    BY <2>1, <2>2, <2>3 DEF StatusInv
<1> QED
  BY <1>1, StatusServe, DnsStep, DnsLoaded, TailscaleAsk, TailscaleAnswered, AiAsk, AiRead, AiSaved, HomeAsk,
     HomeAnswered DEF StatusNext

\* What the pages of status owe the screen.
LEMMA StatusKept == StatusInv => StatusBusy /\ StatusAgrees
<1> SUFFICES ASSUME StatusInv PROVE StatusBusy /\ StatusAgrees
  OBVIOUS
<1>1. CASE statusPage = "dns"
  BY <1>1 DEF StatusInv, DnsInv, StatusBusy, StatusAgrees, dnsView
<1>2. CASE statusPage = "tailscale"
  BY <1>2 DEF StatusInv, TailscaleInv, StatusBusy, StatusAgrees, InFlight
<1>3. CASE statusPage = "ai"
  <2>1. AiInv
    BY <1>3 DEF StatusInv
  <2>2. StatusBusy
    BY <1>3, <2>1 DEF AiInv, OfSave, StatusBusy, InFlight
  <2>3. statusNet = {} /\ ~shown.behind => /\ shown.persisted = gateway /\ shown.filterMode = gateway
                                           /\ shown.status = gateway /\ gateway \in Providers
    BY <2>1 DEF AiInv, AiSteady
  <2>4. StatusAgrees
    BY <1>3, <2>3, StatusAssumption DEF StatusAgrees, selectedProviderProbe
  <2> QED
    BY <2>2, <2>4
<1>4. CASE statusPage = "home"
  BY <1>4 DEF StatusInv, HomeInv, StatusBusy, StatusAgrees, InFlight
<1> QED
  BY <1>1, <1>2, <1>3, <1>4 DEF StatusInv, StatusPageNames
-----------------------------------------------------------------------------
(* The session *)

SessionFields == {"state", "path", "jwt", "loggedIn", "statusLoaded", "submitting", "back", "wentBack"}

SessionShape ==
    /\ HasFields(session, SessionFields) /\ HasFields(auth, {"complete", "generation"})
    /\ session.state \in {"checking", "error", "setup", "login", "authenticated"}
    /\ auth.complete \in BOOLEAN /\ auth.generation \in Nat
    /\ Requests(sessionNet)

\* Which requests are under way in which state.
SessionOps ==
    /\ session.state = "checking" => \E r : sessionNet = {r} /\ r.op \in {"status", "verify"}
    /\ session.state = "error" => sessionNet = {}
    /\ session.state = "setup" => \A r \in sessionNet : r.op \in {"setupStatus", "setup"}
    /\ session.state \in {"login", "authenticated"} => \A r \in sessionNet : r.op \in {"login", "api", "password"}
    /\ session.submitting => InFlight(sessionNet, {"login", "setup"})
    /\ session.state \in {"login", "authenticated"} \/ InFlight(sessionNet, {"verify"}) => auth.complete

SessionPaths ==
    ~session.wentBack => /\ session.state = "login" => session.path = "/login"
                         /\ session.state = "setup" => session.path = "/setup" \/ auth.complete

\* A token is of this or an earlier generation; what the server found and has
\* not told yet.
IsToken(t) == t = None \/ (auth.complete /\ t \in 0 .. auth.generation)

SessionTokens ==
    /\ IsToken(session.jwt)
    /\ \A r \in sessionNet : IsToken(r.args.token)
    /\ \A r \in sessionNet : r.done =>
         /\ r.snap.complete => auth.complete
         /\ r.snap.generation \in 0 .. auth.generation
         /\ r.op \in {"api", "password"} /\ ~r.snap.accepted => r.args.token # auth.generation

SessionInv == SessionShape /\ SessionOps /\ SessionPaths /\ SessionTokens

\* The tokens after a step of the browser.
LEMMA TokensKept ==
    ASSUME SessionInv, auth' = auth,
           \A w \in sessionNet' : w \in sessionNet \/ (~w.done /\ w.args.token = session.jwt),
           IsToken(session'.jwt)
    PROVE  SessionTokens'
BY DEF SessionInv, SessionTokens, IsToken

\* A request with the token of the browser.
LEMMA SessionAsked ==
    ASSUME NEW net, Requests(net), NEW op, NEW next, next = AskSession(net, op)
    PROVE  \E q : /\ next = net \cup {q} /\ q.op = op /\ ~q.done /\ q.args.token = session.jwt
                  /\ Requests(next)
<1> DEFINE args == [token |-> session.jwt]
<1>1. next = Send(net, op, args) /\ args.token = session.jwt
  BY DEF AskSession
<1> HIDE DEF args
<1>2. Adds(net, next, op, args)
  BY <1>1, SendAdds, Zenon
<1> QED
  BY <1>1, <1>2 DEF Adds

\* The first page load.
LEMMA SessionInitInv == SessionInit => SessionInv
<1> SUFFICES ASSUME SessionInit PROVE SessionInv
  OBVIOUS
<1>1. PICK path \in Paths, jwt \in {None, 0, 1} :
        /\ ~auth.complete => jwt = None
        /\ session = Loaded(path, jwt, {}, FALSE)
        /\ sessionNet = Send({}, "status", [token |-> jwt])
  BY DEF SessionInit
<1> DEFINE args == [token |-> jwt]
<1>2. sessionNet = Send({}, "status", args) /\ args.token = jwt /\ Requests({})
  BY <1>1 DEF Requests
<1> HIDE DEF args
<1>3. Adds({}, sessionNet, "status", args)
  BY <1>2, SendAdds, Zenon
<1>4. PICK q : sessionNet = {q} /\ q.op = "status" /\ ~q.done /\ q.args.token = jwt /\ Requests(sessionNet)
  BY <1>2, <1>3 DEF Adds
<1>5. /\ HasFields(session, SessionFields) /\ session.state = "checking" /\ session.jwt = jwt
      /\ ~session.submitting
  BY <1>1 DEF Loaded, HasFields, SessionFields
<1>6. HasFields(auth, {"complete", "generation"}) /\ auth.complete \in BOOLEAN /\ auth.generation = 1
  BY DEF SessionInit, HasFields
<1>7. IsToken(jwt)
  BY <1>1, <1>6 DEF IsToken
<1>8. SessionOps
  BY <1>4, <1>5 DEF SessionOps, InFlight
<1>9. SessionTokens /\ SessionPaths
  BY <1>4, <1>5, <1>7 DEF SessionTokens, SessionPaths
<1> QED
  BY <1>4, <1>5, <1>6, <1>8, <1>9 DEF SessionInv, SessionShape

\* A page load.
LEMMA SessionLoads ==
    ASSUME SessionInv, NEW path, PageLoads(path), auth' = auth
    PROVE  SessionInv'
<1>1. session' = Loaded(path, session.jwt, session.back, session.wentBack) /\ sessionNet' = AskSession({}, "status")
  BY DEF PageLoads
<1>2. PICK q : sessionNet' = {q} /\ q.op = "status" /\ ~q.done /\ q.args.token = session.jwt /\ Requests(sessionNet')
  BY <1>1, SessionAsked DEF Requests
<1>3. /\ HasFields(session', SessionFields) /\ session'.state = "checking" /\ session'.jwt = session.jwt
      /\ ~session'.submitting
  BY <1>1 DEF Loaded, HasFields, SessionFields
<1>4. SessionTokens'
  BY <1>2, <1>3, TokensKept DEF SessionInv, SessionTokens
<1>5. SessionShape'
  BY <1>2, <1>3 DEF SessionInv, SessionShape
<1>6. SessionOps' /\ SessionPaths'
  BY <1>2, <1>3 DEF SessionOps, SessionPaths, InFlight
<1> QED
  BY <1>4, <1>5, <1>6 DEF SessionInv

\* The server acts on a request.
LEMMA SessionServe ==
    ASSUME SessionInv, NEW r \in sessionNet, ServeSession(r)
    PROVE  SessionInv'
<1> DEFINE found == [complete |-> auth.complete, generation |-> auth.generation,
                     accepted |-> IF r.op = "setup" THEN ~auth.complete ELSE Accepted(r.args.token)]
<1>1. session' = session /\ ~r.done /\ sessionNet' = Served(sessionNet, r, found)
  BY DEF ServeSession
<1>2. /\ found.complete = auth.complete /\ found.generation = auth.generation
      /\ r.op \in {"api", "password"} => found.accepted = Accepted(r.args.token)
  OBVIOUS
<1> HIDE DEF found
<1>3. Serves(sessionNet, sessionNet', r, found)
  BY <1>1, ServedServes, Zenon DEF SessionInv, SessionShape
<1>4. PICK q : /\ sessionNet' = (sessionNet \ {r}) \cup {q}
               /\ q.op = r.op /\ q.args = r.args /\ q.done /\ q.snap = found
               /\ Requests(sessionNet')
  BY <1>3 DEF Serves
<1>5. /\ HasFields(auth', {"complete", "generation"}) /\ auth'.complete \in BOOLEAN /\ auth'.generation \in Nat
      /\ auth.complete => auth'.complete
      /\ auth'.generation = auth.generation \/ auth'.generation = auth.generation + 1
      /\ auth'.generation # auth.generation => r.op = "password" /\ Accepted(r.args.token)
  <2>1. HasFields(auth, {"complete", "generation"}) /\ auth.complete \in BOOLEAN /\ auth.generation \in Nat
    BY DEF SessionInv, SessionShape
  <2>2. CASE auth' = [auth EXCEPT !.complete = TRUE]
    BY <2>1, <2>2 DEF HasFields
  <2>3. CASE auth' = [auth EXCEPT !.generation = @ + 1] /\ r.op = "password" /\ Accepted(r.args.token)
    BY <2>1, <2>3 DEF HasFields
  <2>4. CASE auth' = auth
    BY <2>1, <2>4
  <2> QED
    BY <2>2, <2>3, <2>4 DEF ServeSession
<1>6. \A t : IsToken(t) => IsToken(t)'
  BY <1>5 DEF IsToken, SessionInv, SessionShape
<1>7. SessionTokens'
  <2>1. IsToken(session.jwt)'
    BY <1>1, <1>6 DEF SessionInv, SessionTokens, IsToken
  <2>2. \A w \in sessionNet' : IsToken(w.args.token)'
    BY <1>4, <1>6 DEF SessionInv, SessionTokens
  <2>3. ASSUME NEW w \in sessionNet', w.done
        PROVE  /\ w.snap.complete => auth'.complete
               /\ w.snap.generation \in 0 .. auth'.generation
    BY <1>2, <1>4, <1>5, <2>3 DEF SessionInv, SessionShape, SessionTokens
  <2>4. ASSUME NEW w \in sessionNet', w.done, w.op \in {"api", "password"}, ~w.snap.accepted
        PROVE  w.args.token # auth'.generation
    <3>1. CASE w = q
      <4>1. auth'.generation = auth.generation /\ ~Accepted(r.args.token) /\ IsToken(r.args.token)
        BY <1>2, <1>4, <1>5, <2>4, <3>1 DEF SessionInv, SessionTokens
      <4> QED
        BY <1>4, <3>1, <4>1, SessionAssumption DEF Accepted, IsToken, SessionInv, SessionShape
    <3>2. CASE w # q
      <4>1. w \in sessionNet /\ w.args.token # auth.generation /\ IsToken(w.args.token)
        BY <1>4, <2>4, <3>2 DEF SessionInv, SessionTokens
      <4> QED
        BY <1>5, <4>1, SessionAssumption DEF IsToken, SessionInv, SessionShape
    <3> QED
      BY <3>1, <3>2
  <2> QED
    BY <1>1, <2>1, <2>2, <2>3, <2>4 DEF SessionTokens, IsToken
<1>8. SessionShape' /\ SessionPaths'
  BY <1>1, <1>4, <1>5 DEF SessionInv, SessionShape, SessionPaths
<1>9. SessionOps'
  BY <1>1, <1>4, <1>5 DEF SessionInv, SessionOps, InFlight
<1> QED
  BY <1>7, <1>8, <1>9 DEF SessionInv

\* Another administrator completes the setup or changes the credentials.
LEMMA SessionElsewhere ==
    ASSUME SessionInv, SetupElsewhere \/ PasswordElsewhere
    PROVE  SessionInv'
<1>1. session' = session /\ sessionNet' = sessionNet
  BY DEF SetupElsewhere, PasswordElsewhere
<1>2. /\ HasFields(auth', {"complete", "generation"}) /\ auth'.complete \in BOOLEAN /\ auth'.generation \in Nat
      /\ auth.complete => auth'.complete
      /\ auth'.generation = auth.generation \/ auth'.generation = auth.generation + 1
  <2>1. HasFields(auth, {"complete", "generation"}) /\ auth.complete \in BOOLEAN /\ auth.generation \in Nat
    BY DEF SessionInv, SessionShape
  <2>2. CASE SetupElsewhere
    BY <2>1, <2>2 DEF SetupElsewhere, HasFields
  <2>3. CASE PasswordElsewhere
    BY <2>1, <2>3 DEF PasswordElsewhere, HasFields
  <2> QED
    BY <2>2, <2>3
<1>3. \A t : IsToken(t) => IsToken(t)' /\ (t # auth.generation => t # auth'.generation)
  BY <1>2, SessionAssumption DEF IsToken, SessionInv, SessionShape
<1>4. SessionTokens'
  <2>1. IsToken(session.jwt)' /\ \A w \in sessionNet' : IsToken(w.args.token)'
    BY <1>1, <1>3 DEF SessionInv, SessionTokens, IsToken
  <2>2. ASSUME NEW w \in sessionNet', w.done
        PROVE  /\ w.snap.complete => auth'.complete
               /\ w.snap.generation \in 0 .. auth'.generation
               /\ w.op \in {"api", "password"} /\ ~w.snap.accepted => w.args.token # auth'.generation
    BY <1>1, <1>2, <1>3, <2>2 DEF SessionInv, SessionShape, SessionTokens
  <2> QED
    BY <1>1, <2>1, <2>2 DEF SessionTokens, IsToken
<1>5. SessionShape' /\ SessionPaths'
  BY <1>1, <1>2 DEF SessionInv, SessionShape, SessionPaths
<1>6. SessionOps'
  BY <1>1, <1>2 DEF SessionInv, SessionOps, InFlight
<1> QED
  BY <1>4, <1>5, <1>6 DEF SessionInv

\* A step that changes what is shown and sends nothing, in a state in which
\* requests of pages may be under way.
LEMMA SessionMoves ==
    ASSUME SessionInv, GoBack(session'.path) \/ logout \/ \E to \in Protected : Navigate(to)
    PROVE  SessionInv'
<1>1. sessionNet' = sessionNet /\ auth' = auth
  BY DEF GoBack, logout, Navigate
<1>2. /\ HasFields(session', SessionFields)
      /\ session'.jwt = session.jwt \/ session'.jwt = None
      /\ session'.submitting = session.submitting
      /\ \/ session'.state = session.state /\ session'.wentBack
         \/ session'.state = "login" /\ session'.path = "/login" /\ session.state = "authenticated"
         \/ session'.state = "authenticated" /\ session.state = "authenticated"
  <2>1. CASE GoBack(session'.path)
    <3> DEFINE path == session'.path
    <3>1. session' = [session EXCEPT !.path = path, !.wentBack = TRUE]
      BY <2>1 DEF GoBack
    <3> HIDE DEF path
    <3> QED
      BY <3>1 DEF SessionInv, SessionShape, HasFields, SessionFields
  <2>2. CASE logout
    BY <2>2 DEF logout, gsReplace, setLoggedOut, SessionInv, SessionShape, HasFields, SessionFields
  <2>3. CASE \E to \in Protected : Navigate(to)
    BY <2>3 DEF Navigate, gsNavigate, SessionInv, SessionShape, HasFields, SessionFields
  <2> QED
    BY <2>1, <2>2, <2>3
<1>3. IsToken(session'.jwt)
  BY <1>2 DEF SessionInv, SessionTokens, IsToken
<1>4. SessionTokens'
  BY <1>1, <1>3, TokensKept
<1>5. SessionShape' /\ SessionPaths'
  BY <1>1, <1>2 DEF SessionInv, SessionShape, SessionPaths
<1>6. SessionOps'
  BY <1>1, <1>2 DEF SessionInv, SessionOps, InFlight
<1> QED
  BY <1>4, <1>5, <1>6 DEF SessionInv

\* A request of the setup page, the login, the header or a page.
LEMMA SessionAsks ==
    ASSUME SessionInv, RetrySetupStatus \/ submitSetup \/ handleLogin \/ savePassword \/ PageAsks
    PROVE  SessionInv'
<1>1. PICK op : /\ sessionNet' = AskSession(sessionNet, op) /\ auth' = auth
                /\ session' = session \/ (session' = [session EXCEPT !.submitting = TRUE] /\ op \in {"setup", "login"})
                /\ \/ session.state = "setup" /\ op \in {"setupStatus", "setup"}
                   \/ session.state \in {"login", "authenticated"} /\ op \in {"login", "api", "password"}
  <2>1. (Screen = "setup" => session.state = "setup") /\ (Screen = "login" => session.state = "login")
        /\ (Screen = "page" => session.state = "authenticated")
    BY DEF Screen, SessionInv, SessionShape
  <2>2. CASE RetrySetupStatus
    BY <2>1, <2>2 DEF RetrySetupStatus
  <2>3. CASE submitSetup
    BY <2>1, <2>3 DEF submitSetup
  <2>4. CASE handleLogin
    BY <2>1, <2>4 DEF handleLogin
  <2>5. CASE savePassword
    BY <2>1, <2>5 DEF savePassword
  <2>6. CASE PageAsks
    BY <2>1, <2>6 DEF PageAsks
  <2> QED
    BY <2>2, <2>3, <2>4, <2>5, <2>6
<1>2. PICK q : /\ sessionNet' = sessionNet \cup {q} /\ q.op = op /\ ~q.done /\ q.args.token = session.jwt
               /\ Requests(sessionNet')
  BY <1>1, SessionAsked DEF SessionInv, SessionShape
<1>3. /\ HasFields(session', SessionFields) /\ session'.jwt = session.jwt /\ session'.state = session.state
      /\ session'.path = session.path /\ session'.wentBack = session.wentBack
      /\ session'.submitting => session.submitting \/ op \in {"setup", "login"}
  BY <1>1 DEF SessionInv, SessionShape, HasFields, SessionFields
<1>4. SessionTokens'
  BY <1>1, <1>2, <1>3, TokensKept DEF SessionInv, SessionTokens
<1>5. SessionShape' /\ SessionPaths'
  BY <1>1, <1>2, <1>3 DEF SessionInv, SessionShape, SessionPaths
<1>6. SessionOps'
  BY <1>1, <1>2, <1>3 DEF SessionInv, SessionOps, InFlight
<1> QED
  BY <1>4, <1>5, <1>6 DEF SessionInv

\* The check of the session at a page load: the status of the setup.
LEMMA SessionChecked ==
    ASSUME SessionInv, RetryStatusCheck \/ \E r \in sessionNet, ok \in BOOLEAN : setupStatus(r, ok)
    PROVE  SessionInv'
<1>1. CASE RetryStatusCheck
  <2>1. sessionNet' = AskSession(sessionNet, "status") /\ auth' = auth /\ session.state = "error"
    BY <1>1 DEF RetryStatusCheck, Screen, SessionInv, SessionShape
  <2>2. PICK q : /\ sessionNet' = sessionNet \cup {q} /\ q.op = "status" /\ ~q.done /\ q.args.token = session.jwt
                 /\ Requests(sessionNet')
    BY <2>1, SessionAsked DEF SessionInv, SessionShape
  <2>3. /\ HasFields(session', SessionFields) /\ session'.jwt = session.jwt /\ session'.state = "checking"
        /\ session'.submitting = session.submitting
    BY <1>1 DEF RetryStatusCheck, SessionInv, SessionShape, HasFields, SessionFields
  <2>4. sessionNet' = {q} /\ ~session'.submitting
    BY <2>1, <2>2, <2>3 DEF SessionInv, SessionOps, InFlight
  <2>5. SessionTokens'
    BY <2>1, <2>2, <2>3, TokensKept DEF SessionInv, SessionTokens
  <2>6. SessionShape' /\ SessionPaths'
    BY <2>1, <2>2, <2>3 DEF SessionInv, SessionShape, SessionPaths
  <2>7. SessionOps'
    BY <2>2, <2>3, <2>4 DEF SessionOps, InFlight
  <2> QED
    BY <2>5, <2>6, <2>7 DEF SessionInv
<1>2. ASSUME NEW r \in sessionNet, NEW ok \in BOOLEAN, setupStatus(r, ok)
      PROVE  SessionInv'
  <2>1. auth' = auth /\ r.op = "status" /\ (ok => r.done)
    BY <1>2 DEF setupStatus, SessionRests
  <2>2. session.state = "checking" /\ sessionNet = {r} /\ sessionNet \ {r} = {} /\ ~session.submitting
    BY <2>1 DEF SessionInv, SessionShape, SessionOps, InFlight
  <2>3. CASE ~ok
    <3>1. sessionNet' = {} /\ session' = [session EXCEPT !.state = "error"]
      BY <1>2, <2>2, <2>3 DEF setupStatus, SessionRests
    <3>2. /\ HasFields(session', SessionFields) /\ session'.jwt = session.jwt /\ session'.state = "error"
          /\ ~session'.submitting
      BY <2>2, <3>1 DEF SessionInv, SessionShape, HasFields, SessionFields
    <3>3. SessionTokens'
      BY <2>1, <3>1, <3>2, TokensKept DEF SessionInv, SessionTokens
    <3>4. SessionShape' /\ SessionPaths' /\ SessionOps'
      BY <2>1, <3>1, <3>2 DEF SessionInv, SessionShape, SessionPaths, SessionOps, Requests, InFlight
    <3> QED
      BY <3>3, <3>4 DEF SessionInv
  <2>4. CASE ok /\ r.snap.complete
    <3>1. session' = session /\ sessionNet' = AskSession({}, "verify")
      BY <1>2, <2>2, <2>4 DEF setupStatus
    <3>2. PICK q : /\ sessionNet' = {q} /\ q.op = "verify" /\ ~q.done /\ q.args.token = session.jwt
                   /\ Requests(sessionNet')
      BY <3>1, SessionAsked DEF Requests
    <3>3. auth.complete
      BY <2>1, <2>4 DEF SessionInv, SessionTokens
    <3>4. SessionTokens'
      BY <2>1, <3>1, <3>2, TokensKept DEF SessionInv, SessionTokens
    <3>5. SessionShape' /\ SessionPaths' /\ SessionOps'
      BY <2>1, <2>2, <3>1, <3>2, <3>3 DEF SessionInv, SessionShape, SessionPaths, SessionOps, InFlight
    <3> QED
      BY <3>4, <3>5 DEF SessionInv
  <2>5. CASE ok /\ ~r.snap.complete
    <3>1. /\ session' = [gsReplace(setLoggedOut(session), "/setup") EXCEPT !.state = "setup"]
          /\ sessionNet' = AskSession({}, "setupStatus")
      BY <1>2, <2>2, <2>5 DEF setupStatus
    <3>2. PICK q : /\ sessionNet' = {q} /\ q.op = "setupStatus" /\ ~q.done /\ q.args.token = session.jwt
                   /\ Requests(sessionNet')
      BY <3>1, SessionAsked DEF Requests
    <3>3. /\ HasFields(session', SessionFields) /\ session'.jwt = None /\ session'.state = "setup"
          /\ ~session'.submitting /\ session'.path = "/setup"
      BY <2>2, <3>1 DEF gsReplace, setLoggedOut, SessionInv, SessionShape, HasFields, SessionFields
    <3>4. SessionTokens'
      BY <2>1, <3>2, <3>3, TokensKept DEF IsToken
    <3>5. SessionShape' /\ SessionPaths' /\ SessionOps'
      BY <2>1, <3>2, <3>3 DEF SessionInv, SessionShape, SessionPaths, SessionOps, InFlight
    <3> QED
      BY <3>4, <3>5 DEF SessionInv
  <2> QED
    BY <2>3, <2>4, <2>5
<1> QED
  BY <1>1, <1>2

\* An answer arrives and nothing is sent.
LEMMA SessionRested ==
    ASSUME SessionInv, NEW r \in sessionNet, NEW ui, SessionRests(ui, r),
           HasFields(ui, SessionFields), ui.state \in {"error", "setup", "login", "authenticated"},
           IsToken(ui.jwt),
           ui.submitting => session.submitting /\ r.op \notin {"login", "setup"},
           ~ui.wentBack => ~session.wentBack,
           \/ ui.state = session.state /\ (ui.path = session.path \/ ui.state = "authenticated")
           \/ ui.state = session.state /\ ui.path = "/login" /\ (ui.state = "setup" => auth.complete)
           \/ ui.state = "login" /\ ui.path = "/login" /\ r.op = "verify"
           \/ ui.state = "authenticated" /\ r.op \in {"verify", "login"}
           \/ ui.state = "error" /\ r.op = "verify"
    PROVE  SessionInv'
<1>1. session' = ui /\ sessionNet' = sessionNet \ {r} /\ auth' = auth
  BY DEF SessionRests
<1>2. SessionTokens'
  BY <1>1, TokensKept
<1>3. Requests(sessionNet')
  BY <1>1, AnsweredRequests DEF SessionInv, SessionShape
<1>4. SessionShape'
  BY <1>1, <1>3 DEF SessionInv, SessionShape
<1>5. SessionPaths'
  BY <1>1 DEF SessionInv, SessionPaths
<1>6. r.op = "verify" => sessionNet = {r} /\ auth.complete /\ ~session.submitting
  BY DEF SessionInv, SessionShape, SessionOps, InFlight
<1>7. r.op = "login" => session.state \in {"login", "authenticated"}
  BY DEF SessionInv, SessionShape, SessionOps
<1>8. SessionOps'
  <2>1. CASE r.op = "verify"
    BY <1>1, <1>6, <2>1 DEF SessionInv, SessionOps, InFlight
  <2>2. CASE r.op # "verify"
    BY <1>1, <1>7, <2>2 DEF SessionInv, SessionOps, InFlight
  <2> QED
    BY <2>1, <2>2
<1> QED
  BY <1>2, <1>4, <1>5, <1>8 DEF SessionInv

\* The answers to the check of the token, on the setup page, to a login and to
\* a request of a page.
LEMMA SessionAnswered ==
    ASSUME SessionInv, NEW r \in sessionNet,
           \/ \E ok \in BOOLEAN : setupLoadStatus(r, ok) \/ setupSubmitted(r, ok) \/ loginAnswered(r, ok)
           \/ \E answer \in {"ok", "refused", "failed"} : verifyToken(r, answer)
           \/ \E answer \in {"ok", "401", "failed"} : doCall(r, answer)
    PROVE  SessionInv'
<1>1. /\ HasFields(session, SessionFields) /\ IsToken(session.jwt) /\ IsToken(None)
      /\ r.op \in {"setupStatus", "setup"} => session.state = "setup"
      /\ r.op \in {"login", "api", "password"} => session.state \in {"login", "authenticated"}
  BY DEF SessionInv, SessionShape, SessionOps, SessionTokens, IsToken
<1>2. ASSUME NEW ok \in BOOLEAN, setupLoadStatus(r, ok)
      PROVE  SessionInv'
  <2> DEFINE ui == IF ~ok THEN session
                   ELSE IF r.snap.complete THEN gsNavigate(session, "/login")
                   ELSE [session EXCEPT !.statusLoaded = TRUE]
  <2>1. SessionRests(ui, r) /\ r.op = "setupStatus" /\ (ok => r.done)
    BY <1>2 DEF setupLoadStatus
  <2>2. ok /\ r.snap.complete => auth.complete
    BY <2>1 DEF SessionInv, SessionTokens
  <2>3. /\ HasFields(ui, SessionFields) /\ ui.state = session.state /\ ui.jwt = session.jwt
        /\ ui.submitting = session.submitting /\ ui.wentBack = session.wentBack
        /\ ui.path = session.path \/ (ui.path = "/login" /\ auth.complete)
    <3>1. CASE ~ok
      BY <1>1, <3>1
    <3>2. CASE ok /\ r.snap.complete
      BY <1>1, <2>2, <3>2 DEF gsNavigate, HasFields, SessionFields
    <3>3. CASE ok /\ ~r.snap.complete
      BY <1>1, <3>3 DEF HasFields, SessionFields
    <3> QED
      BY <3>1, <3>2, <3>3
  <2> HIDE DEF ui
  <2> QED
    BY <1>1, <2>1, <2>3, SessionRested
<1>3. ASSUME NEW ok \in BOOLEAN, setupSubmitted(r, ok)
      PROVE  SessionInv'
  <2>1. CASE ok
    BY <1>3, <2>1, SessionLoads DEF setupSubmitted
  <2>2. CASE ~ok
    <3> DEFINE ui == [session EXCEPT !.submitting = FALSE]
    <3>1. SessionRests(ui, r) /\ r.op = "setup"
      BY <1>3, <2>2 DEF setupSubmitted
    <3>2. /\ HasFields(ui, SessionFields) /\ ui.state = session.state /\ ui.jwt = session.jwt
          /\ ~ui.submitting /\ ui.wentBack = session.wentBack /\ ui.path = session.path
      BY <1>1 DEF HasFields, SessionFields
    <3> HIDE DEF ui
    <3> QED
      BY <1>1, <3>1, <3>2, SessionRested
  <2> QED
    BY <2>1, <2>2
<1>4. ASSUME NEW ok \in BOOLEAN, loginAnswered(r, ok)
      PROVE  SessionInv'
  <2>1. r.op = "login" /\ (ok => r.done)
    BY <1>4 DEF loginAnswered
  <2>2. CASE ok
    <3> DEFINE token == r.snap.generation
               ui == [gsReplace(setLoggedIn(session, token), "/") EXCEPT !.state = "authenticated", !.submitting = FALSE]
    <3>1. SessionRests(ui, r)
      BY <1>4, <2>2 DEF loginAnswered
    <3>2. IsToken(token)
      BY <1>1, <2>1, <2>2 DEF SessionInv, SessionOps, SessionTokens, IsToken
    <3> HIDE DEF token
    <3>3. /\ HasFields(ui, SessionFields) /\ ui.state = "authenticated" /\ ui.jwt = token
          /\ ~ui.submitting /\ ui.wentBack = session.wentBack
      BY <1>1 DEF gsReplace, setLoggedIn, HasFields, SessionFields
    <3> HIDE DEF ui
    <3> QED
      BY <2>1, <3>1, <3>2, <3>3, SessionRested
  <2>3. CASE ~ok
    <3> DEFINE ui == [session EXCEPT !.submitting = FALSE]
    <3>1. SessionRests(ui, r)
      BY <1>4, <2>3 DEF loginAnswered
    <3>2. /\ HasFields(ui, SessionFields) /\ ui.state = session.state /\ ui.jwt = session.jwt
          /\ ~ui.submitting /\ ui.wentBack = session.wentBack /\ ui.path = session.path
      BY <1>1 DEF HasFields, SessionFields
    <3> HIDE DEF ui
    <3> QED
      BY <1>1, <2>1, <3>1, <3>2, SessionRested
  <2> QED
    BY <2>2, <2>3
<1>5. ASSUME NEW answer, verifyToken(r, answer)
      PROVE  SessionInv'
  <2> DEFINE home == IF session.path \in {"/login", "/setup"} THEN "/" ELSE session.path
             a == [gsReplace(setLoggedIn(session, session.jwt), home) EXCEPT !.state = "authenticated"]
             b == [gsReplace(setLoggedOut(session), "/login") EXCEPT !.state = "login"]
             c == [session EXCEPT !.state = "error"]
  <2>1. r.op = "verify" /\ (SessionRests(a, r) \/ SessionRests(b, r) \/ SessionRests(c, r))
    BY <1>5 DEF verifyToken
  <2>2. ~session.submitting
    BY <2>1 DEF SessionInv, SessionShape, SessionOps, InFlight
  <2> HIDE DEF home
  <2>3. /\ HasFields(a, SessionFields) /\ a.state = "authenticated" /\ a.jwt = session.jwt
        /\ ~a.submitting /\ a.wentBack = session.wentBack
    BY <1>1, <2>2 DEF gsReplace, setLoggedIn, HasFields, SessionFields
  <2>4. /\ HasFields(b, SessionFields) /\ b.state = "login" /\ b.jwt = None /\ b.path = "/login"
        /\ ~b.submitting /\ b.wentBack = session.wentBack
    BY <1>1, <2>2 DEF gsReplace, setLoggedOut, HasFields, SessionFields
  <2>5. /\ HasFields(c, SessionFields) /\ c.state = "error" /\ c.jwt = session.jwt
        /\ ~c.submitting /\ c.wentBack = session.wentBack
    BY <1>1, <2>2 DEF HasFields, SessionFields
  <2> HIDE DEF a, b, c
  <2>6. CASE SessionRests(a, r)
    BY <1>1, <2>1, <2>3, <2>6, SessionRested
  <2>7. CASE SessionRests(b, r)
    BY <1>1, <2>1, <2>4, <2>7, SessionRested
  <2>8. CASE SessionRests(c, r)
    BY <1>1, <2>1, <2>5, <2>8, SessionRested
  <2> QED
    BY <2>1, <2>6, <2>7, <2>8
<1>6. ASSUME NEW answer, doCall(r, answer)
      PROVE  SessionInv'
  <2> DEFINE a == gsNavigate(setLoggedOut(session), "/login")
             b == setLoggedOut(session)
  <2>1. r.op \in {"api", "password"} /\ (SessionRests(session, r) \/ SessionRests(a, r) \/ SessionRests(b, r))
    BY <1>6 DEF doCall
  <2>2. /\ HasFields(a, SessionFields) /\ a.state = session.state /\ a.jwt = None /\ a.path = "/login"
        /\ a.submitting = session.submitting /\ a.wentBack = session.wentBack
    BY <1>1 DEF gsNavigate, setLoggedOut, HasFields, SessionFields
  <2>3. /\ HasFields(b, SessionFields) /\ b.state = session.state /\ b.jwt = None /\ b.path = session.path
        /\ b.submitting = session.submitting /\ b.wentBack = session.wentBack
    BY <1>1 DEF setLoggedOut, HasFields, SessionFields
  <2> HIDE DEF a, b
  <2>4. CASE SessionRests(session, r)
    BY <1>1, <2>1, <2>4, SessionRested
  <2>5. CASE SessionRests(a, r)
    BY <1>1, <2>1, <2>2, <2>5, SessionRested
  <2>6. CASE SessionRests(b, r)
    BY <1>1, <2>1, <2>3, <2>6, SessionRested
  <2> QED
    BY <2>1, <2>4, <2>5, <2>6
<1> QED
  BY <1>2, <1>3, <1>4, <1>5, <1>6

\* Every step of the session.
LEMMA SessionNextInv == SessionInv /\ [SessionNext]_sessionVars => SessionInv'
<1> SUFFICES ASSUME SessionInv, [SessionNext]_sessionVars PROVE SessionInv'
  OBVIOUS
<1>1. CASE UNCHANGED sessionVars
  <2>1. session' = session /\ sessionNet' = sessionNet /\ auth' = auth
    BY <1>1 DEF sessionVars
  <2>2. SessionShape' /\ SessionPaths' /\ SessionOps'
    BY <2>1 DEF SessionInv, SessionShape, SessionPaths, SessionOps, InFlight
  <2>3. SessionTokens'
    BY <2>1 DEF SessionInv, SessionTokens, IsToken
  <2> QED
    BY <2>2, <2>3 DEF SessionInv
<1>2. CASE ReloadPage
  BY <1>2, SessionLoads DEF ReloadPage
<1>3. CASE \E path \in Paths : GoBack(path)
  <2>1. PICK path \in Paths : GoBack(path)
    BY <1>3
  <2>2. session'.path = path
    BY <2>1 DEF GoBack, SessionInv, SessionShape, HasFields, SessionFields
  <2> QED
    BY <2>1, <2>2, SessionMoves
<1> QED
  BY <1>1, <1>2, <1>3, SessionServe, SessionElsewhere, SessionMoves, SessionAsks, SessionChecked, SessionAnswered
     DEF SessionNext

\* What the session owes the screen.
LEMMA SessionKeptInv == SessionInv => NotBlank /\ SessionBusy
<1> SUFFICES ASSUME SessionInv PROVE NotBlank /\ SessionBusy
  OBVIOUS
<1>1. SessionBusy
  BY DEF SessionBusy, SessionInv, SessionOps, InFlight
<1>2. NotBlank
  BY DEF NotBlank, Screen, SessionInv, SessionShape, SessionPaths
<1> QED
  BY <1>1, <1>2

\* A token that the server accepts goes for one of the reasons of SessionKept.
LEMMA TokenKept ==
    ASSUME SessionInv, SessionNext, Accepted(session.jwt), session'.jwt = None
    PROVE  \/ session.state = "checking" \/ session'.path = "/login"
           \/ \E r \in sessionNet \ sessionNet' : r.args.token # session.jwt
<1>1. /\ HasFields(session, SessionFields) /\ session.jwt \in Nat /\ session.jwt # None
      /\ session.jwt = auth.generation
  BY SessionAssumption DEF SessionInv, SessionShape, Accepted
<1>2. CASE session'.jwt = session.jwt
  BY <1>1, <1>2
<1>3. CASE UNCHANGED session
  BY <1>1, <1>3
<1>4. CASE logout
  BY <1>1, <1>4 DEF logout, gsReplace, setLoggedOut, HasFields, SessionFields
<1>5. CASE RetryStatusCheck \/ ReloadPage \/ submitSetup \/ handleLogin
  BY <1>1, <1>5 DEF RetryStatusCheck, ReloadPage, PageLoads, Loaded, submitSetup, handleLogin, HasFields, SessionFields
<1>6. CASE (\E path \in Paths : GoBack(path)) \/ (\E to \in Protected : Navigate(to))
  BY <1>1, <1>6 DEF GoBack, Navigate, gsNavigate, HasFields, SessionFields
<1>7. ASSUME NEW r \in sessionNet, NEW ok \in BOOLEAN,
             setupStatus(r, ok) \/ setupLoadStatus(r, ok) \/ setupSubmitted(r, ok) \/ loginAnswered(r, ok)
      PROVE  session.state = "checking"
  <2>1. CASE setupStatus(r, ok)
    BY <2>1 DEF setupStatus, SessionInv, SessionShape, SessionOps
  <2>2. CASE setupLoadStatus(r, ok)
    BY <1>1, <2>2 DEF setupLoadStatus, SessionRests, gsNavigate, HasFields, SessionFields
  <2>3. CASE setupSubmitted(r, ok)
    BY <1>1, <2>3 DEF setupSubmitted, PageLoads, Loaded, SessionRests, HasFields, SessionFields
  <2>4. CASE loginAnswered(r, ok)
    <3>1. ok => r.snap.generation \in Nat
      BY <2>4 DEF loginAnswered, SessionInv, SessionShape, SessionTokens
    <3>2. session'.jwt = IF ok THEN r.snap.generation ELSE session.jwt
      BY <1>1, <2>4 DEF loginAnswered, SessionRests, gsReplace, setLoggedIn, HasFields, SessionFields
    <3> QED
      BY <1>1, <3>1, <3>2, SessionAssumption
  <2> QED
    BY <1>7, <2>1, <2>2, <2>3, <2>4
<1>8. ASSUME NEW r \in sessionNet, NEW answer, verifyToken(r, answer)
      PROVE  session.state = "checking"
  BY <1>8 DEF verifyToken, SessionInv, SessionShape, SessionOps
<1>9. ASSUME NEW r \in sessionNet, NEW answer, doCall(r, answer)
      PROVE  \/ session'.path = "/login"
             \/ \E q \in sessionNet \ sessionNet' : q.args.token # session.jwt
  <2>1. CASE answer = "ok" /\ r.op = "password"
    BY <1>1, <1>9, <2>1 DEF doCall, SessionRests, gsNavigate, setLoggedOut, HasFields, SessionFields
  <2>2. CASE session' = session
    BY <1>1, <2>2
  <2>3. CASE answer = "401"
    <3>1. r.done /\ ~r.snap.accepted /\ sessionNet' = sessionNet \ {r} /\ r.op \in {"api", "password"}
      BY <1>9, <2>3 DEF doCall, SessionRests
    <3>2. r.args.token # auth.generation
      BY <3>1 DEF SessionInv, SessionTokens
    <3> QED
      BY <1>1, <3>1, <3>2
  <2> QED
    BY <1>9, <2>1, <2>2, <2>3 DEF doCall, SessionRests
<1>10. CASE RetrySetupStatus \/ SetupElsewhere \/ savePassword \/ PageAsks \/ PasswordElsewhere
  BY <1>3, <1>10 DEF RetrySetupStatus, SetupElsewhere, savePassword, PageAsks, PasswordElsewhere
<1>11. ASSUME NEW r \in sessionNet, ServeSession(r) PROVE session' = session
  BY <1>11 DEF ServeSession
<1> QED
  BY <1>3, <1>4, <1>5, <1>6, <1>7, <1>8, <1>9, <1>10, <1>11 DEF SessionNext
-----------------------------------------------------------------------------
(* Sequences *)

\* A sequence without the element at i.
LEMMA RemoveAtProperties ==
    ASSUME NEW S, NEW s \in Seq(S), NEW i \in DOMAIN s
    PROVE  /\ RemoveAt(s, i) \in Seq(S)
           /\ Len(RemoveAt(s, i)) = Len(s) - 1
           /\ \A j \in 1 .. Len(s) - 1 : RemoveAt(s, i)[j] = IF j < i THEN s[j] ELSE s[j + 1]
<1>1. Len(s) \in Nat /\ i \in 1 .. Len(s)
  OBVIOUS
<1> DEFINE a == SubSeq(s, 1, i - 1)
           b == SubSeq(s, i + 1, Len(s))
<1>2. a \in Seq(S) /\ Len(a) = i - 1 /\ \A j \in 1 .. i - 1 : a[j] = s[j]
  BY <1>1
<1>3. b \in Seq(S) /\ Len(b) = Len(s) - i /\ \A j \in 1 .. Len(s) - i : b[j] = s[i + j]
  BY <1>1
<1>4. RemoveAt(s, i) = a \o b
  BY DEF RemoveAt
<1> HIDE DEF a, b
<1>5. RemoveAt(s, i) \in Seq(S) /\ Len(RemoveAt(s, i)) = Len(s) - 1
  BY <1>1, <1>2, <1>3, <1>4
<1>6. ASSUME NEW j \in 1 .. Len(s) - 1
      PROVE  RemoveAt(s, i)[j] = IF j < i THEN s[j] ELSE s[j + 1]
  <2>1. CASE j < i
    BY <1>1, <1>2, <1>3, <1>4, <2>1
  <2>2. CASE ~(j < i)
    <3>0. j \in Len(a) + 1 .. Len(a) + Len(b) /\ j - (i - 1) \in 1 .. Len(s) - i
      BY <1>1, <1>2, <1>3, <2>2, SMTT(30)
    <3>1. (a \o b)[j] = b[j - (i - 1)] /\ j - (i - 1) \in 1 .. Len(s) - i
      <4>1. (a \o b)[j] = b[j - Len(a)]
        <5>1. \A k \in 1 .. Len(a) + Len(b) : (a \o b)[k] = IF k <= Len(a) THEN a[k] ELSE b[k - Len(a)]
          BY <1>2, <1>3, ConcatProperties
        <5>2. j \in 1 .. Len(a) + Len(b) /\ ~(j <= Len(a))
          BY <1>2, <1>3, <3>0
        <5> QED
          BY <5>1, <5>2
      <4> QED
        BY <1>2, <3>0, <4>1
    <3>2. b[j - (i - 1)] = s[i + (j - (i - 1))] /\ i + (j - (i - 1)) = j + 1
      BY <1>1, <1>3, <3>1, SMTT(30)
    <3> QED
      BY <1>4, <2>2, <3>1, <3>2
  <2> QED
    BY <2>1, <2>2
<1> QED
  BY <1>5, <1>6

\* A set of numbers that is not empty has a least one.
LEMMA LeastNumber ==
    ASSUME NEW S, S \subseteq Nat, S # {}
    PROVE  Min(S) \in S /\ \A l \in S : Min(S) <= l
<1> DEFINE less == OpToRel(<, Nat)
<1>1. \A x, y \in Nat : x < y => <<x, y>> \in less
  BY DEF OpToRel
<1>2. IsWellFoundedOn(less, Nat)
  BY NatLessThanWellFounded
<1> HIDE DEF less
<1>3. PICK k \in S : \A l \in S : <<l, k>> \notin less
  BY <1>2, WFMin
<1>4. \A l \in S : ~(l < k)
  BY <1>1, <1>3
<1>5. \A l \in S : k <= l
  BY <1>4, SMT
<1> QED
  BY <1>5 DEF Min

-----------------------------------------------------------------------------
(* The draft of a policy *)

Schedules == [preset : {None, "bedtime"}, hours : Hours]
Rule == [enabled : BOOLEAN, action : {"block", "allow"}, all_traffic : BOOLEAN,
         conditions : SUBSET Conditions, schedule : Schedules \cup {None}, users : SUBSET RuleUsers]

DraftInv ==
    /\ HasFields(draft, {"isDefault", "users", "rules"}) /\ HasFields(advanced, {"open", "turned"})
    /\ draft.rules \in Seq(Rule)
    /\ NothingHidden

\* The switch stands for the first rule that has the shape of a bedtime.
LEMMA BedtimeIndex ==
    ASSUME NEW rules \in Seq(Rule)
    PROVE  \/ bedtimeIndex(rules) = 0 /\ bedtimes(rules) = {}
           \/ bedtimeIndex(rules) \in bedtimes(rules) /\ \A n \in bedtimes(rules) : bedtimeIndex(rules) <= n
<1>1. DOMAIN rules = 1 .. Len(rules) /\ Len(rules) \in Nat
  OBVIOUS
<1>2. bedtimeIndex(rules) = IF bedtimes(rules) # {} THEN Min(bedtimes(rules)) ELSE 0
  BY <1>1 DEF bedtimeIndex, SelectInSeq, bedtimes
<1>3. bedtimes(rules) \subseteq Nat
  BY <1>1 DEF bedtimes
<1> QED
  BY <1>2, <1>3, LeastNumber

\* The rule that the switch adds has that shape.
LEMMA BedtimeShape ==
    bedtimeRule \in Rule /\ isBedtimeRule(bedtimeRule) /\ emptyRule \in Rule
<1>1. Schedule(None, BedtimeHours) \in Schedules
  BY DraftAssumption DEF Schedule, Schedules
<1>2. bedtimeRule \in Rule /\ emptyRule \in Rule
  BY <1>1 DEF bedtimeRule, emptyRule, Rule
<1>3. Schedule(None, BedtimeHours) # None
  BY <1>1, DraftAssumption DEF Schedules
<1>4. isBedtimeRule(bedtimeRule)
  BY <1>3 DEF bedtimeRule, emptyRule, isBedtimeRule
<1> QED
  BY <1>2, <1>4

\* A section that the form opens closed hides nothing.
LEMMA OpenedShows ==
    ASSUME NEW group, group.rules \in Seq(Rule), ~Opened(group).open
    PROVE  group.users = {} /\ rowsOf(group.rules) = {}
<1> DEFINE rules == group.rules
           B == bedtimes(rules)
<1>1. group.users = {} /\ ~(Len(rules) > Cardinality(B)) /\ ~(Cardinality(B) > 1)
  BY DEF Opened, hasAdvancedSettings
<1>2. rules \in Seq(Rule) /\ DOMAIN rules = 1 .. Len(rules) /\ Len(rules) \in Nat
  OBVIOUS
<1>3. B \subseteq 1 .. Len(rules)
  BY <1>2 DEF bedtimes
<1> HIDE DEF rules, B
<1>0. \A n \in Nat : IsFiniteSet(1 .. n) /\ Cardinality(1 .. n) = n
  BY FS_Interval
<1>4. /\ IsFiniteSet(1 .. Len(rules)) /\ Cardinality(1 .. Len(rules)) = Len(rules)
  BY <1>0, <1>2
<1>5. /\ Cardinality(B) \in Nat /\ Cardinality(B) <= Len(rules)
      /\ Len(rules) = Cardinality(B) => 1 .. Len(rules) = B
  BY <1>3, <1>4, FS_Subset, FS_CardinalityType
<1>6. B = 1 .. Len(rules) /\ Len(rules) \in 0 .. 1
  BY <1>1, <1>2, <1>5
<1>7. (bedtimeIndex(rules) = 0 /\ B = {}) \/ bedtimeIndex(rules) \in B
  BY <1>2, BedtimeIndex DEF B
<1>8. CASE Len(rules) = 0
  BY <1>1, <1>2, <1>8 DEF rowsOf, rules
<1>9. CASE Len(rules) = 1
  <2>1. DOMAIN rules = {1} /\ bedtimeIndex(rules) = 1
    BY <1>2, <1>6, <1>7, <1>9
  <2> QED
    BY <1>1, <2>1 DEF rowsOf, rules
<1> QED
  BY <1>6, <1>8, <1>9

\* The form opens on an empty policy.
LEMMA DraftInitInv ==
    ASSUME NEW isDefault, draft = emptyGroup(isDefault), advanced = Opened(draft)
    PROVE  DraftInv
<1>1. HasFields(draft, {"isDefault", "users", "rules"}) /\ draft.rules = <<>>
  BY DEF emptyGroup, HasFields
<1>2. HasFields(advanced, {"open", "turned"})
  BY DEF Opened, HasFields
<1>3. draft.rules \in Seq(Rule)
  BY <1>1
<1>4. NothingHidden
  BY <1>3, OpenedShows DEF NothingHidden
<1> QED
  BY <1>1, <1>2, <1>3, <1>4 DEF DraftInv

\* A draft is saved, and the form opened on it again.
LEMMA DraftSubmitted ==
    ASSUME NEW group, HasFields(group, {"isDefault", "users", "rules"}), group.rules \in Seq(Rule),
           HasFields(advanced, {"open", "turned"}), Submitted(group),
           advanced.open \/ advanced.turned \/ (group.users = {} /\ rowsOf(group.rules) = {})
    PROVE  DraftInv'
<1>1. draft' = group /\ (advanced' = Opened(group) \/ advanced' = advanced)
  BY DEF Submitted
<1>2. HasFields(advanced', {"open", "turned"})
  BY <1>1 DEF Opened, HasFields
<1>3. NothingHidden'
  <2>1. CASE advanced' = Opened(group)
    BY <1>1, <2>1, OpenedShows DEF NothingHidden, rowsOf, bedtimeIndex
  <2>2. CASE advanced' = advanced
    BY <1>1, <2>2 DEF NothingHidden, rowsOf, bedtimeIndex
  <2> QED
    BY <1>1, <2>1, <2>2
<1> QED
  BY <1>1, <1>2, <1>3 DEF DraftInv

\* The rules are replaced.
LEMMA DraftRules ==
    ASSUME DraftInv, NEW rules \in Seq(Rule), SetRules(rules),
           \/ advanced.open \/ advanced.turned
           \/ rowsOf(draft.rules) = {} => rowsOf(rules) = {}
    PROVE  DraftInv'
<1>1. draft' = [draft EXCEPT !.rules = rules] /\ advanced' = advanced
  BY DEF SetRules
<1>2. HasFields(draft', {"isDefault", "users", "rules"}) /\ draft'.rules = rules /\ draft'.users = draft.users
  BY <1>1 DEF DraftInv, HasFields
<1>3. NothingHidden'
  BY <1>1, <1>2 DEF DraftInv, NothingHidden, rowsOf, bedtimeIndex
<1> QED
  BY <1>1, <1>2, <1>3 DEF DraftInv

\* What the rows of a draft are when there are none.
LEMMA NoRows ==
    ASSUME NEW rules \in Seq(Rule)
    PROVE  rowsOf(rules) = {} <=> Len(rules) = 0 \/ (Len(rules) = 1 /\ isBedtimeRule(rules[1]))
<1>1. DOMAIN rules = 1 .. Len(rules) /\ Len(rules) \in Nat
  OBVIOUS
<1>2. (bedtimeIndex(rules) = 0 /\ bedtimes(rules) = {}) \/ bedtimeIndex(rules) \in bedtimes(rules)
  BY BedtimeIndex
<1>3. CASE Len(rules) = 0
  BY <1>1, <1>3 DEF rowsOf
<1>4. CASE Len(rules) = 1
  BY <1>1, <1>2, <1>4 DEF rowsOf, bedtimes
<1>5. CASE Len(rules) > 1
  BY <1>1, <1>5 DEF rowsOf
<1> QED
  BY <1>1, <1>3, <1>4, <1>5

\* The switch.
LEMMA BedtimeSet ==
    ASSUME NEW rules \in Seq(Rule), NEW on \in BOOLEAN
    PROVE  /\ setBedtime(rules, on) \in Seq(Rule)
           /\ rowsOf(rules) = {} => rowsOf(setBedtime(rules, on)) = {}
<1> DEFINE b == bedtimeIndex(rules)
<1>1. DOMAIN rules = 1 .. Len(rules) /\ Len(rules) \in Nat
  OBVIOUS
<1>2. (b = 0 /\ bedtimes(rules) = {}) \/ b \in bedtimes(rules)
  BY BedtimeIndex
<1> HIDE DEF b
<1>6. b \in bedtimes(rules) => b \in DOMAIN rules
  BY DEF bedtimes
<1>3. CASE on /\ b = 0
  <2>1. setBedtime(rules, on) = <<bedtimeRule>> \o rules
    BY <1>3 DEF setBedtime, b
  <2>2. /\ <<bedtimeRule>> \o rules \in Seq(Rule) /\ Len(<<bedtimeRule>> \o rules) = Len(rules) + 1
        /\ (<<bedtimeRule>> \o rules)[1] = bedtimeRule
    BY BedtimeShape
  <2>3. rowsOf(rules) = {} => Len(rules) = 0
    BY <1>1, <1>2, <1>3, NoRows DEF bedtimes
  <2> DEFINE next == <<bedtimeRule>> \o rules
  <2> HIDE DEF next
  <2>4. next \in Seq(Rule) /\ (Len(rules) = 0 => Len(next) = 1 /\ isBedtimeRule(next[1]))
    BY <2>2, BedtimeShape DEF next
  <2>5. rowsOf(rules) = {} => rowsOf(next) = {}
    BY <2>3, <2>4, NoRows
  <2> QED
    BY <2>1, <2>4, <2>5 DEF next
<1>4. CASE ~on /\ b # 0
  <2>1. setBedtime(rules, on) = RemoveAt(rules, b) /\ b \in DOMAIN rules
    BY <1>2, <1>4, <1>6 DEF setBedtime, removeRule, b
  <2>2. RemoveAt(rules, b) \in Seq(Rule) /\ Len(RemoveAt(rules, b)) = Len(rules) - 1
    BY <2>1, RemoveAtProperties
  <2>3. Len(rules) # 0
    BY <1>1, <2>1
  <2>4. rowsOf(rules) = {} => Len(rules) = 1
    BY <2>3, NoRows
  <2> DEFINE next == RemoveAt(rules, b)
  <2> HIDE DEF next
  <2>5. next \in Seq(Rule) /\ Len(next) = Len(rules) - 1
    BY <2>2 DEF next
  <2>6. rowsOf(rules) = {} => rowsOf(next) = {}
    BY <2>4, <2>5, NoRows
  <2> QED
    BY <2>1, <2>5, <2>6 DEF next
<1>5. CASE (on /\ b # 0) \/ (~on /\ b = 0)
  BY <1>5 DEF setBedtime, b
<1> QED
  BY <1>3, <1>4, <1>5

\* The hours of the switch.
LEMMA BedtimeHoursSet ==
    ASSUME NEW rules \in Seq(Rule), NEW h \in Hours, bedtimeIndex(rules) # 0,
           NEW next, next = [rules EXCEPT ![bedtimeIndex(rules)].schedule = Schedule(None, h)]
    PROVE  next \in Seq(Rule) /\ (rowsOf(rules) = {} => rowsOf(next) = {})
<1> DEFINE b == bedtimeIndex(rules)
           s == Schedule(None, h)
           rule == [rules[b] EXCEPT !.schedule = s]
<1>1. b \in DOMAIN rules /\ b \in bedtimes(rules) /\ rules[b] \in Rule
  BY BedtimeIndex DEF bedtimes
<1>2. s \in Schedules /\ s # None
  BY DraftAssumption DEF Schedule, Schedules
<1>3. next = [rules EXCEPT ![b] = rule]
  BY <1>1
<1> HIDE DEF s
<1>4. rule \in Rule
  BY <1>1, <1>2 DEF Rule
<1>5. isBedtimeRule(rule)
  BY <1>1, <1>2 DEF Rule, bedtimes, isBedtimeRule
<1> HIDE DEF rule, b
<1>6. next \in Seq(Rule) /\ Len(next) = Len(rules)
  <2>1. rules \in [1 .. Len(rules) -> Rule] /\ Len(rules) \in Nat
    OBVIOUS
  <2>2. next \in [1 .. Len(rules) -> Rule]
    BY <1>3, <1>4, <2>1
  <2> QED
    BY <2>1, <2>2
<1>7. rowsOf(rules) = {} => Len(rules) = 1 /\ b = 1
  BY <1>1, NoRows
<1>8. rowsOf(rules) = {} => next[1] = rule
  BY <1>1, <1>3, <1>7
<1> QED
  BY <1>5, <1>6, <1>7, <1>8, NoRows

\* What a row can be edited to.
LEMMA EditedRule ==
    ASSUME NEW rule \in Rule, NEW edited \in ruleEdits(rule)
    PROVE  edited \in Rule
<1>1. \A p \in {None, "bedtime"}, h \in Hours : Schedule(p, h) \in Schedules
  BY DEF Schedule, Schedules
<1>2. /\ \A s \in Schedules \cup {None} : [rule EXCEPT !.schedule = s] \in Rule
      /\ \A cs \in SUBSET Conditions : [rule EXCEPT !.conditions = cs] \in Rule
      /\ \A us \in SUBSET RuleUsers : [rule EXCEPT !.users = us] \in Rule
      /\ \A a \in {"block", "allow"} : [rule EXCEPT !.action = a] \in Rule
      /\ [rule EXCEPT !.enabled = ~@] \in Rule /\ [rule EXCEPT !.all_traffic = ~@] \in Rule
  BY DEF Rule
<1>3. ASSUME NEW choice \in {"always", "bedtime", "custom"}
      PROVE  setScheduleChoice(rule, choice) \in Rule
  <2>1. CASE choice = "always"
    BY <1>2, <2>1 DEF setScheduleChoice
  <2>2. CASE choice = "bedtime"
    BY <1>1, <1>2, <2>2, DraftAssumption DEF setScheduleChoice
  <2>3. CASE choice = "custom"
    <3> DEFINE h == IF rule.schedule = None THEN CHOOSE h \in Hours : TRUE ELSE rule.schedule.hours
    <3>1. h \in Hours
      BY DraftAssumption DEF Rule, Schedules
    <3>2. setScheduleChoice(rule, choice) = [rule EXCEPT !.schedule = Schedule(None, h)]
      BY <2>3 DEF setScheduleChoice
    <3> HIDE DEF h
    <3> QED
      BY <1>1, <1>2, <3>1, <3>2
  <2> QED
    BY <2>1, <2>2, <2>3
<1>4. \A c \in Conditions : withEntry(rule, c) \in Rule
  BY DEF Rule, withEntry
<1>5. \A c \in rule.conditions : [rule EXCEPT !.conditions = @ \ {c}] \in Rule
  BY DEF Rule
<1> HIDE DEF Rule
<1> QED
  BY <1>1, <1>2, <1>3, <1>4, <1>5 DEF ruleEdits

\* One rule is replaced.
LEMMA RuleReplaced ==
    ASSUME NEW rules \in Seq(Rule), NEW n \in DOMAIN rules, NEW rule \in Rule
    PROVE  [rules EXCEPT ![n] = rule] \in Seq(Rule)
<1>1. rules \in [1 .. Len(rules) -> Rule] /\ Len(rules) \in Nat
  OBVIOUS
<1>2. [rules EXCEPT ![n] = rule] \in [1 .. Len(rules) -> Rule]
  BY <1>1
<1> QED
  BY <1>1, <1>2

\* Every step of the form.
LEMMA DraftNextInv == DraftInv /\ [DraftNext]_draftVars => DraftInv'
<1> SUFFICES ASSUME DraftInv, [DraftNext]_draftVars PROVE DraftInv'
  OBVIOUS
<1>1. /\ HasFields(draft, {"isDefault", "users", "rules"}) /\ HasFields(advanced, {"open", "turned"})
      /\ draft.rules \in Seq(Rule)
      /\ advanced.open \/ advanced.turned \/ (draft.users = {} /\ rowsOf(draft.rules) = {})
      /\ \A n \in DOMAIN draft.rules : draft.rules[n] \in Rule
      /\ rowsOf(draft.rules) \subseteq DOMAIN draft.rules
  BY DEF DraftInv, NothingHidden, rowsOf
<1>2. CASE UNCHANGED draftVars
  BY <1>2 DEF draftVars, DraftInv, NothingHidden, rowsOf, bedtimeIndex
<1>3. CASE Save
  BY <1>1, <1>3, DraftSubmitted DEF Save
<1>4. CASE TurnAdvanced
  <2>1. HasFields(advanced', {"open", "turned"}) /\ advanced'.turned /\ draft' = draft
    BY <1>4 DEF TurnAdvanced, HasFields
  <2>2. NothingHidden'
    BY <2>1 DEF NothingHidden
  <2> QED
    BY <1>1, <2>1, <2>2 DEF DraftInv
<1>5. CASE addRule
  <2>1. Append(draft.rules, emptyRule) \in Seq(Rule)
    BY <1>1, BedtimeShape
  <2> QED
    BY <1>5, <2>1, DraftRules DEF addRule
<1>6. ASSUME NEW on \in BOOLEAN, ToggleBedtime(on) PROVE DraftInv'
  <2> DEFINE rules == setBedtime(draft.rules, on)
  <2>1. rules \in Seq(Rule) /\ (rowsOf(draft.rules) = {} => rowsOf(rules) = {})
    BY <1>1, BedtimeSet
  <2>2. SetRules(rules)
    BY <1>6 DEF ToggleBedtime
  <2> HIDE DEF rules
  <2> QED
    BY <2>1, <2>2, DraftRules
<1>7. ASSUME NEW h \in Hours, onBedtimeHours(h) PROVE DraftInv'
  <2> DEFINE rules == [draft.rules EXCEPT ![bedtimeIndex(draft.rules)].schedule = Schedule(None, h)]
  <2>1. bedtimeIndex(draft.rules) # 0 /\ SetRules(rules)
    BY <1>7 DEF onBedtimeHours
  <2>0. rules = [draft.rules EXCEPT ![bedtimeIndex(draft.rules)].schedule = Schedule(None, h)]
    OBVIOUS
  <2> HIDE DEF rules
  <2>2. rules \in Seq(Rule) /\ (rowsOf(draft.rules) = {} => rowsOf(rules) = {})
    BY <1>1, <2>0, <2>1, BedtimeHoursSet, Zenon
  <2> QED
    BY <2>1, <2>2, DraftRules
<1>8. ASSUME NEW us, setGroupUsers(us) PROVE DraftInv'
  <2>1. draft' = [draft EXCEPT !.users = us] /\ advanced' = advanced /\ advanced.open
    BY <1>8 DEF setGroupUsers
  <2>2. HasFields(draft', {"isDefault", "users", "rules"}) /\ draft'.rules = draft.rules
    BY <1>1, <2>1 DEF HasFields
  <2>3. NothingHidden'
    BY <2>1 DEF NothingHidden
  <2> QED
    BY <1>1, <2>1, <2>2, <2>3 DEF DraftInv
<1>9. ASSUME NEW n \in DOMAIN draft.rules, RemoveRow(n) PROVE DraftInv'
  <2>1. RemoveAt(draft.rules, n) \in Seq(Rule)
    BY <1>1, RemoveAtProperties
  <2> QED
    BY <1>9, <2>1, DraftRules DEF RemoveRow, removeRule
<1>10. ASSUME NEW n \in DOMAIN draft.rules, EditRow(n) PROVE DraftInv'
  <2>1. PICK edited \in ruleEdits(draft.rules[n]) : SetRules([draft.rules EXCEPT ![n] = edited])
    BY <1>10 DEF EditRow
  <2>2. edited \in Rule /\ advanced.open
    BY <1>1, <1>10, <2>1, EditedRule DEF EditRow
  <2>3. [draft.rules EXCEPT ![n] = edited] \in Seq(Rule)
    BY <1>1, <2>2, RuleReplaced
  <2> QED
    BY <2>1, <2>2, <2>3, DraftRules
<1>11. ASSUME NEW n \in DOMAIN draft.rules, NEW offset \in {-1, 1}, moveRule(n, offset) PROVE DraftInv'
  <2> DEFINE target == n + offset
             once == [draft.rules EXCEPT ![n] = draft.rules[target]]
             rules == [draft.rules EXCEPT ![n] = draft.rules[target], ![target] = draft.rules[n]]
  <2>1. target \in DOMAIN draft.rules /\ SetRules(rules) /\ advanced.open
    BY <1>11 DEF moveRule
  <2>2. draft.rules[n] \in Rule /\ draft.rules[target] \in Rule
    BY <1>1, <2>1
  <2>3. once \in Seq(Rule) /\ DOMAIN once = DOMAIN draft.rules
    BY <1>1, <2>2, RuleReplaced
  <2>4. rules = [once EXCEPT ![target] = draft.rules[n]]
    OBVIOUS
  <2> HIDE DEF once
  <2>5. rules \in Seq(Rule)
    BY <2>1, <2>2, <2>3, <2>4, RuleReplaced
  <2> HIDE DEF rules
  <2> QED
    BY <2>1, <2>5, DraftRules
<1>12. ASSUME NEW n \in DOMAIN draft.rules, NEW c \in Conditions, EnterCondition(n, c) PROVE DraftInv'
  <2> DEFINE rule == withEntry(draft.rules[n], c)
             group == [draft EXCEPT !.rules[n] = rule]
  <2>1. Submitted(group) /\ advanced.open
    BY <1>12 DEF EnterCondition
  <2>2. rule \in Rule
    BY <1>1 DEF withEntry, Rule
  <2> HIDE DEF rule
  <2>3. [draft.rules EXCEPT ![n] = rule] \in Seq(Rule)
    BY <1>1, <2>2, RuleReplaced
  <2>4. HasFields(group, {"isDefault", "users", "rules"}) /\ group.rules = [draft.rules EXCEPT ![n] = rule]
    BY <1>1 DEF HasFields
  <2> HIDE DEF group
  <2> QED
    BY <1>1, <2>1, <2>3, <2>4, DraftSubmitted
<1> QED
  BY <1>2, <1>3, <1>4, <1>5, <1>6, <1>7, <1>8, <1>9, <1>10, <1>11, <1>12 DEF DraftNext

\* The switch can be taken back.
LEMMA DraftUndo == DraftInv => BedtimeUndo
<1> SUFFICES ASSUME DraftInv PROVE BedtimeUndo
  OBVIOUS
<1> DEFINE rules == draft.rules
           b == bedtimeIndex(rules)
           off == setBedtime(rules, FALSE)
<1>1. rules \in Seq(Rule) /\ DOMAIN rules = 1 .. Len(rules) /\ Len(rules) \in Nat
  BY DEF DraftInv
<1>2. CASE b = 0
  <2> DEFINE on == <<bedtimeRule>> \o rules
  <2>1. setBedtime(rules, TRUE) = on
    BY <1>2 DEF setBedtime
  <2>2. /\ on \in Seq(Rule) /\ Len(on) = Len(rules) + 1 /\ on[1] = bedtimeRule
        /\ \A n \in 1 .. Len(rules) : on[n + 1] = rules[n]
    BY <1>1, BedtimeShape
  <2> HIDE DEF on, rules
  <2>3. 1 \in bedtimes(on)
    BY <1>1, <2>2, BedtimeShape DEF bedtimes
  <2>4. bedtimeIndex(on) = 1
    <3>1. DOMAIN on = 1 .. Len(on) /\ Len(on) \in Nat
      BY <2>2
    <3>2. bedtimes(on) \subseteq 1 .. Len(on)
      BY <3>1 DEF bedtimes
    <3>3. bedtimeIndex(on) \in bedtimes(on) /\ bedtimeIndex(on) <= 1
      BY <2>2, <2>3, BedtimeIndex
    <3> QED
      BY <3>1, <3>2, <3>3
  <2>5. setBedtime(on, FALSE) = RemoveAt(on, 1)
    BY <2>4 DEF setBedtime, removeRule
  <2>6. 1 \in DOMAIN on
    BY <1>1, <2>2
  <2>7. /\ RemoveAt(on, 1) \in Seq(Rule) /\ Len(RemoveAt(on, 1)) = Len(rules)
        /\ \A n \in 1 .. Len(rules) : RemoveAt(on, 1)[n] = rules[n]
    <3>1. /\ RemoveAt(on, 1) \in Seq(Rule) /\ Len(RemoveAt(on, 1)) = Len(on) - 1
          /\ \A n \in 1 .. Len(on) - 1 : RemoveAt(on, 1)[n] = IF n < 1 THEN on[n] ELSE on[n + 1]
      BY <2>2, <2>6, RemoveAtProperties
    <3> QED
      BY <1>1, <2>2, <3>1
  <2>8. RemoveAt(on, 1) = rules
    BY <1>1, <2>7, SeqEqual
  <2> QED
    BY <1>2, <2>1, <2>5, <2>8 DEF BedtimeUndo, rules
<1>3. CASE b # 0
  <2>1. b \in DOMAIN rules
    BY <1>1, <1>3, BedtimeIndex DEF bedtimes
  <2>2. off = RemoveAt(rules, b)
    BY <1>3 DEF setBedtime, removeRule
  <2>3. rowsOf(rules) = DOMAIN rules \ {b}
    BY DEF rowsOf
  <2> HIDE DEF b, off, rules
  <2>4. /\ off \in Seq(Rule) /\ Len(off) = Len(rules) - 1
        /\ \A n \in 1 .. Len(rules) - 1 : off[n] = IF n < b THEN rules[n] ELSE rules[n + 1]
    BY <1>1, <2>1, <2>2, RemoveAtProperties, Zenon
  <2>5. ASSUME NEW m \in rowsOf(rules), NEW n \in rowsOf(rules), m < n
        PROVE  \E i, j \in DOMAIN off : i < j /\ off[i] = rules[m] /\ off[j] = rules[n]
    <3> DEFINE i == IF m < b THEN m ELSE m - 1
               j == IF n < b THEN n ELSE n - 1
    <3>1. b \in 1 .. Len(rules) /\ m \in 1 .. Len(rules) /\ n \in 1 .. Len(rules) /\ m # b /\ n # b
      BY <1>1, <2>1, <2>3
    <3>2. i \in 1 .. Len(rules) - 1 /\ j \in 1 .. Len(rules) - 1 /\ i < j
      BY <1>1, <2>5, <3>1
    <3>3. off[i] = rules[m]
      <4>1. CASE m < b
        BY <2>4, <3>2, <4>1
      <4>2. CASE ~(m < b)
        <5>1. i = m - 1 /\ ~(i < b) /\ i + 1 = m
          BY <1>1, <3>1, <4>2
        <5> QED
          BY <2>4, <3>2, <5>1
      <4> QED
        BY <4>1, <4>2
    <3>4. off[j] = rules[n]
      <4>1. CASE n < b
        BY <2>4, <3>2, <4>1
      <4>2. CASE ~(n < b)
        <5>1. j = n - 1 /\ ~(j < b) /\ j + 1 = n
          BY <1>1, <3>1, <4>2
        <5> QED
          BY <2>4, <3>2, <5>1
      <4> QED
        BY <4>1, <4>2
    <3>5. i \in DOMAIN off /\ j \in DOMAIN off
      BY <1>1, <2>4, <3>2
    <3> HIDE DEF i, j
    <3> QED
      BY <3>2, <3>3, <3>4, <3>5
  <2> QED
    BY <1>3, <2>4, <2>5 DEF BedtimeUndo, b, off, rules
<1> QED
  BY <1>2, <1>3
-----------------------------------------------------------------------------
(* The list editors *)

ListTypes ==
    /\ editor \in Editors /\ stored \in Seq(Item) /\ data \in Seq(Row) /\ nextId \in Nat /\ nextUid \in Nat
    /\ loading \in BOOLEAN /\ loadFailed \in BOOLEAN /\ saving \in BOOLEAN
    /\ blind \in BOOLEAN /\ unconfirmed \in BOOLEAN
    /\ load \in [{"mount", "reload"} -> Seq(Item) \cup {None, Unread}]
    /\ post \in Post \cup {None} /\ pendingDelete \in Named \cup {None}
    /\ editingRowId \in Nat \cup {None} /\ editingUid \in Nat \cup {None} /\ editingText \in Vals

\* The rows that are no drafts come first, and their numbers are their places.
ListRows ==
    /\ \A n \in DOMAIN data : ~data[n].draft => data[n].id = n
    /\ \A m, n \in DOMAIN data : m < n /\ data[m].draft => data[n].draft
    /\ \A m, n \in DOMAIN data : data[m].id = data[n].id => m = n
    /\ editor = "filter" => \A n \in DOMAIN data : data[n].id < nextId
    /\ editor # "filter" => \A n \in DOMAIN data : ~data[n].draft

\* The requests under way.
ListPhases ==
    /\ loading => load["mount"] # None \/ load["reload"] # None
    /\ saving <=> post # None
    /\ load["reload"] # None <=> post # None /\ post.phase = "reload"
    /\ post # None /\ post.phase # "sent" => stored = post.rows
    /\ load["reload"] \notin {None, Unread} => load["reload"] = stored
    /\ editor = "lists" => load["reload"] = None

\* A dialog names the row at a place.
Names(p) == p.id \in DOMAIN data /\ ~data[p.id].draft /\ data[p.id].uid = p.uid

\* Every row, its place unchanged, is among those of a save.
Covers(rows) == \A n \in DOMAIN data : ~data[n].draft => n \in DOMAIN rows /\ rows[n].uid = data[n].uid

\* A save drops the row of a deletion, and no other.
Drops == \A n \in DOMAIN stored : \/ stored[n].uid \in Uids(post.rows)
                                  \/ post.op = "delete" /\ stored[n].uid = post.uid

\* The rows on the screen are those on the server.
Aligned ==
    /\ \A n \in DOMAIN stored : /\ n \in DOMAIN data /\ ~data[n].draft /\ data[n].uid = stored[n].uid
                                /\ editor # "filter" => data[n].val = stored[n].val
    /\ \A n \in DOMAIN data : ~data[n].draft => n \in DOMAIN stored

\* What holds as long as no save was made before the list was there.
ListSighted ==
    /\ load["mount"] # None => loading /\ post = None /\ data = <<>> /\ pendingDelete = None
    /\ load["mount"] \notin {None, Unread} => load["mount"] = stored
    /\ pendingDelete # None /\ ~pendingDelete.draft => Names(pendingDelete)
    /\ post # None /\ post.op = "save" => Covers(post.rows)
    /\ post # None /\ post.phase = "sent" /\ ~unconfirmed /\ ~post.draft => Drops
    /\ ~unconfirmed /\ ~loadFailed /\ ~loading /\ (post = None \/ post.phase = "sent") => Aligned

ListInv == ListTypes /\ ListRows /\ ListPhases /\ (~blind => ListSighted)

\* Rows as a load numbers them.
LEMMA NumberedRows ==
    ASSUME NEW list \in Seq(Item)
    PROVE  /\ Numbered(list) \in Seq(Row) /\ DOMAIN Numbered(list) = DOMAIN list
           /\ \A n \in DOMAIN list : /\ Numbered(list)[n].id = n /\ ~Numbered(list)[n].draft
                                     /\ Numbered(list)[n].uid = list[n].uid /\ Numbered(list)[n].val = list[n].val
<1>1. DOMAIN list = 1 .. Len(list) /\ Len(list) \in Nat /\ \A n \in DOMAIN list : list[n] \in Item
  OBVIOUS
<1>2. \A n \in DOMAIN list : [id |-> n, uid |-> list[n].uid, val |-> list[n].val, draft |-> FALSE] \in Row
  BY <1>1 DEF Item, Row
<1>3. Numbered(list) \in [1 .. Len(list) -> Row]
  BY <1>1, <1>2 DEF Numbered
<1>4. Numbered(list) \in Seq(Row)
  BY <1>1, <1>3
<1> QED
  BY <1>4 DEF Numbered

\* Rows as a save sends them.
LEMMA PayloadRows ==
    ASSUME NEW rows \in Seq(Row)
    PROVE  /\ Payload(rows) \in Seq(Item) /\ DOMAIN Payload(rows) = DOMAIN rows
           /\ \A n \in DOMAIN rows : Payload(rows)[n].uid = rows[n].uid /\ Payload(rows)[n].val = rows[n].val
<1>1. DOMAIN rows = 1 .. Len(rows) /\ Len(rows) \in Nat /\ \A n \in DOMAIN rows : rows[n] \in Row
  OBVIOUS
<1>2. \A n \in DOMAIN rows : [uid |-> rows[n].uid, val |-> rows[n].val] \in Item
  BY <1>1 DEF Item, Row
<1>3. Payload(rows) \in [1 .. Len(rows) -> Item]
  BY <1>1, <1>2 DEF Payload
<1>4. Payload(rows) \in Seq(Item)
  BY <1>1, <1>3
<1> QED
  BY <1>4 DEF Payload

\* The row with a number.
LEMMA RowWithId ==
    ASSUME data \in Seq(Row), NEW id \in RowIds
    PROVE  \E n \in DOMAIN data : RowOf(id) = data[n] /\ data[n].id = id /\ data[n] \in Row
<1>1. \E r \in ToSet(data) : r.id = id
  BY DEF RowIds, ToSet
<1>2. RowOf(id) \in ToSet(data) /\ RowOf(id).id = id
  BY <1>1 DEF RowOf
<1> QED
  BY <1>2 DEF ToSet

\* The rows without the one with a number.
LEMMA RowsWithout ==
    ASSUME data \in Seq(Row), NEW id, id \in RowIds
    PROVE  \E k \in DOMAIN data : data[k].id = id /\ Without(id) = RemoveAt(data, k)
<1>1. \E n \in DOMAIN data : data[n].id = id
  BY DEF RowIds
<1> DEFINE k == CHOOSE n \in DOMAIN data : data[n].id = id
<1>2. k \in DOMAIN data /\ data[k].id = id
  BY <1>1
<1>3. Without(id) = RemoveAt(data, k)
  BY DEF Without
<1> QED
  BY <1>2, <1>3

\* The rows with another text in one.
LEMMA RowsWith ==
    ASSUME data \in Seq(Row), NEW id, NEW text \in Vals
    PROVE  /\ With(id, text) \in Seq(Row) /\ DOMAIN With(id, text) = DOMAIN data
           /\ \A n \in DOMAIN data : /\ With(id, text)[n].id = data[n].id /\ With(id, text)[n].uid = data[n].uid
                                     /\ With(id, text)[n].draft = data[n].draft
<1>1. DOMAIN data = 1 .. Len(data) /\ Len(data) \in Nat /\ \A n \in DOMAIN data : data[n] \in Row
  OBVIOUS
<1>2. \A n \in DOMAIN data : With(id, text)[n] = IF data[n].id = id THEN [data[n] EXCEPT !.val = text] ELSE data[n]
  BY DEF With
<1>3. \A n \in DOMAIN data : /\ With(id, text)[n] \in Row
                             /\ With(id, text)[n].id = data[n].id /\ With(id, text)[n].uid = data[n].uid
                             /\ With(id, text)[n].draft = data[n].draft
  <2> SUFFICES ASSUME NEW n \in DOMAIN data
               PROVE  /\ With(id, text)[n] \in Row
                      /\ With(id, text)[n].id = data[n].id /\ With(id, text)[n].uid = data[n].uid
                      /\ With(id, text)[n].draft = data[n].draft
    OBVIOUS
  <2>1. data[n] \in Row
    BY <1>1
  <2> QED
    BY <1>2, <2>1 DEF Row
<1>4. With(id, text) = [n \in 1 .. Len(data) |-> With(id, text)[n]]
  BY <1>1 DEF With
<1>5. With(id, text) \in [1 .. Len(data) -> Row]
  BY <1>1, <1>3, <1>4
<1>6. With(id, text) \in Seq(Row)
  BY <1>1, <1>5
<1> QED
  BY <1>1, <1>3, <1>5, <1>6

\* What the list starts as.
LEMMA ListInitInv == ListInit => ListInv
<1> SUFFICES ASSUME ListInit PROVE ListInv
  OBVIOUS
<1>1. /\ editor \in Editors /\ stored = FirstList /\ data = <<>> /\ nextId = 1
      /\ loading = TRUE /\ loadFailed = FALSE /\ load = [mount |-> Unread, reload |-> None]
      /\ saving = FALSE /\ post = None /\ editingRowId = None /\ editingText = Blank /\ editingUid = None
      /\ pendingDelete = None /\ nextUid = Len(FirstList) + 1 /\ blind = FALSE /\ unconfirmed = FALSE
  BY DEF ListInit
<1>2. FirstList \in Seq(Item) /\ Blank \in Vals /\ Unread # None
  BY ListAssumption DEF Vals
<1>3. load \in [{"mount", "reload"} -> Seq(Item) \cup {None, Unread}] /\ load["mount"] = Unread /\ load["reload"] = None
  BY <1>1
<1>4. data \in Seq(Row) /\ nextUid \in Nat /\ DOMAIN data = {}
  BY <1>1, <1>2
<1>5. ListTypes
  BY <1>1, <1>2, <1>3, <1>4 DEF ListTypes
<1>6. ListRows
  BY <1>4 DEF ListRows
<1>7. ListPhases /\ ListSighted
  BY <1>1, <1>2, <1>3 DEF ListPhases, ListSighted
<1> QED
  BY <1>5, <1>6, <1>7 DEF ListInv

\* A step of the form or of the dialog, and one that changes nothing.
LEMMA ListFormInv ==
    ASSUME ListInv, UNCHANGED <<editor, screen, server>>, pendingDelete' \in {pendingDelete, None},
           editingRowId' \in Nat \cup {None}, editingUid' \in Nat \cup {None}, editingText' \in Vals
    PROVE  ListInv'
<1>1. /\ editor' = editor /\ data' = data /\ nextId' = nextId /\ loading' = loading /\ loadFailed' = loadFailed
      /\ load' = load /\ stored' = stored /\ saving' = saving /\ post' = post /\ blind' = blind
      /\ unconfirmed' = unconfirmed /\ nextUid' = nextUid
  BY DEF screen, server
<1>2. ListTypes /\ ListRows /\ ListPhases
  BY DEF ListInv
<1>3. ListTypes'
  BY <1>1, <1>2 DEF ListTypes
<1>4. ListRows'
  BY <1>1, <1>2 DEF ListRows
<1>5. ListPhases'
  BY <1>1, <1>2 DEF ListPhases
<1>6. (post # None /\ post.op = "save" => Covers(post.rows))' <=> (post # None /\ post.op = "save" => Covers(post.rows))
  BY <1>1 DEF Covers
<1>7. Drops' <=> Drops
  BY <1>1 DEF Drops
<1>8. Aligned' <=> Aligned
  BY <1>1 DEF Aligned
<1>9. pendingDelete' # None => pendingDelete' = pendingDelete /\ (Names(pendingDelete)' <=> Names(pendingDelete))
  BY <1>1 DEF Names
<1>10. ~blind' => ListSighted'
  BY <1>1, <1>6, <1>7, <1>8, <1>9 DEF ListInv, ListSighted
<1> QED
  BY <1>3, <1>4, <1>5, <1>10 DEF ListInv

\* The dialog opens for the row with a number.
LEMMA ListAskedInv ==
    ASSUME ListInv, UNCHANGED <<editor, screen, form, server>>, NEW id \in RowIds,
           pendingDelete' = [id |-> id, uid |-> RowOf(id).uid, draft |-> RowOf(id).draft]
    PROVE  ListInv'
<1>1. /\ editor' = editor /\ data' = data /\ nextId' = nextId /\ loading' = loading /\ loadFailed' = loadFailed
      /\ load' = load /\ stored' = stored /\ saving' = saving /\ post' = post /\ blind' = blind
      /\ unconfirmed' = unconfirmed /\ nextUid' = nextUid /\ editingRowId' = editingRowId
      /\ editingUid' = editingUid /\ editingText' = editingText
  BY DEF screen, server, form
<1>2. ListTypes /\ ListRows /\ ListPhases
  BY DEF ListInv
<1>3. PICK n \in DOMAIN data : RowOf(id) = data[n] /\ data[n].id = id /\ data[n] \in Row
  BY <1>2, RowWithId DEF ListTypes
<1>4. pendingDelete' \in Named /\ pendingDelete'.id = id /\ pendingDelete'.uid = data[n].uid
      /\ pendingDelete'.draft = data[n].draft
  BY <1>3 DEF Named, Row
<1>5. ~pendingDelete'.draft => Names(pendingDelete)'
  BY <1>1, <1>2, <1>3, <1>4 DEF Names, ListRows
<1>6. data # <<>>
  BY <1>3
<1>7. ListTypes'
  BY <1>1, <1>2, <1>4 DEF ListTypes
<1>8. ListRows'
  BY <1>1, <1>2 DEF ListRows
<1>9. ListPhases'
  BY <1>1, <1>2 DEF ListPhases
<1>10. (post # None /\ post.op = "save" => Covers(post.rows))' <=> (post # None /\ post.op = "save" => Covers(post.rows))
  BY <1>1 DEF Covers
<1>11. Drops' <=> Drops
  BY <1>1 DEF Drops
<1>12. Aligned' <=> Aligned
  BY <1>1 DEF Aligned
<1>13. ~blind' => ListSighted'
  BY <1>1, <1>5, <1>6, <1>10, <1>11, <1>12 DEF ListInv, ListSighted
<1> QED
  BY <1>7, <1>8, <1>9, <1>13 DEF ListInv

\* The server answers a read.
LEMMA ListReadInv ==
    ASSUME ListInv, NEW l \in {"mount", "reload"}, ReadList(l)
    PROVE  ListInv'
<1>1. /\ editor' = editor /\ data' = data /\ nextId' = nextId /\ loading' = loading /\ loadFailed' = loadFailed
      /\ stored' = stored /\ saving' = saving /\ post' = post /\ blind' = blind
      /\ unconfirmed' = unconfirmed /\ nextUid' = nextUid /\ editingRowId' = editingRowId
      /\ editingUid' = editingUid /\ editingText' = editingText /\ pendingDelete' = pendingDelete
  BY DEF ReadList, server, form
<1>2. ListTypes /\ ListRows /\ ListPhases
  BY DEF ListInv
<1>3. stored \in Seq(Item) /\ stored # None /\ stored # Unread /\ Unread # None
  BY <1>2, ListAssumption DEF ListTypes
<1>4. load[l] = Unread /\ load' = [load EXCEPT ![l] = stored]
  BY DEF ReadList
<1>5. load' \in [{"mount", "reload"} -> Seq(Item) \cup {None, Unread}]
      /\ load'[l] = stored /\ \A k \in {"mount", "reload"} : k # l => load'[k] = load[k]
  BY <1>2, <1>3, <1>4 DEF ListTypes
<1>6. \A k \in {"mount", "reload"} : /\ load'[k] # None <=> load[k] # None
                                     /\ load'[k] = load[k] \/ load'[k] = stored
  BY <1>3, <1>4, <1>5
<1>7. ListTypes'
  BY <1>1, <1>2, <1>5 DEF ListTypes
<1>8. ListRows'
  BY <1>1, <1>2 DEF ListRows
<1>9. ListPhases'
  BY <1>1, <1>2, <1>6 DEF ListPhases
<1>10. (post # None /\ post.op = "save" => Covers(post.rows))' <=> (post # None /\ post.op = "save" => Covers(post.rows))
  BY <1>1 DEF Covers
<1>11. Drops' <=> Drops
  BY <1>1 DEF Drops
<1>12. Aligned' <=> Aligned
  BY <1>1 DEF Aligned
<1>13. Names(pendingDelete)' <=> Names(pendingDelete)
  BY <1>1 DEF Names
<1>14. ~blind' => ListSighted'
  BY <1>1, <1>6, <1>10, <1>11, <1>12, <1>13 DEF ListInv, ListSighted
<1> QED
  BY <1>7, <1>8, <1>9, <1>14 DEF ListInv

\* The server stores a list.
LEMMA ListStoredInv ==
    ASSUME ListInv, StoreList
    PROVE  ListInv'
<1>1. /\ editor' = editor /\ data' = data /\ nextId' = nextId /\ loading' = loading /\ loadFailed' = loadFailed
      /\ load' = load /\ saving' = saving /\ blind' = blind
      /\ unconfirmed' = unconfirmed /\ nextUid' = nextUid /\ editingRowId' = editingRowId
      /\ editingUid' = editingUid /\ editingText' = editingText /\ pendingDelete' = pendingDelete
  BY DEF StoreList, screen, form
<1>2. ListTypes /\ ListRows /\ ListPhases
  BY DEF ListInv
<1>3. /\ post \in Post /\ post.phase = "sent" /\ stored' = post.rows /\ post' = [post EXCEPT !.phase = "stored"]
      /\ post # None
  BY <1>2 DEF StoreList, ListTypes
<1>4. /\ post' \in Post /\ post'.phase = "stored" /\ post'.rows = post.rows /\ post'.op = post.op
      /\ stored' \in Seq(Item) /\ post' # None
  BY <1>3, ListAssumption DEF Post
<1>5. load["reload"] = None
  BY <1>2, <1>3 DEF ListPhases
<1>7. ListTypes'
  BY <1>1, <1>2, <1>4 DEF ListTypes
<1>8. ListRows'
  BY <1>1, <1>2 DEF ListRows
<1>9. ListPhases'
  BY <1>1, <1>2, <1>3, <1>4, <1>5 DEF ListPhases
<1>10. Covers(post.rows)' <=> Covers(post.rows)
  BY <1>1, <1>4 DEF Covers
<1>13. Names(pendingDelete)' <=> Names(pendingDelete)
  BY <1>1 DEF Names
<1>14. ~blind' => ListSighted'
  BY <1>1, <1>3, <1>4, <1>10, <1>13 DEF ListInv, ListSighted
<1> QED
  BY <1>7, <1>8, <1>9, <1>14 DEF ListInv

\* A load ends, with the rows it read or without any.
LEMMA ListLoadedInv ==
    ASSUME ListInv, NEW l \in {"mount", "reload"}, NEW ok \in BOOLEAN,
           load[l] # None, LoadEnds(l), loadFailed' = ~ok, SaveEnds(l), editor' = editor,
           ok => Answered(l) /\ data' = Numbered(load[l]),
           ~ok => data' = data \/ (data' = <<>> /\ l = "mount"),
           pendingDelete' = IF l = "reload" /\ post.op = "delete" THEN None ELSE pendingDelete,
           nextId' \in Nat, editor = "filter" => nextId' = IF ok THEN Len(load[l]) + 1 ELSE nextId,
           editingRowId' \in Nat \cup {None}, editingUid' \in Nat \cup {None}, editingText' \in Vals
    PROVE  ListInv'
<1>1. ListTypes /\ ListRows /\ ListPhases
  BY DEF ListInv
<1>2. /\ stored' = stored /\ blind' = blind /\ unconfirmed' = unconfirmed /\ nextUid' = nextUid
      /\ l = "reload" => saving' = FALSE /\ post' = None
      /\ l = "mount" => saving' = saving /\ post' = post
  BY DEF SaveEnds, server
<1>3. /\ load' \in [{"mount", "reload"} -> Seq(Item) \cup {None, Unread}] /\ loading' = FALSE
      /\ load'[l] = None /\ \A k \in {"mount", "reload"} : k # l => load'[k] = load[k]
  BY <1>1 DEF LoadEnds, ListTypes
<1>4. ok => load[l] \in Seq(Item)
  BY <1>1 DEF Answered, ListTypes
<1>5. ok => /\ data' \in Seq(Row) /\ DOMAIN data' = DOMAIN load[l]
            /\ \A n \in DOMAIN data' : /\ data'[n].id = n /\ ~data'[n].draft
                                       /\ data'[n].uid = load[l][n].uid /\ data'[n].val = load[l][n].val
  BY <1>4, NumberedRows
<1>6. ok => \A n \in DOMAIN data' : n < Len(load[l]) + 1
  BY <1>4, <1>5
<1>7. data' \in Seq(Row)
  <2>1. data \in Seq(Row)
    BY <1>1 DEF ListTypes
  <2>2. <<>> \in Seq(Row)
    OBVIOUS
  <2> QED
    BY <1>5, <2>1, <2>2, Zenon
<1>8. ListTypes'
  BY <1>1, <1>2, <1>3, <1>7 DEF ListTypes
<1>9. ListRows'
  <2>1. CASE ok
    BY <1>5, <1>6, <2>1 DEF ListRows
  <2>2. CASE ~ok /\ data' = data
    BY <1>1, <2>2 DEF ListRows
  <2>3. CASE ~ok /\ data' = <<>>
    BY <2>3 DEF ListRows
  <2> QED
    BY <2>1, <2>2, <2>3
<1>10. l = "reload" => post # None /\ post.phase = "reload" /\ stored = post.rows
  BY <1>1 DEF ListPhases
<1>11. ListPhases'
  BY <1>1, <1>2, <1>3, <1>10 DEF ListPhases
<1>12. ASSUME ~blind' PROVE ListSighted'
  <2>1. ListSighted
    BY <1>2, <1>12 DEF ListInv
  <2>2. ok => load[l] = stored
    BY <1>1, <2>1 DEF Answered, ListPhases, ListSighted
  <2>3. load'["mount"] = None
    BY <1>3, <1>10, <2>1 DEF ListSighted
  <2>4. post' = None
    BY <1>2, <2>1 DEF ListSighted
  <2>5. ok => Aligned'
    BY <1>2, <1>5, <2>2 DEF Aligned
  <2>6. pendingDelete' # None /\ ~pendingDelete'.draft => Names(pendingDelete)'
    <3> SUFFICES ASSUME pendingDelete' # None, ~pendingDelete'.draft PROVE Names(pendingDelete)'
      OBVIOUS
    <3>1. l = "reload" /\ post.op # "delete" /\ pendingDelete' = pendingDelete
      BY <2>1 DEF ListSighted
    <3>2. Names(pendingDelete)
      BY <2>1, <3>1 DEF ListSighted
    <3>3. post.op = "save" /\ Covers(post.rows)
      <4>1. post \in Post /\ post # None
        BY <1>1, <1>10, <3>1 DEF ListTypes
      <4>2. post.op \in {"save", "delete"}
        BY <4>1 DEF Post
      <4> QED
        BY <2>1, <3>1, <4>1, <4>2 DEF ListSighted
    <3>4. CASE ok
      BY <1>5, <1>10, <2>2, <3>1, <3>2, <3>3, <3>4 DEF Names, Covers
    <3>5. CASE ~ok
      BY <3>1, <3>2, <3>5 DEF Names
    <3> QED
      BY <3>4, <3>5
  <2> QED
    BY <2>3, <2>4, <2>5, <2>6 DEF ListSighted
<1> QED
  BY <1>8, <1>9, <1>11, <1>12 DEF ListInv

\* The answer to a save that a reload follows.
LEMMA ListConfirmedInv ==
    ASSUME ListInv, NEW ok \in BOOLEAN, filterSaveData(ok) \/ recordsPersist(ok)
    PROVE  ListInv'
<1>1. ListTypes /\ ListRows /\ ListPhases
  BY DEF ListInv
<1>2. /\ editor' = editor /\ stored' = stored /\ blind' = blind /\ data' = data /\ nextId' = nextId
      /\ nextUid' = nextUid /\ pendingDelete' = pendingDelete /\ editingRowId' = editingRowId
      /\ editingUid' = editingUid /\ editingText' = editingText
  BY DEF filterSaveData, recordsPersist, form
<1>3. /\ editor # "lists" /\ post # None /\ post.phase # "reload"
      /\ unconfirmed' = (~ok /\ (unconfirmed \/ post.phase = "stored"))
  BY DEF filterSaveData, recordsPersist
<1>4. ok => /\ post.phase = "stored" /\ post' = [post EXCEPT !.phase = "reload"] /\ loading' = TRUE
            /\ loadFailed' = FALSE /\ load' = [load EXCEPT !.reload = Unread] /\ saving' = saving
  BY DEF filterSaveData, recordsPersist
<1>5. ~ok => post' = None /\ saving' = FALSE /\ loading' = loading /\ loadFailed' = loadFailed /\ load' = load
  BY DEF filterSaveData, recordsPersist
<1>6. post \in Post
  BY <1>1, <1>3 DEF ListTypes
<1>7. ok => /\ post' \in Post /\ post' # None /\ post'.phase = "reload"
            /\ post'.rows = post.rows /\ post'.op = post.op
  BY <1>4, <1>6, ListAssumption DEF Post
<1>8. ok => /\ load' \in [{"mount", "reload"} -> Seq(Item) \cup {None, Unread}]
            /\ load'["reload"] = Unread /\ load'["mount"] = load["mount"] /\ Unread # None
  BY <1>1, <1>4, ListAssumption DEF ListTypes
<1>9. unconfirmed' \in BOOLEAN
  BY <1>3
<1>10. ListTypes'
  BY <1>1, <1>2, <1>4, <1>5, <1>7, <1>8, <1>9 DEF ListTypes
<1>11. ListRows'
  BY <1>1, <1>2 DEF ListRows
<1>12. ListPhases'
  <2>1. CASE ok
    BY <1>1, <1>2, <1>3, <1>4, <1>7, <1>8, <2>1 DEF ListPhases
  <2>2. CASE ~ok
    BY <1>1, <1>2, <1>3, <1>5, <2>2 DEF ListPhases
  <2> QED
    BY <2>1, <2>2
<1>13. ASSUME ~blind' PROVE ListSighted'
  <2>1. ListSighted
    BY <1>2, <1>13 DEF ListInv
  <2>2. Names(pendingDelete)' <=> Names(pendingDelete)
    BY <1>2 DEF Names
  <2>3. ok => (Covers(post.rows)' <=> Covers(post.rows))
    BY <1>2, <1>7 DEF Covers
  <2>4. Aligned' <=> Aligned
    BY <1>2 DEF Aligned
  <2>5. CASE ok
    BY <1>2, <1>3, <1>4, <1>7, <1>8, <2>1, <2>2, <2>3, <2>5 DEF ListSighted
  <2>6. CASE ~ok
    <3>1. ~unconfirmed' => ~unconfirmed /\ post.phase = "sent"
      BY <1>3, <1>6, <2>6 DEF Post
    <3> QED
      BY <1>2, <1>3, <1>5, <2>1, <2>2, <2>4, <2>6, <3>1 DEF ListSighted
  <2> QED
    BY <2>5, <2>6
<1> QED
  BY <1>10, <1>11, <1>12, <1>13 DEF ListInv

\* The answer to a save of the block lists.
LEMMA ListPersistedInv ==
    ASSUME ListInv, NEW ok \in BOOLEAN, listsPersist(ok)
    PROVE  ListInv'
<1>1. ListTypes /\ ListRows /\ ListPhases
  BY DEF ListInv
<1>2. /\ editor' = editor /\ stored' = stored /\ blind' = blind /\ nextId' = nextId /\ nextUid' = nextUid
      /\ loading' = loading /\ loadFailed' = loadFailed /\ load' = load /\ saving' = FALSE /\ post' = None
      /\ editor = "lists" /\ post # None
      /\ unconfirmed' = (~ok /\ (unconfirmed \/ post.phase = "stored"))
      /\ pendingDelete' = IF ok /\ post.op = "delete" THEN None ELSE pendingDelete
      /\ ok => post.phase = "stored" /\ data' = Numbered(post.rows)
      /\ ~ok => data' = data
  BY DEF listsPersist
<1>3. /\ editingRowId' \in {editingRowId, None} /\ editingUid' \in {editingUid, None}
      /\ editingText' \in {editingText, Blank}
  BY DEF listsPersist, listsCloseForm, form
<1>4. post \in Post /\ post.rows \in Seq(Item) /\ post.op \in {"save", "delete"}
      /\ post.phase \in {"sent", "stored", "reload"}
  <2>1. post \in Post
    BY <1>1, <1>2 DEF ListTypes
  <2> QED
    BY <2>1 DEF Post
<1>5. post.phase # "reload" /\ load["reload"] = None
  BY <1>1, <1>2 DEF ListPhases
<1>6. ok => /\ data' \in Seq(Row) /\ DOMAIN data' = DOMAIN post.rows /\ stored = post.rows
            /\ \A n \in DOMAIN data' : /\ data'[n].id = n /\ ~data'[n].draft
                                       /\ data'[n].uid = stored[n].uid /\ data'[n].val = stored[n].val
  <2>1. ok => stored = post.rows
    BY <1>1, <1>2 DEF ListPhases
  <2> QED
    BY <1>2, <1>4, <2>1, NumberedRows
<1>7. data' \in Seq(Row) /\ unconfirmed' \in BOOLEAN /\ Blank \in Vals
  BY <1>1, <1>2, <1>6 DEF ListTypes, Vals
<1>8. ListTypes'
  BY <1>1, <1>2, <1>3, <1>7 DEF ListTypes
<1>9. ListRows'
  <2>1. CASE ok
    BY <1>2, <1>6, <2>1 DEF ListRows
  <2>2. CASE ~ok
    BY <1>1, <1>2, <2>2 DEF ListRows
  <2> QED
    BY <2>1, <2>2
<1>10. ListPhases'
  BY <1>1, <1>2, <1>5 DEF ListPhases
<1>11. ASSUME ~blind' PROVE ListSighted'
  <2>1. ListSighted
    BY <1>2, <1>11 DEF ListInv
  <2>2. load["mount"] = None
    BY <1>2, <2>1 DEF ListSighted
  <2>3. CASE ok
    <3>1. Aligned'
      BY <1>2, <1>6, <2>3 DEF Aligned
    <3>2. ASSUME pendingDelete' # None, ~pendingDelete'.draft PROVE Names(pendingDelete)'
      <4>1. post.op = "save" /\ pendingDelete' = pendingDelete
        BY <1>2, <1>4, <2>3, <3>2
      <4>2. Names(pendingDelete) /\ Covers(post.rows)
        BY <1>2, <2>1, <3>2, <4>1 DEF ListSighted
      <4> QED
        BY <1>6, <2>3, <4>1, <4>2 DEF Names, Covers
    <3> QED
      BY <1>2, <2>2, <3>1, <3>2 DEF ListSighted
  <2>4. CASE ~ok
    <3>1. ~unconfirmed' => ~unconfirmed /\ post.phase = "sent"
      BY <1>2, <1>4, <1>5, <2>4
    <3>2. Aligned' <=> Aligned
      BY <1>2, <2>4 DEF Aligned
    <3>3. Names(pendingDelete)' <=> Names(pendingDelete)
      BY <1>2, <2>4 DEF Names
    <3> QED
      BY <1>2, <2>1, <2>2, <2>4, <3>1, <3>2, <3>3 DEF ListSighted
  <2> QED
    BY <2>3, <2>4
<1> QED
  BY <1>8, <1>9, <1>10, <1>11 DEF ListInv

\* A save leaves with rows in which no row is missing but one to delete.
LEMMA ListSentInv ==
    ASSUME ListInv, ~saving, NEW rows \in Seq(Row), NEW op \in {"save", "delete"}, NEW uid \in Nat \cup {None},
           NEW draft1 \in BOOLEAN, SendList(rows, op, uid, draft1),
           UNCHANGED <<editor, pendingDelete, screen, form>>, nextUid' \in Nat,
           op = "save" => Covers(rows),
           ~blind /\ ~draft1 => \A n \in DOMAIN data : ~data[n].draft =>
             data[n].uid \in Uids(rows) \/ (op = "delete" /\ data[n].uid = uid)
    PROVE  ListInv'
<1>1. ListTypes /\ ListRows /\ ListPhases
  BY DEF ListInv
<1>2. /\ editor' = editor /\ data' = data /\ nextId' = nextId /\ loading' = loading /\ loadFailed' = loadFailed
      /\ load' = load /\ pendingDelete' = pendingDelete /\ editingRowId' = editingRowId
      /\ editingUid' = editingUid /\ editingText' = editingText
  BY DEF screen, form
<1>3. /\ saving' = TRUE /\ blind' = (blind \/ loading \/ loadFailed) /\ stored' = stored
      /\ unconfirmed' = unconfirmed
      /\ post' = [rows |-> Payload(rows), op |-> op, uid |-> uid, draft |-> draft1, phase |-> "sent"]
  BY DEF SendList
<1> DEFINE sent == Payload(rows)
<1>4. /\ sent \in Seq(Item) /\ DOMAIN sent = DOMAIN rows
      /\ \A n \in DOMAIN rows : sent[n].uid = rows[n].uid
  BY PayloadRows
<1> HIDE DEF sent
<1>5. /\ post' \in Post /\ post'.rows = sent /\ post'.op = op /\ post'.uid = uid /\ post'.draft = draft1
      /\ post'.phase = "sent"
  BY <1>3, <1>4 DEF Post, sent
<1>6. post' # None
  BY <1>5, ListAssumption
<1>7. post = None /\ load["reload"] = None
  BY <1>1 DEF ListPhases
<1>8. ListTypes'
  BY <1>1, <1>2, <1>3, <1>5 DEF ListTypes
<1>9. ListRows'
  BY <1>1, <1>2 DEF ListRows
<1>10. ListPhases'
  BY <1>1, <1>2, <1>3, <1>5, <1>6, <1>7 DEF ListPhases
<1>11. ASSUME ~blind' PROVE ListSighted'
  <2>1. ListSighted /\ ~blind /\ ~loading /\ ~loadFailed
    BY <1>3, <1>11 DEF ListInv
  <2>2. load["mount"] = None
    BY <2>1 DEF ListSighted
  <2>3. Names(pendingDelete)' <=> Names(pendingDelete)
    BY <1>2 DEF Names
  <2>4. op = "save" => Covers(post.rows)'
    BY <1>2, <1>4, <1>5 DEF Covers
  <2>5. ~unconfirmed => Aligned
    BY <1>7, <2>1 DEF ListSighted
  <2>6. Aligned' <=> Aligned
    BY <1>2, <1>3 DEF Aligned
  <2>7. ASSUME ~unconfirmed', ~post'.draft PROVE Drops'
    <3>1. Aligned
      BY <1>3, <2>5, <2>7
    <3>2. \A u \in Uids(rows) : u \in Uids(sent)
      BY <1>4 DEF Uids
    <3>3. ASSUME NEW n \in DOMAIN stored
          PROVE  stored[n].uid \in Uids(sent) \/ (op = "delete" /\ stored[n].uid = uid)
      <4>1. n \in DOMAIN data /\ ~data[n].draft /\ data[n].uid = stored[n].uid
        BY <3>1 DEF Aligned
      <4> QED
        BY <1>5, <2>1, <2>7, <3>2, <4>1
    <3> QED
      BY <1>3, <1>5, <3>3 DEF Drops
  <2> QED
    BY <1>2, <1>3, <1>5, <2>1, <2>2, <2>3, <2>4, <2>5, <2>6, <2>7 DEF ListSighted
<1> QED
  BY <1>8, <1>9, <1>10, <1>11 DEF ListInv

\* A change of the rows of an inspection list on the screen that keeps those
\* that are no drafts in their places.
LEMMA ListEditedInv ==
    ASSUME ListInv, editor = "filter", data' \in Seq(Row), nextId' \in Nat, nextUid' \in Nat, ListRows',
           editingRowId' \in Nat \cup {None}, editingUid' \in Nat \cup {None}, editingText' \in Vals,
           \A n \in DOMAIN data : ~data[n].draft => n \in DOMAIN data' /\ ~data'[n].draft /\ data'[n].uid = data[n].uid,
           \A n \in DOMAIN data' : ~data'[n].draft => n \in DOMAIN data /\ ~data[n].draft,
           ~(loading /\ data = <<>>),
           UNCHANGED <<editor, loading, loadFailed, load, pendingDelete, stored, saving, post, blind, unconfirmed>>
    PROVE  ListInv'
<1>1. ListTypes /\ ListRows /\ ListPhases
  BY DEF ListInv
<1>2. /\ editor' = editor /\ loading' = loading /\ loadFailed' = loadFailed /\ load' = load /\ saving' = saving
      /\ pendingDelete' = pendingDelete /\ stored' = stored /\ post' = post /\ blind' = blind
      /\ unconfirmed' = unconfirmed
  OBVIOUS
<1>3. ListTypes'
  BY <1>1, <1>2 DEF ListTypes
<1>4. ListPhases'
  BY <1>1, <1>2 DEF ListPhases
<1>5. ASSUME ~blind' PROVE ListSighted'
  <2>1. ListSighted
    BY <1>2, <1>5 DEF ListInv
  <2>2. load["mount"] = None
    BY <2>1 DEF ListSighted
  <2>3. Names(pendingDelete) => Names(pendingDelete)'
    BY <1>2 DEF Names
  <2>4. Covers(post.rows) => Covers(post.rows)'
    BY <1>2 DEF Covers
  <2>5. Drops' <=> Drops
    BY <1>2 DEF Drops
  <2>6. Aligned => Aligned'
    BY <1>2 DEF Aligned
  <2> QED
    BY <1>2, <2>1, <2>2, <2>3, <2>4, <2>5, <2>6 DEF ListSighted
<1> QED
  BY <1>3, <1>4, <1>5 DEF ListInv

\* A row without which the others stay.
LEMMA WithoutUids ==
    ASSUME data \in Seq(Row), NEW k \in DOMAIN data, NEW rows, rows = RemoveAt(data, k)
    PROVE  /\ rows \in Seq(Row) /\ Len(rows) = Len(data) - 1
           /\ \A j \in 1 .. Len(data) - 1 : rows[j] = IF j < k THEN data[j] ELSE data[j + 1]
           /\ \A n \in DOMAIN data : n # k => data[n].uid \in Uids(rows)
<1>1. /\ rows \in Seq(Row) /\ Len(rows) = Len(data) - 1
      /\ \A j \in 1 .. Len(data) - 1 : rows[j] = IF j < k THEN data[j] ELSE data[j + 1]
  BY RemoveAtProperties
<1>2. ASSUME NEW n \in DOMAIN data, n # k PROVE data[n].uid \in Uids(rows)
  <2>1. DOMAIN rows = 1 .. Len(data) - 1 /\ n \in 1 .. Len(data) /\ k \in 1 .. Len(data) /\ Len(data) \in Nat
    BY <1>1
  <2>2. CASE n < k
    <3>1. n \in DOMAIN rows /\ rows[n] = data[n]
      BY <1>1, <2>1, <2>2
    <3> QED
      BY <3>1 DEF Uids
  <2>3. CASE n > k
    <3>1. n - 1 \in DOMAIN rows /\ rows[n - 1] = data[n]
      <4>1. n - 1 \in 1 .. Len(data) - 1 /\ ~(n - 1 < k) /\ (n - 1) + 1 = n
        BY <2>1, <2>3
      <4> QED
        BY <1>1, <2>1, <4>1
    <3> QED
      BY <3>1 DEF Uids
  <2> QED
    BY <1>2, <2>1, <2>2, <2>3
<1> QED
  BY <1>1, <1>2

\* A deletion is confirmed.
LEMMA ListDeletedInv ==
    ASSUME ListInv, ~saving, pendingDelete # None,
           SendList(Without(pendingDelete.id), "delete", pendingDelete.uid, pendingDelete.draft),
           UNCHANGED <<editor, nextUid, pendingDelete, screen, form>>
    PROVE  ListInv'
<1>1. ListTypes /\ ListRows /\ ListPhases
  BY DEF ListInv
<1>2. data \in Seq(Row) /\ pendingDelete \in Named /\ nextUid \in Nat
  BY <1>1 DEF ListTypes
<1>3. pendingDelete.id \in Nat /\ pendingDelete.uid \in Nat /\ pendingDelete.draft \in BOOLEAN
  BY <1>2 DEF Named
<1> DEFINE rows == Without(pendingDelete.id)
<1>4. /\ rows \in Seq(Row)
      /\ ~blind /\ ~pendingDelete.draft => \A n \in DOMAIN data : ~data[n].draft =>
           data[n].uid \in Uids(rows) \/ data[n].uid = pendingDelete.uid
  <2>1. CASE pendingDelete.id \in RowIds
    <3>1. PICK k \in DOMAIN data : data[k].id = pendingDelete.id /\ rows = RemoveAt(data, k)
      BY <1>2, <2>1, RowsWithout
    <3> HIDE DEF rows
    <3>2. rows \in Seq(Row) /\ \A n \in DOMAIN data : n # k => data[n].uid \in Uids(rows)
      BY <1>2, <3>1, WithoutUids
    <3>3. ~blind /\ ~pendingDelete.draft => data[k].uid = pendingDelete.uid
      <4> SUFFICES ASSUME ~blind, ~pendingDelete.draft PROVE data[k].uid = pendingDelete.uid
        OBVIOUS
      <4>1. Names(pendingDelete)
        BY DEF ListInv, ListSighted
      <4>2. data[pendingDelete.id].id = pendingDelete.id
        BY <1>1, <4>1 DEF Names, ListRows
      <4>3. k = pendingDelete.id
        BY <1>1, <3>1, <4>1, <4>2 DEF Names, ListRows
      <4> QED
        BY <4>1, <4>3 DEF Names
    <3> QED
      BY <3>2, <3>3
  <2>2. CASE pendingDelete.id \notin RowIds
    BY <1>2, <2>2 DEF Without, Uids
  <2> QED
    BY <2>1, <2>2
<1> HIDE DEF rows
<1>5. SendList(rows, "delete", pendingDelete.uid, pendingDelete.draft) /\ nextUid' \in Nat
  BY <1>2 DEF rows
<1>6. UNCHANGED <<editor, pendingDelete, screen, form>>
  OBVIOUS
<1> QED
  BY <1>3, <1>4, <1>5, <1>6, ListSentInv

\* A row is saved: the new last one, or one whose text changed.
LEMMA ListSavedInv ==
    ASSUME ListInv, listsSaveRow \/ recordsSaveRow
    PROVE  ListInv'
<1>1. ListTypes /\ ListRows /\ ListPhases
  BY DEF ListInv
<1>2. /\ data \in Seq(Row) /\ editingText \in Vals /\ editingUid \in Nat \cup {None} /\ nextUid \in Nat
      /\ DOMAIN data = 1 .. Len(data) /\ Len(data) \in Nat
  BY <1>1 DEF ListTypes
<1>3. ~saving /\ UNCHANGED <<editor, pendingDelete, screen, form>>
  BY DEF listsSaveRow, recordsSaveRow, listsOffered, recordsOffered
<1>4. CASE editingRowId = None
  <2> DEFINE new == NewRow(editingText, Len(data) + 1)
             rows == Append(data, new)
  <2>1. nextUid' = nextUid + 1 /\ SendList(rows, "save", nextUid, FALSE)
    BY <1>4 DEF listsSaveRow, recordsSaveRow
  <2>2. new \in Row
    BY <1>2 DEF NewRow, Row
  <2> HIDE DEF new
  <2>3. rows \in Seq(Row) /\ DOMAIN rows = 1 .. Len(data) + 1 /\ \A n \in DOMAIN data : rows[n] = data[n]
    BY <1>2, <2>2
  <2> HIDE DEF rows
  <2>4. Covers(rows) /\ \A n \in DOMAIN data : data[n].uid \in Uids(rows)
    <3>1. \A n \in DOMAIN data : n \in DOMAIN rows
      BY <1>2, <2>3
    <3> QED
      BY <2>3, <3>1 DEF Covers, Uids
  <2>5. nextUid' \in Nat
    BY <1>2, <2>1
  <2> QED
    BY <1>2, <1>3, <2>1, <2>3, <2>4, <2>5, ListSentInv
<1>5. CASE editingRowId # None
  <2> DEFINE rows == With(editingRowId, editingText)
  <2>1. nextUid' = nextUid /\ SendList(rows, "save", editingUid, FALSE)
    BY <1>5 DEF listsSaveRow, recordsSaveRow
  <2>2. rows \in Seq(Row) /\ DOMAIN rows = DOMAIN data /\ \A n \in DOMAIN data : rows[n].uid = data[n].uid
    BY <1>2, RowsWith
  <2> HIDE DEF rows
  <2>3. Covers(rows) /\ \A n \in DOMAIN data : data[n].uid \in Uids(rows)
    BY <2>2 DEF Covers, Uids
  <2> QED
    BY <1>2, <1>3, <2>1, <2>2, <2>3, ListSentInv
<1> QED
  BY <1>4, <1>5

\* The table of an inspection list is there, and a row of it is edited.
LEMMA FilterEditing ==
    ASSUME ListInv, filterOffered.editing \/ filterOffered.save
    PROVE  /\ ~(loading /\ data = <<>>)
           /\ \E k \in DOMAIN data : RowOf(editingRowId) = data[k] /\ data[k].id = editingRowId /\ data[k] \in Row
<1>1. ~(loading /\ data = <<>>) /\ editingRowId \in RowIds
  BY DEF filterOffered
<1> QED
  BY <1>1, RowWithId DEF ListInv, ListTypes

\* Text is typed into a row.
LEMMA filterHandleChangeInv ==
    ASSUME ListInv, NEW text \in Texts \cup {Blank}, filterHandleChange(text)
    PROVE  ListInv'
<1>1. ListTypes /\ ListRows
  BY DEF ListInv
<1>2. editor = "filter" /\ filterOffered.editing /\ data' = With(editingRowId, text)
  BY DEF filterHandleChange
<1>3. /\ UNCHANGED <<editor, nextId, loading, loadFailed, load, pendingDelete>>
      /\ UNCHANGED <<stored, saving, post, blind, unconfirmed>>
      /\ nextUid' = nextUid /\ editingRowId' = editingRowId /\ editingUid' = editingUid /\ editingText' = editingText
  BY DEF filterHandleChange, form, server
<1>4. data \in Seq(Row) /\ text \in Vals
  BY <1>1 DEF ListTypes, Vals
<1>5. /\ data' \in Seq(Row) /\ DOMAIN data' = DOMAIN data
      /\ \A n \in DOMAIN data : data'[n].id = data[n].id /\ data'[n].uid = data[n].uid /\ data'[n].draft = data[n].draft
  BY <1>2, <1>4, RowsWith
<1>6. ListRows'
  BY <1>1, <1>3, <1>5 DEF ListRows
<1>7. /\ nextId' \in Nat /\ nextUid' \in Nat /\ editingRowId' \in Nat \cup {None}
      /\ editingUid' \in Nat \cup {None} /\ editingText' \in Vals
  BY <1>1, <1>3 DEF ListTypes
<1>8. ~(loading /\ data = <<>>)
  BY <1>2, FilterEditing
<1> QED
  BY <1>2, <1>3, <1>5, <1>6, <1>7, <1>8, ListEditedInv

\* An edit is cancelled; a draft goes.
LEMMA filterCancelEditingInv ==
    ASSUME ListInv, filterCancelEditing
    PROVE  ListInv'
<1>1. ListTypes /\ ListRows
  BY DEF ListInv
<1>2. /\ editor = "filter" /\ filterOffered.save /\ editingRowId' = None /\ editingUid' = None
      /\ data' = IF RowOf(editingRowId).draft THEN Without(editingRowId) ELSE data
  BY DEF filterCancelEditing
<1>3. /\ UNCHANGED <<editor, nextId, loading, loadFailed, load, pendingDelete>>
      /\ UNCHANGED <<stored, saving, post, blind, unconfirmed>>
      /\ nextUid' = nextUid /\ editingText' = editingText
  BY DEF filterCancelEditing, server
<1>4. data \in Seq(Row) /\ DOMAIN data = 1 .. Len(data) /\ Len(data) \in Nat
  BY <1>1 DEF ListTypes
<1>5. /\ nextId' \in Nat /\ nextUid' \in Nat /\ editingRowId' \in Nat \cup {None}
      /\ editingUid' \in Nat \cup {None} /\ editingText' \in Vals
  BY <1>1, <1>2, <1>3 DEF ListTypes
<1>6. ~(loading /\ data = <<>>)
  BY <1>2, FilterEditing
<1>7. PICK e \in DOMAIN data : RowOf(editingRowId) = data[e] /\ data[e].id = editingRowId
  BY <1>2, FilterEditing
<1>8. CASE ~data[e].draft
  <2>1. data' = data
    BY <1>2, <1>7, <1>8
  <2>2. ListRows'
    BY <1>1, <1>3, <2>1 DEF ListRows
  <2> QED
    BY <1>2, <1>3, <1>4, <1>5, <1>6, <2>1, <2>2, ListEditedInv
<1>9. CASE data[e].draft
  <2>1. editingRowId \in RowIds /\ data' = Without(editingRowId)
    BY <1>2, <1>7, <1>9 DEF RowIds
  <2>2. PICK k \in DOMAIN data : data[k].id = editingRowId /\ data' = RemoveAt(data, k)
    BY <1>4, <2>1, RowsWithout
  <2>3. k = e /\ k \in 1 .. Len(data) /\ data[k].draft
    BY <1>1, <1>4, <1>7, <1>9, <2>2 DEF ListRows
  <2>4. /\ data' \in Seq(Row) /\ Len(data') = Len(data) - 1
        /\ \A j \in 1 .. Len(data) - 1 : data'[j] = IF j < k THEN data[j] ELSE data[j + 1]
    BY <1>4, <2>2, WithoutUids, Zenon
  <2>5. DOMAIN data' = 1 .. Len(data) - 1
    BY <2>4
  <2>6. \A n \in DOMAIN data : n >= k => data[n].draft
    BY <1>1, <1>4, <2>3 DEF ListRows
  <2>7. \A n \in DOMAIN data : ~data[n].draft => n \in DOMAIN data' /\ data'[n] = data[n]
    BY <1>4, <2>3, <2>4, <2>5, <2>6
  <2>8. \A n \in DOMAIN data' : ~data'[n].draft => n < k /\ n \in DOMAIN data /\ data'[n] = data[n]
    <3> SUFFICES ASSUME NEW n \in DOMAIN data', ~data'[n].draft
                 PROVE  n < k /\ n \in DOMAIN data /\ data'[n] = data[n]
      OBVIOUS
    <3>1. n \in 1 .. Len(data) - 1 /\ n \in DOMAIN data /\ n + 1 \in DOMAIN data
      BY <1>4, <2>5
    <3>2. ~(n < k) => data'[n] = data[n + 1] /\ n + 1 >= k
      BY <1>4, <2>3, <2>4, <3>1
    <3>3. n < k
      BY <2>6, <3>1, <3>2
    <3> QED
      BY <2>4, <3>1, <3>3
  <2> DEFINE f(n) == IF n < k THEN n ELSE n + 1
  <2>9. /\ \A n \in DOMAIN data' : f(n) \in DOMAIN data /\ data'[n] = data[f(n)]
        /\ \A m, n \in DOMAIN data' : (m < n => f(m) < f(n)) /\ (f(m) = f(n) => m = n)
    BY <1>4, <2>3, <2>4, <2>5
  <2> HIDE DEF f
  <2>10. ListRows'
    <3>1. \A n \in DOMAIN data' : ~data'[n].draft => data'[n].id = n
      BY <1>1, <2>8 DEF ListRows
    <3>2. \A m, n \in DOMAIN data' : m < n /\ data'[m].draft => data'[n].draft
      BY <1>1, <2>9 DEF ListRows
    <3>3. \A m, n \in DOMAIN data' : data'[m].id = data'[n].id => m = n
      BY <1>1, <2>9 DEF ListRows
    <3>4. \A n \in DOMAIN data' : data'[n].id < nextId'
      BY <1>1, <1>2, <1>3, <2>9 DEF ListRows
    <3> QED
      BY <1>2, <1>3, <3>1, <3>2, <3>3, <3>4 DEF ListRows
  <2> QED
    BY <1>2, <1>3, <1>5, <1>6, <2>4, <2>7, <2>8, <2>10, ListEditedInv
<1> QED
  BY <1>8, <1>9

\* A draft is added at the end.
LEMMA filterAddRowInv ==
    ASSUME ListInv, filterAddRow
    PROVE  ListInv'
<1>1. ListTypes /\ ListRows
  BY DEF ListInv
<1> DEFINE new == [NewRow(Blank, nextId) EXCEPT !.draft = TRUE]
<1>2. /\ editor = "filter" /\ editingRowId' = nextId /\ editingUid' = nextUid
      /\ data' = Append(data, new) /\ nextId' = nextId + 1 /\ nextUid' = nextUid + 1
      /\ ~(loading /\ data = <<>>)
  BY DEF filterAddRow, filterOffered
<1>3. /\ UNCHANGED <<editor, loading, loadFailed, load, pendingDelete, stored, saving, post, blind, unconfirmed>>
      /\ editingText' = editingText
  BY DEF filterAddRow
<1>4. data \in Seq(Row) /\ DOMAIN data = 1 .. Len(data) /\ Len(data) \in Nat /\ nextId \in Nat /\ nextUid \in Nat
  BY <1>1 DEF ListTypes
<1>5. new \in Row /\ new.id = nextId /\ new.draft
  BY <1>4 DEF NewRow, Row, Vals
<1> HIDE DEF new
<1>6. /\ data' \in Seq(Row) /\ DOMAIN data' = 1 .. Len(data) + 1
      /\ \A n \in DOMAIN data : data'[n] = data[n]
      /\ data'[Len(data) + 1] = new
  BY <1>2, <1>4, <1>5
<1>7. \A n \in DOMAIN data' : n \in DOMAIN data \/ n = Len(data) + 1
  BY <1>4, <1>6
<1>8. \A n \in DOMAIN data : n \in DOMAIN data' /\ n < Len(data) + 1
  BY <1>4, <1>6
<1>9. \A n \in DOMAIN data : data[n].id < nextId /\ data[n].id \in Nat
  <2>1. \A n \in DOMAIN data : data[n] \in Row
    BY <1>4
  <2> QED
    BY <1>1, <1>2, <2>1 DEF ListRows, Row
<1>10. ListRows'
  <2>1. \A n \in DOMAIN data' : ~data'[n].draft => data'[n].id = n
    BY <1>1, <1>5, <1>6, <1>7 DEF ListRows
  <2>2. ASSUME NEW m \in DOMAIN data', NEW n \in DOMAIN data', m < n, data'[m].draft PROVE data'[n].draft
    <3>1. CASE n \in DOMAIN data
      <4>1. m \in DOMAIN data
        BY <1>4, <1>6, <2>2, <3>1
      <4> QED
        BY <1>1, <1>6, <2>2, <3>1, <4>1 DEF ListRows
    <3>2. CASE n = Len(data) + 1
      BY <1>5, <1>6, <3>2
    <3> QED
      BY <1>7, <3>1, <3>2
  <2>3. ASSUME NEW m \in DOMAIN data', NEW n \in DOMAIN data', data'[m].id = data'[n].id PROVE m = n
    <3>1. CASE m \in DOMAIN data /\ n \in DOMAIN data
      BY <1>1, <1>6, <2>3, <3>1 DEF ListRows
    <3>2. CASE m \in DOMAIN data /\ n = Len(data) + 1
      BY <1>4, <1>5, <1>6, <1>9, <2>3, <3>2
    <3>3. CASE m = Len(data) + 1 /\ n \in DOMAIN data
      BY <1>4, <1>5, <1>6, <1>9, <2>3, <3>3
    <3> QED
      BY <1>7, <3>1, <3>2, <3>3
  <2>4. \A n \in DOMAIN data' : data'[n].id < nextId'
    BY <1>2, <1>4, <1>5, <1>6, <1>7, <1>9
  <2> QED
    BY <1>2, <1>3, <2>1, <2>2, <2>3, <2>4 DEF ListRows
<1>11. /\ nextId' \in Nat /\ nextUid' \in Nat /\ editingRowId' \in Nat \cup {None}
       /\ editingUid' \in Nat \cup {None} /\ editingText' \in Vals
  BY <1>1, <1>2, <1>3, <1>4 DEF ListTypes
<1>12. \A n \in DOMAIN data : ~data[n].draft => n \in DOMAIN data' /\ ~data'[n].draft /\ data'[n].uid = data[n].uid
  BY <1>6, <1>8
<1>13. \A n \in DOMAIN data' : ~data'[n].draft => n \in DOMAIN data /\ ~data[n].draft
  BY <1>5, <1>6, <1>7
<1> QED
  BY <1>2, <1>3, <1>6, <1>10, <1>11, <1>12, <1>13, ListEditedInv

\* A row under edit is saved with the list as it is.
LEMMA filterSaveEditingRowInv ==
    ASSUME ListInv, filterSaveEditingRow
    PROVE  ListInv'
<1>1. data \in Seq(Row) /\ editingUid \in Nat \cup {None} /\ nextUid \in Nat
  BY DEF ListInv, ListTypes
<1>2. /\ ~saving /\ SendList(data, "save", editingUid, FALSE) /\ nextUid' = nextUid
      /\ UNCHANGED <<editor, pendingDelete, screen, form>>
  BY DEF filterSaveEditingRow, filterOffered
<1>3. Covers(data) /\ \A n \in DOMAIN data : data[n].uid \in Uids(data)
  BY DEF Covers, Uids
<1>4. nextUid' \in Nat
  BY <1>1, <1>2
<1> QED
  BY <1>1, <1>2, <1>3, <1>4, ListSentInv

\* A load of one of the editors ends.
LEMMA ListLoadsInv ==
    ASSUME ListInv, NEW l \in {"mount", "reload"}, NEW ok \in BOOLEAN,
           filterLoadAPIData(l, ok) \/ recordsLoadAPIData(l, ok) \/ (listsLoadAPIData(ok) /\ l = "mount")
    PROVE  ListInv'
<1>1. ListTypes
  BY DEF ListInv
<1>2. load[l] # None /\ LoadEnds(l) /\ loadFailed' = ~ok /\ SaveEnds(l) /\ editor' = editor
  BY DEF filterLoadAPIData, recordsLoadAPIData, listsLoadAPIData, SaveEnds
<1>3. ok => Answered(l) /\ data' = Numbered(load[l])
  BY DEF filterLoadAPIData, recordsLoadAPIData, listsLoadAPIData
<1>4. ~ok => data' = data \/ (data' = <<>> /\ l = "mount")
  BY DEF filterLoadAPIData, recordsLoadAPIData, listsLoadAPIData
<1>5. pendingDelete' = IF l = "reload" /\ post.op = "delete" THEN None ELSE pendingDelete
  BY DEF filterLoadAPIData, recordsLoadAPIData, listsLoadAPIData
<1>6. ok => Len(load[l]) \in Nat
  BY <1>1, <1>3 DEF ListTypes, Answered
<1>7. /\ nextId' = nextId \/ (ok /\ nextId' = Len(load[l]) + 1)
      /\ editor = "filter" => nextId' = IF ok THEN Len(load[l]) + 1 ELSE nextId
  BY DEF filterLoadAPIData, recordsLoadAPIData, listsLoadAPIData
<1>8. nextId' \in Nat
  BY <1>1, <1>6, <1>7 DEF ListTypes
<1>9. /\ editingRowId' \in {editingRowId, None} /\ editingUid' \in {editingUid, None}
      /\ editingText' \in {editingText, Blank}
  BY DEF filterLoadAPIData, recordsLoadAPIData, listsLoadAPIData, recordsCloseForm, form
<1>10. editingRowId' \in Nat \cup {None} /\ editingUid' \in Nat \cup {None} /\ editingText' \in Vals
  BY <1>1, <1>9 DEF ListTypes, Vals
<1> QED
  BY <1>2, <1>3, <1>4, <1>5, <1>7, <1>8, <1>10, ListLoadedInv

\* A step that changes the form, or nothing.
LEMMA ListFormsInv ==
    ASSUME ListInv,
           \/ \E text \in Texts : TypeText(text)
           \/ \E id \in RowIds : filterEditRow(id) \/ listsEditRow(id) \/ recordsEditRow(id)
           \/ listsOpenCreate \/ recordsOpenCreate \/ CloseForm \/ CloseDialog \/ UNCHANGED listVars
    PROVE  ListInv'
<1>1. ListTypes
  BY DEF ListInv
<1>2. UNCHANGED <<editor, screen, server>> /\ pendingDelete' \in {pendingDelete, None}
  BY DEF TypeText, filterEditRow, listsEditRow, recordsEditRow, listsOpenCreate, recordsOpenCreate, CloseForm,
         CloseDialog, listVars, screen, server
<1>3. editingRowId' \in Nat \cup {None} /\ editingUid' \in Nat \cup {None} /\ editingText' \in Vals
  <2>1. CASE \E text \in Texts : TypeText(text)
    BY <1>1, <2>1 DEF TypeText, ListTypes, Vals
  <2>2. ASSUME NEW id \in RowIds, filterEditRow(id) \/ listsEditRow(id) \/ recordsEditRow(id)
        PROVE  editingRowId' \in Nat \cup {None} /\ editingUid' \in Nat \cup {None} /\ editingText' \in Vals
    <3>1. PICK n \in DOMAIN data : RowOf(id) = data[n] /\ data[n].id = id /\ data[n] \in Row
      BY <1>1, RowWithId DEF ListTypes
    <3>2. id \in Nat /\ RowOf(id).uid \in Nat /\ RowOf(id).val \in Vals
      BY <3>1 DEF Row
    <3> QED
      BY <1>1, <2>2, <3>2 DEF filterEditRow, listsEditRow, recordsEditRow, ListTypes
  <2>3. CASE listsOpenCreate \/ recordsOpenCreate \/ CloseForm
    BY <2>3 DEF listsOpenCreate, recordsOpenCreate, CloseForm, listsCloseForm, Vals
  <2>4. CASE CloseDialog \/ UNCHANGED listVars
    BY <1>1, <2>4 DEF CloseDialog, listVars, form, ListTypes
  <2> QED
    BY <2>1, <2>2, <2>3, <2>4
<1> QED
  BY <1>2, <1>3, ListFormInv

\* Every step keeps the invariant.
LEMMA ListNextInv ==
    ASSUME ListInv, [ListNext]_listVars
    PROVE  ListInv'
<1>1. ASSUME NEW id \in RowIds, filterRequestDelete(id) \/ listsRequestDelete(id) \/ recordsRequestDelete(id)
      PROVE  ListInv'
  <2>1. /\ UNCHANGED <<editor, screen, form, server>>
        /\ pendingDelete' = [id |-> id, uid |-> RowOf(id).uid, draft |-> RowOf(id).draft]
    BY <1>1 DEF filterRequestDelete, listsRequestDelete, recordsRequestDelete
  <2> QED
    BY <2>1, ListAskedInv
<1>2. CASE filterConfirmDelete \/ listsConfirmDelete \/ recordsConfirmDelete
  <2>1. /\ ~saving /\ pendingDelete # None
        /\ SendList(Without(pendingDelete.id), "delete", pendingDelete.uid, pendingDelete.draft)
        /\ UNCHANGED <<editor, nextUid, pendingDelete, screen, form>>
    BY <1>2 DEF filterConfirmDelete, listsConfirmDelete, recordsConfirmDelete, filterOffered, listsOffered,
                recordsOffered
  <2> QED
    BY <2>1, ListDeletedInv
<1>3. ASSUME NEW ok \in BOOLEAN, listsLoadAPIData(ok) PROVE ListInv'
  BY <1>3, ListLoadsInv
<1>4. ASSUME NEW ok \in BOOLEAN, NEW l \in {"mount", "reload"}, filterLoadAPIData(l, ok) \/ recordsLoadAPIData(l, ok)
      PROVE  ListInv'
  BY <1>4, ListLoadsInv
<1>5. CASE \E l \in {"mount", "reload"} : ReadList(l)
  BY <1>5, ListReadInv
<1>6. CASE StoreList
  BY <1>6, ListStoredInv
<1>7. ASSUME NEW ok \in BOOLEAN, filterSaveData(ok) \/ recordsPersist(ok) PROVE ListInv'
  BY <1>7, ListConfirmedInv
<1>8. ASSUME NEW ok \in BOOLEAN, listsPersist(ok) PROVE ListInv'
  BY <1>8, ListPersistedInv
<1>9. ASSUME NEW text \in Texts \cup {Blank}, filterHandleChange(text) PROVE ListInv'
  BY <1>9, filterHandleChangeInv
<1>10. CASE listsSaveRow \/ recordsSaveRow
  BY <1>10, ListSavedInv
<1>11. CASE filterAddRow
  BY <1>11, filterAddRowInv
<1>12. CASE filterSaveEditingRow
  BY <1>12, filterSaveEditingRowInv
<1>13. CASE filterCancelEditing
  BY <1>13, filterCancelEditingInv
<1>14. CASE \/ \E text \in Texts : TypeText(text)
            \/ \E id \in RowIds : filterEditRow(id) \/ listsEditRow(id) \/ recordsEditRow(id)
            \/ listsOpenCreate \/ recordsOpenCreate \/ CloseForm \/ CloseDialog \/ UNCHANGED listVars
  BY <1>14, ListFormsInv
<1> QED
  BY <1>1, <1>2, <1>3, <1>4, <1>5, <1>6, <1>7, <1>8, <1>9, <1>10, <1>11, <1>12, <1>13, <1>14, Zenon DEF ListNext

\* What the invariant says of the screen and of the dialog.
LEMMA ListKept == ListInv => ListsBusy /\ ListsAgree /\ DialogNamesItsRow
<1> SUFFICES ASSUME ListInv PROVE ListsBusy /\ ListsAgree /\ DialogNamesItsRow
  OBVIOUS
<1>1. ListTypes /\ ListRows /\ ListPhases
  BY DEF ListInv
<1>2. ListsBusy
  BY <1>1 DEF ListTypes, ListPhases, ListsBusy
<1>3. DialogNamesItsRow
  <2> SUFFICES ASSUME pendingDelete # None, ~blind, ~pendingDelete.draft, pendingDelete.id \in RowIds
               PROVE  RowOf(pendingDelete.id).uid = pendingDelete.uid
    BY DEF DialogNamesItsRow
  <2>1. Names(pendingDelete)
    BY DEF ListInv, ListSighted
  <2>2. PICK n \in DOMAIN data : RowOf(pendingDelete.id) = data[n] /\ data[n].id = pendingDelete.id
    BY <1>1, RowWithId DEF ListTypes
  <2>3. n = pendingDelete.id
    BY <1>1, <2>1, <2>2 DEF Names, ListRows
  <2> QED
    BY <2>1, <2>2, <2>3 DEF Names
<1>4. ListsAgree
  <2> SUFFICES ASSUME ~loading, ~saving, ~loadFailed, ~unconfirmed, ~blind
               PROVE  IF editor = "filter"
                      THEN {data[n].uid : n \in {m \in DOMAIN data : ~data[m].draft}} = Uids(stored)
                      ELSE Payload(data) = stored
    BY DEF ListsAgree
  <2>1. Aligned
    BY <1>1 DEF ListInv, ListSighted, ListPhases
  <2>2. CASE editor = "filter"
    <3>1. {m \in DOMAIN data : ~data[m].draft} = DOMAIN stored
      BY <2>1 DEF Aligned
    <3>2. \A n \in DOMAIN stored : data[n].uid = stored[n].uid
      BY <2>1 DEF Aligned
    <3> QED
      BY <2>2, <3>1, <3>2 DEF Uids
  <2>3. CASE editor # "filter"
    <3>1. data \in Seq(Row) /\ stored \in Seq(Item)
      BY <1>1 DEF ListTypes
    <3>2. DOMAIN data = DOMAIN stored
      BY <1>1, <2>1, <2>3 DEF Aligned, ListRows
    <3>3. \A n \in DOMAIN stored : stored[n] = [uid |-> data[n].uid, val |-> data[n].val]
      <4> SUFFICES ASSUME NEW n \in DOMAIN stored PROVE stored[n] = [uid |-> data[n].uid, val |-> data[n].val]
        OBVIOUS
      <4>1. stored[n] \in Item
        BY <3>1
      <4>2. data[n].uid = stored[n].uid /\ data[n].val = stored[n].val
        BY <2>1, <2>3 DEF Aligned
      <4> QED
        BY <4>1, <4>2 DEF Item
    <3>4. stored = [n \in DOMAIN stored |-> stored[n]]
      BY <3>1
    <3> QED
      BY <2>3, <3>2, <3>3, <3>4 DEF Payload
  <2> QED
    BY <2>2, <2>3
<1> QED
  BY <1>2, <1>3, <1>4

\* What a step may drop from the server's list.
LEMMA ListDropped ==
    ASSUME ListInv, ListNext, stored' # stored, ~blind, ~unconfirmed, ~post.draft
    PROVE  Uids(stored) \ Uids(stored') \subseteq (IF post.op = "delete" THEN {post.uid} ELSE {})
<1>1. StoreList
  <2>1. ASSUME NEW l \in {"mount", "reload"} PROVE ~ReadList(l)
    BY DEF ReadList, server
  <2>2. ASSUME NEW l \in {"mount", "reload"}, NEW ok \in BOOLEAN
        PROVE  ~filterLoadAPIData(l, ok) /\ ~recordsLoadAPIData(l, ok)
    BY DEF filterLoadAPIData, recordsLoadAPIData, SaveEnds, server
  <2>3. ASSUME NEW ok \in BOOLEAN
        PROVE  ~listsLoadAPIData(ok) /\ ~filterSaveData(ok) /\ ~listsPersist(ok) /\ ~recordsPersist(ok)
    BY DEF listsLoadAPIData, filterSaveData, listsPersist, recordsPersist, server
  <2>4. ASSUME NEW text PROVE ~filterHandleChange(text) /\ ~TypeText(text)
    BY DEF filterHandleChange, TypeText, server
  <2>5. ASSUME NEW id
        PROVE  /\ ~filterEditRow(id) /\ ~listsEditRow(id) /\ ~recordsEditRow(id)
               /\ ~filterRequestDelete(id) /\ ~listsRequestDelete(id) /\ ~recordsRequestDelete(id)
    BY DEF filterEditRow, listsEditRow, recordsEditRow, filterRequestDelete, listsRequestDelete,
           recordsRequestDelete, server
  <2>6. /\ ~filterAddRow /\ ~filterSaveEditingRow /\ ~filterCancelEditing /\ ~filterConfirmDelete
        /\ ~listsOpenCreate /\ ~recordsOpenCreate /\ ~CloseForm /\ ~CloseDialog
    BY DEF filterAddRow, filterSaveEditingRow, filterCancelEditing, filterConfirmDelete, listsOpenCreate,
           recordsOpenCreate, CloseForm, CloseDialog, SendList, server
  <2>7. ~listsSaveRow /\ ~recordsSaveRow /\ ~listsConfirmDelete /\ ~recordsConfirmDelete
    BY DEF listsSaveRow, recordsSaveRow, listsConfirmDelete, recordsConfirmDelete, SendList
  <2> QED
    BY <2>1, <2>2, <2>3, <2>4, <2>5, <2>6, <2>7, Zenon DEF ListNext
<1>2. post # None /\ post.phase = "sent" /\ stored' = post.rows
  BY <1>1 DEF StoreList
<1>3. Drops
  BY <1>2 DEF ListInv, ListSighted
<1> QED
  BY <1>2, <1>3 DEF Drops, Uids

-----------------------------------------------------------------------------
(* What the invariants of the pages say of their screens and controls *)

\* The proxy users.
LEMMA UsersKept == UsersInv => UsersBusy /\ UsersAgree
BY DEF UsersInv, UsersSteady, UsersAgree

\* The device list.
LEMMA ListPageKept == ListPageInv => ListPageBusy /\ ListPageAgrees
BY DEF ListPageInv, ListPageSteady, ReaderSteady, ListPageAgrees, Steady

\* The policy of a device.
LEMMA PolicyTabKept == PolicyTabInv => PolicyTabBusy /\ PolicyTabAgrees
BY DEF PolicyTabInv, PolicyTabSteady, ReaderSteady, PolicyTabAgrees, Steady

\* The connections of a device.
LEMMA PeersTabKept == PeersTabInv => PeersTabBusy /\ PeersTabAgrees
BY DEF PeersTabInv, PeersTabSteady, ReaderSteady, PeersTabAgrees, Steady

\* The policies.
LEMMA PoliciesKept == PoliciesInv => PoliciesBusy /\ PoliciesAgree
<1> SUFFICES ASSUME PoliciesInv PROVE PoliciesBusy /\ PoliciesAgree
  OBVIOUS
<1>1. policies.loading => \E r \in policiesNet : r.op = "load"
  BY DEF PoliciesInv, PoliciesLoading
<1>2. PoliciesBusy
  BY <1>1 DEF PoliciesInv, PoliciesBusy, InFlight
<1>3. PoliciesAgree
  BY <1>1 DEF PoliciesInv, PoliciesAgree, GroupsSteady, AssignSteady
<1> QED
  BY <1>2, <1>3

\* The site tester and the categories.
LEMMA ToolsKept == ToolsInv => ToolsBusy /\ ToolsAgree
<1> SUFFICES ASSUME ToolsInv PROVE ToolsBusy /\ ToolsAgree
  OBVIOUS
<1>1. CASE tab = "test"
  BY <1>1 DEF ToolsInv, TestInv, ToolsBusy, ToolsAgree
<1>2. CASE tab = "defaults"
  BY <1>2 DEF ToolsInv, DefaultsInv, ToolsBusy, ToolsAgree
<1> QED
  BY <1>1, <1>2 DEF ToolsInv

\* The controls bound to a setting.
LEMMA FieldsKept == FieldsInv => FieldsBusy /\ FieldsAgree
<1> SUFFICES ASSUME FieldsInv PROVE FieldsBusy /\ FieldsAgree
  OBVIOUS
<1>1. CASE control = "general"
  BY <1>1 DEF FieldsInv, GeneralInv, GeneralSteady, FieldsBusy, FieldsAgree, TextControls
<1>2. CASE control \in TextControls
  BY <1>2 DEF FieldsInv, TextInv, TextSteady, FieldsBusy, FieldsAgree, InFlight, TextControls
<1>3. CASE control = "toggle"
  BY <1>3 DEF FieldsInv, ToggleInv, ToggleSteady, FieldsBusy, FieldsAgree, InFlight, TextControls
<1>4. CASE control = "certificate"
  BY <1>4 DEF FieldsInv, CertificateInv, FieldsBusy, FieldsAgree, TextControls
<1> QED
  BY <1>1, <1>2, <1>3, <1>4 DEF FieldsInv, Controls

-----------------------------------------------------------------------------
(* The pages together *)

\* The page that is mounted keeps its invariant; of the others, only what some
\* property looks at wherever it is.
WebInv ==
    /\ page \in Pages
    /\ page = "lists" => ListInv
    /\ page # "lists" => pendingDelete = None
    /\ page = "users" => UsersInv
    /\ page = "device list" => ListPageInv
    /\ page = "device policy" => PolicyTabInv
    /\ page = "device connections" => PeersTabInv
    /\ page = "policies" => PoliciesInv
    /\ page = "tools" => ToolsInv
    /\ DraftInv
    /\ page = "fields" => FieldsInv
    /\ page = "status" => StatusInv
    /\ page = "session" => SessionInv
    /\ page # "session" => session.state = "checking"

\* Every page starts within its invariant.
LEMMA WebInitInv == WebInit => WebInv
<1> SUFFICES ASSUME WebInit PROVE WebInv
  OBVIOUS
<1>1. page \in Pages
  BY DEF WebInit
<1>2. (page = "lists" => ListInv) /\ (page # "lists" => pendingDelete = None)
  BY ListInitInv DEF WebInit, ListOff
<1>3. page = "users" => UsersInv
  BY UsersInitInv DEF WebInit
<1>4. page = "device list" => ListPageInv
  BY ListPageInitInv DEF WebInit
<1>5. page = "device policy" => PolicyTabInv
  BY PolicyTabInitInv DEF WebInit
<1>6. page = "device connections" => PeersTabInv
  BY PeersTabInitInv DEF WebInit
<1>7. page = "policies" => PoliciesInv
  BY PoliciesInitInv DEF WebInit
<1>8. page = "tools" => ToolsInv
  BY ToolsInitInv DEF WebInit
<1>9. DraftInv
  <2>1. PICK isDefault : draft = emptyGroup(isDefault) /\ advanced = Opened(draft)
    BY Zenon DEF WebInit, DraftInit, DraftOff
  <2> QED
    BY <2>1, DraftInitInv
<1>10. page = "fields" => FieldsInv
  BY FieldsInitInv DEF WebInit
<1>11. page = "status" => StatusInv
  BY StatusInitInv DEF WebInit
<1>12. page = "session" => SessionInv
  BY SessionInitInv DEF WebInit
<1>13. page # "session" => session.state = "checking"
  <2>1. page # "session" => session = Loaded("/", None, {}, FALSE)
    BY DEF WebInit, SessionOff
  <2> QED
    BY <2>1 DEF Loaded
<1> QED
  BY <1>1, <1>2, <1>3, <1>4, <1>5, <1>6, <1>7, <1>8, <1>9, <1>10, <1>11, <1>12, <1>13 DEF WebInv

\* A step of the web interface is one of the page that is mounted.
LEMMA WebStep ==
    ASSUME [WebNext]_webVars
    PROVE  /\ page' = page
           /\ (page = "lists" /\ [ListNext]_listVars) \/ UNCHANGED listVars
           /\ page = "users" => [UsersNext]_usersVars
           /\ page = "device list" => [ListPageNext]_devicesVars
           /\ page = "device policy" => [PolicyTabNext]_devicesVars
           /\ page = "device connections" => [PeersTabNext]_devicesVars
           /\ page = "policies" => [PoliciesNext]_policiesVars
           /\ page = "tools" => [ToolsNext]_toolVars
           /\ [DraftNext]_draftVars
           /\ page = "fields" => [FieldsNext]_fieldVars
           /\ page = "status" => [StatusNext]_statusVars
           /\ (page = "session" /\ [SessionNext]_sessionVars) \/ UNCHANGED sessionVars
<1>1. CASE WebNext
  BY <1>1, Zenon DEF WebNext, DevicePageNames
<1>2. CASE UNCHANGED webVars
  BY <1>2, Zenon DEF webVars
<1> QED
  BY <1>1, <1>2

\* Every step of the web interface keeps it.
LEMMA WebNextInv == WebInv /\ [WebNext]_webVars => WebInv'
<1> SUFFICES ASSUME WebInv, [WebNext]_webVars PROVE WebInv'
  OBVIOUS
<1>1. page' = page /\ page \in Pages
  BY WebStep DEF WebInv
<1>2. page = "lists" => ListInv'
  <2>1. page = "lists" => ListInv /\ [ListNext]_listVars
    BY WebStep, Zenon DEF WebInv
  <2> QED
    BY <2>1, ListNextInv
<1>3. page # "lists" => pendingDelete' = None
  <2>1. page # "lists" => UNCHANGED listVars /\ pendingDelete = None
    BY WebStep, Zenon DEF WebInv
  <2> QED
    BY <2>1 DEF listVars
<1>4. page = "users" => UsersInv'
  BY WebStep, UsersNextInv, Zenon DEF WebInv
<1>5. page = "device list" => ListPageInv'
  BY WebStep, ListPageNextInv, Zenon DEF WebInv
<1>6. page = "device policy" => PolicyTabInv'
  BY WebStep, PolicyTabNextInv, Zenon DEF WebInv
<1>7. page = "device connections" => PeersTabInv'
  BY WebStep, PeersTabNextInv, Zenon DEF WebInv
<1>8. page = "policies" => PoliciesInv'
  BY WebStep, PoliciesNextInv, Zenon DEF WebInv
<1>9. page = "tools" => ToolsInv'
  BY WebStep, ToolsNextInv, Zenon DEF WebInv
<1>10. DraftInv'
  BY WebStep, DraftNextInv, Zenon DEF WebInv
<1>11. page = "fields" => FieldsInv'
  BY WebStep, FieldsNextInv, Zenon DEF WebInv
<1>12. page = "status" => StatusInv'
  BY WebStep, StatusNextInv, Zenon DEF WebInv
<1>13. page = "session" => SessionInv'
  <2>1. page = "session" => SessionInv /\ [SessionNext]_sessionVars
    BY WebStep, Zenon DEF WebInv
  <2> QED
    BY <2>1, SessionNextInv
<1>14. page # "session" => session'.state = "checking"
  <2>1. page # "session" => UNCHANGED sessionVars /\ session.state = "checking"
    BY WebStep, Zenon DEF WebInv
  <2> QED
    BY <2>1 DEF sessionVars
<1> QED
  BY <1>1, <1>2, <1>3, <1>4, <1>5, <1>6, <1>7, <1>8, <1>9, <1>10, <1>11, <1>12, <1>13, <1>14 DEF WebInv

\* What the invariant says of the page that is mounted.
LEMMA WebKept == WebInv => BusyHasRequest /\ ScreenIsStored /\ NotBlank /\ DialogNamesItsRow /\ NothingHidden /\ BedtimeUndo
<1> SUFFICES ASSUME WebInv
             PROVE  BusyHasRequest /\ ScreenIsStored /\ NotBlank /\ DialogNamesItsRow /\ NothingHidden /\ BedtimeUndo
  OBVIOUS
<1>1. BusyHasRequest
  <2>1. /\ page = "lists" => ListsBusy
        /\ page = "users" => UsersBusy
        /\ page = "device list" => ListPageBusy
        /\ page = "device policy" => PolicyTabBusy
        /\ page = "device connections" => PeersTabBusy
        /\ page = "policies" => PoliciesBusy
        /\ page = "tools" => ToolsBusy
        /\ page = "fields" => FieldsBusy
        /\ page = "status" => StatusBusy
        /\ page = "session" => SessionBusy
    BY ListKept, UsersKept, ListPageKept, PolicyTabKept, PeersTabKept, PoliciesKept, ToolsKept, FieldsKept,
       StatusKept, SessionKeptInv, Zenon DEF WebInv
  <2> QED
    BY <2>1 DEF BusyHasRequest
<1>2. ScreenIsStored
  <2>1. /\ page = "lists" => ListsAgree
        /\ page = "users" => UsersAgree
        /\ page = "device list" => ListPageAgrees
        /\ page = "device policy" => PolicyTabAgrees
        /\ page = "device connections" => PeersTabAgrees
        /\ page = "policies" => PoliciesAgree
        /\ page = "tools" => ToolsAgree
        /\ page = "fields" => FieldsAgree
        /\ page = "status" => StatusAgrees
    BY ListKept, UsersKept, ListPageKept, PolicyTabKept, PeersTabKept, PoliciesKept, ToolsKept, FieldsKept,
       StatusKept, Zenon DEF WebInv
  <2> QED
    BY <2>1 DEF ScreenIsStored
<1>3. NotBlank
  <2>1. CASE page = "session"
    BY <2>1, SessionKeptInv DEF WebInv
  <2>2. CASE page # "session"
    BY <2>2 DEF WebInv, NotBlank, Screen
  <2> QED
    BY <2>1, <2>2
<1>4. DialogNamesItsRow
  <2>1. CASE page = "lists"
    BY <2>1, ListKept DEF WebInv
  <2>2. CASE page # "lists"
    BY <2>2 DEF WebInv, DialogNamesItsRow
  <2> QED
    BY <2>1, <2>2
<1>5. NothingHidden /\ BedtimeUndo
  BY DraftUndo DEF WebInv, DraftInv
<1> QED
  BY <1>1, <1>2, <1>3, <1>4, <1>5

\* It always holds.
LEMMA WebAlways == WebSpec => []WebInv
BY WebInitInv, WebNextInv, PTL DEF WebSpec

(* On every page that changes the configuration (ui/src/routes and         *)
(* ui/src/components), a control that shows that something loads or saves  *)
(* has a request under way whose answer releases it, for any number of     *)
(* requests, rows, users, policies, devices and values.  The one exception *)
(* is the spinner of a switch whose load failed: toggle.svelte (18-20,     *)
(* 58-59) shows it until its page is left.                                 *)
THEOREM NoControlStaysBusy == WebSpec => []BusyHasRequest
<1>1. WebInv => BusyHasRequest
  BY WebKept
<1> QED
  BY <1>1, WebAlways, PTL

(* On every one of those pages, once no request is under way the screen    *)
(* shows what the server has, whichever order the requests were served and *)
(* answered in, but for the overlaps and failures that each page's part    *)
(* names.  Of a field what counts is the value it takes for the stored     *)
(* one: an API key is never told, a URL is stored trimmed or, refused, not *)
(* at all, and the count of blocked domains is that of the last reading.   *)
THEOREM ScreensAgree == WebSpec => []ScreenIsStored
<1>1. WebInv => ScreenIsStored
  BY WebKept
<1> QED
  BY <1>1, WebAlways, PTL

(* The router of App.svelte never leaves the tab with nothing on it, but   *)
(* for the two cases NotBlank names.                                       *)
THEOREM NeverBlank == WebSpec => []NotBlank
<1>1. WebInv => NotBlank
  BY WebKept
<1> QED
  BY <1>1, WebAlways, PTL

(* The list editors (filtereditor, dnslists, dnsArecords): the deletion    *)
(* that can be confirmed is that of the row the dialog was opened for,     *)
(* although saves and loads renumber the rows under it, drafts excepted.   *)
THEOREM DialogsNameTheirRow == WebSpec => []DialogNamesItsRow
<1>1. WebInv => DialogNamesItsRow
  BY WebKept
<1> QED
  BY <1>1, WebAlways, PTL

(* The list editors: each save replaces the whole list on the server, and  *)
(* yet drops no row but the one whose deletion was confirmed, for lists of *)
(* any length.                                                             *)
THEOREM SavesDropNothingElse == WebSpec => OnlyNamedRowsDropped
<1>1. WebInv /\ [WebNext]_webVars =>
        [stored' # stored /\ ~blind /\ ~unconfirmed /\ ~post.draft =>
           Uids(stored) \ Uids(stored') \subseteq (IF post.op = "delete" THEN {post.uid} ELSE {})]_listVars
  <2> SUFFICES ASSUME WebInv, [WebNext]_webVars, stored' # stored, ~blind, ~unconfirmed, ~post.draft
               PROVE  Uids(stored) \ Uids(stored') \subseteq (IF post.op = "delete" THEN {post.uid} ELSE {})
    BY DEF listVars
  <2>1. ~UNCHANGED listVars
    BY DEF listVars
  <2>2. ListInv /\ ListNext
    BY <2>1, WebStep, Zenon DEF WebInv
  <2> QED
    BY <2>2, ListDropped
<1> QED
  BY <1>1, WebAlways, PTL DEF WebSpec, OnlyNamedRowsDropped

(* The session (App.svelte, the API client): a token the server accepts is *)
(* not dropped by a request that fails, for any number of logins.          *)
THEOREM TokenStays == WebSpec => SessionKept
<1>1. WebInv /\ [WebNext]_webVars =>
        [Accepted(session.jwt) /\ session'.jwt = None =>
           \/ session.state = "checking" \/ session'.path = "/login"
           \/ \E r \in sessionNet \ sessionNet' : r.args.token # session.jwt]_sessionVars
  <2> SUFFICES ASSUME WebInv, [WebNext]_webVars, Accepted(session.jwt), session'.jwt = None, ~UNCHANGED sessionVars
               PROVE  \/ session.state = "checking" \/ session'.path = "/login"
                      \/ \E r \in sessionNet \ sessionNet' : r.args.token # session.jwt
    OBVIOUS
  <2>1. SessionInv /\ SessionNext
    BY WebStep, Zenon DEF WebInv
  <2> QED
    BY <2>1, TokenKept
<1> QED
  BY <1>1, WebAlways, PTL DEF WebSpec, SessionKept

(* The policy form (groupform.svelte): while its Advanced section is as    *)
(* the form opened it, closed, the policy has no users and no rule but the *)
(* one the bedtime switch stands for, for any number of rules.             *)
THEOREM FormHidesNothing == WebSpec => []NothingHidden
<1>1. WebInv => NothingHidden
  BY WebKept
<1> QED
  BY <1>1, WebAlways, PTL

(* The policy form: turning the bedtime on and off again gives back the    *)
(* rules in their order; turning it off where it is on takes away one rule *)
(* and keeps the order of the rows, for any sequence of rules.             *)
THEOREM BedtimeCanBeUndone == WebSpec => []BedtimeUndo
<1>1. WebInv => BedtimeUndo
  BY WebKept
<1> QED
  BY <1>1, WebAlways, PTL
=============================================================================
