---------------------------- MODULE DecisionLog ----------------------------
(***************************************************************************)
(* The decision log page (src/ui/src/routes/logs/logs.svelte).  Two loops  *)
(* refresh it: one asks for the decisions that match the search and the    *)
(* filters, five seconds after the last answer; one asks for the device    *)
(* names once a minute.  Every handler runs to its next await without      *)
(* interruption, so an action is one handler, or what follows an answer.   *)
(***************************************************************************)
EXTENDS WebCommon

CONSTANTS Searches,   \* texts of the search box
          NoSearch,   \* the empty text, one of them
          Filters,    \* choices of action and layer
          NoFilter    \* all actions and all layers, one of them

ASSUME LogsAssumption == /\ NoSearch \in Searches /\ NoFilter \in Filters
                         /\ None \notin (Searches \X Filters)

VARIABLES search, filter,          \* the search box; actionFilter and layerFilter
          decisions,               \* the query whose answer the rows are, or None
          decisionsLoading,        \* a request is under way ...
          asking,                  \* ... for this query
          decisionRefreshPending,  \* another one is wanted when it ends
          decisionTimer,           \* the next load is scheduled
          initialLoaded, logsError,
          devicesLoading, deviceTimer, deviceNames,
          logsGone                 \* destroyed: the page was left

logsVars == <<search, filter, decisions, decisionsLoading, asking,
              decisionRefreshPending, decisionTimer, initialLoaded, logsError,
              devicesLoading, deviceTimer, deviceNames, logsGone>>

deviceLoop == <<devicesLoading, deviceTimer, deviceNames>>

Queries == Searches \X Filters

buildQuery == <<search, filter>>

(* loadDecisions up to its await.  Both callers that could find a load     *)
(* under way or the page destroyed test it first.                          *)
loadDecisions(query) ==
  /\ decisionsLoading' = TRUE
  /\ asking' = query

(* Mutant: the load that was scheduled stays scheduled.                    *)
refreshBesideTimer(query) ==
  /\ UNCHANGED decisionTimer
  /\ \/ /\ decisionsLoading
        /\ decisionRefreshPending' = TRUE
        /\ UNCHANGED <<decisionsLoading, asking>>
     \/ /\ ~decisionsLoading
        /\ loadDecisions(query)
        /\ UNCHANGED decisionRefreshPending

refreshDecisions(query) ==
  /\ decisionTimer' = FALSE
  /\ \/ /\ decisionsLoading
        /\ decisionRefreshPending' = TRUE
        /\ UNCHANGED <<decisionsLoading, asking>>
     \/ /\ ~decisionsLoading
        /\ loadDecisions(query)
        /\ UNCHANGED decisionRefreshPending

(* The page is mounted: both loops make their first request.               *)
LogsInit ==
  /\ search = NoSearch /\ filter = NoFilter
  /\ decisions = None /\ initialLoaded = FALSE /\ logsError = FALSE
  /\ decisionsLoading = TRUE /\ asking = buildQuery
  /\ decisionRefreshPending = FALSE /\ decisionTimer = FALSE
  /\ devicesLoading = TRUE /\ deviceTimer = FALSE /\ deviceNames = FALSE
  /\ logsGone = FALSE

(* Typing only changes the bound text; the next scheduled load uses it.    *)
TypeSearch(s) ==
  /\ ~logsGone
  /\ s # search
  /\ search' = s
  /\ UNCHANGED <<filter, decisions, decisionsLoading, asking,
                 decisionRefreshPending, decisionTimer, initialLoaded,
                 logsError, logsGone>>
  /\ UNCHANGED deviceLoop

clearSearch ==
  /\ ~logsGone
  /\ search' = NoSearch
  /\ refreshDecisions(<<NoSearch, filter>>)
  /\ UNCHANGED <<filter, decisions, initialLoaded, logsError, logsGone>>
  /\ UNCHANGED deviceLoop

(* The reactive block: a new choice of action or layer refreshes at once.  *)
ChooseFilter(f) ==
  /\ ~logsGone
  /\ f # filter
  /\ filter' = f
  /\ refreshDecisions(<<search, f>>)
  /\ UNCHANGED <<search, decisions, initialLoaded, logsError, logsGone>>
  /\ UNCHANGED deviceLoop

(* "Retry" of the error panel.                                             *)
RetryDecisions ==
  /\ ~logsGone /\ logsError
  /\ refreshDecisions(buildQuery)
  /\ UNCHANGED <<search, filter, decisions, initialLoaded, logsError, logsGone>>
  /\ UNCHANGED deviceLoop

(* Mutant: the timer asks for the query that was asked for last.           *)
TimerAsksAgain ==
  /\ decisionTimer
  /\ decisionTimer' = FALSE
  /\ loadDecisions(asking)
  /\ UNCHANGED <<search, filter, decisions, decisionRefreshPending,
                 initialLoaded, logsError, logsGone>>
  /\ UNCHANGED deviceLoop

DecisionTimerFires ==
  /\ decisionTimer
  /\ decisionTimer' = FALSE
  /\ loadDecisions(buildQuery)
  /\ UNCHANGED <<search, filter, decisions, decisionRefreshPending,
                 initialLoaded, logsError, logsGone>>
  /\ UNCHANGED deviceLoop

(* Mutant: every answer counts.                                            *)
anyAnswerCounts == ~logsGone

answerCounts == ~logsGone /\ asking = buildQuery

(* The rest of loadDecisions: an answer for another query than the one on  *)
(* the page is dropped, and whatever happened the loop goes on.            *)
DecisionsAnswer(ok) ==
  /\ decisionsLoading
  /\ decisions' = IF ok /\ answerCounts THEN asking ELSE decisions
  /\ initialLoaded' = (initialLoaded \/ (ok /\ answerCounts))
  /\ logsError' = IF ok /\ answerCounts THEN FALSE
                  ELSE logsError \/ (~ok /\ ~logsGone /\ ~initialLoaded)
  /\ \/ /\ logsGone
        /\ decisionsLoading' = FALSE
        /\ UNCHANGED <<asking, decisionRefreshPending, decisionTimer>>
     \/ /\ ~logsGone /\ decisionRefreshPending
        /\ decisionRefreshPending' = FALSE
        /\ loadDecisions(buildQuery)
        /\ UNCHANGED decisionTimer
     \/ /\ ~logsGone /\ ~decisionRefreshPending
        /\ decisionsLoading' = FALSE
        /\ decisionTimer' = TRUE
        /\ UNCHANGED <<asking, decisionRefreshPending>>
  /\ UNCHANGED <<search, filter, logsGone>>
  /\ UNCHANGED deviceLoop

DeviceTimerFires ==
  /\ deviceTimer
  /\ deviceTimer' = FALSE
  /\ devicesLoading' = TRUE
  /\ UNCHANGED deviceNames
  /\ UNCHANGED <<search, filter, decisions, decisionsLoading, asking,
                 decisionRefreshPending, decisionTimer, initialLoaded,
                 logsError, logsGone>>

(* The rest of loadDevices: names are kept when the request fails.         *)
DeviceNamesAnswer(ok) ==
  /\ devicesLoading
  /\ devicesLoading' = FALSE
  /\ deviceNames' = (deviceNames \/ (ok /\ ~logsGone))
  /\ deviceTimer' = ~logsGone
  /\ UNCHANGED <<search, filter, decisions, decisionsLoading, asking,
                 decisionRefreshPending, decisionTimer, initialLoaded,
                 logsError, logsGone>>

(* onDestroy.                                                              *)
LeaveLogs ==
  /\ ~logsGone
  /\ logsGone' = TRUE
  /\ decisionTimer' = FALSE /\ deviceTimer' = FALSE
  /\ UNCHANGED <<search, filter, decisions, decisionsLoading, asking,
                 decisionRefreshPending, initialLoaded, logsError,
                 devicesLoading, deviceNames>>

(* What the page shows under the filters.                                  *)
LogsView == IF logsError THEN "error"
            ELSE IF ~initialLoaded THEN "loading" ELSE "rows"

LogsNext ==
  \/ \E s \in Searches : TypeSearch(s)
  \/ \E f \in Filters : ChooseFilter(f)
  \/ clearSearch
  \/ RetryDecisions
  \/ DecisionTimerFires
  \/ \E ok \in BOOLEAN : DecisionsAnswer(ok) \/ DeviceNamesAnswer(ok)
  \/ DeviceTimerFires
  \/ LeaveLogs
=============================================================================
