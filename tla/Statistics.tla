----------------------------- MODULE Statistics -----------------------------
(***************************************************************************)
(* The statistics page (src/ui/src/routes/stats/stats.svelte): a summary   *)
(* of the selected window, asked for again thirty seconds after the last   *)
(* answer, and the proxy traffic, asked for again after five.              *)
(***************************************************************************)
EXTENDS WebCommon

CONSTANTS Windows,   \* the time windows of the switcher
          LastDay    \* the first of them

ASSUME StatsAssumption == LastDay \in Windows /\ None \notin Windows

VARIABLES selected,              \* the window chosen
          summary,               \* the window whose summary is shown, or None
          summaryLoading,        \* a request is under way ...
          requested,             \* ... for this window
          summaryRefreshPending,
          summaryTimer,
          statsError,
          trafficLoading, trafficTimer, traffic,
          statsGone              \* destroyed

statsVars == <<selected, summary, summaryLoading, requested,
               summaryRefreshPending, summaryTimer, statsError,
               trafficLoading, trafficTimer, traffic, statsGone>>

trafficLoop == <<trafficLoading, trafficTimer, traffic>>

summaryLoop == <<selected, summary, summaryLoading, requested,
                 summaryRefreshPending, summaryTimer, statsError>>

loadSummary(window) ==
  /\ summaryLoading' = TRUE
  /\ requested' = window

refreshSummary(window) ==
  /\ summaryTimer' = FALSE
  /\ \/ /\ summaryLoading
        /\ summaryRefreshPending' = TRUE
        /\ UNCHANGED <<summaryLoading, requested>>
     \/ /\ ~summaryLoading
        /\ loadSummary(window)
        /\ UNCHANGED summaryRefreshPending

StatsInit ==
  /\ selected = LastDay /\ summary = None /\ statsError = FALSE
  /\ summaryLoading = TRUE /\ requested = selected
  /\ summaryRefreshPending = FALSE /\ summaryTimer = FALSE
  /\ trafficLoading = TRUE /\ trafficTimer = FALSE /\ traffic = FALSE
  /\ statsGone = FALSE

selectWindow(window) ==
  /\ ~statsGone
  /\ selected' = window
  /\ refreshSummary(window)
  /\ UNCHANGED <<summary, statsError, statsGone>>
  /\ UNCHANGED trafficLoop

(* "Retry" of the error panel, which is shown over the last summary.       *)
RetrySummary ==
  /\ ~statsGone /\ statsError
  /\ refreshSummary(selected)
  /\ UNCHANGED <<selected, summary, statsError, statsGone>>
  /\ UNCHANGED trafficLoop

SummaryTimerFires ==
  /\ summaryTimer
  /\ summaryTimer' = FALSE
  /\ loadSummary(selected)
  /\ UNCHANGED <<selected, summary, summaryRefreshPending, statsError, statsGone>>
  /\ UNCHANGED trafficLoop

(* The rest of load.                                                       *)
SummaryAnswer(ok) ==
  /\ summaryLoading
  /\ IF ~statsGone /\ requested = selected
     THEN /\ summary' = IF ok THEN requested ELSE summary
          /\ statsError' = ~ok
     ELSE UNCHANGED <<summary, statsError>>
  /\ \/ /\ statsGone
        /\ summaryLoading' = FALSE
        /\ UNCHANGED <<requested, summaryRefreshPending, summaryTimer>>
     \/ /\ ~statsGone /\ summaryRefreshPending
        /\ summaryRefreshPending' = FALSE
        /\ loadSummary(selected)
        /\ UNCHANGED summaryTimer
     \/ /\ ~statsGone /\ ~summaryRefreshPending
        /\ summaryLoading' = FALSE
        /\ summaryTimer' = TRUE
        /\ UNCHANGED <<requested, summaryRefreshPending>>
  /\ UNCHANGED <<selected, statsGone>>
  /\ UNCHANGED trafficLoop

TrafficTimerFires ==
  /\ trafficTimer
  /\ trafficTimer' = FALSE
  /\ trafficLoading' = TRUE
  /\ UNCHANGED <<traffic, statsGone>>
  /\ UNCHANGED summaryLoop

(* The rest of loadTraffic: a failure keeps the last snapshot.             *)
TrafficAnswer(ok) ==
  /\ trafficLoading
  /\ trafficLoading' = FALSE
  /\ traffic' = (traffic \/ (ok /\ ~statsGone))
  /\ trafficTimer' = ~statsGone
  /\ UNCHANGED statsGone
  /\ UNCHANGED summaryLoop

(* onDestroy.                                                              *)
LeaveStats ==
  /\ ~statsGone
  /\ statsGone' = TRUE
  /\ summaryTimer' = FALSE /\ trafficTimer' = FALSE
  /\ UNCHANGED <<selected, summary, summaryLoading, requested,
                 summaryRefreshPending, statsError, trafficLoading, traffic>>

(* The panel above the tiles, and whether tiles and tables have numbers.   *)
StatsView == [panel |-> IF statsError THEN "error"
                        ELSE IF summary = None THEN "loading" ELSE "none",
              numbers |-> summary]

StatsNext ==
  \/ \E w \in Windows : selectWindow(w)
  \/ RetrySummary
  \/ SummaryTimerFires
  \/ \E ok \in BOOLEAN : SummaryAnswer(ok) \/ TrafficAnswer(ok)
  \/ TrafficTimerFires
  \/ LeaveStats
=============================================================================
