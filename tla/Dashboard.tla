------------------------------- MODULE Dashboard -------------------------------
(***************************************************************************)
(* The browser's side: the poller that refreshes the dashboard             *)
(* (lib/dashboard/polling.ts), the panel that folds repeated loads into    *)
(* one (lib/dashboard/dashboardPanel.ts) and the chart whose newest        *)
(* request alone may publish (lib/ui/panelRequestState.ts).  Callbacks     *)
(* run to completion; an answer, a timer and a change of visibility may    *)
(* come in any order.                                                      *)
(***************************************************************************)
EXTENDS Naturals, FiniteSets

CONSTANTS
  RefreshInterval,  \* DASHBOARD_REFRESH_INTERVAL_MS
  MaxDashboardTime, \* bound: clock ticks
  MaxLoads          \* bound: loads of a panel, refreshes and cancels of the chart

ASSUME IntervalAssumption ==
  RefreshInterval \in Nat \ {0} /\ MaxDashboardTime \in Nat /\ MaxLoads \in Nat

VARIABLES
  today,   \* the clock of the browser
  visible, \* document.visibilityState # "hidden"
  poller,
  panel,
  chart

dashboardVars == <<today, visible, poller, panel, chart>>

NoTimer == MaxDashboardTime + RefreshInterval + 1

\* gap, early: history: the time since a refresh began, and whether one began
\* too early.
DashboardInit ==
  /\ today = 0
  /\ visible \in BOOLEAN
  /\ poller = [running |-> FALSE, timer |-> NoTimer, refreshing |-> FALSE, lastRefreshAt |-> 0,
               gap |-> RefreshInterval, early |-> FALSE]
  /\ panel = [status |-> "loading", retryable |-> FALSE, pending |-> FALSE, inFlight |-> FALSE,
              requestCount |-> 0]
  /\ chart = [generation |-> 0, loading |-> FALSE, pending |-> {}, data |-> 0, error |-> 0]

(* --------------------------------- poller --------------------------------- *)

Rest == <<panel, chart>>

DashboardTick ==
  /\ today < MaxDashboardTime
  /\ today' = today + 1
  /\ poller' = [poller EXCEPT !.gap = IF @ < RefreshInterval THEN @ + 1 ELSE @]
  /\ UNCHANGED <<visible, Rest>>

\* A delay that has run out is no delay.
Due(p) == IF today < p.lastRefreshAt + RefreshInterval THEN p.lastRefreshAt + RefreshInterval ELSE today

\* scheduleNext, which the end of a refresh and a page that is shown share.
ScheduleNext(p) ==
  [p EXCEPT !.timer = IF p.running /\ visible' THEN Due(p) ELSE NoTimer]

\* refreshNow up to its first wait.
RefreshNow(p) ==
  IF ~p.running \/ ~visible' \/ p.refreshing THEN [p EXCEPT !.timer = NoTimer]
  ELSE [p EXCEPT !.timer = NoTimer, !.refreshing = TRUE, !.lastRefreshAt = today,
                 !.early = @ \/ p.gap < RefreshInterval, !.gap = 0]

StartPolling ==
  /\ ~poller.running
  /\ UNCHANGED visible
  /\ poller' = [poller EXCEPT !.running = TRUE, !.lastRefreshAt = today,
                              !.timer = IF visible THEN today + RefreshInterval ELSE @]
  /\ UNCHANGED <<today, Rest>>

StopPolling ==
  /\ poller.running
  /\ poller' = [poller EXCEPT !.running = FALSE, !.timer = NoTimer]
  /\ UNCHANGED <<today, visible, Rest>>

TimerFires ==
  /\ poller.timer <= today
  /\ UNCHANGED visible
  /\ poller' = RefreshNow(poller)
  /\ UNCHANGED <<today, Rest>>

\* Mutant: a refresh that ends does not look whether the poller still runs.
SettleAnyway ==
  /\ poller.refreshing
  /\ UNCHANGED visible
  /\ poller' = [poller EXCEPT !.refreshing = FALSE, !.timer = IF visible THEN Due(poller) ELSE NoTimer]
  /\ UNCHANGED <<today, Rest>>

\* A refresh answers or fails.
RefreshSettles ==
  /\ poller.refreshing
  /\ UNCHANGED visible
  /\ poller' = ScheduleNext([poller EXCEPT !.refreshing = FALSE])
  /\ UNCHANGED <<today, Rest>>

\* The page is hidden or shown again.
VisibilityChanges ==
  /\ visible' = ~visible
  /\ poller' =
       IF ~poller.running THEN poller
       ELSE IF visible THEN [poller EXCEPT !.timer = NoTimer]
       ELSE IF poller.timer # NoTimer THEN poller
       ELSE IF today >= poller.lastRefreshAt + RefreshInterval THEN RefreshNow(poller)
       ELSE ScheduleNext(poller)
  /\ UNCHANGED <<today, Rest>>

(* ---------------------------------- panel --------------------------------- *)

\* load, and retry where the failure shown may be retried; a load that has not
\* settled is the answer to both, though it may have been published by then.
LoadPanel(retry) ==
  /\ panel.requestCount < MaxLoads
  /\ retry => panel.retryable
  /\ panel' = IF panel.inFlight THEN panel
              ELSE [panel EXCEPT !.status = IF @ = "error" THEN "error" ELSE "loading",
                                 !.pending = TRUE, !.inFlight = TRUE, !.requestCount = @ + 1]
  /\ UNCHANGED <<today, visible, poller, chart>>

\* The answer is published.
PanelAnswers ==
  \E answer \in {"success", "recoverable", "final"} :
    /\ panel.pending
    /\ panel' = [panel EXCEPT !.pending = FALSE,
                              !.status = IF answer = "success" THEN "success" ELSE "error",
                              !.retryable = answer = "recoverable"]
    /\ UNCHANGED <<today, visible, poller, chart>>

\* The finally of the request, a microtask later.
PanelSettles ==
  /\ panel.inFlight /\ ~panel.pending
  /\ panel' = [panel EXCEPT !.inFlight = FALSE]
  /\ UNCHANGED <<today, visible, poller, chart>>

(* ---------------------------------- chart --------------------------------- *)

\* Another corridor is chosen: the request before it may still answer.
RefreshChart ==
  /\ chart.generation < MaxLoads
  /\ chart' = [chart EXCEPT !.generation = @ + 1, !.loading = TRUE, !.error = 0,
                            !.pending = @ \cup {chart.generation + 1}]
  /\ UNCHANGED <<today, visible, poller, panel>>

\* Mutant: whichever request answers publishes.
AnyAnswers ==
  \E g \in chart.pending, ok \in BOOLEAN :
    /\ chart' = [chart EXCEPT !.pending = @ \ {g}, !.loading = FALSE,
                             !.data = IF ok THEN g ELSE @, !.error = IF ok THEN 0 ELSE g]
    /\ UNCHANGED <<today, visible, poller, panel>>

\* An answer is published if its request is the newest; any other is dropped.
ChartAnswers ==
  \E g \in chart.pending, ok \in BOOLEAN :
    /\ chart' = IF g # chart.generation THEN [chart EXCEPT !.pending = @ \ {g}]
                ELSE [chart EXCEPT !.pending = @ \ {g}, !.loading = FALSE,
                                   !.data = IF ok THEN g ELSE @, !.error = IF ok THEN 0 ELSE g]
    /\ UNCHANGED <<today, visible, poller, panel>>

\* The chart leaves the screen, whether it waits or not; a failure it shows
\* stays.
CancelChart ==
  /\ chart.generation < MaxLoads
  /\ chart' = [chart EXCEPT !.generation = @ + 1, !.loading = FALSE]
  /\ UNCHANGED <<today, visible, poller, panel>>

PollerNext ==
  \/ DashboardTick \/ StartPolling \/ StopPolling
  \/ TimerFires \/ RefreshSettles \/ VisibilityChanges

PanelNext ==
  \/ LoadPanel(FALSE) \/ LoadPanel(TRUE) \/ PanelAnswers \/ PanelSettles
  \/ RefreshChart \/ ChartAnswers \/ CancelChart

DashboardSpec == DashboardInit /\ [][PollerNext \/ PanelNext]_dashboardVars

(* ------------------------------- properties ------------------------------- *)

\* A dashboard that is shown is refreshed: a timer is set or a refresh is under
\* way, due no later than an interval from now, however it was hidden, stopped
\* and started while a refresh was out.  Two refreshes begin an interval apart,
\* and nothing is due once the poller is stopped or the page hidden.
PollerKeepsPace ==
  /\ poller.running /\ visible =>
       poller.refreshing \/ poller.timer <= today + RefreshInterval
  /\ ~poller.running \/ ~visible => poller.timer = NoTimer
  /\ ~poller.early

\* A panel that has been loaded once never waits without a request, of which
\* it has one at most, and can be retried only from a failure it shows.  The
\* chart waits for the request asked last and for no other, however often it
\* left the screen in between, and a failure it shows is newer than what it
\* shows beside it.
PanelsShowTheNewest ==
  /\ panel.status = "loading" => panel.pending \/ panel.requestCount = 0
  /\ panel.pending => panel.inFlight
  /\ panel.retryable => panel.status = "error"
  /\ chart.loading <=> chart.generation \in chart.pending
  /\ chart.error # 0 => chart.data < chart.error /\ chart.error <= chart.generation /\ ~chart.loading
  /\ chart.data <= chart.generation
===============================================================================
