---------------------------- MODULE ReadSideProofs -----------------------------
(* Proofs about what is read, judged and shown: Dashboard, ReputationStore and *)
(* RegistrySync, each under its own specification, for any values of their     *)
(* constants.                                                                  *)
EXTENDS RegistrySync, ReputationStore, Dashboard, FiniteSetTheorems, TLAPS

(* ------------------------------- the poller -------------------------------- *)

PollerShape(p) ==
  /\ p = [running |-> p.running, timer |-> p.timer, refreshing |-> p.refreshing,
          lastRefreshAt |-> p.lastRefreshAt, gap |-> p.gap, early |-> p.early]
  /\ p.running \in BOOLEAN /\ p.refreshing \in BOOLEAN /\ p.early \in BOOLEAN
  /\ p.timer \in Nat /\ p.lastRefreshAt \in Nat /\ p.gap \in Nat

\* A timer is set for an interval after the last refresh or start, and not for
\* longer than an interval; since a refresh began, that time has passed too.
Paced(p, day, shown) ==
  /\ p.running /\ shown => p.refreshing \/ p.timer <= day + RefreshInterval
  /\ ~p.running \/ ~shown => p.timer = NoTimer
  /\ p.timer # NoTimer => p.timer >= p.lastRefreshAt + RefreshInterval
  /\ p.lastRefreshAt <= day
  /\ p.gap >= RefreshInterval \/ p.gap + p.lastRefreshAt >= day
  /\ ~p.early

PollerInv ==
  /\ today \in 0 .. MaxDashboardTime /\ visible \in BOOLEAN
  /\ PollerShape(poller) /\ Paced(poller, today, visible)

\* What scheduleNext leaves, of a poller whose page is shown or not.
LEMMA ScheduleNextPaces ==
  ASSUME NEW p, PollerShape(p), today \in 0 .. MaxDashboardTime, visible' \in BOOLEAN,
         p.lastRefreshAt <= today, ~p.early,
         p.gap >= RefreshInterval \/ p.gap + p.lastRefreshAt >= today
  PROVE  PollerShape(ScheduleNext(p)) /\ Paced(ScheduleNext(p), today, visible')
<1>1. PICK t : t = IF p.running /\ visible' THEN Due(p) ELSE NoTimer
  OBVIOUS
<1>2. ScheduleNext(p) = [running |-> p.running, timer |-> t, refreshing |-> p.refreshing,
                         lastRefreshAt |-> p.lastRefreshAt, gap |-> p.gap, early |-> p.early]
  BY <1>1 DEF PollerShape, ScheduleNext
<1>3. /\ t \in Nat /\ (p.running /\ visible' => t <= today + RefreshInterval)
      /\ ~p.running \/ ~visible' => t = NoTimer
      /\ t # NoTimer => t >= p.lastRefreshAt + RefreshInterval
  BY <1>1, IntervalAssumption DEF PollerShape, Due, NoTimer
<1> QED BY <1>2, <1>3 DEF PollerShape, Paced

\* What refreshNow leaves, when a refresh is due.
LEMMA RefreshNowPaces ==
  ASSUME NEW p, PollerShape(p), today \in 0 .. MaxDashboardTime, visible' \in BOOLEAN,
         p.lastRefreshAt + RefreshInterval <= today, ~p.early,
         p.gap >= RefreshInterval \/ p.gap + p.lastRefreshAt >= today
  PROVE  PollerShape(RefreshNow(p)) /\ Paced(RefreshNow(p), today, visible')
<1>1. p.gap >= RefreshInterval
  BY IntervalAssumption DEF PollerShape
<1>2. CASE ~p.running \/ ~visible' \/ p.refreshing
  <2>1. RefreshNow(p) = [running |-> p.running, timer |-> NoTimer, refreshing |-> p.refreshing,
                         lastRefreshAt |-> p.lastRefreshAt, gap |-> p.gap, early |-> p.early]
    BY <1>2 DEF PollerShape, RefreshNow
  <2> QED BY <1>1, <1>2, <2>1, IntervalAssumption DEF PollerShape, Paced, NoTimer
<1>3. CASE ~(~p.running \/ ~visible' \/ p.refreshing)
  <2>1. RefreshNow(p) = [running |-> p.running, timer |-> NoTimer, refreshing |-> TRUE,
                         lastRefreshAt |-> today, gap |-> 0,
                         early |-> p.early \/ p.gap < RefreshInterval]
    BY <1>3 DEF PollerShape, RefreshNow
  <2>2. (p.early \/ p.gap < RefreshInterval) = FALSE
    BY <1>1, IntervalAssumption DEF PollerShape
  <2> QED BY <1>3, <2>1, <2>2, IntervalAssumption DEF PollerShape, Paced, NoTimer
<1> QED BY <1>2, <1>3

\* Every callback of the poller keeps it paced.
LEMMA PollerStep ==
  ASSUME PollerInv, PollerNext
  PROVE  PollerInv'
<1>1. PICK p : p = poller
  OBVIOUS
<1>2. /\ PollerShape(p) /\ Paced(p, today, visible)
      /\ today \in 0 .. MaxDashboardTime /\ visible \in BOOLEAN
  BY <1>1 DEF PollerInv
<1>3. CASE DashboardTick
  <2>1. PICK gap : gap = IF p.gap < RefreshInterval THEN p.gap + 1 ELSE p.gap
    OBVIOUS
  <2>2. poller' = [running |-> p.running, timer |-> p.timer, refreshing |-> p.refreshing,
                   lastRefreshAt |-> p.lastRefreshAt, gap |-> gap, early |-> p.early]
    BY <1>1, <1>2, <1>3, <2>1 DEF DashboardTick, PollerShape
  <2>3. today' = today + 1 /\ today < MaxDashboardTime /\ visible' = visible
    BY <1>3 DEF DashboardTick
  <2>4. gap \in Nat /\ (gap >= RefreshInterval \/ gap + p.lastRefreshAt >= today + 1)
    BY <1>2, <2>1, IntervalAssumption DEF PollerShape, Paced
  <2>5. PollerShape(poller')
    BY <1>2, <2>2, <2>4 DEF PollerShape
  <2>6. Paced(poller', today', visible')
    BY <1>2, <2>2, <2>3, <2>4, IntervalAssumption DEF Paced, PollerShape, NoTimer
  <2> QED BY <1>2, <2>3, <2>5, <2>6, IntervalAssumption DEF PollerInv
<1>4. CASE StartPolling
  <2>1. PICK t : t = IF visible THEN today + RefreshInterval ELSE p.timer
    OBVIOUS
  <2>2. poller' = [running |-> TRUE, timer |-> t, refreshing |-> p.refreshing,
                   lastRefreshAt |-> today, gap |-> p.gap, early |-> p.early]
    BY <1>1, <1>2, <1>4, <2>1 DEF StartPolling, PollerShape
  <2>3. ~p.running /\ visible' = visible /\ today' = today
    BY <1>1, <1>4 DEF StartPolling
  <2>4. p.timer = NoTimer
    BY <1>2, <2>3 DEF Paced
  <2> QED BY <1>2, <2>1, <2>2, <2>3, <2>4, IntervalAssumption
          DEF PollerInv, PollerShape, Paced, NoTimer
<1>5. CASE StopPolling
  <2>1. poller' = [running |-> FALSE, timer |-> NoTimer, refreshing |-> p.refreshing,
                   lastRefreshAt |-> p.lastRefreshAt, gap |-> p.gap, early |-> p.early]
    BY <1>1, <1>2, <1>5 DEF StopPolling, PollerShape
  <2>2. visible' = visible /\ today' = today
    BY <1>5 DEF StopPolling
  <2> QED BY <1>2, <2>1, <2>2, IntervalAssumption DEF PollerInv, PollerShape, Paced, NoTimer
<1>6. CASE TimerFires
  <2>1. /\ p.timer <= today /\ visible' = visible /\ today' = today
        /\ poller' = RefreshNow(p)
    BY <1>1, <1>6 DEF TimerFires
  <2>2. p.timer # NoTimer
    BY <1>2, <2>1, IntervalAssumption DEF NoTimer
  <2>3. p.lastRefreshAt + RefreshInterval <= today
    BY <1>2, <2>1, <2>2, IntervalAssumption DEF Paced, PollerShape
  <2>4. PollerShape(RefreshNow(p)) /\ Paced(RefreshNow(p), today, visible')
    BY <1>2, <2>1, <2>3, RefreshNowPaces DEF Paced
  <2> QED BY <1>2, <2>1, <2>4 DEF PollerInv
<1>7. CASE RefreshSettles
  <2>1. PICK s : s = [p EXCEPT !.refreshing = FALSE]
    OBVIOUS
  <2>2. s = [running |-> p.running, timer |-> p.timer, refreshing |-> FALSE,
             lastRefreshAt |-> p.lastRefreshAt, gap |-> p.gap, early |-> p.early]
    BY <1>2, <2>1 DEF PollerShape
  <2>3. visible' = visible /\ today' = today /\ poller' = ScheduleNext(s)
    BY <1>1, <1>7, <2>1 DEF RefreshSettles
  <2>4. PollerShape(s)
    BY <1>2, <2>2 DEF PollerShape
  <2>5. PollerShape(ScheduleNext(s)) /\ Paced(ScheduleNext(s), today, visible')
    BY <1>2, <2>2, <2>3, <2>4, ScheduleNextPaces DEF Paced
  <2> QED BY <1>2, <2>3, <2>5 DEF PollerInv
<1>8. CASE VisibilityChanges
  <2>1. visible' = ~visible /\ today' = today /\ visible' \in BOOLEAN
    BY <1>2, <1>8 DEF VisibilityChanges
  <2>2. CASE ~p.running
    <3>1. poller' = p
      BY <1>1, <1>8, <2>2 DEF VisibilityChanges
    <3> QED BY <1>2, <2>1, <2>2, <3>1 DEF PollerInv, Paced
  <2>3. CASE p.running /\ visible
    <3>1. poller' = [running |-> p.running, timer |-> NoTimer, refreshing |-> p.refreshing,
                     lastRefreshAt |-> p.lastRefreshAt, gap |-> p.gap, early |-> p.early]
      BY <1>1, <1>2, <1>8, <2>3 DEF VisibilityChanges, PollerShape
    <3> QED BY <1>2, <2>1, <2>3, <3>1, IntervalAssumption DEF PollerInv, Paced, PollerShape, NoTimer
  <2>4. CASE p.running /\ ~visible
    <3>1. p.timer = NoTimer
      BY <1>2, <2>4 DEF Paced
    <3>2. CASE today >= p.lastRefreshAt + RefreshInterval
      <4>1. poller' = RefreshNow(p)
        BY <1>1, <1>8, <2>4, <3>1, <3>2 DEF VisibilityChanges
      <4>2. p.lastRefreshAt + RefreshInterval <= today
        BY <1>2, <3>2, IntervalAssumption DEF PollerShape
      <4>3. PollerShape(RefreshNow(p)) /\ Paced(RefreshNow(p), today, visible')
        BY <1>2, <2>1, <4>2, RefreshNowPaces DEF Paced
      <4> QED BY <1>2, <2>1, <4>1, <4>3 DEF PollerInv
    <3>3. CASE ~(today >= p.lastRefreshAt + RefreshInterval)
      <4>1. poller' = ScheduleNext(p)
        BY <1>1, <1>8, <2>4, <3>1, <3>3 DEF VisibilityChanges
      <4>2. PollerShape(ScheduleNext(p)) /\ Paced(ScheduleNext(p), today, visible')
        BY <1>2, <2>1, ScheduleNextPaces DEF Paced
      <4> QED BY <1>2, <2>1, <4>1, <4>2 DEF PollerInv
    <3> QED BY <3>2, <3>3
  <2> QED BY <1>2, <2>2, <2>3, <2>4 DEF PollerShape
<1> QED BY <1>3, <1>4, <1>5, <1>6, <1>7, <1>8 DEF PollerNext

(* ------------------------------- the panels -------------------------------- *)

PanelShape(p) ==
  /\ p = [status |-> p.status, retryable |-> p.retryable, pending |-> p.pending,
          inFlight |-> p.inFlight, requestCount |-> p.requestCount]
  /\ p.retryable \in BOOLEAN /\ p.pending \in BOOLEAN /\ p.inFlight \in BOOLEAN
  /\ p.requestCount \in Nat
  /\ p.status = "loading" => p.pending \/ p.requestCount = 0
  /\ p.pending => p.inFlight
  /\ p.retryable => p.status = "error"

\* A chart waits for the generation it asked for last, newer than what it shows.
ChartShape(k) ==
  /\ k = [generation |-> k.generation, loading |-> k.loading, pending |-> k.pending,
          data |-> k.data, error |-> k.error]
  /\ k.generation \in Nat /\ k.data \in Nat /\ k.error \in Nat /\ k.loading \in BOOLEAN
  /\ k.pending \subseteq 1 .. k.generation
  /\ k.loading => k.error = 0 /\ k.data < k.generation
  /\ k.loading => k.generation \in k.pending
  /\ k.generation \in k.pending => k.loading
  /\ k.error # 0 => k.error > k.data /\ k.error <= k.generation
  /\ k.data <= k.generation

PanelsInv == PanelShape(panel) /\ ChartShape(chart)

\* Every callback of the panel and of the chart keeps them showing the newest.
LEMMA PanelStep ==
  ASSUME PanelsInv, PanelNext
  PROVE  PanelsInv'
<1>1. PICK p, k : p = panel /\ k = chart
  OBVIOUS
<1>2. PanelShape(p) /\ ChartShape(k)
  BY <1>1 DEF PanelsInv
<1>3. ASSUME UNCHANGED chart, PanelShape(panel') PROVE PanelsInv'
  BY <1>1, <1>2, <1>3 DEF PanelsInv
<1>4. ASSUME UNCHANGED panel, ChartShape(chart') PROVE PanelsInv'
  BY <1>1, <1>2, <1>4 DEF PanelsInv
<1>5. CASE \E retry \in BOOLEAN : LoadPanel(retry)
  <2>1. UNCHANGED chart
    BY <1>5 DEF LoadPanel
  <2>2. CASE p.inFlight
    <3>1. panel' = p
      BY <1>1, <1>5, <2>2 DEF LoadPanel
    <3> QED BY <1>2, <1>3, <2>1, <3>1
  <2>3. CASE ~p.inFlight
    <3>1. PICK status : status = IF p.status = "error" THEN "error" ELSE "loading"
      OBVIOUS
    <3>2. panel' = [status |-> status, retryable |-> p.retryable, pending |-> TRUE,
                    inFlight |-> TRUE, requestCount |-> p.requestCount + 1]
      BY <1>1, <1>2, <1>5, <2>3, <3>1 DEF LoadPanel, PanelShape
    <3>3. PanelShape(panel')
      BY <1>2, <3>1, <3>2 DEF PanelShape
    <3> QED BY <1>3, <2>1, <3>3
  <2> QED BY <2>2, <2>3
<1>6. CASE PanelAnswers
  <2>1. UNCHANGED chart
    BY <1>6 DEF PanelAnswers
  <2>2. PICK answer \in {"success", "recoverable", "final"} :
          panel' = [p EXCEPT !.pending = FALSE,
                             !.status = IF answer = "success" THEN "success" ELSE "error",
                             !.retryable = answer = "recoverable"]
    BY <1>1, <1>6 DEF PanelAnswers
  <2>3. PICK status, retryable :
          /\ status = (IF answer = "success" THEN "success" ELSE "error")
          /\ retryable \in BOOLEAN /\ retryable = (answer = "recoverable")
    OBVIOUS
  <2>4. panel' = [status |-> status, retryable |-> retryable, pending |-> FALSE,
                  inFlight |-> p.inFlight, requestCount |-> p.requestCount]
    BY <1>2, <2>2, <2>3 DEF PanelShape
  <2>5. PanelShape(panel')
    BY <1>2, <2>3, <2>4 DEF PanelShape
  <2> QED BY <1>3, <2>1, <2>5
<1>10. CASE PanelSettles
  <2>1. UNCHANGED chart
    BY <1>10 DEF PanelSettles
  <2>2. ~p.pending /\ panel' = [status |-> p.status, retryable |-> p.retryable, pending |-> p.pending,
                               inFlight |-> FALSE, requestCount |-> p.requestCount]
    BY <1>1, <1>2, <1>10 DEF PanelSettles, PanelShape
  <2>3. PanelShape(panel')
    BY <1>2, <2>2 DEF PanelShape
  <2> QED BY <1>3, <2>1, <2>3
<1>7. CASE RefreshChart
  <2>1. PICK g : g = k.generation + 1
    OBVIOUS
  <2>2. PICK pending : pending = k.pending \cup {g}
    OBVIOUS
  <2>3. /\ UNCHANGED panel
        /\ chart' = [generation |-> g, loading |-> TRUE, pending |-> pending,
                     data |-> k.data, error |-> 0]
    BY <1>1, <1>2, <1>7, <2>1, <2>2 DEF RefreshChart, ChartShape
  <2>4. g \in Nat /\ g \in pending /\ pending \subseteq 1 .. g /\ k.data < g /\ k.data \in Nat
    BY <1>2, <2>1, <2>2 DEF ChartShape
  <2>5. ChartShape(chart')
    BY <2>3, <2>4 DEF ChartShape
  <2> QED BY <1>4, <2>3, <2>5
<1>8. CASE ChartAnswers
  <2>1. PICK g \in k.pending, ok \in BOOLEAN :
          chart' = IF g # k.generation THEN [k EXCEPT !.pending = @ \ {g}]
                   ELSE [k EXCEPT !.pending = @ \ {g}, !.loading = FALSE,
                                  !.data = IF ok THEN g ELSE @, !.error = IF ok THEN 0 ELSE g]
    BY <1>1, <1>8 DEF ChartAnswers
  <2>2. UNCHANGED panel
    BY <1>8 DEF ChartAnswers
  <2>3. PICK pending : pending = k.pending \ {g}
    OBVIOUS
  <2>4. pending \subseteq 1 .. k.generation /\ g \in 1 .. k.generation
    BY <1>2, <2>1, <2>3 DEF ChartShape
  <2>5. CASE g # k.generation
    <3>1. chart' = [generation |-> k.generation, loading |-> k.loading, pending |-> pending,
                    data |-> k.data, error |-> k.error]
      BY <1>2, <2>1, <2>3, <2>5 DEF ChartShape
    <3>2. k.generation \in pending => k.generation \in k.pending
      BY <2>3
    <3>3. k.generation \in k.pending => k.generation \in pending
      BY <2>3, <2>5
    <3>4. ChartShape(chart')
      BY <1>2, <2>4, <3>1, <3>2, <3>3 DEF ChartShape
    <3> QED BY <1>4, <2>2, <3>4
  <2>6. CASE g = k.generation /\ ok
    <3>1. chart' = [generation |-> k.generation, loading |-> FALSE, pending |-> pending,
                    data |-> k.generation, error |-> 0]
      BY <1>2, <2>1, <2>3, <2>6 DEF ChartShape
    <3>2. k.generation \notin pending
      BY <2>3, <2>6
    <3>3. ChartShape(chart')
      BY <1>2, <2>4, <3>1, <3>2 DEF ChartShape
    <3> QED BY <1>4, <2>2, <3>3
  <2>7. CASE g = k.generation /\ ~ok
    <3>1. chart' = [generation |-> k.generation, loading |-> FALSE, pending |-> pending,
                    data |-> k.data, error |-> k.generation]
      BY <1>2, <2>1, <2>3, <2>7 DEF ChartShape
    <3>2. k.generation \notin pending
      BY <2>3, <2>7
    <3>3. k.data < k.generation
      BY <1>2, <2>1, <2>7 DEF ChartShape
    <3>4. ChartShape(chart')
      BY <1>2, <2>4, <3>1, <3>2, <3>3 DEF ChartShape
    <3> QED BY <1>4, <2>2, <3>4
  <2> QED BY <2>5, <2>6, <2>7
<1>9. CASE CancelChart
  <2>1. PICK g : g = k.generation + 1
    OBVIOUS
  <2>2. /\ UNCHANGED panel
        /\ chart' = [generation |-> g, loading |-> FALSE, pending |-> k.pending,
                     data |-> k.data, error |-> k.error]
    BY <1>1, <1>2, <1>9, <2>1 DEF CancelChart, ChartShape
  <2>3. g \in Nat /\ k.pending \subseteq 1 .. g /\ g \notin k.pending /\ k.data < g
        /\ (k.error # 0 => k.error <= g)
    BY <1>2, <2>1, <2>2 DEF ChartShape
  <2>4. ChartShape(chart')
    BY <1>2, <2>2, <2>3 DEF ChartShape
  <2> QED BY <1>4, <2>2, <2>4
<1> QED BY <1>5, <1>6, <1>7, <1>8, <1>9, <1>10 DEF PanelNext

DashboardInv == PollerInv /\ PanelsInv

\* What is known of the poller, of the panel and of the chart stays true.
LEMMA DashboardIsKnown == DashboardSpec => []DashboardInv
<1>1. DashboardInit => DashboardInv
  <2> SUFFICES ASSUME DashboardInit PROVE DashboardInv
    OBVIOUS
  <2>1. PollerInv
    BY IntervalAssumption DEF DashboardInit, PollerInv, PollerShape, Paced, NoTimer
  <2>2. PanelsInv
    BY DEF DashboardInit, PanelsInv, PanelShape, ChartShape
  <2> QED BY <2>1, <2>2 DEF DashboardInv
<1>2. DashboardInv /\ [PollerNext \/ PanelNext]_dashboardVars => DashboardInv'
  <2> SUFFICES ASSUME DashboardInv, [PollerNext \/ PanelNext]_dashboardVars PROVE DashboardInv'
    OBVIOUS
  <2>1. UNCHANGED <<panel, chart>> => PanelsInv'
    BY DEF DashboardInv, PanelsInv
  <2>2. UNCHANGED <<today, visible, poller>> => PollerInv'
    BY DEF DashboardInv, PollerInv
  <2>3. CASE UNCHANGED dashboardVars
    BY <2>1, <2>2, <2>3 DEF DashboardInv, dashboardVars
  <2>4. CASE PollerNext
    <3>1. UNCHANGED <<panel, chart>>
      BY <2>4 DEF PollerNext, Rest, DashboardTick, StartPolling, StopPolling, TimerFires,
                  RefreshSettles, VisibilityChanges
    <3> QED BY <2>1, <2>4, <3>1, PollerStep DEF DashboardInv
  <2>5. CASE PanelNext
    <3>1. UNCHANGED <<today, visible, poller>>
      BY <2>5 DEF PanelNext, LoadPanel, PanelAnswers, PanelSettles, RefreshChart, ChartAnswers, CancelChart
    <3> QED BY <2>2, <2>5, <3>1, PanelStep DEF DashboardInv
  <2> QED BY <2>3, <2>4, <2>5
<1> QED BY <1>1, <1>2, PTL DEF DashboardSpec

\* A dashboard that is shown is refreshed in time and not too early
\* (lib/dashboard/polling.ts), for any interval and in any order of answers, timers
\* and changes of visibility.
THEOREM DashboardIsRefreshed == DashboardSpec => []PollerKeepsPace
<1>1. DashboardInv => PollerKeepsPace
  BY DEF DashboardInv, PollerInv, Paced, PollerKeepsPace
<1> QED BY <1>1, DashboardIsKnown, PTL

\* The panels of a dashboard show the newest they asked for (dashboardPanel.ts,
\* panelRequestState.ts), in any order of answers, retries and cancels.
THEOREM PanelsKeepUp == DashboardSpec => []PanelsShowTheNewest
<1>1. DashboardInv => PanelsShowTheNewest
  BY DEF DashboardInv, PanelsInv, PanelShape, ChartShape, PanelsShowTheNewest
<1> QED BY <1>1, DashboardIsKnown, PTL

(* -------------------------------- the score -------------------------------- *)

\* RoundDiv is the quotient rounded half up: the most that fits n and half of d.
LEMMA RoundDivFits ==
  ASSUME NEW n \in Nat, NEW d \in Nat \ {0}
  PROVE  /\ RoundDiv(n, d) \in Nat
         /\ d * RoundDiv(n, d) <= n + (d \div 2)
         /\ \A q, p \in Nat : p = d * q /\ p <= n + (d \div 2) => q <= RoundDiv(n, d)
<1>1. PICK m : m = n + (d \div 2)
  OBVIOUS
<1>2. m \in Nat
  BY <1>1
<1>3. PICK x : x = m \div d
  OBVIOUS
<1>4. x \in Nat /\ d * x <= m /\ m < d * x + d
  BY <1>2, <1>3
<1>5. ASSUME NEW q \in Nat, d * q <= m, ~(q <= x) PROVE FALSE
  <2>1. PICK k \in Nat : q = x + 1 + k
    <3>1. q - x - 1 \in Nat /\ q = x + 1 + (q - x - 1)
      BY <1>4, <1>5
    <3> QED BY <3>1
  <2>2. d * q = d * x + d + d * k
    BY <1>4, <2>1
  <2>3. d * k \in Nat /\ d * x \in Nat
    BY <1>4, <2>1
  <2> QED BY <1>2, <1>4, <1>5, <2>2, <2>3
<1>6. RoundDiv(n, d) = x
  BY <1>1, <1>3 DEF RoundDiv
<1> QED BY <1>1, <1>4, <1>5, <1>6

\* A ratio is at most the whole.
LEMMA RatioBounded ==
  ASSUME NEW d \in Nat, NEW n \in Nat, n <= d
  PROVE  RatioBasisPoints(n, d) \in Nat /\ RatioBasisPoints(n, d) <= 10000
<1>1. CASE n = 0 \/ d = 0
  BY <1>1 DEF RatioBasisPoints
<1>2. CASE n # 0 /\ d # 0
  <2>1. PICK q : q = RoundDiv(n * 10000, d)
    OBVIOUS
  <2>2. q \in Nat /\ d * q <= n * 10000 + (d \div 2)
    BY <1>2, <2>1, RoundDivFits
  <2>3. ASSUME q > 10000 PROVE FALSE
    <3>1. PICK k \in Nat : q = 10001 + k
      <4>1. q - 10001 \in Nat /\ q = 10001 + (q - 10001)
        BY <2>2, <2>3
      <4> QED BY <4>1
    <3>2. d * q = d * 10001 + d * k /\ d * k \in Nat
      BY <3>1
    <3>3. d \div 2 < d /\ d \div 2 \in Nat
      BY <1>2
    <3> QED BY <2>2, <3>2, <3>3
  <2>4. RatioBasisPoints(n, d) = q
    BY <1>2, <2>1 DEF RatioBasisPoints
  <2> QED BY <2>2, <2>3, <2>4
<1> QED BY <1>1, <1>2

\* More of the same whole is not less.
LEMMA RatioGrows ==
  ASSUME NEW d \in Nat, NEW m \in Nat, m <= d, NEW n \in Nat, n <= m
  PROVE  RatioBasisPoints(n, d) <= RatioBasisPoints(m, d)
<1>1. RatioBasisPoints(m, d) \in Nat
  BY RatioBounded
<1>2. CASE n = 0 \/ d = 0
  <2>1. RatioBasisPoints(n, d) = 0
    BY <1>2 DEF RatioBasisPoints
  <2> QED BY <1>1, <2>1
<1>3. CASE n # 0 /\ d # 0
  <2>1. PICK q, k, j : q = RoundDiv(j, d) /\ j = n * 10000 /\ k = m * 10000
    OBVIOUS
  <2>2. d \in Nat \ {0} /\ j \in Nat /\ k \in Nat /\ j <= k /\ d \div 2 \in Nat
    BY <1>3, <2>1
  <2>3. q \in Nat /\ d * q <= j + (d \div 2)
    BY <2>1, <2>2, RoundDivFits
  <2>4. d * q \in Nat
    BY <2>2, <2>3
  <2>5. PICK p \in Nat : p = d * q /\ p <= k + (d \div 2)
    BY <2>2, <2>3, <2>4
  <2>6. q <= RoundDiv(k, d)
    BY <2>2, <2>3, <2>5, RoundDivFits
  <2>7. RatioBasisPoints(n, d) = q /\ RatioBasisPoints(m, d) = RoundDiv(k, d)
    BY <1>3, <2>1 DEF RatioBasisPoints
  <2> QED BY <2>6, <2>7
<1> QED BY <1>2, <1>3

\* One more of both is not less either.
LEMMA RatioGrowsWithBoth ==
  ASSUME NEW d \in Nat, NEW n \in Nat, n <= d, NEW e, e = d + 1, NEW m, m = n + 1
  PROVE  RatioBasisPoints(n, d) <= RatioBasisPoints(m, e)
<1>1. e \in Nat /\ m \in Nat /\ m <= e /\ e # 0 /\ m # 0
  OBVIOUS
<1>2. RatioBasisPoints(m, e) \in Nat
  BY <1>1, RatioBounded
<1>3. CASE n = 0 \/ d = 0
  <2>1. RatioBasisPoints(n, d) = 0
    BY <1>3 DEF RatioBasisPoints
  <2> QED BY <1>2, <2>1
<1>4. CASE n # 0 /\ d # 0
  <2>1. PICK q, k, j : q = RoundDiv(j, d) /\ j = n * 10000 /\ k = m * 10000
    OBVIOUS
  <2>2. /\ d \in Nat \ {0} /\ e \in Nat \ {0} /\ j \in Nat
        /\ k \in Nat /\ k = j + 10000
    BY <1>1, <1>4, <2>1
  <2>3. RatioBasisPoints(n, d) = q /\ RatioBasisPoints(m, e) = RoundDiv(k, e)
    BY <1>1, <1>4, <2>1 DEF RatioBasisPoints
  <2>4. q \in Nat /\ d * q <= j + (d \div 2)
    BY <2>1, <2>2, RoundDivFits
  <2>5. q <= 10000
    BY <2>3, RatioBounded
  <2>6. e * q = d * q + q /\ d * q \in Nat
    BY <2>4
  <2>7. d \div 2 <= e \div 2 /\ d \div 2 \in Nat /\ e \div 2 \in Nat
    OBVIOUS
  <2>8. e * q <= k + (e \div 2)
    BY <2>2, <2>4, <2>5, <2>6, <2>7
  <2>9. PICK p \in Nat : p = e * q /\ p <= k + (e \div 2)
    BY <2>4, <2>6, <2>8
  <2>10. q <= RoundDiv(k, e)
    <3>1. k \in Nat /\ e \in Nat \ {0} /\ q \in Nat
      BY <2>2, <2>4
    <3> QED BY <2>9, <3>1, RoundDivFits
  <2> QED BY <2>3, <2>10
<1> QED BY <1>3, <1>4

Total(a, freshness, coverage, reliability) ==
  RoundDiv(a * 100 * Weights.availability + freshness * Weights.rateFreshness
             + coverage * Weights.coverage + reliability * Weights.reliability, 10000)

Mark(x) == x \in Nat /\ x <= 10000

\* Better marks do not lower the total, which is at most 100.
LEMMA TotalGrows ==
  ASSUME NEW a \in Nat, a <= 100, NEW b \in Nat, b <= a,
         NEW f, NEW g, NEW c, NEW k, NEW r, NEW s,
         Mark(f), Mark(g), Mark(c), Mark(k), Mark(r), Mark(s), g <= f, k <= c, s <= r
  PROVE  /\ Total(b, g, k, s) \in Nat /\ Total(a, f, c, r) \in Nat
         /\ Total(b, g, k, s) <= Total(a, f, c, r) /\ Total(a, f, c, r) <= 100
<1>1. PICK m, n, d : /\ m = a * 2000 + f * 15 + c * 15 + r * 50
                     /\ n = b * 2000 + g * 15 + k * 15 + s * 50
                     /\ d = 10000
  OBVIOUS
<1>2. m \in Nat /\ m <= 100 * 10000 /\ n \in Nat /\ n <= m /\ d \in Nat \ {0} /\ d \div 2 = 5000
  BY <1>1 DEF Mark
<1>3. PICK x, y : x = RoundDiv(m, d) /\ y = RoundDiv(n, d)
  OBVIOUS
<1>4. Total(a, f, c, r) = x /\ Total(b, g, k, s) = y
  <2>1. a * 100 * 20 = a * 2000 /\ b * 100 * 20 = b * 2000
    OBVIOUS
  <2> QED BY <1>1, <1>3, <2>1 DEF Total, Weights
<1>5. /\ x \in Nat /\ y \in Nat
      /\ d * y <= n + (d \div 2) /\ d * x <= m + (d \div 2)
  BY <1>2, <1>3, RoundDivFits
<1>6. PICK p \in Nat : p = d * y /\ p <= m + (d \div 2)
  BY <1>1, <1>2, <1>5
<1>7. y <= x
  <2>1. m \in Nat /\ d \in Nat \ {0} /\ y \in Nat
    BY <1>2, <1>5
  <2> QED BY <1>3, <1>6, <2>1, RoundDivFits
<1>8. x <= 100
  BY <1>1, <1>2, <1>5
<1> QED BY <1>4, <1>5, <1>7, <1>8

(* ------------------------------- the evidence ------------------------------ *)

FactShape(f) ==
  /\ f = [status |-> f.status, corridors |-> f.corridors, completed |-> f.completed,
          failed |-> f.failed, rates |-> f.rates]
  /\ f.status \in {"ABSENT", "DEGRADED", "LIVE"}
  /\ f.corridors \subseteq ScoredCorridors
  /\ f.completed \in Nat /\ f.failed \in Nat
  /\ f.rates = [c \in ScoredCorridors |-> f.rates[c]]

Latest(f) == {c \in f.corridors : f.rates[c] # "none"}
Fresh(f) == {c \in f.corridors : f.rates[c] = "fresh"}
Enough(f) == ~(f.completed + f.failed < MinOutcomes \/ f.corridors = {} \/ Latest(f) = {})

Freshness(f) == RatioBasisPoints(Cardinality(Fresh(f)), Cardinality(Latest(f)))
Coverage(f) == RatioBasisPoints(Cardinality(Fresh(f)), Cardinality(f.corridors))
Reliability(f) == RatioBasisPoints(f.completed, f.completed + f.failed)

\* The sets the ratios count, and their sizes.
LEMMA Counted ==
  ASSUME NEW f, FactShape(f)
  PROVE  /\ IsFiniteSet(Fresh(f)) /\ IsFiniteSet(Latest(f)) /\ IsFiniteSet(f.corridors)
         /\ Cardinality(Fresh(f)) \in Nat /\ Cardinality(Latest(f)) \in Nat
         /\ Cardinality(f.corridors) \in Nat
         /\ Cardinality(Fresh(f)) <= Cardinality(Latest(f))
         /\ Cardinality(Fresh(f)) <= Cardinality(f.corridors)
<1>1. Fresh(f) \subseteq Latest(f) /\ Latest(f) \subseteq f.corridors /\ Fresh(f) \subseteq f.corridors
  BY DEF Fresh, Latest
<1>2. IsFiniteSet(f.corridors)
  BY ScoreAssumption, FS_Subset DEF FactShape
<1>3. IsFiniteSet(Latest(f))
  BY <1>1, <1>2, FS_Subset
<1>4. IsFiniteSet(Fresh(f))
  BY <1>1, <1>3, FS_Subset
<1>5. Cardinality(Fresh(f)) <= Cardinality(Latest(f))
  BY <1>1, <1>3, FS_Subset
<1>6. Cardinality(Fresh(f)) <= Cardinality(f.corridors)
  BY <1>1, <1>2, FS_Subset
<1> QED BY <1>2, <1>3, <1>4, <1>5, <1>6, FS_CardinalityType

\* The marks of any evidence are at most the whole.
LEMMA Marked ==
  ASSUME NEW f, FactShape(f)
  PROVE  Mark(Freshness(f)) /\ Mark(Coverage(f)) /\ Mark(Reliability(f))
<1>1. Mark(Freshness(f)) /\ Mark(Coverage(f))
  BY Counted, RatioBounded DEF Freshness, Coverage, Mark
<1>2. f.completed \in Nat /\ f.completed + f.failed \in Nat /\ f.completed <= f.completed + f.failed
  BY DEF FactShape
<1>3. Mark(Reliability(f))
  BY <1>2, RatioBounded DEF Reliability, Mark
<1> QED BY <1>1, <1>3

\* Evidence whose marks are no worse scores no worse.
LEMMA BetterMarksPay ==
  ASSUME NEW f, NEW g, FactShape(f), FactShape(g), CalculateReputation(f) # Insufficient,
         Enough(f) => Enough(g),
         AvailabilityScore[f.status] <= AvailabilityScore[g.status],
         Freshness(f) <= Freshness(g), Coverage(f) <= Coverage(g), Reliability(f) <= Reliability(g)
  PROVE  CalculateReputation(g) \in CalculateReputation(f) .. 100
<1>1. Enough(f)
  BY DEF CalculateReputation, Enough, Latest
<1>2. ASSUME NEW h, Enough(h)
      PROVE  CalculateReputation(h) = Total(AvailabilityScore[h.status], Freshness(h), Coverage(h),
                                            Reliability(h))
  <2>1. CalculateReputation(h) =
          IF ~Enough(h) THEN Insufficient
          ELSE RoundDiv(AvailabilityScore[h.status] * 100 * Weights.availability
                          + Freshness(h) * Weights.rateFreshness + Coverage(h) * Weights.coverage
                          + Reliability(h) * Weights.reliability, 10000)
    BY DEF CalculateReputation, Enough, Latest, Fresh, Freshness, Coverage, Reliability
  <2> QED BY <1>2, <2>1 DEF Total
<1>3. \A s \in {"ABSENT", "DEGRADED", "LIVE"} :
        AvailabilityScore[s] \in Nat /\ AvailabilityScore[s] <= 100
  BY DEF AvailabilityScore
<1>4. PICK a, b : a = AvailabilityScore[g.status] /\ b = AvailabilityScore[f.status]
  OBVIOUS
<1>5. a \in Nat /\ a <= 100 /\ b \in Nat /\ b <= a
  BY <1>3, <1>4 DEF FactShape
<1>6. PICK x, y : x = CalculateReputation(f) /\ y = CalculateReputation(g)
  OBVIOUS
<1>7. /\ x = Total(b, Freshness(f), Coverage(f), Reliability(f))
      /\ y = Total(a, Freshness(g), Coverage(g), Reliability(g))
  BY <1>1, <1>2, <1>4, <1>6
<1>8. x \in Nat /\ y \in Nat /\ x <= y /\ y <= 100
  BY <1>5, <1>7, Marked, TotalGrows
<1> QED BY <1>6, <1>8

\* More of what is good never costs points.
LEMMA GoodNewsPays ==
  ASSUME FactShape(facts)
  PROVE  ScoreIsMonotone
<1>1. PICK f : f = facts
  OBVIOUS
<1>2. /\ f = [status |-> f.status, corridors |-> f.corridors, completed |-> f.completed,
              failed |-> f.failed, rates |-> f.rates]
      /\ FactShape(f)
  BY <1>1 DEF FactShape
<1>3. SUFFICES ASSUME CalculateReputation(f) # Insufficient,
                      NEW g, \/ g = [f EXCEPT !.completed = @ + 1]
                             \/ g = [f EXCEPT !.status = "LIVE"]
                             \/ \E c \in f.corridors : g = [f EXCEPT !.rates[c] = "fresh"]
               PROVE  CalculateReputation(g) \in CalculateReputation(f) .. 100
  BY <1>1 DEF ScoreIsMonotone
<1>4. ASSUME NEW h, h.rates = f.rates, h.corridors = f.corridors
      PROVE  Freshness(h) = Freshness(f) /\ Coverage(h) = Coverage(f) /\ Latest(h) = Latest(f)
  <2>1. Fresh(h) = Fresh(f) /\ Latest(h) = Latest(f)
    BY <1>4 DEF Fresh, Latest
  <2> QED BY <1>4, <2>1 DEF Freshness, Coverage
<1>5. Freshness(f) <= Freshness(f) /\ Coverage(f) <= Coverage(f) /\ Reliability(f) <= Reliability(f)
  BY <1>2, Marked DEF Mark
<1>6. \A s \in {"ABSENT", "DEGRADED", "LIVE"} :
        AvailabilityScore[s] <= AvailabilityScore[s] /\ AvailabilityScore[s] <= AvailabilityScore["LIVE"]
  BY DEF AvailabilityScore
<1>7. CASE g = [f EXCEPT !.completed = @ + 1]
  <2>1. g = [status |-> f.status, corridors |-> f.corridors, completed |-> f.completed + 1,
             failed |-> f.failed, rates |-> f.rates]
    BY <1>2, <1>7
  <2>2. FactShape(g)
    BY <1>2, <2>1 DEF FactShape
  <2>3. g.completed + g.failed = f.completed + f.failed + 1
    BY <1>2, <2>1 DEF FactShape
  <2>4. Enough(f) => Enough(g)
    BY <1>2, <1>4, <2>1, <2>3, ScoreAssumption DEF Enough, FactShape
  <2>5. Reliability(f) <= Reliability(g)
    <3>1. /\ f.completed \in Nat /\ f.completed + f.failed \in Nat
          /\ f.completed <= f.completed + f.failed /\ g.completed = f.completed + 1
      BY <1>2, <2>1 DEF FactShape
    <3> QED BY <2>3, <3>1, RatioGrowsWithBoth DEF Reliability
  <2>6. AvailabilityScore[f.status] <= AvailabilityScore[g.status]
    BY <1>2, <1>6, <2>1 DEF FactShape
  <2> QED BY <1>2, <1>3, <1>4, <1>5, <2>1, <2>2, <2>4, <2>5, <2>6, BetterMarksPay
<1>8. CASE g = [f EXCEPT !.status = "LIVE"]
  <2>1. g = [status |-> "LIVE", corridors |-> f.corridors, completed |-> f.completed,
             failed |-> f.failed, rates |-> f.rates]
    BY <1>2, <1>8
  <2>2. FactShape(g)
    BY <1>2, <2>1 DEF FactShape
  <2>3. Enough(f) => Enough(g)
    BY <1>4, <2>1 DEF Enough
  <2>4. Reliability(f) <= Reliability(g)
    BY <1>5, <2>1 DEF Reliability
  <2>5. AvailabilityScore[f.status] <= AvailabilityScore[g.status]
    BY <1>2, <1>6, <2>1 DEF FactShape
  <2> QED BY <1>2, <1>3, <1>4, <1>5, <2>1, <2>2, <2>3, <2>4, <2>5, BetterMarksPay
<1>9. CASE \E c \in f.corridors : g = [f EXCEPT !.rates[c] = "fresh"]
  <2>1. PICK c \in f.corridors : g = [f EXCEPT !.rates[c] = "fresh"]
    BY <1>9
  <2>2. PICK rates : rates = [f.rates EXCEPT ![c] = "fresh"]
    OBVIOUS
  <2>3. g = [status |-> f.status, corridors |-> f.corridors, completed |-> f.completed,
             failed |-> f.failed, rates |-> rates]
    BY <1>2, <2>1, <2>2
  <2>4. /\ rates = [k \in ScoredCorridors |-> rates[k]] /\ rates[c] = "fresh"
        /\ \A k \in f.corridors \ {c} : rates[k] = f.rates[k]
    BY <1>2, <2>2 DEF FactShape
  <2>5. FactShape(g)
    BY <1>2, <2>3, <2>4 DEF FactShape
  <2>6. Fresh(g) = Fresh(f) \cup {c} /\ Latest(g) = Latest(f) \cup {c}
    BY <2>3, <2>4 DEF Fresh, Latest
  <2>7. PICK i, m, j, n : /\ i = Cardinality(Fresh(f)) /\ m = Cardinality(Latest(f))
                          /\ j = Cardinality(Fresh(g)) /\ n = Cardinality(Latest(g))
    OBVIOUS
  <2>8. /\ IsFiniteSet(Fresh(f)) /\ IsFiniteSet(Latest(f))
        /\ i \in Nat /\ m \in Nat /\ j \in Nat /\ n \in Nat /\ i <= m /\ j <= n
        /\ Cardinality(f.corridors) \in Nat /\ j <= Cardinality(f.corridors)
    BY <1>2, <2>3, <2>5, <2>7, Counted
  <2>9. i <= j
    <3>1. IsFiniteSet(Fresh(g)) /\ Fresh(f) \subseteq Fresh(g)
      BY <2>5, <2>6, Counted
    <3> QED BY <2>7, <3>1, FS_Subset
  <2>10. Coverage(f) <= Coverage(g)
    BY <2>3, <2>7, <2>8, <2>9, RatioGrows DEF Coverage
  <2>11. Freshness(f) <= Freshness(g)
    <3>1. CASE c \in Latest(f)
      <4>1. Latest(g) = Latest(f)
        BY <2>6, <3>1
      <4> QED BY <2>7, <2>8, <2>9, <4>1, RatioGrows DEF Freshness
    <3>2. CASE c \notin Latest(f)
      <4>1. c \notin Fresh(f)
        BY <3>2 DEF Fresh, Latest
      <4>2. j = i + 1 /\ n = m + 1
        BY <2>6, <2>7, <2>8, <3>2, <4>1, FS_AddElement
      <4> QED BY <2>7, <2>8, <4>2, RatioGrowsWithBoth DEF Freshness
    <3> QED BY <3>1, <3>2
  <2>12. Enough(f) => Enough(g)
    BY <2>3, <2>6 DEF Enough
  <2>13. Reliability(f) <= Reliability(g)
    BY <1>5, <2>3 DEF Reliability
  <2>14. AvailabilityScore[f.status] <= AvailabilityScore[g.status]
    BY <1>2, <1>6, <2>3 DEF FactShape
  <2> QED BY <1>2, <1>3, <2>5, <2>10, <2>11, <2>12, <2>13, <2>14, BetterMarksPay
<1> QED BY <1>3, <1>7, <1>8, <1>9

\* Whatever may be recorded of an anchor leaves evidence about it.
LEMMA RecordedShape ==
  ASSUME NEW f, FactShape(f), NEW g \in Recorded(f)
  PROVE  FactShape(g)
<1>1. f = [status |-> f.status, corridors |-> f.corridors, completed |-> f.completed,
           failed |-> f.failed, rates |-> f.rates]
  BY DEF FactShape
<1>2. CASE \E s \in {"LIVE", "DEGRADED"} : g = [f EXCEPT !.status = s]
  <2>1. PICK s \in {"LIVE", "DEGRADED"} : g = [f EXCEPT !.status = s]
    BY <1>2
  <2>2. g = [status |-> s, corridors |-> f.corridors, completed |-> f.completed,
             failed |-> f.failed, rates |-> f.rates]
    BY <1>1, <2>1
  <2> QED BY <2>2 DEF FactShape
<1>3. CASE \E c \in ScoredCorridors : g = [f EXCEPT !.corridors = @ \ {c}]
  <2>1. PICK c \in ScoredCorridors : g = [f EXCEPT !.corridors = @ \ {c}]
    BY <1>3
  <2>2. g = [status |-> f.status, corridors |-> f.corridors \ {c}, completed |-> f.completed,
             failed |-> f.failed, rates |-> f.rates]
    BY <1>1, <2>1
  <2> QED BY <2>2 DEF FactShape
<1>4. CASE \E c \in f.corridors : g = [f EXCEPT !.rates[c] = "fresh"]
  <2>1. PICK c \in f.corridors : g = [f EXCEPT !.rates[c] = "fresh"]
    BY <1>4
  <2>2. PICK rates : rates = [f.rates EXCEPT ![c] = "fresh"]
    OBVIOUS
  <2>3. g = [status |-> f.status, corridors |-> f.corridors, completed |-> f.completed,
             failed |-> f.failed, rates |-> rates]
    BY <1>1, <2>1, <2>2
  <2>4. rates = [k \in ScoredCorridors |-> rates[k]]
    BY <2>2 DEF FactShape
  <2> QED BY <2>3, <2>4 DEF FactShape
<1>5. CASE g = [f EXCEPT !.completed = @ + 1]
  <2>1. g = [status |-> f.status, corridors |-> f.corridors, completed |-> f.completed + 1,
             failed |-> f.failed, rates |-> f.rates]
    BY <1>1, <1>5
  <2> QED BY <2>1 DEF FactShape
<1>6. CASE g = [f EXCEPT !.failed = @ + 1]
  <2>1. g = [status |-> f.status, corridors |-> f.corridors, completed |-> f.completed,
             failed |-> f.failed + 1, rates |-> f.rates]
    BY <1>1, <1>6
  <2> QED BY <2>1 DEF FactShape
<1> QED BY <1>2, <1>3, <1>4, <1>5, <1>6 DEF Recorded

Rejected == {"rejected_tie", "rejected_stale"}

ScoreShape(s) ==
  /\ s = [at |-> s.at, by |-> s.by, points |-> s.points]
  /\ s.at \in Nat /\ (s # NoScore => s.by \in Evaluations)

\* What evaluation e has read is its snapshot; it has written no score before it
\* ends, and then says of the score what is true of it.
Evaluated(e, v, s) ==
  /\ v = [pc |-> v.pc, at |-> v.at, attempt |-> v.attempt, snapshot |-> v.snapshot,
          read |-> v.read, seen |-> v.seen, points |-> v.points, result |-> v.result]
  /\ v.at \in Nat
  /\ v.pc \in {"reading", "computed"} =>
       FactShape(v.snapshot) /\ v.read = [of |-> v.read.of, value |-> v.snapshot]
  /\ v.pc # "done" => v.result = "none" /\ s.by # e
  /\ v.result = "written" => s # NoScore /\ s.at >= v.at /\ (s.at = v.at => s.by = e)
  /\ v.result \in Rejected => s # NoScore /\ s.at >= v.at /\ s.by # e

ReputationInv ==
  /\ FactShape(facts) /\ happened \in Nat /\ ScoreShape(score)
  /\ evaluation = [e \in Evaluations |-> evaluation[e]]
  /\ \A e \in Evaluations : Evaluated(e, evaluation[e], score)

\* A score of evaluation e may take the place of score s.
Replaces(t, s, e) ==
  /\ t = [at |-> t.at, by |-> e, points |-> t.points] /\ t.at \in Nat
  /\ s = NoScore \/ s.at < t.at

\* The others stand by what they said when a newer score is written.
LEMMA OthersStand ==
  ASSUME NEW s, ScoreShape(s), NEW e \in Evaluations, NEW d \in Evaluations, d # e,
         NEW v, Evaluated(d, v, s), NEW t, Replaces(t, s, e)
  PROVE  Evaluated(d, v, t) /\ ScoreShape(t)
<1>1. t.by = e /\ t # NoScore
  BY ScoreAssumption DEF Replaces, NoScore
<1>2. ScoreShape(t)
  BY <1>1 DEF Replaces, ScoreShape
<1>3. s # NoScore => s.at < t.at /\ s.at \in Nat
  BY DEF Replaces, ScoreShape
<1> QED BY <1>1, <1>2, <1>3 DEF Evaluated, Replaces, Rejected

Moved(e, w) ==
  /\ evaluation' = [d \in Evaluations |-> evaluation'[d]] /\ evaluation'[e] = w
  /\ \A d \in Evaluations \ {e} : evaluation'[d] = evaluation[d]

\* A step of one evaluation keeps what all of them say.
LEMMA EvaluationMoves ==
  ASSUME ReputationInv, NEW e \in Evaluations, NEW w, UNCHANGED <<facts, happened>>,
         Moved(e, w),
         score' = score \/ Replaces(score', score, e), Evaluated(e, w, score')
  PROVE  ReputationInv'
<1>1. PICK s, t : s = score /\ t = score'
  OBVIOUS
<1>2. ScoreShape(s) /\ \A d \in Evaluations : Evaluated(d, evaluation[d], s)
  BY <1>1 DEF ReputationInv
<1>3. ScoreShape(t)
  BY <1>1, <1>2, OthersStand, ScoreAssumption DEF Replaces, ScoreShape, NoScore
<1>4. \A d \in Evaluations \ {e} : Evaluated(d, evaluation[d], t)
  BY <1>1, <1>2, OthersStand
<1>5. Moved(e, w)
  OBVIOUS
<1>6. FactShape(facts)' /\ happened' \in Nat
  BY DEF ReputationInv
<1> QED BY <1>1, <1>3, <1>4, <1>5, <1>6 DEF ReputationInv, Moved

\* Every step of the database and of the evaluations keeps what they say true.
LEMMA ReputationStep ==
  ASSUME ReputationInv, ReputationNext
  PROVE  ReputationInv'
<1>1. CASE FactsChange
  <2>1. FactShape(facts') /\ happened' \in Nat
    BY <1>1, RecordedShape DEF FactsChange, ReputationInv
  <2> QED BY <1>1, <2>1 DEF FactsChange, ReputationInv
<1>2. ASSUME NEW e \in Evaluations,
             \/ BeginEvaluation(e) \/ ReadSnapshotIdentity(e) \/ ReadEvidenceFails(e)
             \/ \E part \in DOMAIN Fields : ReadEvidence(e, part)
             \/ BeginUpsert(e) \/ Upsert(e) \/ UpsertIsLost(e)
      PROVE  ReputationInv'
  <2>1. PICK v, s : v = evaluation[e] /\ s = score
    OBVIOUS
  <2>2. /\ v = [pc |-> v.pc, at |-> v.at, attempt |-> v.attempt, snapshot |-> v.snapshot,
                read |-> v.read, seen |-> v.seen, points |-> v.points, result |-> v.result]
        /\ v.at \in Nat /\ Evaluated(e, v, s) /\ ScoreShape(s)
        /\ evaluation = [d \in Evaluations |-> evaluation[d]]
    BY <2>1 DEF ReputationInv, Evaluated
  <2>3. ASSUME NEW result, result \notin Rejected \cup {"written"}, Ends(e, result),
               UNCHANGED <<facts, happened>>, score' = score \/ Replaces(score', score, e)
        PROVE  ReputationInv'
    <3>1. PICK w : w = [pc |-> "done", at |-> v.at, attempt |-> 0, snapshot |-> Unread,
                        read |-> Unread, seen |-> NoScore, points |-> 0, result |-> result]
      OBVIOUS
    <3>2. Moved(e, w)
      BY <2>1, <2>2, <2>3, <3>1 DEF Ends, Moved
    <3>3. Evaluated(e, w, score')
      BY <2>2, <2>3, <3>1 DEF Evaluated
    <3> QED BY <2>3, <3>2, <3>3, EvaluationMoves
  <2>4. CASE BeginEvaluation(e)
    <3>1. PICK w : w = [pc |-> "open", at |-> happened, attempt |-> 1, snapshot |-> v.snapshot,
                        read |-> v.read, seen |-> v.seen, points |-> v.points, result |-> v.result]
      OBVIOUS
    <3>2. Moved(e, w) /\ v.pc = "idle" /\ score' = s
      BY <2>1, <2>2, <2>4, <3>1 DEF BeginEvaluation, Moved
    <3>3. Evaluated(e, w, score')
      BY <2>2, <3>1, <3>2 DEF Evaluated, Rejected, ReputationInv
    <3> QED BY <2>1, <2>4, <3>2, <3>3, EvaluationMoves DEF BeginEvaluation
  <2>5. CASE ReadSnapshotIdentity(e)
    <3>1. PICK w : w = [pc |-> "reading", at |-> v.at, attempt |-> v.attempt, snapshot |-> facts,
                        read |-> [of |-> {}, value |-> facts], seen |-> v.seen,
                        points |-> v.points, result |-> v.result]
      OBVIOUS
    <3>2. Moved(e, w) /\ v.pc = "open" /\ score' = s
      BY <2>1, <2>2, <2>5, <3>1 DEF ReadSnapshotIdentity, Moved
    <3>3. Evaluated(e, w, score')
      BY <2>2, <3>1, <3>2 DEF Evaluated, Rejected, ReputationInv
    <3> QED BY <2>1, <2>5, <3>2, <3>3, EvaluationMoves DEF ReadSnapshotIdentity
  <2>6. CASE ReadEvidenceFails(e)
    <3>1. v.pc \in {"open", "reading"} /\ UNCHANGED <<facts, happened, score>>
      BY <2>1, <2>6 DEF ReadEvidenceFails
    <3>2. \/ evaluation' = [evaluation EXCEPT ![e].pc = "open", ![e].attempt = @ + 1,
                                              ![e].snapshot = Unread, ![e].read = Unread]
          \/ Ends(e, "EVIDENCE_READ_SERIALIZATION_FAILURE")
          \/ Ends(e, "EVIDENCE_READ_FAILURE")
      BY <2>6 DEF ReadEvidenceFails
    <3>3. CASE evaluation' = [evaluation EXCEPT ![e].pc = "open", ![e].attempt = @ + 1,
                                                ![e].snapshot = Unread, ![e].read = Unread]
      <4>1. PICK w : w = [pc |-> "open", at |-> v.at, attempt |-> v.attempt + 1,
                          snapshot |-> Unread, read |-> Unread, seen |-> v.seen,
                          points |-> v.points, result |-> v.result]
        OBVIOUS
      <4>2. Moved(e, w)
        BY <2>1, <2>2, <3>3, <4>1 DEF Moved
      <4>3. Evaluated(e, w, score')
        BY <2>1, <2>2, <3>1, <4>1 DEF Evaluated, Rejected
      <4> QED BY <3>1, <4>2, <4>3, EvaluationMoves
    <3> QED BY <2>3, <3>1, <3>2, <3>3 DEF Rejected
  <2>7. CASE \E part \in DOMAIN Fields : ReadEvidence(e, part)
    <3>1. PICK part : ReadEvidence(e, part)
      BY <2>7
    <3>2. v.pc = "reading" /\ UNCHANGED <<facts, happened, score>>
      BY <2>1, <3>1 DEF ReadEvidence
    <3>3. CASE Ends(e, "ANCHOR_NOT_FOUND")
      BY <2>3, <3>2, <3>3 DEF Rejected
    <3>4. CASE ~Ends(e, "ANCHOR_NOT_FOUND")
      <4>1. PICK read : read = v.read.of \cup {part}
        OBVIOUS
      <4>2. PICK value : value = [k \in DOMAIN facts |->
                                    IF k \in Fields[part] THEN v.snapshot[k] ELSE v.read.value[k]]
        OBVIOUS
      <4>3. PICK pc : pc = IF read = DOMAIN Fields THEN "computed" ELSE v.pc
        OBVIOUS
      <4>4. evaluation' = [evaluation EXCEPT ![e].pc = pc, ![e].read = [of |-> read, value |-> value]]
        BY <2>1, <3>1, <3>4, <4>1, <4>2, <4>3 DEF ReadEvidence
      <4>5. value = v.snapshot
        <5>1. /\ v.read.value = v.snapshot
              /\ v.snapshot = [k \in {"status", "corridors", "completed", "failed", "rates"} |->
                                 v.snapshot[k]]
              /\ DOMAIN facts = {"status", "corridors", "completed", "failed", "rates"}
          BY <2>2, <3>2 DEF Evaluated, ReputationInv, FactShape
        <5> QED BY <4>2, <5>1
      <4>6. PICK w : w = [pc |-> pc, at |-> v.at, attempt |-> v.attempt, snapshot |-> v.snapshot,
                          read |-> [of |-> read, value |-> v.snapshot], seen |-> v.seen,
                          points |-> v.points, result |-> v.result]
        OBVIOUS
      <4>7. Moved(e, w)
        BY <2>1, <2>2, <4>4, <4>5, <4>6 DEF Moved
      <4>8. Evaluated(e, w, score')
        BY <2>1, <2>2, <3>2, <4>3, <4>6 DEF Evaluated, Rejected
      <4> QED BY <3>2, <4>7, <4>8, EvaluationMoves
    <3> QED BY <3>3, <3>4
  <2>8. CASE BeginUpsert(e)
    <3>1. PICK w : w = [pc |-> "writing", at |-> v.at, attempt |-> v.attempt,
                        snapshot |-> Unread, read |-> Unread, seen |-> s,
                        points |-> CalculateReputation(v.read.value), result |-> v.result]
      OBVIOUS
    <3>2. Moved(e, w) /\ v.pc = "computed" /\ score' = s
      BY <2>1, <2>2, <2>8, <3>1 DEF BeginUpsert, Moved
    <3>3. Evaluated(e, w, score')
      BY <2>2, <3>1, <3>2 DEF Evaluated, Rejected
    <3> QED BY <2>1, <2>8, <3>2, <3>3, EvaluationMoves DEF BeginUpsert
  <2>9. CASE Upsert(e)
    <3>1. v.pc = "writing" /\ UNCHANGED <<facts, happened>>
      BY <2>1, <2>9 DEF Upsert
    <3>2. PICK result : result = IF s = NoScore \/ s.at < v.at THEN "written"
                                 ELSE CASE v.seen = NoScore -> "PERSISTENCE_FAILURE"
                                        [] v.seen # NoScore /\ v.seen.at = v.at -> "rejected_tie"
                                        [] OTHER -> "rejected_stale"
      OBVIOUS
    <3>3. Ends(e, result)
      BY <2>1, <2>9, <3>2 DEF Upsert
    <3>4. PICK w : w = [pc |-> "done", at |-> v.at, attempt |-> 0, snapshot |-> Unread,
                        read |-> Unread, seen |-> NoScore, points |-> 0, result |-> result]
      OBVIOUS
    <3>5. Moved(e, w)
      BY <2>1, <2>2, <3>3, <3>4 DEF Ends, Moved
    <3>6. CASE s = NoScore \/ s.at < v.at
      <4>1. score' = [at |-> v.at, by |-> e, points |-> v.points] /\ result = "written"
        BY <2>1, <2>9, <3>2, <3>6 DEF Upsert
      <4>2. Replaces(score', score, e) /\ score' # NoScore
        BY <2>1, <2>2, <3>6, <4>1, ScoreAssumption DEF Replaces, NoScore
      <4>3. Evaluated(e, w, score')
        BY <2>2, <3>4, <4>1, <4>2 DEF Evaluated, Rejected
      <4> QED BY <3>1, <3>5, <4>2, <4>3, EvaluationMoves
    <3>7. CASE ~(s = NoScore \/ s.at < v.at)
      <4>1. score' = s
        BY <2>1, <2>9, <3>7 DEF Upsert
      <4>2. result # "written" /\ s # NoScore /\ s.at >= v.at /\ s.by # e
        BY <2>2, <3>1, <3>2, <3>7 DEF Evaluated, ScoreShape
      <4>3. Evaluated(e, w, score')
        BY <2>2, <3>4, <4>1, <4>2 DEF Evaluated
      <4> QED BY <2>1, <3>1, <3>5, <4>1, <4>3, EvaluationMoves
    <3> QED BY <3>6, <3>7
  <2>10. CASE UpsertIsLost(e)
    <3>1. UNCHANGED <<facts, happened>> /\ Ends(e, "PERSISTENCE_FAILURE")
      BY <2>10 DEF UpsertIsLost
    <3>2. score' = score \/ Replaces(score', score, e)
      BY <2>1, <2>2, <2>10 DEF UpsertIsLost, Replaces
    <3> QED BY <2>3, <3>1, <3>2 DEF Rejected
  <2> QED BY <1>2, <2>4, <2>5, <2>6, <2>7, <2>8, <2>9, <2>10
<1> QED BY <1>1, <1>2 DEF ReputationNext

\* A reputation rests on the evidence of one moment, its upsert tells what
\* happened to it, and more of what is good never costs points
\* (lib/reputation/snapshot.ts, repository.ts, score.ts): for any number of
\* evaluations at once, of corridors and of changes to the evidence.
THEOREM ReputationIsSound == ReputationSpec => []ScoresRestOnOneMoment
<1>1. ReputationInit => ReputationInv
  <2> SUFFICES ASSUME ReputationInit PROVE ReputationInv
    OBVIOUS
  <2>1. PICK status \in {"ABSENT", "LIVE"}, rate \in {"none", "stale"} :
          facts = [status |-> status, corridors |-> ScoredCorridors,
                   completed |-> MinOutcomes - 2, failed |-> 1,
                   rates |-> [c \in ScoredCorridors |-> rate]]
    BY DEF ReputationInit
  <2>2. MinOutcomes - 2 \in Nat
    BY ScoreAssumption
  <2>3. FactShape(facts)
    BY <2>1, <2>2 DEF FactShape
  <2>4. \A e \in Evaluations : Evaluated(e, evaluation[e], score)
    BY ScoreAssumption DEF ReputationInit, Evaluated, NoScore, Rejected
  <2> QED BY <2>3, <2>4 DEF ReputationInit, ReputationInv, ScoreShape, NoScore
<1>2. ReputationInv /\ [ReputationNext]_scoreVars => ReputationInv'
  <2>1. ReputationInv /\ UNCHANGED scoreVars => ReputationInv'
    BY DEF ReputationInv, scoreVars
  <2> QED BY <2>1, ReputationStep
<1>3. ReputationInv => ScoresRestOnOneMoment
  <2> SUFFICES ASSUME ReputationInv PROVE ScoresRestOnOneMoment
    OBVIOUS
  <2>1. EvidenceIsOfOneMoment
    <3> SUFFICES ASSUME NEW e \in Evaluations, evaluation[e].pc = "computed"
                 PROVE  evaluation[e].read.value = evaluation[e].snapshot
      BY DEF EvidenceIsOfOneMoment
    <3>1. PICK v : v = evaluation[e]
      OBVIOUS
    <3>2. v.read = [of |-> v.read.of, value |-> v.snapshot]
      BY <3>1 DEF ReputationInv, Evaluated
    <3>3. v.read.value = v.snapshot
      BY <3>2
    <3> QED BY <3>1, <3>3
  <2>2. UpsertIsTruthful
    BY DEF UpsertIsTruthful, ReputationInv, Evaluated, Rejected
  <2> QED BY <2>1, <2>2, GoodNewsPays DEF ReputationInv, ScoresRestOnOneMoment
<1> QED BY <1>1, <1>2, <1>3, PTL DEF ReputationSpec

(* ------------------------------- the registry ------------------------------ *)

AnchorNames == UNION {Listed(r).anchors : r \in Registries}
CorridorNames == UNION {Slugs(r.corridors) : r \in Registries}

TablesOk ==
  /\ tables = [anchors |-> tables.anchors, corridors |-> tables.corridors,
               links |-> tables.links, snapshots |-> tables.snapshots]
  /\ Slugs(tables.anchors) \subseteq AnchorNames
  /\ Slugs(tables.corridors) \subseteq CorridorNames
  /\ \A l \in tables.links : l[1] \in Slugs(tables.anchors)

Associating == {"association", "create", "commit"}

CurrentOf(v) == CHOOSE a \in v.anchors : TRUE
StaleOf(r, a, db) == {l \in db.links : l[1] = a} \ CorridorsOf(r, a)
MissingOf(r, a, db) == CorridorsOf(r, a) \ db.links

\* What is true of a job that runs, whatever else does: it works on its own
\* registry, and its transaction on an anchor that is there.
JobOk(v, db) ==
  /\ v = [pc |-> v.pc, registry |-> v.registry, alone |-> v.alone, corridors |-> v.corridors,
          anchors |-> v.anchors, deleted |-> v.deleted, inserted |-> v.inserted,
          failures |-> v.failures]
  /\ v.pc \in {"idle", "anchors", "corridors", "ended", "dead"} \cup Associating
  /\ v.pc # "idle" => v.registry \in Registries
  /\ v.pc = "anchors" => v.failures = {}
  /\ v.pc = "corridors" => v.corridors # {} /\ v.corridors \subseteq v.registry.corridors
  /\ v.pc \in Associating => v.anchors # {} /\ v.anchors \subseteq Listed(v.registry).anchors
  /\ v.pc \notin {"create", "commit"} => v.deleted = {}
  /\ v.pc # "commit" => v.inserted = {}
  /\ v.pc \in {"create", "commit"} => CurrentOf(v) \in Slugs(db.anchors)
  /\ v.pc = "commit" => v.inserted \subseteq CorridorsOf(v.registry, CurrentOf(v))

\* What of a registry is in the database: its anchors, rows of corridors as it
\* has them, and the associations of anchors.
Anchored(r, db) == Listed(r).anchors \subseteq Slugs(db.anchors)
Reviewed(rows, db) ==
  \A c \in rows : c \in db.corridors /\ \A d \in db.corridors : d.slug = c.slug => d = c
Associated(r, anchors, db) ==
  \A l \in db.links \cup r.links : l[1] \in anchors => (l \in db.links <=> l \in r.links)

Converged(r, db) ==
  Anchored(r, db) /\ Reviewed(r.corridors, db) /\ Associated(r, Listed(r).anchors, db)

\* How far a job has come that nothing overlaps and that has not failed.
Progress(v, db) ==
  v.failures = {} =>
    /\ v.pc = "corridors" => Anchored(v.registry, db) /\ Reviewed(v.registry.corridors \ v.corridors, db)
    /\ v.pc \in Associating =>
         /\ Anchored(v.registry, db) /\ Reviewed(v.registry.corridors, db)
         /\ Associated(v.registry, Listed(v.registry).anchors \ v.anchors, db)
    /\ v.pc \in {"create", "commit"} => v.deleted = StaleOf(v.registry, CurrentOf(v), db)
    /\ v.pc = "commit" => v.inserted = MissingOf(v.registry, CurrentOf(v), db)

AloneInv ==
  \A j \in Jobs :
    Running(j) /\ jobs[j].alone =>
      Progress(jobs[j], tables) /\ \A i \in Jobs \ {j} : ~Running(i)

Settled(j) ==
  /\ jobs[j].pc = "ended" /\ jobs[j].alone /\ jobs[j].failures = {}
  /\ \A i \in Jobs : jobs[i].pc # "idle" => jobs[i].registry = jobs[j].registry

\* Jobs of the registry that is there change nothing.
EndedInv ==
  \A j \in Jobs :
    Settled(j) =>
      /\ Converged(jobs[j].registry, tables)
      /\ \A i \in Jobs : jobs[i].deleted = {} /\ jobs[i].inserted \subseteq jobs[j].registry.links

JobsInv ==
  /\ jobs = [j \in Jobs |-> jobs[j]]
  /\ \A j \in Jobs : JobOk(jobs[j], tables)
  /\ AloneInv /\ EndedInv

(* -------------------------------- the audit -------------------------------- *)

Ever == tables.links \cup removed

CaptureOk ==
  /\ capture.pc \in {"idle", "quoted", "associated", "ended"}
  /\ capture.pc # "idle" => capture = [pc |-> capture.pc, pair |-> capture.pair, at |-> capture.at,
                                       skew |-> capture.skew]
                            /\ {capture.at, capture.skew} \subseteq Nat /\ capture.at <= now + capture.skew
  /\ capture.pc = "associated" => capture.pair \in Ever

SnapshotsOk ==
  \A s \in tables.snapshots :
    {s.at, s.skew} \subseteq Nat /\ s.at <= now + s.skew /\ s.pair \in Ever

\* What an audit has read was there at a moment of it.
AuditOk ==
  /\ audit.pc \in {"idle", "reading", "done"}
  /\ audit.pc = "reading" =>
       /\ audit = [pc |-> audit.pc, observedAt |-> audit.observedAt, read |-> audit.read,
                   before |-> audit.before]
       /\ audit.observedAt \in Nat /\ audit.observedAt <= now
       /\ audit.before \subseteq tables.snapshots
       /\ during.kept \subseteq tables.links /\ tables.links \subseteq during.seen
       /\ DOMAIN audit.read \subseteq Audited
       /\ "links" \in DOMAIN audit.read =>
            /\ during.kept \subseteq audit.read["links"] /\ audit.read["links"] \subseteq during.seen
            /\ \A s \in audit.before : s.pair \in audit.read["links"] \cup removed
       /\ "snapshots" \in DOMAIN audit.read =>
            audit.before \subseteq audit.read["snapshots"] /\ audit.read["snapshots"] \subseteq tables.snapshots
  /\ FindingsAreExplained

RegistryInv == now \in Nat /\ TablesOk /\ JobsInv /\ CaptureOk /\ SnapshotsOk /\ AuditOk

JobMoved(j, w) ==
  /\ jobs' = [i \in Jobs |-> jobs'[i]] /\ jobs'[j] = w
  /\ \A i \in Jobs \ {j} : jobs'[i] = jobs[i]

RunningPc(pc) == pc \notin {"idle", "ended", "dead"}

\* What one step of a job does to the database, as it comes on alone and as it
\* finds what it would write already there.
StepOf(v, w, db, eb) ==
  /\ RunningPc(v.pc) /\ w.pc # "idle" /\ w.registry = v.registry /\ w.alone = v.alone
  /\ JobOk(w, eb) /\ Slugs(db.anchors) \subseteq Slugs(eb.anchors)
  /\ Progress(v, db) =>
       Progress(w, eb) /\ (w.pc = "ended" /\ w.failures = {} => Converged(w.registry, eb))
  /\ Converged(v.registry, db) /\ v.deleted = {} /\ v.inserted \subseteq v.registry.links =>
       Converged(w.registry, eb) /\ w.deleted = {} /\ w.inserted \subseteq w.registry.links

\* Such a step keeps what is true of all jobs.
LEMMA JobMoves ==
  ASSUME JobsInv, NEW j \in Jobs, NEW w, JobMoved(j, w), StepOf(jobs[j], w, tables, tables')
  PROVE  JobsInv'
<1>1. PICK v, db, eb : v = jobs[j] /\ db = tables /\ eb = tables'
  OBVIOUS
<1>2. StepOf(v, w, db, eb) /\ JobOk(w, eb) /\ JobOk(v, db)
  BY <1>1 DEF StepOf, JobsInv
<1>3. \A i \in Jobs : jobs'[i] = IF i = j THEN w ELSE jobs[i]
  BY DEF JobMoved
<1>4. \A i \in Jobs : JobOk(jobs'[i], eb)
  <2> SUFFICES ASSUME NEW i \in Jobs, i # j PROVE JobOk(jobs[i], eb)
    BY <1>2, <1>3
  <2>1. JobOk(jobs[i], db)
    BY <1>1 DEF JobsInv
  <2> QED BY <1>2, <2>1 DEF JobOk, StepOf
<1>5. ASSUME NEW i \in Jobs, ~RunningPc(jobs[i].pc)
      PROVE  jobs[i].deleted = {} /\ jobs[i].inserted = {}
  BY <1>5 DEF JobsInv, JobOk, RunningPc
<1>6. AloneInv'
  <2> SUFFICES ASSUME NEW k \in Jobs, RunningPc(jobs'[k].pc), jobs'[k].alone
               PROVE  Progress(jobs'[k], eb) /\ \A i \in Jobs \ {k} : ~RunningPc(jobs'[i].pc)
    BY <1>1 DEF AloneInv, Running, RunningPc
  <2>1. CASE k = j
    <3>1. RunningPc(v.pc) /\ v.alone
      BY <1>2, <1>3, <2>1 DEF StepOf
    <3>2. Progress(v, db) /\ \A i \in Jobs \ {j} : ~RunningPc(jobs[i].pc)
      BY <1>1, <3>1 DEF JobsInv, AloneInv, Running, RunningPc
    <3> QED BY <1>2, <1>3, <2>1, <3>2 DEF StepOf
  <2>2. CASE k # j
    <3>1. ~RunningPc(v.pc)
      BY <1>1, <1>3, <2>2 DEF JobsInv, AloneInv, Running, RunningPc
    <3> QED BY <1>2, <3>1 DEF StepOf
  <2> QED BY <2>1, <2>2
<1>7. EndedInv'
  <2> SUFFICES ASSUME NEW k \in Jobs, Settled(k)'
               PROVE  /\ Converged(jobs'[k].registry, eb)
                      /\ \A i \in Jobs : jobs'[i].deleted = {}
                                         /\ jobs'[i].inserted \subseteq jobs'[k].registry.links
    BY <1>1 DEF EndedInv
  <2>1. CASE k = j
    <3>1. v.alone /\ RunningPc(v.pc) /\ w.pc = "ended" /\ w.failures = {}
      BY <1>2, <1>3, <2>1 DEF StepOf, Settled
    <3>2. Progress(v, db) /\ \A i \in Jobs \ {j} : ~RunningPc(jobs[i].pc)
      BY <1>1, <3>1 DEF JobsInv, AloneInv, Running, RunningPc
    <3>3. Converged(w.registry, eb)
      BY <1>2, <3>1, <3>2 DEF StepOf
    <3>4. w.deleted = {} /\ w.inserted = {}
      BY <1>2, <3>1 DEF JobOk
    <3> QED BY <1>3, <1>5, <2>1, <3>2, <3>3, <3>4
  <2>2. CASE k # j
    <3>1. jobs'[k] = jobs[k]
      BY <1>3, <2>2
    <3>2. v.registry = jobs[k].registry
      BY <1>2, <1>3, <3>1 DEF Settled, StepOf
    <3>3. Settled(k)
      BY <1>1, <1>3, <3>1, <3>2 DEF Settled
    <3>4. /\ Converged(jobs[k].registry, db)
          /\ \A i \in Jobs : jobs[i].deleted = {} /\ jobs[i].inserted \subseteq jobs[k].registry.links
      BY <1>1, <3>3 DEF JobsInv, EndedInv
    <3>5. Converged(w.registry, eb) /\ w.deleted = {} /\ w.inserted \subseteq w.registry.links
      BY <1>1, <1>2, <3>2, <3>4 DEF StepOf
    <3>6. w.registry = jobs[k].registry
      BY <1>2, <3>2 DEF StepOf
    <3> QED BY <1>3, <3>1, <3>4, <3>5, <3>6
  <2> QED BY <2>1, <2>2
<1> QED BY <1>1, <1>4, <1>6, <1>7 DEF JobsInv, JobMoved

\* The history of an audit follows the associations while it reads, and stands
\* when it does not.
Watched ==
  /\ during'.kept \subseteq during.kept /\ during.seen \subseteq during'.seen
  /\ audit.pc # "reading" => during' = during
  /\ (audit.pc = "reading" /\ during.kept \subseteq tables.links /\ tables.links \subseteq during.seen) =>
       during'.kept \subseteq tables'.links /\ tables'.links \subseteq during'.seen

\* The step is one a job takes: it has a state of its own to show for it, and the
\* rest is none of its business.
Kept == UNCHANGED <<now, capture, audit>> /\ tables'.snapshots = tables.snapshots
        /\ Ever \subseteq Ever' /\ removed \subseteq removed' /\ Watched

JobTakes(j) ==
  /\ \E w : JobMoved(j, w) /\ StepOf(jobs[j], w, tables, tables')
  /\ TablesOk' /\ Kept

\* The slugs of the rows there were, and of the new ones.
LEMMA SlugsOfAll ==
  ASSUME NEW rows, NEW new, NEW names,
         \A row \in new : row.slug \in names, \A a \in names : \E row \in new : row.slug = a
  PROVE  Slugs(rows \cup new) = Slugs(rows) \cup names
BY DEF Slugs

\* The anchors are synchronized first.
LEMMA SyncAnchorsIsAStep ==
  ASSUME JobsInv, TablesOk, NEW j \in Jobs, SyncAnchors(j)
  PROVE  JobTakes(j)
<1>1. PICK v, db, r : v = jobs[j] /\ db = tables /\ r = v.registry
  OBVIOUS
<1>2. PICK found \in SUBSET Listed(r).anchors :
        /\ v.pc = "anchors"
        /\ tables' = [db EXCEPT !.anchors =
             @ \cup {[slug |-> a, createdAt |-> now] : a \in found \ {row.slug : row \in @}}]
        /\ jobs' = [jobs EXCEPT ![j].pc = "corridors", ![j].corridors = r.corridors,
                                ![j].failures = {<<"ANCHOR", a>> : a \in Listed(r).anchors \ found}]
        /\ UNCHANGED <<now, capture, audit, during, removed>>
  BY <1>1 DEF SyncAnchors
<1>3. PICK failures : failures = {<<"ANCHOR", a>> : a \in Listed(r).anchors \ found}
  OBVIOUS
<1>4. PICK w : w = [pc |-> "corridors", registry |-> r, alone |-> v.alone,
                    corridors |-> r.corridors, anchors |-> v.anchors, deleted |-> v.deleted,
                    inserted |-> v.inserted, failures |-> failures]
  OBVIOUS
<1>5. JobOk(v, db) /\ jobs = [i \in Jobs |-> jobs[i]]
  BY <1>1 DEF JobsInv
<1>6. r \in Registries /\ Validated(r) /\ r.corridors # {}
  <2>1. r \in Registries /\ Validated(r) /\ r.links # {}
    BY <1>1, <1>2, <1>5, RegistryAssumption DEF JobOk
  <2> QED BY <2>1 DEF Validated
<1>7. JobMoved(j, w)
  BY <1>1, <1>2, <1>3, <1>4, <1>5 DEF JobOk, JobMoved
<1>8. PICK anchors : anchors = db.anchors \cup {[slug |-> a, createdAt |-> now] : a \in found \ Slugs(db.anchors)}
  OBVIOUS
<1>9. tables' = [anchors |-> anchors, corridors |-> db.corridors, links |-> db.links,
                 snapshots |-> db.snapshots]
  BY <1>1, <1>2, <1>8 DEF TablesOk, Slugs
<1>10. Slugs(anchors) = Slugs(db.anchors) \cup found
  <2>1. PICK names : names = found \ Slugs(db.anchors)
    OBVIOUS
  <2>2. PICK new : new = {[slug |-> a, createdAt |-> now] : a \in names}
    OBVIOUS
  <2>3. \A row \in new : row.slug \in names
    BY <2>2
  <2>4. \A a \in names : \E row \in new : row.slug = a
    <3> TAKE a \in names
    <3>1. [slug |-> a, createdAt |-> now] \in new /\ [slug |-> a, createdAt |-> now].slug = a
      BY <2>2
    <3> QED BY <3>1
  <2>5. anchors = db.anchors \cup new
    BY <1>8, <2>1, <2>2
  <2>6. Slugs(db.anchors \cup new) = Slugs(db.anchors) \cup names
    BY <2>3, <2>4, SlugsOfAll
  <2> QED BY <2>1, <2>5, <2>6
<1>11. TablesOk'
  <2>1. found \subseteq AnchorNames
    BY <1>2, <1>6 DEF AnchorNames
  <2> QED BY <1>1, <1>9, <1>10, <2>1 DEF TablesOk
<1>12. JobOk(w, tables')
  BY <1>2, <1>4, <1>5, <1>6 DEF JobOk, Associating
<1>13. Progress(w, tables')
  <2>1. failures = {} => found = Listed(r).anchors
    BY <1>2, <1>3
  <2> QED BY <1>4, <1>9, <1>10, <2>1 DEF Progress, Anchored, Reviewed, Associating
<1>14. Converged(r, db) => Converged(r, tables')
  BY <1>9, <1>10 DEF Converged, Anchored, Reviewed, Associated
<1>15. w.deleted = {} /\ w.inserted = {}
  BY <1>2, <1>4, <1>5 DEF JobOk
<1>16. StepOf(v, w, db, tables')
  <2>1. Slugs(db.anchors) \subseteq Slugs(tables'.anchors)
    BY <1>9, <1>10
  <2>2. w.pc = "corridors" /\ w.registry = v.registry /\ w.alone = v.alone /\ v.pc = "anchors"
    BY <1>1, <1>2, <1>4
  <2> QED BY <1>1, <1>12, <1>13, <1>14, <1>15, <2>1, <2>2 DEF StepOf, RunningPc
<1>17. Kept
  BY <1>1, <1>2, <1>9 DEF Kept, Watched, Ever
<1> QED BY <1>1, <1>7, <1>11, <1>16, <1>17 DEF JobTakes

\* A row that is put in the place of the one with its slug is reviewed, and the
\* others stay so.
LEMMA UpsertReviews ==
  ASSUME NEW r, Validated(r), NEW rows \in SUBSET r.corridors, NEW row \in r.corridors,
         NEW db, NEW eb, Reviewed(rows, db),
         eb.corridors = {c \in db.corridors : c.slug # row.slug} \cup {row}
  PROVE  Reviewed(rows \cup {row}, eb)
BY DEF Validated, Reviewed

\* The statement of a corridor succeeds, or its failure is recorded.
LEMMA UpsertCorridorDoes ==
  ASSUME NEW j \in Jobs, UpsertCorridor(j)
  PROVE  \E row, rest, f :
           /\ row = (CHOOSE c \in jobs[j].corridors : TRUE) /\ rest = jobs[j].corridors \ {row}
           /\ jobs' = [jobs EXCEPT ![j].corridors = rest, ![j].failures = @ \cup f,
                                   ![j].pc = IF rest = {} THEN "association" ELSE @,
                                   ![j].anchors = Listed(jobs[j].registry).anchors]
           /\ \/ tables' = [tables EXCEPT !.corridors = {c \in @ : c.slug # row.slug} \cup {row}]
                 /\ f = {}
              \/ tables' = tables /\ f # {}
<1> DEFINE Row == CHOOSE c \in jobs[j].corridors : TRUE
           Left == jobs[j].corridors \ {Row}
           Done(f) == jobs' = [jobs EXCEPT ![j].corridors = Left, ![j].failures = @ \cup f,
                                           ![j].pc = IF Left = {} THEN "association" ELSE @,
                                           ![j].anchors = Listed(jobs[j].registry).anchors]
           Put == tables' = [tables EXCEPT !.corridors = {c \in @ : c.slug # Row.slug} \cup {Row}]
<1>1. (Put /\ Done({})) \/ (tables' = tables /\ Done({<<"CORRIDOR", Row.slug>>}))
  BY DEF UpsertCorridor
<1>2. PICK one : one = {<<"CORRIDOR", Row.slug>>}
  OBVIOUS
<1>3. CASE Put /\ Done({})
  <2> WITNESS Row, Left, {}
  <2> QED BY <1>3
<1>4. CASE tables' = tables /\ Done({<<"CORRIDOR", Row.slug>>})
  <2>1. Done(one) /\ one # {}
    BY <1>2, <1>4
  <2> WITNESS Row, Left, one
  <2> QED BY <1>4, <2>1
<1> QED BY <1>1, <1>3, <1>4

\* The corridors come next, one after the other.
LEMMA UpsertCorridorIsAStep ==
  ASSUME JobsInv, TablesOk, NEW j \in Jobs, UpsertCorridor(j)
  PROVE  JobTakes(j)
<1>1. PICK v, db, r : v = jobs[j] /\ db = tables /\ r = v.registry
  OBVIOUS
<1>2. PICK row, rest, f :
        /\ row = (CHOOSE c \in jobs[j].corridors : TRUE) /\ rest = jobs[j].corridors \ {row}
        /\ jobs' = [jobs EXCEPT ![j].corridors = rest, ![j].failures = @ \cup f,
                                ![j].pc = IF rest = {} THEN "association" ELSE @,
                                ![j].anchors = Listed(jobs[j].registry).anchors]
        /\ \/ tables' = [tables EXCEPT !.corridors = {c \in @ : c.slug # row.slug} \cup {row}]
              /\ f = {}
           \/ tables' = tables /\ f # {}
  BY UpsertCorridorDoes
<1>3. JobOk(v, db) /\ jobs = [i \in Jobs |-> jobs[i]] /\ v.pc = "corridors"
  BY <1>1 DEF JobsInv, UpsertCorridor
<1>4. r \in Registries /\ Validated(r) /\ r.links # {}
  BY <1>1, <1>3, RegistryAssumption DEF JobOk
<1>5. row \in v.corridors /\ row \in r.corridors /\ rest \subseteq r.corridors
      /\ v.deleted = {} /\ v.inserted = {}
  BY <1>1, <1>2, <1>3 DEF JobOk
<1>6. PICK failures : failures = v.failures \cup f
  OBVIOUS
<1>7. PICK pc : pc = IF rest = {} THEN "association" ELSE "corridors"
  OBVIOUS
<1>8. PICK w : w = [pc |-> pc, registry |-> r, alone |-> v.alone, corridors |-> rest,
                    anchors |-> Listed(r).anchors, deleted |-> {}, inserted |-> {},
                    failures |-> failures]
  OBVIOUS
<1>9. JobMoved(j, w)
  <2>1. /\ jobs' = [i \in Jobs |-> jobs'[i]] /\ \A i \in Jobs \ {j} : jobs'[i] = jobs[i]
    <3>1. PICK next, listed, failed :
            /\ next = (IF rest = {} THEN "association" ELSE jobs[j].pc)
            /\ listed = Listed(jobs[j].registry).anchors /\ failed = jobs[j].failures \cup f
      OBVIOUS
    <3>2. jobs' = [jobs EXCEPT ![j].corridors = rest, ![j].failures = failed, ![j].pc = next, ![j].anchors = listed]
      BY <1>2, <1>3, <3>1
    <3>3. DOMAIN jobs' = Jobs
      BY <1>3, <3>2
    <3>4. \A i \in Jobs \ {j} : jobs'[i] = jobs[i]
      BY <1>3, <3>2
    <3>5. jobs' = [i \in Jobs |-> jobs'[i]]
      BY <3>2, <3>3
    <3> QED BY <3>4, <3>5
  <2>2. jobs'[j] = w
    BY <1>1, <1>2, <1>3, <1>5, <1>6, <1>7, <1>8 DEF JobOk
  <2> QED BY <2>1, <2>2 DEF JobMoved
<1>10. JobOk(w, tables')
  <2>1. Listed(r).anchors # {}
    BY <1>4 DEF Validated, Listed
  <2> QED BY <1>4, <1>5, <1>7, <1>8, <2>1 DEF JobOk, Associating
<1>11. CASE /\ tables' = [db EXCEPT !.corridors = {c \in @ : c.slug # row.slug} \cup {row}]
            /\ f = {}
  <2> failures = v.failures
    BY <1>6, <1>11
  <2>1. tables' = [anchors |-> db.anchors,
                   corridors |-> {c \in db.corridors : c.slug # row.slug} \cup {row},
                   links |-> db.links, snapshots |-> db.snapshots]
    BY <1>1, <1>6, <1>11 DEF TablesOk
  <2>2. TablesOk'
    <3>1. row.slug \in CorridorNames
      BY <1>4, <1>5 DEF CorridorNames, Slugs
    <3>2. Slugs(tables'.corridors) \subseteq Slugs(db.corridors) \cup {row.slug}
      BY <2>1 DEF Slugs
    <3> QED BY <1>1, <2>1, <3>1, <3>2 DEF TablesOk
  <2>3. ASSUME NEW rows \in SUBSET r.corridors, Reviewed(rows, db)
        PROVE  Reviewed(rows \cup {row}, tables')
    BY <1>4, <1>5, <2>1, <2>3, UpsertReviews
  <2>4. Progress(v, db) => Progress(w, tables')
    <3> SUFFICES ASSUME Progress(v, db), failures = {} PROVE Progress(w, tables')
      BY <1>8 DEF Progress
    <3>1. Anchored(r, db) /\ Reviewed(r.corridors \ v.corridors, db)
      BY <1>1, <1>3, <1>6, <1>11 DEF Progress
    <3>2. (r.corridors \ v.corridors) \cup {row} = r.corridors \ rest
      BY <1>1, <1>2, <1>5
    <3>3. Reviewed(r.corridors \ rest, tables') /\ Anchored(r, tables')
      BY <2>1, <2>3, <3>1, <3>2 DEF Anchored
    <3>4. rest = {} => Reviewed(r.corridors, tables')
      BY <3>3 DEF Reviewed
    <3>5. Associated(r, Listed(r).anchors \ Listed(r).anchors, tables')
      BY DEF Associated
    <3> QED BY <1>7, <1>8, <3>3, <3>4, <3>5 DEF Progress, Associating
  <2>5. Converged(r, db) => Converged(r, tables')
    <3>1. r.corridors \cup {row} = r.corridors
      BY <1>5
    <3>2. Reviewed(r.corridors, db) => Reviewed(r.corridors, tables')
      BY <2>3, <3>1
    <3> QED BY <2>1, <3>2 DEF Converged, Anchored, Associated
  <2>6. StepOf(v, w, db, tables')
    BY <1>1, <1>3, <1>7, <1>8, <1>10, <2>1, <2>4, <2>5 DEF StepOf, RunningPc
  <2>7. Kept
    BY <1>1, <2>1 DEF UpsertCorridor, Kept, Watched, Ever
  <2> QED BY <1>1, <1>9, <2>2, <2>6, <2>7 DEF JobTakes
<1>12. CASE tables' = db /\ f # {}
  <2>1. tables' = db /\ failures # {}
    BY <1>6, <1>12
  <2>2. StepOf(v, w, db, tables')
    BY <1>1, <1>3, <1>7, <1>8, <1>10, <2>1 DEF StepOf, RunningPc, Progress
  <2>3. TablesOk' /\ Kept
    BY <1>1, <2>1 DEF UpsertCorridor, Kept, Watched, Ever, TablesOk
  <2> QED BY <1>1, <1>9, <2>2, <2>3 DEF JobTakes
<1> QED BY <1>1, <1>2, <1>11, <1>12

\* What Association leaves of a job: the next anchor, or the end.
GoesOn(v, a, failures) ==
  [pc |-> IF v.anchors = {a} THEN "ended" ELSE "association", registry |-> v.registry,
   alone |-> v.alone, corridors |-> v.corridors, anchors |-> v.anchors \ {a},
   deleted |-> {}, inserted |-> {}, failures |-> failures]

\* Association is that, with the failure there is.
LEMMA AssociationIs ==
  ASSUME JobsInv, NEW j \in Jobs, NEW a, NEW failure, NEW failures,
         failures = jobs[j].failures \cup {<<failure, a>>}
  PROVE  /\ failure = "none" => Association(j, a, failure) = GoesOn(jobs[j], a, jobs[j].failures)
         /\ failure # "none" => Association(j, a, failure) = GoesOn(jobs[j], a, failures)
<1>1. PICK v : v = jobs[j]
  OBVIOUS
<1>2. JobOk(v, tables)
  BY <1>1 DEF JobsInv
<1>3. CASE failure = "none"
  <2>1. Association(j, a, failure) =
          [v EXCEPT !.pc = IF v.anchors = {a} THEN "ended" ELSE "association",
                    !.anchors = @ \ {a}, !.deleted = {}, !.inserted = {}]
    <3>1. Association(j, a, failure) =
            [jobs[j] EXCEPT !.pc = IF jobs[j].anchors = {a} THEN "ended" ELSE "association",
                            !.anchors = @ \ {a}, !.deleted = {}, !.inserted = {}, !.failures = @]
      BY <1>3 DEF Association
    <3>2. PICK u : u = [v EXCEPT !.pc = IF v.anchors = {a} THEN "ended" ELSE "association",
                                 !.anchors = @ \ {a}, !.deleted = {}, !.inserted = {}]
      OBVIOUS
    <3>3. PICK w : w = [v EXCEPT !.pc = IF v.anchors = {a} THEN "ended" ELSE "association",
                                 !.anchors = @ \ {a}, !.deleted = {}, !.inserted = {}, !.failures = @]
      OBVIOUS
    <3>4. DOMAIN v = {"pc", "registry", "alone", "corridors", "anchors", "deleted", "inserted", "failures"}
      BY <1>2 DEF JobOk
    <3>5. u = w
      BY <3>2, <3>3, <3>4
    <3> QED BY <1>1, <3>1, <3>2, <3>3, <3>5, Zenon
  <2>2. Association(j, a, failure) = GoesOn(v, a, v.failures)
    BY <1>2, <2>1 DEF GoesOn, JobOk
  <2> QED BY <1>1, <1>3, <2>2
<1>4. CASE failure # "none"
  <2>1. Association(j, a, failure) =
          [v EXCEPT !.pc = IF v.anchors = {a} THEN "ended" ELSE "association",
                    !.anchors = @ \ {a}, !.deleted = {}, !.inserted = {}, !.failures = failures]
    BY <1>1, <1>4 DEF Association
  <2>2. Association(j, a, failure) = GoesOn(v, a, failures)
    BY <1>2, <2>1 DEF GoesOn, JobOk
  <2> QED BY <1>1, <1>4, <2>2
<1> QED BY <1>3, <1>4

\* A job that goes on to the next anchor, or ends, is as a job is.
LEMMA NextOk ==
  ASSUME NEW v, NEW db, JobOk(v, db), v.pc \in Associating, NEW a, NEW failures, NEW eb
  PROVE  JobOk(GoesOn(v, a, failures), eb)
BY DEF JobOk, GoesOn, Associating, Listed

\* An association that fails has changed nothing, or what a commit changes.
LEMMA FailureIsAStep ==
  ASSUME NEW v, NEW db, NEW eb, JobOk(v, db), v.pc \in Associating, NEW a, NEW failures,
         failures # {}, Slugs(db.anchors) \subseteq Slugs(eb.anchors),
         Converged(v.registry, db) /\ v.deleted = {} /\ v.inserted \subseteq v.registry.links =>
           Converged(v.registry, eb)
  PROVE  StepOf(v, GoesOn(v, a, failures), db, eb)
<1>1. JobOk(GoesOn(v, a, failures), eb)
  BY NextOk
<1>2. PICK w : w = GoesOn(v, a, failures)
  OBVIOUS
<1>3. /\ w.registry = v.registry /\ w.alone = v.alone /\ w.deleted = {} /\ w.inserted = {}
      /\ w.failures # {} /\ w.pc # "idle"
  BY <1>2 DEF GoesOn
<1>4. StepOf(v, w, db, eb)
  BY <1>1, <1>2, <1>3 DEF StepOf, RunningPc, Associating, Progress
<1> QED BY <1>2, <1>4

\* The transaction of an anchor begins.
LEMMA DeleteStaleAllIsAStep ==
  ASSUME JobsInv, TablesOk, NEW j \in Jobs, DeleteStaleAll(j)
  PROVE  JobTakes(j)
<1>1. PICK v, db, r, a : v = jobs[j] /\ db = tables /\ r = v.registry /\ a = CurrentOf(v)
  OBVIOUS
<1>2. JobOk(v, db) /\ jobs = [i \in Jobs |-> jobs[i]] /\ v.pc = "association" /\ a = Current(j)
      /\ UNCHANGED <<now, tables, capture, audit, during, removed>>
  BY <1>1 DEF JobsInv, DeleteStaleAll, Current, CurrentOf
<1>3. a \in v.anchors /\ a \in Listed(r).anchors /\ v.deleted = {} /\ v.inserted = {}
  BY <1>1, <1>2 DEF JobOk, Associating, CurrentOf
<1>4. TablesOk' /\ Kept
  BY <1>2 DEF TablesOk, Kept, Watched, Ever
<1>5. ASSUME NEW failure, failure # "none", jobs' = [jobs EXCEPT ![j] = Association(j, a, failure)]
      PROVE  JobTakes(j)
  <2>1. PICK failures : failures = v.failures \cup {<<failure, a>>}
    OBVIOUS
  <2>2. failures # {}
    BY <2>1
  <2>3. JobMoved(j, GoesOn(v, a, failures))
    <3>1. Association(j, a, failure) = GoesOn(v, a, failures)
      BY <1>1, <1>5, <2>1, AssociationIs
    <3> QED BY <1>2, <1>5, <3>1 DEF JobMoved
  <2>4. StepOf(v, GoesOn(v, a, failures), db, tables')
    BY <1>1, <1>2, <2>2, FailureIsAStep DEF Associating
  <2> QED BY <1>1, <1>4, <2>3, <2>4 DEF JobTakes
<1>6. PICK stale : stale = StaleOf(r, a, db)
  OBVIOUS
<1>7. CASE a \in Slugs(db.anchors) /\ jobs' = [jobs EXCEPT ![j].pc = "create", ![j].deleted = stale]
  <2>1. PICK w : w = [pc |-> "create", registry |-> r, alone |-> v.alone, corridors |-> v.corridors,
                      anchors |-> v.anchors, deleted |-> stale, inserted |-> v.inserted,
                      failures |-> v.failures]
    OBVIOUS
  <2>2. JobMoved(j, w)
    BY <1>1, <1>2, <1>7, <2>1 DEF JobOk, JobMoved
  <2>3. JobOk(w, tables')
    BY <1>1, <1>2, <1>3, <1>7, <2>1 DEF JobOk, Associating, CurrentOf
  <2>4. Progress(v, db) => Progress(w, tables')
    <3>1. CurrentOf(w) = a /\ w.registry = r /\ w.pc = "create" /\ w.anchors = v.anchors
          /\ w.deleted = StaleOf(r, a, tables') /\ w.failures = v.failures
      BY <1>1, <1>2, <1>6, <2>1 DEF CurrentOf
    <3> QED BY <1>1, <1>2, <3>1 DEF Progress, Associating
  <2>5. Converged(r, db) => stale = {}
    BY <1>3, <1>6 DEF Converged, Associated, CorridorsOf, StaleOf
  <2>6. StepOf(v, w, db, tables')
    BY <1>1, <1>2, <1>3, <2>1, <2>3, <2>4, <2>5 DEF StepOf, RunningPc
  <2> QED BY <1>1, <1>4, <2>2, <2>6 DEF JobTakes
<1>8. \/ jobs' = [jobs EXCEPT ![j] = Association(j, a, "ANCHOR_NOT_FOUND")]
      \/ jobs' = [jobs EXCEPT ![j] = Association(j, a, "CORRIDOR_NOT_FOUND")]
      \/ a \in Slugs(db.anchors) /\ jobs' = [jobs EXCEPT ![j].pc = "create", ![j].deleted = stale]
  <2>1. \/ jobs' = [jobs EXCEPT ![j] = Association(j, Current(j), "ANCHOR_NOT_FOUND")]
        \/ jobs' = [jobs EXCEPT ![j] = Association(j, Current(j), "CORRIDOR_NOT_FOUND")]
        \/ /\ Current(j) \in {row.slug : row \in tables.anchors}
           /\ jobs' = [jobs EXCEPT ![j].pc = "create",
                                   ![j].deleted = {l \in tables.links : l[1] = Current(j)}
                                                    \ CorridorsOf(jobs[j].registry, Current(j))]
    BY DEF DeleteStaleAll
  <2> QED BY <1>1, <1>2, <1>6, <2>1 DEF StaleOf, Slugs
<1> QED BY <1>5, <1>7, <1>8

\* The missing associations are created.
LEMMA CreateMissingIsAStep ==
  ASSUME JobsInv, TablesOk, NEW j \in Jobs, CreateMissing(j)
  PROVE  JobTakes(j)
<1>1. PICK v, db, r, a : v = jobs[j] /\ db = tables /\ r = v.registry /\ a = CurrentOf(v)
  OBVIOUS
<1>2. JobOk(v, db) /\ jobs = [i \in Jobs |-> jobs[i]] /\ v.pc = "create" /\ a = Current(j)
      /\ UNCHANGED <<now, tables, capture, audit, during, removed>>
  BY <1>1 DEF JobsInv, CreateMissing, Current, CurrentOf
<1>3. TablesOk' /\ Kept
  BY <1>2 DEF TablesOk, Kept, Watched, Ever
<1>4. PICK inserted : inserted = MissingOf(r, a, db)
  OBVIOUS
<1>5. PICK w : w = [pc |-> "commit", registry |-> r, alone |-> v.alone, corridors |-> v.corridors,
                    anchors |-> v.anchors, deleted |-> v.deleted, inserted |-> inserted,
                    failures |-> v.failures]
  OBVIOUS
<1>6. JobMoved(j, w)
  BY <1>1, <1>2, <1>4, <1>5 DEF JobOk, JobMoved, CreateMissing, MissingOf
<1>7. JobOk(w, tables')
  <2>1. CurrentOf(w) = a /\ inserted \subseteq CorridorsOf(r, a)
    BY <1>1, <1>4, <1>5 DEF CurrentOf, MissingOf
  <2> QED BY <1>1, <1>2, <1>5, <2>1 DEF JobOk, Associating
<1>8. Progress(v, db) => Progress(w, tables')
  <2>1. /\ CurrentOf(w) = a /\ w.registry = r /\ w.pc = "commit" /\ w.anchors = v.anchors
        /\ w.inserted = MissingOf(r, a, tables') /\ w.failures = v.failures /\ w.deleted = v.deleted
    BY <1>1, <1>2, <1>4, <1>5 DEF CurrentOf
  <2> QED BY <1>1, <1>2, <2>1 DEF Progress, Associating
<1>9. inserted \subseteq r.links
  BY <1>4 DEF CorridorsOf, MissingOf
<1>10. StepOf(v, w, db, tables')
  BY <1>1, <1>2, <1>5, <1>7, <1>8, <1>9 DEF StepOf, RunningPc
<1> QED BY <1>1, <1>3, <1>6, <1>10 DEF JobTakes

\* What a commit leaves of the database.
LEMMA CommitsWhat ==
  ASSUME JobsInv, TablesOk, NEW j \in Jobs, jobs[j].pc = "commit", Commits(j)
  PROVE  /\ tables' = [anchors |-> tables.anchors, corridors |-> tables.corridors,
                       links |-> (tables.links \ jobs[j].deleted) \cup jobs[j].inserted,
                       snapshots |-> tables.snapshots]
         /\ TablesOk' /\ Ever \subseteq Ever' /\ removed \subseteq removed' /\ Watched
         /\ LET r == jobs[j].registry IN
              Converged(r, tables) /\ jobs[j].deleted = {} /\ jobs[j].inserted \subseteq r.links =>
                Converged(r, tables')
<1>1. PICK v, db, eb, r : v = jobs[j] /\ db = tables /\ eb = tables' /\ r = v.registry
  OBVIOUS
<1>2. JobOk(v, db) /\ v.pc = "commit"
  BY <1>1 DEF JobsInv
<1>3. eb = [anchors |-> db.anchors, corridors |-> db.corridors,
            links |-> (db.links \ v.deleted) \cup v.inserted, snapshots |-> db.snapshots]
  BY <1>1 DEF Commits, TablesOk
<1>4. \A l \in v.inserted : l[1] \in Slugs(db.anchors)
  BY <1>2 DEF JobOk, CorridorsOf
<1>5. TablesOk'
  BY <1>1, <1>3, <1>4 DEF TablesOk
<1>6. Ever \subseteq Ever' /\ removed \subseteq removed'
  BY <1>1, <1>3 DEF Commits, Ever
<1>7. Converged(r, db) /\ v.deleted = {} /\ v.inserted \subseteq r.links => Converged(r, eb)
  BY <1>3 DEF Converged, Anchored, Reviewed, Associated
<1>8. Watched
  <2>1. PICK deleted, inserted : deleted = v.deleted /\ inserted = v.inserted
    OBVIOUS
  <2>2. tables'.links = (tables.links \ deleted) \cup inserted
    BY <1>1, <1>3, <2>1
  <2>3. during' = IF audit.pc = "reading"
                  THEN [kept |-> during.kept \ deleted, seen |-> during.seen \cup inserted]
                  ELSE during
    BY <1>1, <2>1 DEF Commits
  <2> QED BY <2>2, <2>3 DEF Watched
<1> QED BY <1>1, <1>3, <1>5, <1>6, <1>7, <1>8

\* The transaction is committed: its anchor has what the registry has of it.
LEMMA CommitIsAStep ==
  ASSUME JobsInv, TablesOk, NEW j \in Jobs, Commit(j)
  PROVE  JobTakes(j)
<1>1. PICK v, db, eb, r, a : /\ v = jobs[j] /\ db = tables /\ eb = tables' /\ r = v.registry
                             /\ a = CurrentOf(v)
  OBVIOUS
<1>2. JobOk(v, db) /\ jobs = [i \in Jobs |-> jobs[i]] /\ v.pc = "commit" /\ a = Current(j)
      /\ Commits(j) /\ UNCHANGED <<now, capture, audit>>
  BY <1>1 DEF JobsInv, Commit, Current, CurrentOf
<1>3. a \in v.anchors /\ v.anchors \subseteq Listed(r).anchors
  BY <1>1, <1>2 DEF JobOk, Associating, CurrentOf
<1>4. /\ eb = [anchors |-> db.anchors, corridors |-> db.corridors,
               links |-> (db.links \ v.deleted) \cup v.inserted, snapshots |-> db.snapshots]
      /\ TablesOk' /\ Ever \subseteq Ever' /\ removed \subseteq removed' /\ Watched
      /\ Converged(r, db) /\ v.deleted = {} /\ v.inserted \subseteq r.links => Converged(r, eb)
  BY <1>1, <1>2, CommitsWhat
<1>5. PICK w : w = GoesOn(v, a, v.failures)
  OBVIOUS
<1>6. JobMoved(j, w)
  <2>1. PICK failures : failures = v.failures \cup {<<"none", a>>}
    OBVIOUS
  <2>2. Association(j, a, "none") = w
    BY <1>1, <1>5, <2>1, AssociationIs
  <2> QED BY <1>2, <2>2 DEF Commit, JobMoved
<1>7. JobOk(w, eb)
  BY <1>2, <1>5, NextOk DEF Associating
<1>8. /\ w.pc = IF v.anchors = {a} THEN "ended" ELSE "association"
      /\ w.registry = r /\ w.alone = v.alone /\ w.anchors = v.anchors \ {a}
      /\ w.deleted = {} /\ w.inserted = {} /\ w.failures = v.failures
  BY <1>1, <1>5 DEF GoesOn
<1>9. ASSUME Progress(v, db), v.failures = {}
      PROVE  Anchored(r, eb) /\ Reviewed(r.corridors, eb)
             /\ Associated(r, Listed(r).anchors \ w.anchors, eb)
  <2>1. /\ Anchored(r, db) /\ Reviewed(r.corridors, db)
        /\ Associated(r, Listed(r).anchors \ v.anchors, db)
        /\ v.deleted = StaleOf(r, a, db) /\ v.inserted = MissingOf(r, a, db)
    BY <1>1, <1>2, <1>9 DEF Progress, Associating
  <2>2. Anchored(r, eb) /\ Reviewed(r.corridors, eb)
    BY <1>4, <2>1 DEF Anchored, Reviewed
  <2>3. ASSUME NEW l \in eb.links \cup r.links, l[1] \in Listed(r).anchors \ w.anchors
        PROVE  l \in eb.links <=> l \in r.links
    <3>1. l \in eb.links <=> (l \in db.links /\ l \notin v.deleted) \/ l \in v.inserted
      BY <1>4
    <3>2. CASE l[1] = a
      <4>1. l \in v.deleted <=> l \in db.links /\ l \notin r.links
        BY <2>1, <3>2 DEF StaleOf, CorridorsOf
      <4>2. l \in v.inserted <=> l \in r.links /\ l \notin db.links
        BY <2>1, <3>2 DEF MissingOf, CorridorsOf
      <4> QED BY <3>1, <4>1, <4>2
    <3>3. CASE l[1] # a
      <4>1. l \notin v.deleted /\ l \notin v.inserted
        BY <2>1, <3>3 DEF StaleOf, MissingOf, CorridorsOf
      <4>2. l[1] \in Listed(r).anchors \ v.anchors
        BY <1>8, <2>3, <3>3
      <4> QED BY <2>1, <2>3, <3>1, <4>1, <4>2 DEF Associated
    <3> QED BY <3>2, <3>3
  <2> QED BY <2>2, <2>3 DEF Associated
<1>10. Progress(v, db) => Progress(w, eb)
  BY <1>8, <1>9 DEF Progress, Associating
<1>11. Progress(v, db) => (w.pc = "ended" /\ w.failures = {} => Converged(r, eb))
  <2>1. w.pc = "ended" => Listed(r).anchors \ w.anchors = Listed(r).anchors
    BY <1>8
  <2> QED BY <1>8, <1>9, <2>1 DEF Converged
<1>12. Slugs(db.anchors) \subseteq Slugs(eb.anchors)
  BY <1>4
<1>13. StepOf(v, w, db, eb)
  BY <1>1, <1>2, <1>4, <1>7, <1>8, <1>10, <1>11, <1>12 DEF StepOf, RunningPc
<1>14. Kept
  BY <1>1, <1>2, <1>4 DEF Kept
<1> QED BY <1>1, <1>4, <1>6, <1>13, <1>14 DEF JobTakes

\* A statement of the transaction fails, or the answer to its commit is lost.
LEMMA AssociationFailsIsAStep ==
  ASSUME JobsInv, TablesOk, NEW j \in Jobs, AssociationFails(j)
  PROVE  JobTakes(j)
<1>1. PICK v, db, eb, r, a : /\ v = jobs[j] /\ db = tables /\ eb = tables' /\ r = v.registry
                             /\ a = CurrentOf(v)
  OBVIOUS
<1>2. /\ JobOk(v, db) /\ jobs = [i \in Jobs |-> jobs[i]] /\ v.pc \in Associating /\ a = Current(j)
      /\ jobs' = [jobs EXCEPT ![j] = Association(j, a, "UNEXPECTED_ERROR")]
      /\ UNCHANGED <<now, capture, audit>>
  BY <1>1 DEF JobsInv, AssociationFails, Current, CurrentOf, Associating
<1>3. PICK failures : failures = v.failures \cup {<<"UNEXPECTED_ERROR", a>>}
  OBVIOUS
<1>4. failures # {}
  BY <1>3
<1>5. PICK w : w = GoesOn(v, a, failures)
  OBVIOUS
<1>6. JobMoved(j, w)
  <2>1. Association(j, a, "UNEXPECTED_ERROR") = w
    BY <1>1, <1>3, <1>5, AssociationIs
  <2> QED BY <1>2, <2>1 DEF JobMoved
<1>7. /\ TablesOk' /\ Kept /\ Slugs(db.anchors) \subseteq Slugs(eb.anchors)
      /\ Converged(r, db) /\ v.deleted = {} /\ v.inserted \subseteq r.links => Converged(r, eb)
  <2>1. CASE UNCHANGED <<tables, during, removed>>
    BY <1>1, <1>2, <2>1 DEF TablesOk, Kept, Watched, Ever
  <2>2. CASE v.pc = "commit" /\ Commits(j)
    <3>1. /\ eb = [anchors |-> db.anchors, corridors |-> db.corridors,
                   links |-> (db.links \ v.deleted) \cup v.inserted, snapshots |-> db.snapshots]
          /\ TablesOk' /\ Ever \subseteq Ever' /\ removed \subseteq removed' /\ Watched
          /\ Converged(r, db) /\ v.deleted = {} /\ v.inserted \subseteq r.links => Converged(r, eb)
      BY <1>1, <2>2, CommitsWhat
    <3> QED BY <1>1, <1>2, <3>1 DEF Kept
  <2> QED BY <1>1, <2>1, <2>2 DEF AssociationFails
<1>8. StepOf(v, w, db, eb)
  BY <1>1, <1>2, <1>4, <1>5, <1>7, FailureIsAStep
<1> QED BY <1>1, <1>6, <1>7, <1>8 DEF JobTakes

\* A job dies, and its transaction with it.
LEMMA JobDiesIsAStep ==
  ASSUME JobsInv, TablesOk, NEW j \in Jobs, JobDies(j)
  PROVE  JobTakes(j)
<1>1. PICK v, db : v = jobs[j] /\ db = tables
  OBVIOUS
<1>2. JobOk(v, db) /\ jobs = [i \in Jobs |-> jobs[i]] /\ RunningPc(v.pc)
      /\ UNCHANGED <<now, tables, capture, audit, during, removed>>
  BY <1>1 DEF JobsInv, JobDies, Running, RunningPc
<1>3. PICK w : w = [pc |-> "dead", registry |-> v.registry, alone |-> v.alone,
                    corridors |-> v.corridors, anchors |-> v.anchors, deleted |-> {},
                    inserted |-> {}, failures |-> v.failures]
  OBVIOUS
<1>4. JobMoved(j, w)
  BY <1>1, <1>2, <1>3 DEF JobDies, JobOk, JobMoved
<1>5. JobOk(w, tables')
  BY <1>2, <1>3 DEF JobOk, RunningPc, Associating
<1>6. StepOf(v, w, db, tables')
  BY <1>1, <1>2, <1>3, <1>5 DEF StepOf, Progress, RunningPc, Associating
<1>7. TablesOk' /\ Kept
  BY <1>2 DEF TablesOk, Kept, Watched, Ever
<1> QED BY <1>1, <1>4, <1>6, <1>7 DEF JobTakes

\* A job that begins has nothing to show, and is alone no longer if another runs.
LEMMA BeginKeeps ==
  ASSUME JobsInv, TablesOk, NEW j \in Jobs, Begin(j)
  PROVE  JobsInv' /\ TablesOk' /\ Kept
<1>1. PICK registry \in Registries :
        /\ jobs[j].pc = "idle"
        /\ jobs' = [i \in Jobs |->
                     CASE i = j -> [NoJob EXCEPT !.pc = "anchors", !.registry = registry,
                                                 !.alone = \A k \in Jobs : ~Running(k)]
                       [] i # j /\ Running(i) -> [jobs[i] EXCEPT !.alone = FALSE]
                       [] OTHER -> jobs[i]]
        /\ UNCHANGED <<now, tables, capture, audit, during, removed, losses>>
  BY DEF Begin
<1>2. PICK alone \in BOOLEAN : alone = \A k \in Jobs : ~Running(k)
  OBVIOUS
<1>3. jobs'[j] = [pc |-> "anchors", registry |-> registry, alone |-> alone, corridors |-> {},
                  anchors |-> {}, deleted |-> {}, inserted |-> {}, failures |-> {}]
  BY <1>1, <1>2 DEF NoJob
<1>4. \A i \in Jobs \ {j} : jobs'[i] = IF Running(i) THEN [jobs[i] EXCEPT !.alone = FALSE] ELSE jobs[i]
  BY <1>1
<1>5. ASSUME NEW i \in Jobs \ {j}
      PROVE  /\ JobOk(jobs'[i], tables)
             /\ jobs'[i].pc = jobs[i].pc /\ jobs'[i].registry = jobs[i].registry
             /\ jobs'[i].deleted = jobs[i].deleted /\ jobs'[i].inserted = jobs[i].inserted
             /\ jobs'[i].failures = jobs[i].failures /\ jobs'[i].corridors = jobs[i].corridors
             /\ jobs'[i].anchors = jobs[i].anchors
             /\ Running(i) => ~jobs'[i].alone
             /\ ~Running(i) => jobs'[i] = jobs[i]
  <2>1. PICK v : v = jobs[i]
    OBVIOUS
  <2>2. JobOk(v, tables)
    BY <2>1 DEF JobsInv
  <2>3. CASE ~Running(i)
    BY <1>4, <2>1, <2>2, <2>3
  <2>4. CASE Running(i)
    <3>1. jobs'[i] = [pc |-> v.pc, registry |-> v.registry, alone |-> FALSE,
                      corridors |-> v.corridors, anchors |-> v.anchors, deleted |-> v.deleted,
                      inserted |-> v.inserted, failures |-> v.failures]
      BY <1>4, <2>1, <2>2, <2>4 DEF JobOk
    <3>2. JobOk(jobs'[i], tables)
      BY <2>2, <3>1 DEF JobOk, CurrentOf
    <3> QED BY <2>1, <2>4, <3>1, <3>2
  <2> QED BY <2>3, <2>4
<1>6. JobOk(jobs'[j], tables)
  BY <1>3 DEF JobOk, Associating
<1>7. AloneInv'
  <2> SUFFICES ASSUME NEW k \in Jobs, RunningPc(jobs'[k].pc), jobs'[k].alone
               PROVE  Progress(jobs'[k], tables) /\ \A i \in Jobs \ {k} : ~RunningPc(jobs'[i].pc)
    BY <1>1 DEF AloneInv, Running, RunningPc
  <2>1. k = j
    BY <1>5 DEF Running, RunningPc
  <2>2. \A i \in Jobs : ~RunningPc(jobs[i].pc)
    BY <1>2, <1>3, <2>1 DEF Running, RunningPc
  <2>3. Progress(jobs'[k], tables)
    BY <1>3, <2>1 DEF Progress, Associating
  <2> QED BY <1>5, <2>1, <2>2, <2>3
<1>8. EndedInv'
  <2> SUFFICES ASSUME NEW k \in Jobs, Settled(k)'
               PROVE  /\ Converged(jobs'[k].registry, tables)
                      /\ \A i \in Jobs : jobs'[i].deleted = {}
                                         /\ jobs'[i].inserted \subseteq jobs'[k].registry.links
    BY <1>1 DEF EndedInv
  <2>1. k # j
    BY <1>3 DEF Settled
  <2>2. jobs'[k] = jobs[k]
    BY <1>5, <2>1 DEF Settled, Running
  <2>3. Settled(k)
    <3>1. /\ jobs'[k].pc = "ended" /\ jobs'[k].alone /\ jobs'[k].failures = {}
          /\ \A i \in Jobs : jobs'[i].pc # "idle" => jobs'[i].registry = jobs'[k].registry
      BY DEF Settled
    <3>2. \A i \in Jobs \ {j} : jobs[i].pc # "idle" => jobs[i].registry = jobs[k].registry
      BY <1>5, <2>2, <3>1
    <3>3. \A i \in Jobs : jobs[i].pc # "idle" => jobs[i].registry = jobs[k].registry
      BY <1>1, <3>2
    <3> QED BY <2>2, <3>1, <3>3 DEF Settled
  <2>4. /\ Converged(jobs[k].registry, tables)
        /\ \A i \in Jobs : jobs[i].deleted = {} /\ jobs[i].inserted \subseteq jobs[k].registry.links
    BY <2>3 DEF JobsInv, EndedInv
  <2> QED BY <1>3, <1>5, <2>2, <2>4
<1>9. jobs' = [i \in Jobs |-> jobs'[i]] /\ \A i \in Jobs : JobOk(jobs'[i], tables')
  BY <1>1, <1>5, <1>6
<1> QED BY <1>1, <1>7, <1>8, <1>9 DEF JobsInv, TablesOk, Kept, Watched, Ever

\* A capture and an audit do not mind what a job does to the rows.
LEMMA EvidenceStays ==
  ASSUME RegistryInv, Kept
  PROVE  now' \in Nat /\ CaptureOk' /\ SnapshotsOk' /\ AuditOk'
<1>1. CaptureOk'
  BY DEF RegistryInv, Kept, CaptureOk
<1>2. SnapshotsOk'
  BY DEF RegistryInv, Kept, SnapshotsOk
<1>3. FindingsAreExplained'
  <2>1. audit.pc = "done" => UNCHANGED <<audit, during>>
    BY DEF Kept, Watched
  <2> QED BY <2>1 DEF RegistryInv, AuditOk, FindingsAreExplained, Kept
<1>4. AuditOk'
  BY <1>3 DEF RegistryInv, Kept, Watched, AuditOk
<1> QED BY <1>1, <1>2, <1>4 DEF RegistryInv, Kept

\* What is known of the jobs does not depend on the snapshots.
LEMMA JobsStay ==
  ASSUME JobsInv, UNCHANGED jobs, tables'.anchors = tables.anchors,
         tables'.corridors = tables.corridors, tables'.links = tables.links
  PROVE  JobsInv'
<1>1. \A j \in Jobs : JobOk(jobs[j], tables) => JobOk(jobs[j], tables')
  BY DEF JobOk
<1>2. \A j \in Jobs : Progress(jobs[j], tables) => Progress(jobs[j], tables')
  BY DEF Progress, Anchored, Reviewed, Associated, StaleOf, MissingOf
<1>3. \A j \in Jobs : Converged(jobs[j].registry, tables) => Converged(jobs[j].registry, tables')
  BY DEF Converged, Anchored, Reviewed, Associated
<1>4. AloneInv' /\ EndedInv'
  BY <1>2, <1>3 DEF JobsInv, AloneInv, EndedInv, Settled, Running
<1> QED BY <1>1, <1>4 DEF JobsInv

\* What the findings name.
LEMMA FindingsName ==
  ASSUME NEW read, NEW observedAt
  PROVE  /\ \A f \in EvidenceFindings(read, observedAt) :
              /\ f[1] = "MEMBERSHIP_MISSING" =>
                   f[2] \in read.snapshots /\ f[2].pair \notin read.links
              /\ f[1] = "TIMESTAMP_FUTURE" =>
                   f[2] \in read.snapshots /\ f[2].at > observedAt + FutureTolerance
         /\ \A s \in read.snapshots : s.pair \notin read.links =>
              <<"MEMBERSHIP_MISSING", s>> \in EvidenceFindings(read, observedAt)
         /\ \A s \in read.snapshots : s.at > observedAt + FutureTolerance =>
              <<"TIMESTAMP_FUTURE", s>> \in EvidenceFindings(read, observedAt)
BY DEF EvidenceFindings

\* The audit reads one table more, and judges what it has read once it has all.
LEMMA ReadTableKeeps ==
  ASSUME RegistryInv, NEW t \in Audited, ReadTable(t)
  PROVE  AuditOk'
<1>1. PICK a, kept, seen : a = audit /\ kept = during.kept /\ seen = during.seen
  OBVIOUS
<1>2. /\ a = [pc |-> "reading", observedAt |-> a.observedAt, read |-> a.read, before |-> a.before]
      /\ a.observedAt \in Nat /\ a.observedAt <= now /\ DOMAIN a.read \subseteq Audited
      /\ a.before \subseteq tables.snapshots
      /\ kept \subseteq tables.links /\ tables.links \subseteq seen
      /\ "links" \in DOMAIN a.read =>
           /\ kept \subseteq a.read["links"] /\ a.read["links"] \subseteq seen
           /\ \A s \in a.before : s.pair \in a.read["links"] \cup removed
      /\ "snapshots" \in DOMAIN a.read =>
           a.before \subseteq a.read["snapshots"] /\ a.read["snapshots"] \subseteq tables.snapshots
  BY <1>1 DEF RegistryInv, AuditOk, ReadTable
<1>3. PICK read : read = [u \in DOMAIN a.read \cup {t} |-> IF u = t THEN tables[t] ELSE a.read[u]]
  OBVIOUS
<1>4. /\ audit' = IF DOMAIN read = Audited
                  THEN [pc |-> "done", before |-> a.before, gone |-> removed,
                        observedAt |-> a.observedAt, took |-> now - a.observedAt,
                        findings |-> EvidenceFindings(read, a.observedAt)]
                  ELSE [a EXCEPT !.read = read]
      /\ UNCHANGED <<now, tables, jobs, capture, during, removed>>
  BY <1>1, <1>3 DEF ReadTable
<1>5. DOMAIN read \subseteq Audited
  BY <1>2, <1>3
<1>6. \A s \in tables.snapshots :
        s.at \in Nat /\ s.skew \in Nat /\ s.at <= now + s.skew /\ s.pair \in Ever
  BY DEF RegistryInv, SnapshotsOk
<1>7. "links" \in DOMAIN read =>
        /\ kept \subseteq read["links"] /\ read["links"] \subseteq seen
        /\ \A s \in a.before : s.pair \in read["links"] \cup removed
  <2>1. CASE t = "links"
    <3>1. read["links"] = tables.links
      BY <1>3, <2>1 DEF RegistryInv, TablesOk
    <3> QED BY <1>2, <1>6, <3>1 DEF Ever
  <2>2. CASE t # "links"
    BY <1>2, <1>3, <2>2
  <2> QED BY <2>1, <2>2
<1>8. "snapshots" \in DOMAIN read =>
        a.before \subseteq read["snapshots"] /\ read["snapshots"] \subseteq tables.snapshots
  <2>1. CASE t = "snapshots"
    <3>1. read["snapshots"] = tables.snapshots
      BY <1>3, <2>1 DEF RegistryInv, TablesOk
    <3> QED BY <1>2, <3>1
  <2>2. CASE t # "snapshots"
    BY <1>2, <1>3, <2>2
  <2> QED BY <2>1, <2>2
<1>9. CASE DOMAIN read = Audited
  <2>1. PICK findings, took : findings = EvidenceFindings(read, a.observedAt) /\ took = now - a.observedAt
    OBVIOUS
  <2>2. audit' = [pc |-> "done", before |-> a.before, gone |-> removed, observedAt |-> a.observedAt,
                  took |-> took, findings |-> findings]
    BY <1>4, <1>9, <2>1
  <2>3. /\ kept \subseteq read.links /\ read.links \subseteq seen
        /\ \A s \in a.before : s.pair \in read.links \cup removed
        /\ a.before \subseteq read.snapshots /\ read.snapshots \subseteq tables.snapshots
    BY <1>7, <1>8, <1>9 DEF Audited
  <2>4. ASSUME NEW f \in findings
        PROVE  /\ f[1] = "MEMBERSHIP_MISSING" =>
                    f[2].pair \notin kept /\ (f[2].pair \in removed \/ f[2] \notin a.before)
               /\ f[1] = "TIMESTAMP_FUTURE" => took + f[2].skew > FutureTolerance
    <3>1. f[1] = "MEMBERSHIP_MISSING" => f[2].pair \notin read.links
      BY <2>1, FindingsName
    <3>2. ASSUME f[1] = "TIMESTAMP_FUTURE" PROVE took + f[2].skew > FutureTolerance
      <4>1. PICK s : s = f[2]
        OBVIOUS
      <4>2. s \in read.snapshots /\ s.at > a.observedAt + FutureTolerance
        BY <2>1, <3>2, <4>1, FindingsName
      <4>3. s.at \in Nat /\ s.skew \in Nat /\ s.at <= now + s.skew
        BY <1>6, <2>3, <4>2
      <4> QED BY <1>2, <2>1, <4>1, <4>2, <4>3, RegistryAssumption DEF RegistryInv
    <3> QED BY <2>3, <3>1, <3>2
  <2>5. ASSUME NEW s \in a.before
        PROVE  /\ s.pair \notin seen => <<"MEMBERSHIP_MISSING", s>> \in findings
               /\ s.at > a.observedAt + FutureTolerance => <<"TIMESTAMP_FUTURE", s>> \in findings
    <3>1. s \in read.snapshots /\ (s.pair \notin seen => s.pair \notin read.links)
      BY <2>3
    <3> QED BY <2>1, <3>1, FindingsName
  <2>6. FindingsAreExplained'
    BY <1>1, <1>4, <2>2, <2>4, <2>5 DEF FindingsAreExplained
  <2> QED BY <2>2, <2>6 DEF AuditOk
<1>10. CASE DOMAIN read # Audited
  <2>1. audit' = [pc |-> "reading", observedAt |-> a.observedAt, read |-> read, before |-> a.before]
    BY <1>2, <1>4, <1>10
  <2> QED BY <1>1, <1>2, <1>4, <1>5, <1>7, <1>8, <2>1 DEF AuditOk, FindingsAreExplained
<1> QED BY <1>9, <1>10

\* Every step of a job, a capture, an audit and the clock keeps what is known.
LEMMA RegistryStep ==
  ASSUME RegistryInv, RegistryNext
  PROVE  RegistryInv'
<1>1. ASSUME NEW j \in Jobs, Bootstrap(j)
      PROVE  RegistryInv'
  <2>1. CASE Begin(j)
    BY <2>1, BeginKeeps, EvidenceStays DEF RegistryInv
  <2>2. ASSUME JobTakes(j) PROVE RegistryInv'
    <3>1. JobsInv'
      BY <2>2, JobMoves DEF JobTakes, RegistryInv
    <3> QED BY <2>2, <3>1, EvidenceStays DEF JobTakes, RegistryInv
  <2> QED BY <1>1, <2>1, <2>2, SyncAnchorsIsAStep, UpsertCorridorIsAStep, DeleteStaleAllIsAStep,
             CreateMissingIsAStep, CommitIsAStep, AssociationFailsIsAStep, JobDiesIsAStep
          DEF Bootstrap, RegistryInv
<1>2. ASSUME UNCHANGED <<tables, jobs, removed>>
      PROVE  TablesOk' /\ JobsInv'
  BY <1>2, JobsStay DEF RegistryInv, TablesOk
<1>3. CASE CaptureRate
  <2>1. PICK pair, skew :
          /\ skew \in ClockSkews
          /\ capture' = [pc |-> "quoted", pair |-> pair, at |-> now + skew, skew |-> skew]
          /\ UNCHANGED <<now, tables, jobs, audit, during, removed>>
    BY <1>3 DEF CaptureRate
  <2>2. skew \in Nat /\ now \in Nat
    BY <2>1, RegistryAssumption DEF RegistryInv
  <2>3. CaptureOk'
    BY <2>1, <2>2 DEF CaptureOk
  <2>4. SnapshotsOk' /\ AuditOk'
    BY <2>1 DEF RegistryInv, SnapshotsOk, AuditOk, FindingsAreExplained, Ever
  <2> QED BY <1>2, <2>1, <2>3, <2>4 DEF RegistryInv
<1>4. CASE FindAssociation
  <2>1. capture' = [pc |-> IF capture.pair \in tables.links THEN "associated" ELSE "ended",
                    pair |-> capture.pair, at |-> capture.at, skew |-> capture.skew]
        /\ UNCHANGED <<now, tables, jobs, audit, during, removed>>
        /\ {capture.at, capture.skew} \subseteq Nat /\ capture.at <= now + capture.skew
    BY <1>4 DEF FindAssociation, RegistryInv, CaptureOk
  <2>2. CaptureOk'
    BY <2>1 DEF CaptureOk, Ever
  <2>3. SnapshotsOk' /\ AuditOk'
    BY <2>1 DEF RegistryInv, SnapshotsOk, AuditOk, FindingsAreExplained, Ever
  <2> QED BY <1>2, <2>1, <2>2, <2>3 DEF RegistryInv
<1>5. CASE CreateSnapshot
  <2>1. PICK s : s = [pair |-> capture.pair, at |-> capture.at, skew |-> capture.skew]
    OBVIOUS
  <2>2. /\ tables' = [anchors |-> tables.anchors, corridors |-> tables.corridors,
                      links |-> tables.links, snapshots |-> tables.snapshots \cup {s}]
        /\ capture' = [pc |-> "ended", pair |-> capture.pair, at |-> capture.at, skew |-> capture.skew]
        /\ {s.at, s.skew} \subseteq Nat /\ s.at <= now + s.skew /\ s.pair \in Ever
        /\ UNCHANGED <<now, jobs, audit, during, removed>>
    BY <1>5, <2>1 DEF CreateSnapshot, RegistryInv, CaptureOk, TablesOk
  <2>3. TablesOk' /\ JobsInv'
    BY <2>2, JobsStay DEF RegistryInv, TablesOk
  <2>4. CaptureOk'
    BY <2>1, <2>2 DEF CaptureOk
  <2>5. SnapshotsOk' /\ AuditOk'
    BY <2>2 DEF RegistryInv, SnapshotsOk, AuditOk, FindingsAreExplained, Ever
  <2> QED BY <2>2, <2>3, <2>4, <2>5 DEF RegistryInv
<1>6. CASE RegistryTick
  <2>1. now' = now + 1 /\ UNCHANGED <<tables, jobs, capture, audit, during, removed>> /\ now \in Nat
    BY <1>6 DEF RegistryTick, RegistryInv
  <2>2. CaptureOk' /\ SnapshotsOk'
    BY <2>1 DEF RegistryInv, CaptureOk, SnapshotsOk, Ever
  <2>3. AuditOk'
    BY <2>1 DEF RegistryInv, AuditOk, FindingsAreExplained
  <2> QED BY <1>2, <2>1, <2>2, <2>3 DEF RegistryInv
<1>7. CASE StartAudit
  <2>1. /\ audit' = [pc |-> "reading", observedAt |-> now, read |-> [t \in {} |-> {}],
                     before |-> tables.snapshots]
        /\ during' = [kept |-> tables.links, seen |-> tables.links]
        /\ UNCHANGED <<now, tables, jobs, capture, removed>>
    BY <1>7 DEF StartAudit
  <2>2. AuditOk'
    BY <2>1 DEF AuditOk, FindingsAreExplained, RegistryInv
  <2>3. CaptureOk' /\ SnapshotsOk'
    BY <2>1 DEF RegistryInv, CaptureOk, SnapshotsOk, Ever
  <2> QED BY <1>2, <2>1, <2>2, <2>3 DEF RegistryInv
<1>8. ASSUME NEW t \in Audited, ReadTable(t)
      PROVE  RegistryInv'
  <2>1. AuditOk' /\ UNCHANGED <<now, tables, jobs, capture, removed>>
    BY <1>8, ReadTableKeeps DEF ReadTable
  <2>2. CaptureOk' /\ SnapshotsOk'
    BY <2>1 DEF RegistryInv, CaptureOk, SnapshotsOk, Ever
  <2> QED BY <1>2, <2>1, <2>2 DEF RegistryInv
<1> QED BY <1>1, <1>3, <1>4, <1>5, <1>6, <1>7, <1>8 DEF RegistryNext

(* ---------------------------- the reconciliation --------------------------- *)

Evidenced(db, x) == Evidence({s.pair : s \in db.snapshots}, x) # {}

\* The codes that neither a safe nor a skipped action answers.
Uninvolved == {"UNEXPECTED_ANCHOR", "UNEXPECTED_CORRIDOR", "ORPHANED_RATE_SNAPSHOT",
               "ORPHANED_ANCHOR_LINK", "ORPHANED_CORRIDOR_LINK"}

\* The codes a reconciliation reports, and what each names.
LEMMA IssueNames ==
  ASSUME NEW r, NEW db, NEW i \in Issues(r, db)
  PROVE  /\ i[1] = "MISSING_ANCHOR" =>
              \E x \in Listed(r).anchors \ Slugs(db.anchors) : i[2] = <<x>>
         /\ i[1] = "MISSING_CORRIDOR" =>
              \E x \in Slugs(r.corridors) \ Slugs(db.corridors) : i[2] = <<x>>
         /\ i[1] = "CORRIDOR_FIELD_MISMATCH" =>
              \E c \in db.corridors \ r.corridors :
                c.slug \in Slugs(r.corridors) /\ i[2] = <<c.slug>>
         /\ i[1] = "STALE_ANCHOR" =>
              \E x \in Slugs(db.anchors) \ Listed(r).anchors : Evidenced(db, x) /\ i[2] = <<x>>
         /\ i[1] = "STALE_CORRIDOR" =>
              \E x \in Slugs(db.corridors) \ Slugs(r.corridors) : Evidenced(db, x) /\ i[2] = <<x>>
         /\ i[1] = "MISSING_ASSOCIATION" => i[2] \in r.links \ db.links
         /\ i[1] = "UNEXPECTED_ASSOCIATION" =>
              i[2] \in db.links \ r.links /\ i[2][1] \notin Slugs(db.anchors) \ Listed(r).anchors
<1>1. /\ Listed(r).corridors = r.corridors
      /\ Listed(r).links = r.links
  BY DEF Listed
<1>2. PICK la, lc, a, c :
        la = Listed(r).anchors /\ lc = Slugs(r.corridors) /\ a = Slugs(db.anchors) /\ c = Slugs(db.corridors)
  OBVIOUS
<1>3. \/ \E x \in la \ a : i = <<"MISSING_ANCHOR", <<x>>>>
      \/ \E x \in lc \ c : i = <<"MISSING_CORRIDOR", <<x>>>>
      \/ \E d \in db.corridors \ r.corridors :
           d.slug \in lc /\ i = <<"CORRIDOR_FIELD_MISMATCH", <<d.slug>>>>
      \/ \E x \in a \ la : Evidenced(db, x) /\ i = <<"STALE_ANCHOR", <<x>>>>
      \/ \E x \in c \ lc : Evidenced(db, x) /\ i = <<"STALE_CORRIDOR", <<x>>>>
      \/ \E l \in r.links \ db.links : i = <<"MISSING_ASSOCIATION", l>>
      \/ \E l \in db.links \ r.links : l[1] \notin a \ la /\ i = <<"UNEXPECTED_ASSOCIATION", l>>
      \/ i[1] \in Uninvolved
  <2> DEFINE listed == Listed(r)
             pairs == {s.pair : s \in db.snapshots}
             unlisted == [anchor |-> Slugs(db.anchors) \ listed.anchors,
                          corridor |-> Slugs(db.corridors) \ Slugs(listed.corridors)]
             about(code, slugs) == {<<code, <<x>>>> : x \in slugs}
             linked(code, links) == {<<code, l>> : l \in links}
             withEvidence(slugs) == {x \in slugs : Evidence(pairs, x) # {}}
             unexpected == db.links \ listed.links
             differing == {e.slug : e \in {d \in db.corridors : d.slug \in Slugs(listed.corridors)}
                                             \ listed.corridors}
             apart == {l \in unexpected : l[1] \notin unlisted.anchor /\ l[2] \notin unlisted.corridor}
             orphans == about("ORPHANED_RATE_SNAPSHOT", withEvidence(unlisted.anchor \cup unlisted.corridor))
             onAnchor == linked("ORPHANED_ANCHOR_LINK", {l \in unexpected : l[1] \in unlisted.anchor})
             onCorridor == linked("ORPHANED_CORRIDOR_LINK",
                   {l \in unexpected : l[1] \notin unlisted.anchor /\ l[2] \in unlisted.corridor})
  <2>1. \A code, rows : \A k \in about(code, rows) : \E x \in rows : k = <<code, <<x>>>>
    OBVIOUS
  <2>2. \A code, links : \A k \in linked(code, links) : \E l \in links : k = <<code, l>>
    OBVIOUS
  <2>3. listed.anchors = la /\ listed.links = r.links /\ unlisted.anchor = a \ la /\ unlisted.corridor = c \ lc
    BY <1>1, <1>2
  <2>4. \A slugs : \A x \in withEvidence(slugs) : x \in slugs /\ Evidenced(db, x)
    BY DEF Evidenced
  <2>5. \A x \in differing : \E d \in db.corridors \ r.corridors : d.slug \in lc /\ x = d.slug
    BY <1>1, <1>2
  <2>6. \A l \in apart : l \in db.links \ r.links /\ l[1] \notin a \ la
    BY <2>3
  <2>7. Issues(r, db) =
          about("MISSING_ANCHOR", listed.anchors \ Slugs(db.anchors))
            \cup about("MISSING_CORRIDOR", Slugs(listed.corridors) \ Slugs(db.corridors))
            \cup about("CORRIDOR_FIELD_MISMATCH", differing)
            \cup about("UNEXPECTED_ANCHOR", unlisted.anchor)
            \cup about("UNEXPECTED_CORRIDOR", unlisted.corridor)
            \cup about("STALE_ANCHOR", withEvidence(unlisted.anchor))
            \cup about("STALE_CORRIDOR", withEvidence(unlisted.corridor))
            \cup orphans
            \cup linked("MISSING_ASSOCIATION", listed.links \ db.links)
            \cup onAnchor \cup onCorridor
            \cup linked("UNEXPECTED_ASSOCIATION", apart)
    BY DEF Issues
  <2>8. /\ \A k \in orphans : k[1] \in Uninvolved
        /\ \A k \in onAnchor : k[1] \in Uninvolved
        /\ \A k \in onCorridor : k[1] \in Uninvolved
        /\ \A k \in about("UNEXPECTED_ANCHOR", unlisted.anchor) : k[1] \in Uninvolved
        /\ \A k \in about("UNEXPECTED_CORRIDOR", unlisted.corridor) : k[1] \in Uninvolved
    BY DEF Uninvolved
  <2>9. Slugs(listed.corridors) = lc /\ Slugs(db.anchors) = a /\ Slugs(db.corridors) = c
    BY <1>1, <1>2
  <2> HIDE DEF listed, unlisted, about, linked, withEvidence, unexpected, differing, apart, orphans,
               onAnchor, onCorridor
  <2>10. CASE i \in about("MISSING_ANCHOR", la \ a)
    BY <2>1, <2>10
  <2>11. CASE i \in about("MISSING_CORRIDOR", lc \ c)
    BY <2>1, <2>11
  <2>12. CASE i \in about("CORRIDOR_FIELD_MISMATCH", differing)
    BY <2>1, <2>5, <2>12
  <2>13. CASE i \in about("STALE_ANCHOR", withEvidence(a \ la))
    BY <2>1, <2>4, <2>13
  <2>14. CASE i \in about("STALE_CORRIDOR", withEvidence(c \ lc))
    BY <2>1, <2>4, <2>14
  <2>15. CASE i \in linked("MISSING_ASSOCIATION", r.links \ db.links)
    BY <2>2, <2>15
  <2>16. CASE i \in linked("UNEXPECTED_ASSOCIATION", apart)
    BY <2>2, <2>6, <2>16
  <2>17. CASE i[1] \in Uninvolved
    BY <2>17
  <2>18. \/ i \in about("MISSING_ANCHOR", la \ a) \/ i \in about("MISSING_CORRIDOR", lc \ c)
         \/ i \in about("CORRIDOR_FIELD_MISMATCH", differing)
         \/ i \in about("STALE_ANCHOR", withEvidence(a \ la))
         \/ i \in about("STALE_CORRIDOR", withEvidence(c \ lc))
         \/ i \in linked("MISSING_ASSOCIATION", r.links \ db.links)
         \/ i \in linked("UNEXPECTED_ASSOCIATION", apart)
         \/ i[1] \in Uninvolved
    BY <2>3, <2>7, <2>8, <2>9
  <2> QED BY <2>10, <2>11, <2>12, <2>13, <2>14, <2>15, <2>16, <2>17, <2>18
<1> QED BY <1>2, <1>3 DEF Uninvolved

\* What stale evidence is reported as.
LEMMA StaleIsNamed ==
  ASSUME NEW r, NEW db
  PROVE  /\ \A x \in Slugs(db.anchors) \ Listed(r).anchors :
              Evidenced(db, x) => <<"STALE_ANCHOR", <<x>>>> \in Issues(r, db)
         /\ \A x \in Slugs(db.corridors) \ Slugs(r.corridors) :
              Evidenced(db, x) => <<"STALE_CORRIDOR", <<x>>>> \in Issues(r, db)
<1>1. Listed(r).corridors = r.corridors
  BY DEF Listed
<1> QED BY <1>1 DEF Issues, Evidenced

\* What a plan may do on its own, and what it keeps from automation.
LEMMA PlanIs ==
  ASSUME NEW issues
  PROVE  /\ \A i : i \in RepairPlan(issues)["safe"] <=>
              i \in issues /\ i[1] \in {"MISSING_ANCHOR", "MISSING_CORRIDOR",
                                        "CORRIDOR_FIELD_MISMATCH", "MISSING_ASSOCIATION"}
         /\ \A i : i \in RepairPlan(issues)["skipped"] <=>
              i \in issues /\ i[1] \in {"STALE_ANCHOR", "STALE_CORRIDOR"}
BY DEF RepairPlan, PlanActionForIssue

\* No plan touches what evidence hangs on, by TablesOk and the names' being apart.
LEMMA EvidenceIsKept ==
  ASSUME TablesOk
  PROVE  EvidenceIsNeverRetired
<1> SUFFICES ASSUME NEW r \in Registries, NEW plan, NEW evidenced, NEW unlisted,
                    plan = RepairPlan(Issues(r, tables)),
                    evidenced = {s.pair[1] : s \in tables.snapshots}
                                  \cup {s.pair[2] : s \in tables.snapshots},
                    unlisted = (Slugs(tables.anchors) \cup Slugs(tables.corridors))
                                 \ (Listed(r).anchors \cup Slugs(r.corridors))
             PROVE  /\ {i[2] : i \in plan["skipped"]} = {<<x>> : x \in evidenced \cap unlisted}
                    /\ \A i \in plan["safe"], x \in unlisted : i[2] # <<x>>
  BY DEF EvidenceIsNeverRetired
<1>1. AnchorNames \cap CorridorNames = {}
  BY RegistryAssumption DEF AnchorNames, CorridorNames, Listed, Slugs
<1>2. Listed(r).anchors \subseteq AnchorNames /\ Slugs(r.corridors) \subseteq CorridorNames
  BY DEF AnchorNames, CorridorNames
<1>3. unlisted = (Slugs(tables.anchors) \ Listed(r).anchors)
                   \cup (Slugs(tables.corridors) \ Slugs(r.corridors))
  BY <1>1, <1>2 DEF TablesOk
<1>4. \A x : x \in evidenced <=> Evidenced(tables, x)
  BY DEF Evidenced, Evidence
<1>5. \A i \in plan["skipped"] : \E x \in evidenced \cap unlisted : i[2] = <<x>>
  BY <1>3, <1>4, PlanIs, IssueNames
<1>6. \A x \in evidenced \cap unlisted : \E i \in plan["skipped"] : i[2] = <<x>>
  <2> SUFFICES ASSUME NEW x \in evidenced \cap unlisted
               PROVE  \E i \in plan["skipped"] : i[2] = <<x>>
    OBVIOUS
  <2>1. PICK code \in {"STALE_ANCHOR", "STALE_CORRIDOR"} : <<code, <<x>>>> \in Issues(r, tables)
    BY <1>3, <1>4, StaleIsNamed
  <2>2. PICK i : i = <<code, <<x>>>>
    OBVIOUS
  <2>3. i[1] = code /\ i[2] = <<x>>
    BY <2>2
  <2>4. i \in plan["skipped"]
    BY <2>1, <2>2, <2>3, PlanIs
  <2> QED BY <2>3, <2>4
<1>7. ASSUME NEW i \in plan["safe"], NEW x \in unlisted
      PROVE  i[2] # <<x>>
  <2>1. i \in Issues(r, tables)
        /\ i[1] \in {"MISSING_ANCHOR", "MISSING_CORRIDOR", "CORRIDOR_FIELD_MISMATCH", "MISSING_ASSOCIATION"}
    BY <1>7, PlanIs
  <2>2. x \notin Listed(r).anchors /\ x \notin Slugs(r.corridors)
    BY <1>7
  <2>3. CASE i[1] = "MISSING_ASSOCIATION"
    <3>1. i[2] \in r.links
      BY <2>1, <2>3, IssueNames
    <3>2. i[2] = <<i[2][1], i[2][2]>>
      BY <3>1, RegistryAssumption DEF Validated
    <3> QED BY <3>2
  <2>4. CASE i[1] # "MISSING_ASSOCIATION"
    <3>1. \E y \in Listed(r).anchors \cup Slugs(r.corridors) : i[2] = <<y>>
      BY <2>1, <2>4, IssueNames
    <3> QED BY <2>2, <3>1
  <2> QED BY <2>3, <2>4
<1> QED BY <1>5, <1>6, <1>7

\* A registry the tables have converged to leaves nothing to repair.
LEMMA NothingToRepair ==
  ASSUME TablesOk, NEW r, Converged(r, tables)
  PROVE  /\ RepairPlan(Issues(r, tables))["safe"] = {}
         /\ \A i \in Issues(r, tables) : i[1] # "UNEXPECTED_ASSOCIATION"
<1>1. Listed(r).anchors \subseteq Slugs(tables.anchors)
  BY DEF Converged, Anchored
<1>2. \A c \in r.corridors : c \in tables.corridors /\ \A d \in tables.corridors : d.slug = c.slug => d = c
  BY DEF Converged, Reviewed
<1>3. \A l \in tables.links \cup r.links :
        l[1] \in Listed(r).anchors => (l \in tables.links <=> l \in r.links)
  BY DEF Converged, Associated
<1>4. Slugs(r.corridors) \subseteq Slugs(tables.corridors)
  BY <1>2 DEF Slugs
<1>5. \A c \in tables.corridors : c.slug \in Slugs(r.corridors) => c \in r.corridors
  BY <1>2 DEF Slugs
<1>6. r.links \subseteq tables.links
  BY <1>3 DEF Listed
<1>7. \A l \in tables.links : l \in r.links \/ l[1] \in Slugs(tables.anchors) \ Listed(r).anchors
  BY <1>3 DEF TablesOk
<1> QED BY <1>1, <1>4, <1>5, <1>6, <1>7, PlanIs, IssueNames

\* A bootstrap nothing overlapped has settled.
LEMMA SettledConverge ==
  ASSUME TablesOk, JobsInv
  PROVE  BootstrapConverges
<1> SUFFICES ASSUME NEW j \in Jobs, jobs[j].pc = "ended", jobs[j].alone, jobs[j].failures = {},
                    \A i \in Jobs \ {j} : jobs[i].pc \in {"idle", "ended", "dead"}
                                          /\ jobs[i].registry = jobs[j].registry
             PROVE  /\ RepairPlan(Issues(jobs[j].registry, tables))["safe"] = {}
                    /\ \A i \in Issues(jobs[j].registry, tables) : i[1] # "UNEXPECTED_ASSOCIATION"
  BY DEF BootstrapConverges
<1>1. Settled(j)
  BY DEF Settled
<1> QED BY <1>1, NothingToRepair DEF JobsInv, EndedInv

\* What a database starts from is accounted for.
LEMMA RegistryStarts ==
  ASSUME RegistryInit
  PROVE  RegistryInv
<1>1. \A j \in Jobs : jobs[j] = NoJob
  BY DEF RegistryInit
<1>2. PICK v : v = NoJob
  OBVIOUS
<1>3. \A j \in Jobs : jobs[j] = v
  BY <1>1, <1>2
<1>4. v = [pc |-> "idle", registry |-> v.registry, alone |-> TRUE, corridors |-> {}, anchors |-> {},
           deleted |-> {}, inserted |-> {}, failures |-> {}]
  BY <1>2 DEF NoJob
<1>5. JobOk(v, tables)
  BY <1>4 DEF JobOk, Associating
<1>6. AloneInv /\ EndedInv
  BY <1>3, <1>4 DEF AloneInv, EndedInv, Settled, Running
<1>7. jobs = [j \in Jobs |-> jobs[j]]
  BY DEF RegistryInit
<1>8. tables = [anchors |-> tables.anchors, corridors |-> tables.corridors,
                links |-> tables.links, snapshots |-> {}]
  BY DEF RegistryInit
<1>9. TablesOk
  <2>1. CASE tables = [anchors |-> {}, corridors |-> {}, links |-> {}, snapshots |-> {}]
    BY <2>1 DEF TablesOk, Slugs
  <2>2. ASSUME NEW r \in Registries,
               tables = [anchors |-> {[slug |-> a, createdAt |-> 0] : a \in Listed(r).anchors},
                         corridors |-> r.corridors, links |-> r.links, snapshots |-> {}]
        PROVE  TablesOk
    <3>1. Slugs(tables.anchors) = Listed(r).anchors
      <4>1. PICK la : la = Listed(r).anchors
        OBVIOUS
      <4>2. tables.anchors = {[slug |-> a, createdAt |-> 0] : a \in la}
        BY <2>2, <4>1
      <4>3. \A row \in tables.anchors : row.slug \in la
        BY <4>2
      <4>4. ASSUME NEW a \in la PROVE \E row \in tables.anchors : row.slug = a
        <5>1. PICK row : row = [slug |-> a, createdAt |-> 0]
          OBVIOUS
        <5>2. row \in tables.anchors
          BY <4>2, <5>1
        <5> QED BY <5>1, <5>2
      <4> QED BY <4>1, <4>3, <4>4 DEF Slugs
    <3>2. \A l \in r.links : l[1] \in Listed(r).anchors
      BY DEF Listed
    <3> QED BY <1>8, <2>2, <3>1, <3>2 DEF TablesOk, AnchorNames, CorridorNames
  <2> QED BY <2>1, <2>2 DEF RegistryInit
<1>10. SnapshotsOk
  BY <1>8 DEF SnapshotsOk
<1>11. CaptureOk /\ AuditOk /\ now \in Nat
  BY DEF RegistryInit, CaptureOk, AuditOk, FindingsAreExplained
<1> QED BY <1>3, <1>5, <1>6, <1>7, <1>9, <1>10, <1>11 DEF RegistryInv, JobsInv

\* What is known of the registry stays true.
LEMMA RegistryIsKnown == RegistrySpec => []RegistryInv
<1>1. RegistryInit => RegistryInv
  BY RegistryStarts
<1>2. RegistryInv /\ [RegistryNext]_registryVars => RegistryInv'
  <2>1. CASE UNCHANGED registryVars
    BY <2>1 DEF RegistryInv, TablesOk, JobsInv, AloneInv, EndedInv, Settled, Running, CaptureOk, SnapshotsOk, AuditOk,
           FindingsAreExplained, Ever, registryVars
  <2> QED BY <2>1, RegistryStep
<1> QED BY <1>1, <1>2, PTL DEF RegistrySpec

\* An audit of the rows this code has written (repository.ts, invariants.ts) says
\* of them what has happened to them, and keeps silent about none of it, whatever
\* bootstraps overlap, fail and die while it reads, and however far the clocks of
\* the captures are ahead.
THEOREM AuditsTellTheTruth == RegistrySpec => []FindingsAreExplained
<1>1. RegistryInv => FindingsAreExplained
  BY DEF RegistryInv, AuditOk
<1> QED BY <1>1, RegistryIsKnown, PTL

\* A bootstrap of any version (corridorSync.ts) that nothing overlapped and that
\* reports no failure leaves nothing to repair.
THEOREM BootstrapsConverge == RegistrySpec => []BootstrapConverges
<1>1. RegistryInv => BootstrapConverges
  BY SettledConverge DEF RegistryInv
<1> QED BY <1>1, RegistryIsKnown, PTL

\* No repair a plan calls safe (registryReconciliation.ts) touches a row that
\* evidence hangs on, whichever registry the database is held against.
THEOREM EvidenceIsSafe == RegistrySpec => []EvidenceIsNeverRetired
<1>1. RegistryInv => EvidenceIsNeverRetired
  BY EvidenceIsKept DEF RegistryInv
<1> QED BY <1>1, RegistryIsKnown, PTL
===============================================================================
