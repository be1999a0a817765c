---------------------------- MODULE AdsDashboard ----------------------------
(***************************************************************************)
(* The content script on the seller's pages of ads (content.ts): the       *)
(* metrics of a dashboard, or of one ad, are read from the document as     *)
(* they appear, completed with those read before, and shown in the page;   *)
(* what cannot be shown yet is tried again some times.  The document is    *)
(* only observed for a while after the user has used the page's controls.  *)
(*                                                                         *)
(* Url are the addresses of dashboards, Ad those of single ads, Other any  *)
(* other page.  A metric is known by the page it is of; doc, the page the  *)
(* document is about, lags behind the address.  No overlay of these pages  *)
(* locks refreshes.  Bounds: Url, Ad, Metric, Slot.                        *)
(***************************************************************************)
EXTENDS Integers, FiniteSets

CONSTANTS Url, Ad, Other, None, Metric, Slot, MaxRetries

VARIABLES
  page, doc, readable,  \* the address; whose metrics, and which, the document has
  last,         \* the page of lastSnapshot
  active,       \* activeRoasPersistenceKey
  task,         \* publications that wait for storage
  stable,       \* lastStableShopeeAdsDashboard and its key
  shown,        \* the metrics in the enhancement, NoMetrics without one
  rendered,     \* the last rendering found all it needs
  retries, retry,       \* adsDashboardBootstrapRetryCount and its timer
  settled, followup,    \* the timers of queueAdsDashboardManualRefresh
  watch, stop, idle,    \* the transient watch ("none", "active", "expired"), its timers
  observing,    \* isDomObserverActive
  lagged        \* history: metrics have been read of a page just left

browser == <<page, doc, readable>>
shows == <<stable, shown, rendered, retries, retry>>
watches == <<watch, stop, idle, observing>>
vars == <<browser, last, active, task, shows, settled, followup, watches, lagged>>

Ads == Url \cup Ad
Page == Ads \cup {Other}
NoMetrics == [m \in Metric |-> None]
Metrics == [Metric -> Page \cup {None}]
Free == [page |-> None, metrics |-> NoMetrics]

Init ==
  /\ page \in Page /\ doc = page /\ readable = {}
  /\ last = None /\ active = None /\ task = [t \in Slot |-> Free]
  /\ stable = [key |-> None, metrics |-> NoMetrics] /\ shown = NoMetrics
  /\ rendered = FALSE /\ retries = 0 /\ retry = FALSE
  /\ settled = FALSE /\ followup = FALSE
  /\ watch = "none" /\ stop = FALSE /\ idle = FALSE /\ observing = TRUE
  /\ lagged = FALSE

-----------------------------------------------------------------------------
\* detectPageSnapshot
Detected ==
  [page |-> page,
   metrics |-> [m \in Metric |-> IF page \in Ads /\ m \in readable THEN doc ELSE None]]

Lag == lagged' = (lagged \/ (page \in Ads /\ readable # {} /\ doc # page))

\* Variant: a dashboard is known by its type only, too.
KeyOfType(p) == IF p \in Url THEN None ELSE Other

\* stabilityKey: an ad's page is known by its type only.
Key(p) == IF p \in Url THEN p ELSE Other

\* mergeAdsMetricSnapshot
Merge(new, old) == [m \in Metric |-> IF new[m] # None THEN new[m] ELSE old[m]]

\* getStableShopeeAdsDashboard
Stable(s) ==
  [key |-> Key(s.page),
   metrics |-> Merge(s.metrics, IF stable.key = Key(s.page) THEN stable.metrics
                                ELSE NoMetrics)]

\* renderShopeeAdsDashboardEnhancement draws what is stable, if anything is; an
\* ad's page also needs the anchor of the calculator.
Drawn(s, metrics) == {metrics # NoMetrics, metrics # NoMetrics /\ s.page \notin Ad}

\* renderOverlay, n retries after the last success and with the retry timer
\* armed or not.
Render(s, n, armed) ==
  \/ /\ s.page \in Ads
     /\ stable' = Stable(s) /\ shown' = stable'.metrics
     /\ rendered' \in Drawn(s, shown')
     /\ retries' = (IF rendered' THEN 0 ELSE n)
     /\ retry' = (~rendered' /\ (armed \/ n < MaxRetries))
  \/ /\ s.page \notin Ads
     /\ retries' = 0 /\ retry' = FALSE
     /\ stable' = [stable EXCEPT !.metrics = NoMetrics]
     /\ shown' = NoMetrics /\ rendered' = FALSE

\* syncDomObservationMode
Sync ==
  LET leaves == last' \notin Url /\ watch # "none" IN
  /\ watch' = (IF leaves THEN "none" ELSE watch)
  /\ stop' = (stop /\ ~leaves) /\ idle' = (idle /\ ~leaves)
  /\ observing' = (last' \notin Ads \/ (last' \in Url /\ watch = "active"))

\* publishSnapshot once hydrateRoasCalculatorStateForSnapshot is done
Publish(s, n, armed) == last' = s.page /\ Sync /\ Render(s, n, armed)

\* sendSnapshot and forceSendSnapshot: the page of another ad waits for storage.
Send(t, n, armed) ==
  /\ lagged' = (lagged \/ (page \in Ads /\ readable # {} /\ doc # page))
  /\ active' = (IF page \in Ad THEN page ELSE None)
  /\ IF page \in Ad /\ active # page
     THEN /\ task[t] = Free /\ task' = [task EXCEPT ![t] = Detected]
          /\ retries' = n /\ retry' = armed
          /\ UNCHANGED <<last, stable, shown, rendered, watches>>
     ELSE UNCHANGED task /\ Publish(Detected, n, armed)
  /\ UNCHANGED browser

Published(t) ==
  /\ task[t] # Free /\ task' = [task EXCEPT ![t] = Free]
  /\ Publish(task[t], retries, retry)
  /\ UNCHANGED <<browser, active, lagged, settled, followup>>

-----------------------------------------------------------------------------
\* watchRouteChanges, the popup's request, the first snapshot.
ForceSend(t) == Send(t, retries, retry) /\ UNCHANGED <<settled, followup>>

\* The timer of scheduleAdsDashboardBootstrapRetry.
Retry(t) ==
  /\ retry /\ Send(t, retries + 1, FALSE)
  /\ UNCHANGED <<settled, followup>>

Settled(t) ==
  /\ settled /\ settled' = FALSE /\ Send(t, retries, retry) /\ UNCHANGED followup

Followup(t) ==
  /\ followup /\ followup' = FALSE /\ Send(t, retries, retry) /\ UNCHANGED settled

\* The user uses a control of the page: queueAdsDashboardManualRefresh, which
\* for a dashboard forgets what was stable and begins the transient watch.
ManualRefresh ==
  /\ last \in Ads
  /\ settled' = TRUE /\ followup' = TRUE
  /\ IF last \in Url
     THEN /\ stable' = [key |-> None, metrics |-> NoMetrics]
          /\ watch' = "active" /\ stop' = TRUE /\ idle' = FALSE /\ observing' = TRUE
     ELSE UNCHANGED <<stable, watches>>
  /\ UNCHANGED <<browser, last, active, task, shown, rendered, retries, retry, lagged>>

\* The observer of watchDomChanges while the watch is active; the timer that
\* ends an idle watch is set anew.
Mutation ==
  /\ observing /\ last \in Url /\ watch = "active"
  /\ settled' = TRUE /\ idle' = TRUE
  /\ UNCHANGED <<browser, last, active, task, shows, followup, watch, stop, observing,
                 lagged>>

\* The watch has lasted ADS_DASHBOARD_TRANSIENT_WATCH_MAX_MS; a timer comes later.
Expire ==
  /\ watch = "active" /\ watch' = "expired"
  /\ UNCHANGED <<browser, last, active, task, shows, settled, followup, stop, idle,
                 observing, lagged>>

\* Variant: the watch ends, the observer goes on.
EndWatchObserves ==
  /\ (stop /\ watch = "expired") \/ idle
  /\ watch' = "none" /\ stop' = FALSE /\ idle' = FALSE
  /\ UNCHANGED <<browser, last, active, task, shows, settled, followup, observing, lagged>>

\* endAdsDashboardTransientWatch, by either timer
EndWatch ==
  /\ (stop /\ watch = "expired") \/ idle
  /\ watch' = "none" /\ stop' = FALSE /\ idle' = FALSE
  /\ observing' = (last \notin Ads)
  /\ UNCHANGED <<browser, last, active, task, shows, settled, followup, lagged>>

-----------------------------------------------------------------------------
Navigate ==
  /\ page' \in Page \ {page}
  /\ UNCHANGED <<doc, readable, last, active, task, shows, settled, followup, watches,
                 lagged>>

DocumentChanges ==
  /\ doc' \in {doc, page} /\ readable' \in SUBSET Metric
  /\ UNCHANGED <<page, last, active, task, shows, settled, followup, watches, lagged>>

Step(t) == Published(t) \/ ForceSend(t) \/ Retry(t) \/ Settled(t) \/ Followup(t)

Next ==
  \/ \E t \in Slot : Step(t)
  \/ ManualRefresh \/ Mutation \/ Expire \/ EndWatch \/ Navigate \/ DocumentChanges

Spec == Init /\ [][Next]_vars

-----------------------------------------------------------------------------
\* Whatever is completed from what was read before, a dashboard shows no metric
\* of another address, unless the page was read while the document lagged.
MetricsAreOfTheAddress ==
  ~lagged /\ last \in Url => \A m \in Metric : shown[m] \in {last, None}

\* A page of ads that could not be shown is tried again until it has been tried
\* in vain for all the delays (counted over the pages since a success), and a
\* dashboard is observed only as long as a timer will end that: whatever routes,
\* controls and retries cross, nothing is forgotten half-shown or kept observed.
RetriedAndObservedInTime ==
  /\ last \in Ads /\ ~rendered =>
       retry \/ retries >= MaxRetries \/ \E t \in Slot : task[t] # Free
  /\ last \in Url /\ observing => stop
=============================================================================
