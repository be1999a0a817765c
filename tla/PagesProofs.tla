---------------------------- MODULE PagesProofs ----------------------------
(***************************************************************************)
(* Proofs about the suite MCPages, for any number of tabs, ads, shops,     *)
(* requests and tasks: the requests for a page's snapshot                  *)
(* (SnapshotRequests), the dashboards of ads (AdsDashboard), the research  *)
(* of shops (ShopResearch), the page bridge (PageBridge) and the ROAS      *)
(* calculator with its fee and its arithmetic (RoasCalculator,             *)
(* RoasCategory, RoasFigures).                                             *)
(***************************************************************************)
EXTENDS MCPages, Sequences, WellFoundedInduction, TLAPS

LEMMA PartStays == [PagesNext]_pagesVars => part' = part
BY DEF PagesNext, Rest, Quiet, pagesVars

-----------------------------------------------------------------------------
(* Requests for snapshots.                                                 *)

SnapshotTypes ==
  /\ at \in [Request -> {"idle", "request", "opened", "seen", "listening", "own",
                         "send", "sendOwn", "await", "awaitOwn", "cleanup", "remove", "end"}]
  /\ on \in [Request -> Window \cup {None}]
  /\ pending \in [Window -> Request \cup {None}]
  /\ armed \subseteq Request
  /\ promise \in [Request -> {"none", "open", "resolved", "rejected"}]
  /\ cut \in [Request -> {"no", "entry", "timer"}]

\* A request has its timer and its promise only once it has asked its tab, and
\* then its entry is the tab's as long as nobody has taken it.
SnapshotHeld ==
  \A r \in Request :
    /\ at[r] # "idle" => on[r] \in Window
    /\ at[r] \in {"idle", "request", "opened", "seen", "listening", "own"} =>
         r \notin armed /\ promise[r] = "none"
    /\ r \in armed /\ cut[r] = "no" => pending[on[r]] = r

SnapshotInv == SnapshotTypes /\ SnapshotHeld /\ Snapshots!OpenIsTimed

LEMMA SnapshotsInit == Snapshots!Init => SnapshotInv
BY NoneAssumption DEF Snapshots!Init, SnapshotInv, SnapshotTypes, SnapshotHeld,
    Snapshots!OpenIsTimed,
   Snapshots!Waits

LEMMA SnapshotsMove ==
  part = "snapshots" /\ [PagesNext]_pagesVars => [Snapshots!Next]_snapshotVars
BY DEF PagesNext, Rest, Quiet, pagesVars

LEMMA SnapshotStep ==
  ASSUME SnapshotInv, NEW r \in Request, Snapshots!Step(r)
  PROVE  SnapshotInv'
<1>. USE NoneAssumption DEF SnapshotInv, SnapshotTypes, SnapshotHeld, Snapshots!OpenIsTimed,
         Snapshots!Waits,
         Snapshots!Goto
<1>1. CASE Snapshots!Refresh(r)
  BY <1>1 DEF Snapshots!Refresh
<1>2. CASE Snapshots!OpenTab(r)
  BY <1>2 DEF Snapshots!OpenTab
<1>3. CASE Snapshots!WaitForTab(r)
  BY <1>3 DEF Snapshots!WaitForTab
<1>12. CASE Snapshots!Listen(r)
  BY <1>12 DEF Snapshots!Listen
<1>4. CASE Snapshots!TabTimeout(r)
  BY <1>4 DEF Snapshots!TabTimeout
<1>5. CASE Snapshots!RequestSnapshot(r)
  BY <1>5 DEF Snapshots!RequestSnapshot, Snapshots!Asks
<1>6. CASE Snapshots!Sent(r)
  BY <1>6 DEF Snapshots!Sent, Snapshots!After
<1>7. CASE Snapshots!SendFails(r)
  BY <1>7 DEF Snapshots!SendFails, Snapshots!After, Snapshots!Forget, Snapshots!CutOff
<1>8. CASE Snapshots!Timer(r)
  BY <1>8 DEF Snapshots!Timer, Snapshots!Forget, Snapshots!CutOff
<1>9. CASE Snapshots!Settled(r)
  BY <1>9 DEF Snapshots!Settled, Snapshots!After
<1>10. CASE Snapshots!Cleanup(r)
  BY <1>10 DEF Snapshots!Cleanup, Snapshots!Forget, Snapshots!CutOff
<1>11. CASE Snapshots!RemoveTab(r)
  BY <1>11 DEF Snapshots!RemoveTab
<1>. QED BY <1>1, <1>2, <1>3, <1>4, <1>5, <1>6, <1>7, <1>8, <1>9, <1>10, <1>11, <1>12
     DEF Snapshots!Step

LEMMA SnapshotsNext == SnapshotInv /\ [Snapshots!Next]_snapshotVars => SnapshotInv'
<1> SUFFICES ASSUME SnapshotInv, [Snapshots!Next]_snapshotVars PROVE SnapshotInv'
  OBVIOUS
<1>. USE NoneAssumption DEF SnapshotInv, SnapshotTypes, SnapshotHeld, Snapshots!OpenIsTimed,
         Snapshots!Waits
<1>1. ASSUME NEW t \in Window, Snapshots!TabCompletes(t) PROVE SnapshotInv'
  BY <1>1 DEF Snapshots!TabCompletes
<1>2. ASSUME NEW t \in Window, Snapshots!Snapshot(t) PROVE SnapshotInv'
  BY <1>2 DEF Snapshots!Snapshot, Snapshots!Forget
<1>3. ASSUME NEW t \in Window, Snapshots!CloseTab(t) PROVE SnapshotInv'
  BY <1>3 DEF Snapshots!CloseTab
<1>4. CASE Snapshots!Quiet \/ UNCHANGED snapshotVars
  BY <1>4 DEF Snapshots!Quiet, Snapshots!vars, snapshotVars
<1>. QED BY <1>1, <1>2, <1>3, <1>4, SnapshotStep DEF Snapshots!Next

LEMMA SnapshotsInvariant == PagesSpec => [](part = "snapshots" => SnapshotInv)
<1> DEFINE Inv == part = "snapshots" => SnapshotInv
<1>1. PagesInit => Inv
  BY SnapshotsInit DEF PagesInit
<1>2. Inv /\ [PagesNext]_pagesVars => Inv'
  BY PartStays, SnapshotsMove, SnapshotsNext
<1>. QED BY <1>1, <1>2, PTL DEF PagesSpec

\* A request that waits for a tab's snapshot has its timer and, unless another
\* took it, its entry; and only a request that waits is pending.
THEOREM WaitingIsTimed == PagesSpec => []OpenIsTimed
<1>1. (part = "snapshots" => SnapshotInv) => OpenIsTimed
  BY DEF SnapshotInv, OpenIsTimed
<1>. QED BY <1>1, SnapshotsInvariant, PTL

-----------------------------------------------------------------------------
(* Dashboards of ads.                                                      *)

AdsTypes ==
  /\ address \in Ads!Page /\ document \in Ads!Page /\ readable \subseteq Metric
  /\ lastAds \in Ads!Page \cup {None}
  /\ publication \in [Task -> [page : Ads!Page \cup {None}, metrics : Ads!Metrics]]
  /\ stable \in [key : Ads!Page \cup {None}, metrics : Ads!Metrics]
  /\ shown \in Ads!Metrics
  /\ retries \in Nat /\ {rendered, retry, observing, stop, lagged} \subseteq BOOLEAN

\* What waits for storage is a page of ads, and the watch of a dashboard has its
\* timer.
PublicationsAreAds == \A t \in Task : publication[t] # Ads!Free => publication[t].page \in Single
WatchIsTimed == watch = "active" => stop
AdsInv == AdsTypes /\ PublicationsAreAds /\ WatchIsTimed /\ Ads!RetriedAndObservedInTime

\* Unless the document lagged, what is read, waits, or is kept of a dashboard
\* is of its address.
OfThePage(metrics, p) == \A m \in Metric : metrics[m] \in {p, None}
MetricsHeld ==
  ~lagged =>
    /\ \A t \in Task : OfThePage(publication[t].metrics, publication[t].page)
    /\ stable.key \in Url => OfThePage(stable.metrics, stable.key)
    /\ lastAds \in Url => OfThePage(shown, lastAds)

AdsAll == AdsInv /\ MetricsHeld

Read == [page : Ads!Page, metrics : Ads!Metrics]

LEMMA AdsStart == Ads!Init => AdsAll
<1> SUFFICES ASSUME Ads!Init PROVE AdsAll
  OBVIOUS
<1>. USE DEF Ads!Init
<1>1. AdsTypes
  BY DEF AdsTypes, Ads!Page, Ads!Ads, Ads!Free, Ads!NoMetrics, Ads!Metrics
<1>2. PublicationsAreAds /\ WatchIsTimed /\ Ads!RetriedAndObservedInTime /\ MetricsHeld
  BY NoneAssumption
     DEF PublicationsAreAds, WatchIsTimed, MetricsHeld, OfThePage, Ads!RetriedAndObservedInTime,
         Ads!Free, Ads!NoMetrics, Ads!Ads
<1>. QED BY <1>1, <1>2 DEF AdsAll, AdsInv

LEMMA AdsMove == part = "ads" /\ [PagesNext]_pagesVars => [Ads!Next]_adsVars
BY DEF PagesNext, Rest, Quiet, pagesVars

\* What is read of the page is typed, and of the address unless the document lags.
LEMMA DetectedHolds ==
  ASSUME AdsTypes
  PROVE  /\ Ads!Detected \in Read /\ Ads!Detected.page = address
         /\ Ads!Detected # Ads!Free
         /\ ~(address \in Ads!Ads /\ readable # {} /\ document # address) =>
              OfThePage(Ads!Detected.metrics, address)
BY NoneAssumption
   DEF AdsTypes, Ads!Detected, Read, Ads!Page, Ads!Ads, Ads!Metrics, Ads!Free, OfThePage

\* What is completed from what was stable before.
LEMMA StableHolds ==
  ASSUME AdsTypes, NEW s \in Read
  PROVE  /\ Ads!Stable(s) \in [key : Ads!Page \cup {None}, metrics : Ads!Metrics]
         /\ OfThePage(s.metrics, s.page)
            /\ (stable.key \in Url => OfThePage(stable.metrics, stable.key)) =>
              /\ Ads!Stable(s).key \in Url =>
                   OfThePage(Ads!Stable(s).metrics, Ads!Stable(s).key)
              /\ s.page \in Url => OfThePage(Ads!Stable(s).metrics, s.page)
BY PageAssumption
   DEF AdsTypes, Read, Ads!Stable, Ads!Key, Ads!Merge, Ads!NoMetrics, Ads!Page, Ads!Ads,
       Ads!Metrics, OfThePage

\* A publication keeps the types, shows what it may, and leaves a timer behind
\* when it could not show all.
LEMMA PublishHolds ==
  ASSUME AdsInv, NEW s \in Read, NEW n \in Nat, NEW timed \in BOOLEAN,
         Ads!Publish(s, n, timed)
  PROVE  /\ lastAds' = s.page
         /\ stable' \in [key : Ads!Page \cup {None}, metrics : Ads!Metrics]
         /\ shown' \in Ads!Metrics /\ retries' \in Nat
         /\ {rendered', retry', observing', stop'} \subseteq BOOLEAN
         /\ watch' = "active" => stop'
         /\ s.page \in Ads!Ads /\ ~rendered' => retry' \/ retries' >= MaxRetries
         /\ s.page \in Url /\ observing' => stop'
         /\ OfThePage(s.metrics, s.page)
            /\ (stable.key \in Url => OfThePage(stable.metrics, stable.key)) =>
              /\ stable'.key \in Url => OfThePage(stable'.metrics, stable'.key)
              /\ s.page \in Url => OfThePage(shown', s.page)
<1>. DEFINE S == [key : Ads!Page \cup {None}, metrics : Ads!Metrics]
<1>1. lastAds' = s.page /\ Ads!Sync /\ Ads!Render(s, n, timed)
  BY DEF Ads!Publish
<1>2. /\ {observing', stop'} \subseteq BOOLEAN
      /\ watch' = "active" => stop'
      /\ s.page \in Url /\ observing' => stop'
  BY <1>1 DEF Ads!Sync, AdsInv, AdsTypes, WatchIsTimed, Ads!Ads
<1>3. CASE s.page \in Ads!Ads
  <2>1. /\ stable' = Ads!Stable(s) /\ shown' = stable'.metrics
        /\ rendered' \in {shown' # Ads!NoMetrics, shown' # Ads!NoMetrics /\ s.page \notin Single}
        /\ retries' = (IF rendered' THEN 0 ELSE n)
        /\ retry' = (~rendered' /\ (timed \/ n < MaxRetries))
    BY <1>1, <1>3 DEF Ads!Render, Ads!Drawn
  <2>2. {rendered', retry'} \subseteq BOOLEAN /\ retries' \in Nat
    BY <2>1
  <2>3. ~rendered' => retry' \/ retries' >= MaxRetries
    <3>1. CASE timed \/ n < MaxRetries
      BY <2>1, <3>1
    <3>2. CASE ~timed /\ n >= MaxRetries
      BY <2>1, <3>2
    <3>. QED BY <3>1, <3>2, BoundsAssumption
  <2>4. stable' \in S /\ shown' \in Ads!Metrics
    BY <2>1, StableHolds DEF AdsInv
  <2>. QED BY <1>1, <1>2, <2>1, <2>2, <2>3, <2>4, StableHolds DEF AdsInv
<1>4. CASE s.page \notin Ads!Ads
  <2>1. /\ retries' = 0 /\ retry' = FALSE
        /\ stable' = [stable EXCEPT !.metrics = Ads!NoMetrics]
        /\ shown' = Ads!NoMetrics /\ rendered' = FALSE
    BY <1>1, <1>4 DEF Ads!Render
  <2>2. Ads!NoMetrics \in Ads!Metrics /\ \A p : OfThePage(Ads!NoMetrics, p)
    BY DEF Ads!NoMetrics, Ads!Metrics, OfThePage
  <2>3. stable' \in S /\ stable'.key = stable.key /\ stable'.metrics = Ads!NoMetrics
    BY <2>1, <2>2 DEF AdsInv, AdsTypes
  <2>. QED BY <1>1, <1>2, <1>4, <2>1, <2>2, <2>3
<1>. QED BY <1>3, <1>4

\* A page that is read waits for storage or is published.
LEMMA SendHolds ==
  ASSUME AdsAll, NEW t \in Task, NEW n \in Nat, NEW timed \in BOOLEAN,
         Ads!Send(t, n, timed)
  PROVE  AdsAll'
<1>1. /\ lagged' = (lagged \/ (address \in Ads!Ads /\ readable # {} /\ document # address))
      /\ UNCHANGED <<address, document, readable>>
  BY DEF Ads!Send, Ads!browser
<1>. DEFINE d == Ads!Detected
<1>2. /\ d \in Read /\ d.page = address /\ d # Ads!Free
      /\ ~lagged' => OfThePage(d.metrics, address)
  BY <1>1, DetectedHolds DEF AdsAll, AdsInv
<1>. HIDE DEF d
<1>3. CASE publication' = [publication EXCEPT ![t] = d] /\ address \in Single
           /\ retries' = n /\ retry' = timed
           /\ UNCHANGED <<lastAds, stable, shown, rendered, watch, stop, idle, observing>>
  <2>1. d \in [page : Ads!Page \cup {None}, metrics : Ads!Metrics]
    BY <1>2 DEF Read
  <2>2. AdsTypes'
    BY <1>1, <1>3, <2>1 DEF AdsAll, AdsInv, AdsTypes
  <2>3. publication'[t] = d /\ \A u \in Task \ {t} : publication'[u] = publication[u]
    BY <1>3 DEF AdsAll, AdsInv, AdsTypes
  <2>4. PublicationsAreAds' /\ WatchIsTimed'
    BY <1>2, <1>3, <2>3 DEF AdsAll, AdsInv, PublicationsAreAds, WatchIsTimed, Ads!Free,
        Ads!NoMetrics
  <2>5. Ads!RetriedAndObservedInTime'
    BY <1>2, <1>3, <2>3
       DEF AdsAll, AdsInv, Ads!RetriedAndObservedInTime, Ads!Free, Ads!NoMetrics, Ads!Ads
  <2>6. MetricsHeld'
    BY <1>1, <1>2, <1>3, <2>3 DEF AdsAll, MetricsHeld, OfThePage
  <2>. QED BY <2>2, <2>4, <2>5, <2>6 DEF AdsAll, AdsInv
<1>4. CASE UNCHANGED publication /\ Ads!Publish(d, n, timed)
  <2>1. /\ lastAds' = address
        /\ stable' \in [key : Ads!Page \cup {None}, metrics : Ads!Metrics]
        /\ shown' \in Ads!Metrics /\ retries' \in Nat
        /\ {rendered', retry', observing', stop'} \subseteq BOOLEAN
        /\ watch' = "active" => stop'
        /\ address \in Ads!Ads /\ ~rendered' => retry' \/ retries' >= MaxRetries
        /\ address \in Url /\ observing' => stop'
        /\ OfThePage(d.metrics, address)
           /\ (stable.key \in Url => OfThePage(stable.metrics, stable.key)) =>
             /\ stable'.key \in Url => OfThePage(stable'.metrics, stable'.key)
             /\ address \in Url => OfThePage(shown', address)
    BY <1>2, <1>4, PublishHolds DEF AdsAll
  <2>2. AdsTypes'
    BY <1>1, <1>4, <2>1 DEF AdsAll, AdsInv, AdsTypes
  <2>3. PublicationsAreAds' /\ WatchIsTimed' /\ Ads!RetriedAndObservedInTime'
    BY <1>4, <2>1
       DEF AdsAll, AdsInv, PublicationsAreAds, WatchIsTimed, Ads!RetriedAndObservedInTime,
           Ads!Free, Ads!NoMetrics, Ads!Ads
  <2>4. MetricsHeld'
    BY <1>1, <1>2, <1>4, <2>1 DEF AdsAll, MetricsHeld
  <2>. QED BY <2>2, <2>3, <2>4 DEF AdsAll, AdsInv
<1>. QED BY <1>3, <1>4 DEF Ads!Send, Ads!watches, d

LEMMA AdsStep ==
  ASSUME AdsAll, NEW t \in Task, Ads!Step(t)
  PROVE  AdsAll'
<1>1. retries \in Nat /\ retry \in BOOLEAN
  BY DEF AdsAll, AdsInv, AdsTypes
<1>2. CASE Ads!Published(t)
  <2>1. /\ publication[t] # Ads!Free /\ publication' = [publication EXCEPT ![t] = Ads!Free]
        /\ Ads!Publish(publication[t], retries, retry)
        /\ UNCHANGED <<address, document, readable, activeAd, lagged>>
    BY <1>2 DEF Ads!Published, Ads!browser
  <2>2. PICK s \in Read : s = publication[t] /\ (~lagged => OfThePage(s.metrics, s.page))
    BY <2>1, PageAssumption
       DEF AdsAll, AdsInv, AdsTypes, PublicationsAreAds, MetricsHeld, Read, Ads!Page, Ads!Ads
  <2>3. /\ lastAds' = s.page
        /\ stable' \in [key : Ads!Page \cup {None}, metrics : Ads!Metrics]
        /\ shown' \in Ads!Metrics /\ retries' \in Nat
        /\ {rendered', retry', observing', stop'} \subseteq BOOLEAN
        /\ watch' = "active" => stop'
        /\ s.page \in Ads!Ads /\ ~rendered' => retry' \/ retries' >= MaxRetries
        /\ s.page \in Url /\ observing' => stop'
        /\ OfThePage(s.metrics, s.page)
           /\ (stable.key \in Url => OfThePage(stable.metrics, stable.key)) =>
             /\ stable'.key \in Url => OfThePage(stable'.metrics, stable'.key)
             /\ s.page \in Url => OfThePage(shown', s.page)
    BY <1>1, <2>1, <2>2, PublishHolds DEF AdsAll
  <2>4. /\ publication'[t] = Ads!Free /\ \A u \in Task \ {t} : publication'[u] = publication[u]
        /\ publication' \in [Task -> [page : Ads!Page \cup {None}, metrics : Ads!Metrics]]
    BY <2>1 DEF AdsAll, AdsInv, AdsTypes, Ads!Free, Ads!NoMetrics, Ads!Metrics
  <2>5. AdsTypes'
    BY <2>1, <2>2, <2>3, <2>4 DEF AdsAll, AdsInv, AdsTypes, Read
  <2>6. PublicationsAreAds' /\ WatchIsTimed' /\ Ads!RetriedAndObservedInTime'
    BY <2>3, <2>4
       DEF AdsAll, AdsInv, PublicationsAreAds, WatchIsTimed, Ads!RetriedAndObservedInTime,
           Ads!Free, Ads!NoMetrics, Ads!Ads
  <2>7. MetricsHeld'
    BY <2>1, <2>2, <2>3, <2>4
       DEF AdsAll, MetricsHeld, OfThePage, Ads!Free, Ads!NoMetrics
  <2>. QED BY <2>5, <2>6, <2>7 DEF AdsAll, AdsInv
<1>3. CASE Ads!Retry(t)
  <2>1. Ads!Send(t, retries + 1, FALSE)
    BY <1>3 DEF Ads!Retry
  <2>2. retries + 1 \in Nat
    BY <1>1
  <2>. QED BY <2>1, <2>2, SendHolds, Zenon
<1>4. CASE Ads!ForceSend(t) \/ Ads!Settled(t) \/ Ads!Followup(t)
  <2>1. Ads!Send(t, retries, retry)
    BY <1>4 DEF Ads!ForceSend, Ads!Settled, Ads!Followup
  <2>. QED BY <1>1, <2>1, SendHolds
<1>. QED BY <1>2, <1>3, <1>4 DEF Ads!Step

LEMMA AdsNext == AdsAll /\ [Ads!Next]_adsVars => AdsAll'
<1> SUFFICES ASSUME AdsAll, [Ads!Next]_adsVars PROVE AdsAll'
  OBVIOUS
<1>. USE DEF AdsAll, AdsInv, PublicationsAreAds, WatchIsTimed, Ads!RetriedAndObservedInTime,
            MetricsHeld, OfThePage
<1>1. CASE Ads!ManualRefresh
  <2>1. AdsTypes'
    <3>1. [key |-> None, metrics |-> Ads!NoMetrics]
            \in [key : Ads!Page \cup {None}, metrics : Ads!Metrics]
      BY DEF Ads!NoMetrics, Ads!Metrics
    <3>. QED BY <1>1, <3>1 DEF Ads!ManualRefresh, AdsTypes, Ads!watches, Ads!browser
  <2>. QED BY <1>1, <2>1, NoneAssumption
       DEF Ads!ManualRefresh, Ads!watches, Ads!browser, Ads!NoMetrics, Ads!Free, Ads!Ads
<1>2. CASE Ads!Mutation \/ Ads!Expire \/ Ads!EndWatch
  BY <1>2 DEF Ads!Mutation, Ads!Expire, Ads!EndWatch, AdsTypes, Ads!shows, Ads!browser,
              Ads!Free, Ads!NoMetrics, Ads!Ads
<1>3. CASE Ads!Navigate \/ Ads!DocumentChanges
  BY <1>3 DEF Ads!Navigate, Ads!DocumentChanges, AdsTypes, Ads!shows, Ads!watches,
              Ads!Free, Ads!NoMetrics, Ads!Ads
<1>4. CASE UNCHANGED adsVars
  BY <1>4 DEF adsVars, AdsTypes, Ads!Free, Ads!NoMetrics, Ads!Ads
<1>. QED BY <1>1, <1>2, <1>3, <1>4, AdsStep DEF Ads!Next

LEMMA AdsInvariant == PagesSpec => [](part = "ads" => AdsAll)
<1> DEFINE Inv == part = "ads" => AdsAll
<1>1. PagesInit => Inv
  BY AdsStart DEF PagesInit
<1>2. Inv /\ [PagesNext]_pagesVars => Inv'
  BY PartStays, AdsMove, AdsNext
<1>. QED BY <1>1, <1>2, PTL DEF PagesSpec

\* Unless the document lagged, a dashboard shows no metric of another address.
THEOREM DashboardsShowTheirOwn == PagesSpec => []MetricsAreOfTheAddress
<1>1. (part = "ads" => AdsAll) => MetricsAreOfTheAddress
  BY DEF AdsAll, MetricsHeld, OfThePage, MetricsAreOfTheAddress, Ads!MetricsAreOfTheAddress
<1>. QED BY <1>1, AdsInvariant, PTL

\* A half-shown page of ads is tried again until the delays are used up, and a
\* dashboard is observed only with a timer that ends it.
THEOREM HalfShownIsTriedAgain == PagesSpec => []RetriedAndObservedInTime
<1>1. (part = "ads" => AdsAll) => RetriedAndObservedInTime
  BY DEF AdsAll, AdsInv, RetriedAndObservedInTime
<1>. QED BY <1>1, AdsInvariant, PTL

-----------------------------------------------------------------------------
(* Research of shops.                                                      *)

Shops == Shop \cup {None}
ShopSnap == [page : Shops, id : Shops, research : Shops, failed : BOOLEAN]
ShopMeta == [next : Nat, more : BOOLEAN, loading : BOOLEAN]
ShopTask == [op : {"idle", "enrich", "more"}, snap : ShopSnap, shop : Shops, had : Nat,
             meta : ShopMeta]

ResearchTypes ==
  /\ shopPage \in Shops /\ shopDoc \in Shops
  /\ shopLast \in ShopSnap /\ shopQueued \in ShopSnap /\ shopLatest \in Slot \cup {NoSlot}
  /\ shopCache \in [Shop -> Nat \cup {Research!Absent}]
  /\ shopMeta \in [Shop -> ShopMeta]
  /\ shopTask \in [Slot -> ShopTask]

\* A snapshot has an identifier only of a shop's page, and research of itself only.
Sound(s) == s.research \in {None, s.id} /\ (s.id # None => s.page # None)

TasksFit ==
  \A t \in Slot :
    LET k == shopTask[t] IN
    /\ k.op = "idle" => k = Research!Done
    /\ k.op = "enrich" => /\ k.shop # None /\ k.snap.id \in {None, k.shop}
                          /\ Sound(k.snap) /\ k.snap.page # None /\ ~k.snap.failed
    /\ k.op = "more" => /\ k.shop # None /\ k.snap.id = k.shop
                        /\ Sound(k.snap) /\ ~k.meta.loading

SnapsFit ==
  /\ Sound(shopLast) /\ Sound(shopQueued)
  /\ shopQueued # Research!NoSnap => shopQueued.page # None /\ ~shopQueued.failed
  /\ shopLast.id # None /\ shopLast.research # shopLast.id =>
       shopCache[shopLast.id] = Research!Absent

\* Research of the shop is asked for, or will be.
Coming(shop) ==
  \/ shopQueued # Research!NoSnap /\ shopQueued.id = shop
  \/ /\ shopQueued = Research!NoSnap /\ shopLatest \in Slot
     /\ shopTask[shopLatest].op = "enrich" /\ shopTask[shopLatest].shop = shop

LoadsMore(shop) == \E t \in Slot : shopTask[t].op = "more" /\ shopTask[t].shop = shop

UnresolvedIsComing ==
  shopLast.id # None /\ shopLast.research # shopLast.id /\ ~shopLast.failed =>
    Coming(shopLast.id)

\* A list that is loading has fewer products than are asked for again, or more of
\* them are loaded; and what the user sees loading is under way.
LoadingEnds ==
  /\ \A s \in Shop : shopMeta[s].loading => shopCache[s] < Enough \/ LoadsMore(s)
  /\ shopLast.id # None /\ shopMeta[shopLast.id].loading =>
       LoadsMore(shopLast.id) \/ Coming(shopLast.id)

ResearchInv ==
  ResearchTypes /\ TasksFit /\ SnapsFit /\ UnresolvedIsComing /\ LoadingEnds
LEMMA ResearchStart == Research!Init => ResearchInv
<1> SUFFICES ASSUME Research!Init PROVE ResearchInv
  OBVIOUS
<1>. USE DEF Research!Init, Research!NoSnap, Research!NoMeta, Research!Done, Research!Absent
<1>1. ResearchTypes
  BY DEF ResearchTypes, Shops, ShopSnap, ShopMeta, ShopTask
<1>2. TasksFit /\ SnapsFit /\ UnresolvedIsComing /\ LoadingEnds
  BY DEF TasksFit, SnapsFit, UnresolvedIsComing, LoadingEnds, Sound
<1>. QED BY <1>1, <1>2 DEF ResearchInv

LEMMA ResearchMove == part = "shop" /\ [PagesNext]_pagesVars => [Research!Next]_shopVars
BY DEF PagesNext, Rest, Quiet, pagesVars

\* A publication shows what is known, and sees to what is not.
LEMMA ShopPublished ==
  ASSUME ResearchInv, shopCache' \in [Shop -> Nat \cup {Research!Absent}],
         NEW s \in ShopSnap, Sound(s), Research!Publish(s)
  PROVE  /\ shopLast' \in ShopSnap /\ Sound(shopLast')
         /\ shopLast'.id = s.id /\ shopLast'.failed = s.failed
         /\ s.id # None /\ shopLast'.research # s.id => shopCache'[s.id] = Research!Absent
         /\ shopQueued' \in ShopSnap /\ Sound(shopQueued')
         /\ shopQueued' # Research!NoSnap => shopQueued'.page # None /\ ~shopQueued'.failed
         /\ s.id # None /\ ~s.failed => shopQueued' # Research!NoSnap /\ shopQueued'.id = s.id
<1>1. PICK r \in ShopSnap :
         /\ r = Research!Resolved(s, shopCache')
         /\ Sound(r) /\ r.page = s.page /\ r.id = s.id /\ r.failed = s.failed
         /\ s.id # None /\ r.research # s.id => shopCache'[s.id] = Research!Absent
  <2>1. CASE s.research = None /\ s.id # None /\ shopCache'[s.id] # Research!Absent
    <3>1. PICK r : r = [s EXCEPT !.research = s.id]
      OBVIOUS
    <3>2. r \in ShopSnap /\ r.research = s.id /\ r.page = s.page /\ r.id = s.id /\ r.failed = s.failed
      BY <3>1 DEF ShopSnap
    <3>. QED BY <2>1, <3>1, <3>2 DEF Research!Resolved, Sound
  <2>2. CASE ~(s.research = None /\ s.id # None /\ shopCache'[s.id] # Research!Absent)
    <3>1. s = Research!Resolved(s, shopCache')
      BY <2>2 DEF Research!Resolved
    <3>. QED BY <2>2, <3>1 DEF Sound
  <2>. QED BY <2>1, <2>2
<1>2. shopLast' = r /\ shopQueued' = Research!Queue(r)
  BY <1>1 DEF Research!Publish
<1>3. Research!NoSnap \in ShopSnap /\ Sound(Research!NoSnap) /\ Research!NoSnap.page = None
  BY DEF Research!NoSnap, ShopSnap, Shops, Sound
<1>4. CASE r.page = None
  BY <1>1, <1>2, <1>3, <1>4 DEF Research!Queue, Sound
<1>5. CASE r.page # None /\ r.failed
  BY <1>1, <1>2, <1>5 DEF Research!Queue, ResearchInv, ResearchTypes, SnapsFit
<1>6. CASE r.page # None /\ ~r.failed
  <2>1. shopQueued' = IF shopQueued # Research!NoSnap /\ Research!SameKey(shopQueued, r)
                      THEN shopQueued ELSE r
    BY <1>2, <1>6 DEF Research!Queue
  <2>. QED BY <1>1, <1>2, <1>3, <1>6, <2>1
       DEF Research!SameKey, ResearchInv, ResearchTypes, SnapsFit
<1>7. r.failed \in BOOLEAN
  BY DEF ShopSnap
<1>. QED BY <1>4, <1>5, <1>6, <1>7

\* A publication that ends a task or none keeps what is coming.
LEMMA PublicationKeeps ==
  ASSUME ResearchInv, NEW s \in ShopSnap, Sound(s), Research!Publish(s),
         ResearchTypes', TasksFit',
         s.id # None => ~shopMeta'[s.id].loading \/ ~s.failed,
         \A x \in Shop : shopMeta'[x].loading => shopCache'[x] < Enough \/ LoadsMore(x)'
  PROVE  ResearchInv'
<1>1. /\ Sound(shopLast') /\ shopLast'.id = s.id /\ shopLast'.failed = s.failed
      /\ s.id # None /\ shopLast'.research # s.id => shopCache'[s.id] = Research!Absent
      /\ Sound(shopQueued')
      /\ shopQueued' # Research!NoSnap => shopQueued'.page # None /\ ~shopQueued'.failed
      /\ s.id # None /\ ~s.failed => shopQueued' # Research!NoSnap /\ shopQueued'.id = s.id
  BY ShopPublished DEF ResearchTypes
<1>2. SnapsFit'
  BY <1>1 DEF SnapsFit
<1>3. UnresolvedIsComing'
  BY <1>1 DEF UnresolvedIsComing, Coming
<1>4. LoadingEnds'
  BY <1>1 DEF LoadingEnds, Coming
<1>. QED BY <1>2, <1>3, <1>4 DEF ResearchInv

\* A task that ends.
LEMMA ShopTaskEnds ==
  ASSUME ResearchInv, NEW t \in Slot, Research!End(t)
  PROVE  /\ shopTask' \in [Slot -> ShopTask] /\ shopTask'[t] = Research!Done
         /\ \A u \in Slot \ {t} : shopTask'[u] = shopTask[u]
         /\ TasksFit'
<1>1. Research!Done \in ShopTask
  BY DEF Research!Done, ShopTask, ShopSnap, ShopMeta, Shops, Research!NoSnap, Research!NoMeta
<1>2. /\ shopTask' \in [Slot -> ShopTask] /\ shopTask'[t] = Research!Done
      /\ \A u \in Slot \ {t} : shopTask'[u] = shopTask[u]
  BY <1>1 DEF Research!End, ResearchInv, ResearchTypes
<1>3. TasksFit'
  BY <1>2 DEF TasksFit, ResearchInv, Research!Done
<1>. QED BY <1>2, <1>3

LEMMA EnrichKeeps ==
  ASSUME ResearchInv, NEW t \in Slot, Research!Enrich(t)
  PROVE  ResearchInv'
<1>1. PICK q \in ShopSnap : /\ q = shopQueued /\ q # Research!NoSnap /\ Sound(q)
                            /\ q.page # None /\ ~q.failed
  BY DEF Research!Enrich, ResearchInv, ResearchTypes, SnapsFit
<1>2. PICK shop \in Shops : shop = IF q.id # None THEN q.id ELSE shopDoc
  BY DEF ResearchInv, ResearchTypes, ShopSnap
<1>3. /\ shopTask[t] = Research!Done /\ shopQueued' = Research!NoSnap
      /\ UNCHANGED <<shopPage, shopDoc, shopLast, shopCache>>
  BY DEF Research!Enrich
<1>4. Research!NoSnap \in ShopSnap /\ Sound(Research!NoSnap)
  BY DEF Research!NoSnap, ShopSnap, Shops, Sound
<1>5. CASE /\ shop = None \/ shopCache[shop] >= Enough
           /\ shopLatest' = NoSlot /\ UNCHANGED <<shopMeta, shopTask>>
  <2>1. ResearchTypes' /\ TasksFit'
    BY <1>3, <1>4, <1>5 DEF ResearchInv, ResearchTypes, TasksFit
  <2>2. SnapsFit'
    BY <1>3, <1>4, <1>5 DEF ResearchInv, SnapsFit
  <2>3. UnresolvedIsComing'
    <3> SUFFICES ASSUME shopLast.id # None, shopLast.research # shopLast.id, ~shopLast.failed
                 PROVE  FALSE
      BY <1>3 DEF UnresolvedIsComing
    <3>1. q.id = shopLast.id
      BY <1>1 DEF ResearchInv, UnresolvedIsComing, Coming
    <3>2. shopCache[shop] = Research!Absent
      BY <1>2, <3>1 DEF ResearchInv, SnapsFit
    <3>. QED BY <1>2, <1>5, <3>1, <3>2, BoundsAssumption DEF Research!Absent
  <2>4. LoadingEnds'
    <3>1. \A x \in Shop : shopMeta'[x].loading => shopCache'[x] < Enough \/ LoadsMore(x)'
      BY <1>3, <1>5 DEF ResearchInv, LoadingEnds, LoadsMore
    <3>2. ASSUME shopLast.id # None, shopMeta[shopLast.id].loading, ~LoadsMore(shopLast.id)
          PROVE FALSE
      <4>1. q.id = shopLast.id
        BY <1>1, <3>2 DEF ResearchInv, LoadingEnds, Coming
      <4>2. shopLast.id \in Shop
        BY <3>2 DEF ResearchInv, ResearchTypes, ShopSnap, Shops
      <4>3. shopCache[shopLast.id] < Enough
        BY <3>2, <4>2 DEF ResearchInv, LoadingEnds
      <4>4. shopCache[shopLast.id] \in Int /\ Enough \in Int
        BY <4>2, BoundsAssumption DEF ResearchInv, ResearchTypes, Research!Absent
      <4>. QED BY <1>2, <1>5, <3>2, <4>1, <4>3, <4>4
    <3>. QED BY <1>3, <1>5, <3>1, <3>2 DEF LoadingEnds, LoadsMore
  <2>. QED BY <2>1, <2>2, <2>3, <2>4 DEF ResearchInv
<1>6. CASE /\ shop # None /\ shopCache[shop] < Enough
           /\ shopLatest' = t
           /\ shopMeta' = [shopMeta EXCEPT ![shop] =
                             [next |-> IF shopCache[shop] = Research!Absent THEN 0
                                       ELSE shopCache[shop],
                              more |-> TRUE, loading |-> TRUE]]
           /\ shopTask' = [shopTask EXCEPT ![t] =
                [Research!Done EXCEPT !.op = "enrich", !.snap = q, !.shop = shop]]
  <2>0. shop \in Shop
    BY <1>6 DEF Shops
  <2>1. PICK k \in ShopTask : /\ shopTask' = [shopTask EXCEPT ![t] = k]
                              /\ k.op = "enrich" /\ k.snap = q /\ k.shop = shop
    <3>1. [Research!Done EXCEPT !.op = "enrich", !.snap = q, !.shop = shop] \in ShopTask
      BY DEF Research!Done, ShopTask, ShopMeta, Research!NoMeta
    <3>2. LET k == [Research!Done EXCEPT !.op = "enrich", !.snap = q, !.shop = shop] IN
          k.op = "enrich" /\ k.snap = q /\ k.shop = shop
      BY DEF Research!Done
    <3>. QED BY <1>6, <3>1, <3>2
  <2>2. PICK m \in ShopMeta : shopMeta' = [shopMeta EXCEPT ![shop] = m] /\ m.loading
    <3>1. (IF shopCache[shop] = Research!Absent THEN 0 ELSE shopCache[shop]) \in Nat
      BY <2>0 DEF ResearchInv, ResearchTypes
    <3>2. PICK m : m = [next |-> IF shopCache[shop] = Research!Absent THEN 0
                                 ELSE shopCache[shop],
                        more |-> TRUE, loading |-> TRUE]
      OBVIOUS
    <3>3. m \in ShopMeta /\ m.loading
      BY <3>1, <3>2 DEF ShopMeta
    <3>. QED BY <1>6, <3>2, <3>3
  <2>3. /\ shopTask' \in [Slot -> ShopTask] /\ shopTask'[t] = k
        /\ \A u \in Slot \ {t} : shopTask'[u] = shopTask[u]
    BY <2>1 DEF ResearchInv, ResearchTypes
  <2>4. /\ shopMeta' \in [Shop -> ShopMeta] /\ shopMeta'[shop].loading
        /\ \A x \in Shop \ {shop} : shopMeta'[x] = shopMeta[x]
    BY <2>0, <2>2 DEF ResearchInv, ResearchTypes
  <2>5. ResearchTypes'
    BY <1>3, <1>4, <1>6, <2>3, <2>4 DEF ResearchInv, ResearchTypes
  <2>6. TasksFit'
    BY <1>1, <1>2, <1>6, <2>1, <2>3 DEF ResearchInv, TasksFit
  <2>7. SnapsFit'
    BY <1>3, <1>4 DEF ResearchInv, SnapsFit
  <2>8. \A x : Coming(x)' <=> x = shop
    BY <1>3, <1>6, <2>1, <2>3 DEF Coming
  <2>9. \A x : LoadsMore(x)' <=> LoadsMore(x)
    BY <1>3, <2>1, <2>3 DEF LoadsMore, Research!Done
  <2>10. UnresolvedIsComing'
    BY <1>1, <1>2, <1>3, <2>8 DEF ResearchInv, UnresolvedIsComing, Coming
  <2>11. LoadingEnds'
    <3>1. \A x \in Shop : shopMeta'[x].loading => shopCache'[x] < Enough \/ LoadsMore(x)'
      BY <1>3, <1>6, <2>4, <2>9 DEF ResearchInv, LoadingEnds
    <3>2. ASSUME shopLast.id # None, shopMeta'[shopLast.id].loading, shopLast.id # shop
          PROVE LoadsMore(shopLast.id)
      <4>1. shopLast.id \in Shop
        BY <3>2 DEF ResearchInv, ResearchTypes, ShopSnap, Shops
      <4>2. shopMeta[shopLast.id].loading
        BY <2>4, <3>2, <4>1
      <4>. QED BY <1>1, <1>2, <3>2, <4>2 DEF ResearchInv, LoadingEnds, Coming
    <3>. QED BY <1>3, <2>8, <2>9, <3>1, <3>2 DEF LoadingEnds
  <2>. QED BY <2>5, <2>6, <2>7, <2>10, <2>11 DEF ResearchInv
<1>7. shop # None => shopCache[shop] >= Enough \/ shopCache[shop] < Enough
  BY BoundsAssumption DEF Shops, ResearchInv, ResearchTypes, Research!Absent
<1>. QED BY <1>1, <1>2, <1>5, <1>6, <1>7 DEF Research!Enrich
LEMMA ReadKeeps == ResearchInv /\ Research!Read => ResearchInv'
<1> SUFFICES ASSUME ResearchInv, Research!Read PROVE ResearchInv'
  OBVIOUS
<1>1. UNCHANGED <<shopPage, shopDoc, shopLatest, shopCache, shopMeta, shopTask>>
  BY DEF Research!Read
<1>2. PICK id \in IF shopPage = None THEN {None} ELSE {shopDoc, None} :
         Research!Publish([Research!NoSnap EXCEPT !.page = shopPage, !.id = id])
  BY DEF Research!Read
<1>3. PICK s : s = [Research!NoSnap EXCEPT !.page = shopPage, !.id = id]
  OBVIOUS
<1>4. s \in ShopSnap /\ Sound(s) /\ ~s.failed
  BY <1>3 DEF ResearchInv, ResearchTypes, Research!NoSnap, ShopSnap, Shops, Sound
<1>5. Research!Publish(s)
  BY <1>2, <1>3
<1>6. ResearchTypes' /\ TasksFit'
  BY <1>1, <1>4, <1>5, ShopPublished DEF ResearchInv, ResearchTypes, TasksFit
<1>7. \A x \in Shop : shopMeta'[x].loading => shopCache'[x] < Enough \/ LoadsMore(x)'
  BY <1>1 DEF ResearchInv, LoadingEnds, LoadsMore
<1>. QED BY <1>4, <1>5, <1>6, <1>7, PublicationKeeps

LEMMA EnrichFailsKeeps ==
  ASSUME ResearchInv, NEW t \in Slot, Research!EnrichFails(t)
  PROVE  ResearchInv'
<1>1. PICK k \in ShopTask :
         /\ k = shopTask[t] /\ k.op = "enrich"
         /\ k.shop \in Shop /\ k.snap.id \in {None, k.shop} /\ Sound(k.snap)
         /\ k.snap.page # None /\ k.snap \in ShopSnap
  BY DEF Research!EnrichFails, ResearchInv, ResearchTypes, TasksFit, ShopTask, Shops
<1>2. PICK s : s = [k.snap EXCEPT !.id = k.shop, !.failed = TRUE]
  OBVIOUS
<1>3. s \in ShopSnap /\ Sound(s) /\ s.failed /\ s.id = k.shop
  BY <1>1, <1>2 DEF ShopSnap, Shops, Sound
<1>4. /\ Research!Publish(s) /\ Research!End(t)
      /\ shopMeta' = [shopMeta EXCEPT ![k.shop] = Research!NoMeta]
      /\ UNCHANGED <<shopPage, shopDoc, shopLatest, shopCache>>
  BY <1>1, <1>2 DEF Research!EnrichFails
<1>5. /\ shopMeta' \in [Shop -> ShopMeta] /\ ~shopMeta'[k.shop].loading
      /\ \A x \in Shop \ {k.shop} : shopMeta'[x] = shopMeta[x]
  BY <1>1, <1>4 DEF ResearchInv, ResearchTypes, Research!NoMeta, ShopMeta
<1>6. ResearchTypes' /\ TasksFit'
  BY <1>3, <1>4, <1>5, ShopPublished, ShopTaskEnds DEF ResearchInv, ResearchTypes
<1>7. \A x : LoadsMore(x)' <=> LoadsMore(x)
  BY <1>1, <1>4, ShopTaskEnds DEF LoadsMore, Research!Done
<1>8. \A x \in Shop : shopMeta'[x].loading => shopCache'[x] < Enough \/ LoadsMore(x)'
  BY <1>4, <1>5, <1>7 DEF ResearchInv, LoadingEnds
<1>. QED BY <1>3, <1>4, <1>5, <1>6, <1>8, PublicationKeeps

LEMMA EnrichedKeeps ==
  ASSUME ResearchInv, NEW t \in Slot, Research!Enriched(t)
  PROVE  ResearchInv'
<1>1. PICK k \in ShopTask :
         /\ k = shopTask[t] /\ k.op = "enrich"
         /\ k.shop \in Shop /\ k.snap.id \in {None, k.shop} /\ Sound(k.snap)
         /\ k.snap.page # None /\ ~k.snap.failed /\ k.snap \in ShopSnap
  BY DEF Research!Enriched, ResearchInv, ResearchTypes, TasksFit, ShopTask, Shops
<1>2. Research!End(t) /\ UNCHANGED <<shopPage, shopDoc, shopLatest>>
  BY DEF Research!Enriched
<1>3. \A x : LoadsMore(x)' <=> LoadsMore(x)
  BY <1>1, <1>2, ShopTaskEnds DEF LoadsMore, Research!Done
<1>4. CASE shopLatest # t /\ UNCHANGED <<shopLast, shopQueued, shopCache, shopMeta>>
  <2>1. \A x : Coming(x) => Coming(x)'
    BY <1>1, <1>2, <1>4, ShopTaskEnds DEF Coming
  <2>2. ResearchTypes' /\ TasksFit' /\ SnapsFit'
    BY <1>2, <1>4, ShopTaskEnds DEF ResearchInv, ResearchTypes, SnapsFit
  <2>3. UnresolvedIsComing' /\ LoadingEnds'
    BY <1>3, <1>4, <2>1 DEF ResearchInv, UnresolvedIsComing, LoadingEnds
  <2>. QED BY <2>2, <2>3 DEF ResearchInv
<1>5. ASSUME NEW n \in Research!Answers(0, First),
             shopCache' = [shopCache EXCEPT ![k.shop] = n],
             shopMeta' = [shopMeta EXCEPT ![k.shop] = Research!Products(n)],
             Research!Publish([k.snap EXCEPT !.id = k.shop, !.research = k.shop])
      PROVE  ResearchInv'
  <2>1. n \in Nat
    BY BoundsAssumption DEF Research!Answers
  <2>2. PICK s : s = [k.snap EXCEPT !.id = k.shop, !.research = k.shop]
    OBVIOUS
  <2>3. s \in ShopSnap /\ Sound(s) /\ ~s.failed /\ s.id = k.shop
    BY <1>1, <2>2 DEF ShopSnap, Shops, Sound
  <2>4. Research!Products(n) \in ShopMeta /\ ~Research!Products(n).loading
    BY <2>1, BoundsAssumption DEF Research!Products, ShopMeta
  <2>5. /\ shopMeta' \in [Shop -> ShopMeta] /\ ~shopMeta'[k.shop].loading
        /\ \A x \in Shop \ {k.shop} : shopMeta'[x] = shopMeta[x]
    BY <1>1, <1>5, <2>4 DEF ResearchInv, ResearchTypes
  <2>6. /\ shopCache' \in [Shop -> Nat \cup {Research!Absent}]
        /\ \A x \in Shop \ {k.shop} : shopCache'[x] = shopCache[x]
    BY <1>1, <1>5, <2>1 DEF ResearchInv, ResearchTypes
  <2>7. Research!Publish(s)
    BY <1>5, <2>2
  <2>8. ResearchTypes' /\ TasksFit'
    BY <1>2, <2>3, <2>5, <2>6, <2>7, ShopPublished, ShopTaskEnds DEF ResearchInv, ResearchTypes
  <2>9. \A x \in Shop : shopMeta'[x].loading => shopCache'[x] < Enough \/ LoadsMore(x)'
    BY <1>3, <2>5, <2>6 DEF ResearchInv, LoadingEnds
  <2>. QED BY <2>3, <2>7, <2>8, <2>9, PublicationKeeps
<1>6. \A n \in Research!Answers(0, First) : Research!Built(0, n) = n
  BY BoundsAssumption DEF Research!Answers, Research!Built
<1>. QED BY <1>1, <1>4, <1>5, <1>6 DEF Research!Enriched

LEMMA LoadMoreKeeps ==
  ASSUME ResearchInv, NEW t \in Slot, Research!LoadMore(t)
  PROVE  ResearchInv'
<1>1. PICK shop \in Shop : shop = shopLast.id
  BY DEF Research!LoadMore, ResearchInv, ResearchTypes, ShopSnap, Shops
<1>2. /\ shopTask[t] = Research!Done /\ shopCache[shop] # Research!Absent
      /\ ~shopMeta[shop].loading
      /\ shopMeta' = [shopMeta EXCEPT ![shop].loading = TRUE]
      /\ shopTask' = [shopTask EXCEPT ![t] =
           [op |-> "more", snap |-> shopLast, shop |-> shop, had |-> shopCache[shop],
            meta |-> shopMeta[shop]]]
      /\ UNCHANGED <<shopPage, shopDoc, shopLast, shopQueued, shopLatest, shopCache>>
  BY <1>1 DEF Research!LoadMore
<1>3. shopCache[shop] \in Nat /\ shopLast \in ShopSnap /\ shopMeta[shop] \in ShopMeta /\ shop \in Shops
  BY <1>1, <1>2 DEF ResearchInv, ResearchTypes, Shops
<1>4. PICK k : k = [op |-> "more", snap |-> shopLast, shop |-> shop, had |-> shopCache[shop],
                    meta |-> shopMeta[shop]]
  OBVIOUS
<1>5. k \in ShopTask /\ k.op = "more" /\ k.snap = shopLast /\ k.shop = shop /\ ~k.meta.loading
  BY <1>2, <1>3, <1>4 DEF ShopTask
<1>6. /\ shopTask' \in [Slot -> ShopTask] /\ shopTask'[t] = k
      /\ \A u \in Slot \ {t} : shopTask'[u] = shopTask[u]
  BY <1>2, <1>4, <1>5 DEF ResearchInv, ResearchTypes
<1>7. /\ shopMeta' \in [Shop -> ShopMeta]
      /\ \A x \in Shop \ {shop} : shopMeta'[x] = shopMeta[x]
  BY <1>2 DEF ResearchInv, ResearchTypes, ShopMeta
<1>8. ResearchTypes'
  BY <1>2, <1>6, <1>7 DEF ResearchInv, ResearchTypes
<1>9. TasksFit'
  BY <1>1, <1>5, <1>6, NoneAssumption DEF ResearchInv, TasksFit, SnapsFit
<1>10. SnapsFit'
  BY <1>2 DEF ResearchInv, SnapsFit
<1>11. \A x : Coming(x) => Coming(x)'
  BY <1>2, <1>6 DEF Coming, Research!Done
<1>12. \A x : LoadsMore(x)' <=> x = shop \/ LoadsMore(x)
  BY <1>2, <1>5, <1>6 DEF LoadsMore, Research!Done
<1>13. UnresolvedIsComing' /\ LoadingEnds'
  BY <1>1, <1>2, <1>7, <1>11, <1>12 DEF ResearchInv, UnresolvedIsComing, LoadingEnds
<1>. QED BY <1>8, <1>9, <1>10, <1>13 DEF ResearchInv

LEMMA MoreEnds ==
  ASSUME ResearchInv, NEW t \in Slot, shopTask[t].op = "more", Research!End(t),
         UNCHANGED shopLatest
  PROVE  /\ \A x : x # shopTask[t].shop => (LoadsMore(x)' <=> LoadsMore(x))
         /\ UNCHANGED shopQueued => \A x : Coming(x) => Coming(x)'
BY ShopTaskEnds DEF LoadsMore, Coming, Research!Done

LEMMA LoadMoreFailsKeeps ==
  ASSUME ResearchInv, NEW t \in Slot, Research!LoadMoreFails(t)
  PROVE  ResearchInv'
<1>1. PICK k \in ShopTask : k = shopTask[t] /\ k.op = "more" /\ k.shop \in Shop /\ ~k.meta.loading
  BY DEF Research!LoadMoreFails, ResearchInv, ResearchTypes, TasksFit, ShopTask, Shops
<1>2. /\ Research!End(t) /\ shopMeta' = [shopMeta EXCEPT ![k.shop] = k.meta]
      /\ UNCHANGED <<shopPage, shopDoc, shopLast, shopQueued, shopLatest, shopCache>>
  BY <1>1 DEF Research!LoadMoreFails
<1>3. /\ shopMeta' \in [Shop -> ShopMeta] /\ ~shopMeta'[k.shop].loading
      /\ \A x \in Shop \ {k.shop} : shopMeta'[x] = shopMeta[x]
  BY <1>1, <1>2 DEF ResearchInv, ResearchTypes, ShopTask
<1>4. ResearchTypes' /\ TasksFit' /\ SnapsFit'
  BY <1>2, <1>3, ShopTaskEnds DEF ResearchInv, ResearchTypes, SnapsFit
<1>5. /\ \A x : x # k.shop => (LoadsMore(x)' <=> LoadsMore(x))
      /\ \A x : Coming(x) => Coming(x)'
  BY <1>1, <1>2, MoreEnds
<1>6. UnresolvedIsComing'
  BY <1>2, <1>5 DEF ResearchInv, UnresolvedIsComing
<1>7. LoadingEnds'
  <2>1. \A x \in Shop : shopMeta'[x].loading => shopCache'[x] < Enough \/ LoadsMore(x)'
    BY <1>2, <1>3, <1>5 DEF ResearchInv, LoadingEnds
  <2>2. shopLast.id # None => shopLast.id \in Shop
    BY DEF ResearchInv, ResearchTypes, ShopSnap, Shops
  <2>. QED BY <1>2, <1>3, <1>5, <2>1, <2>2 DEF ResearchInv, LoadingEnds
<1>. QED BY <1>4, <1>6, <1>7 DEF ResearchInv

LEMMA LoadedMoreKeeps ==
  ASSUME ResearchInv, NEW t \in Slot, Research!LoadedMore(t)
  PROVE  ResearchInv'
<1>1. PICK k \in ShopTask :
         /\ k = shopTask[t] /\ k.op = "more" /\ k.shop \in Shop /\ k.snap.id = k.shop
         /\ Sound(k.snap) /\ k.snap \in ShopSnap /\ k.had \in Nat /\ k.meta.next \in Nat
  BY DEF Research!LoadedMore, ResearchInv, ResearchTypes, TasksFit, ShopTask, ShopMeta, Shops
<1>2. PICK n \in Research!Answers(k.meta.next, More) :
        /\ shopCache' = [shopCache EXCEPT ![k.shop] = k.had + n]
        /\ shopMeta' = [shopMeta EXCEPT ![k.shop] = Research!Products(k.had + n)]
  BY <1>1 DEF Research!LoadedMore, Research!Built
<1>3. PICK s : s = [k.snap EXCEPT !.research = k.shop]
  OBVIOUS
<1>4. s \in ShopSnap /\ Sound(s) /\ s.id = k.shop
  BY <1>1, <1>3 DEF ShopSnap, Shops, Sound
<1>5. /\ Research!Publish(s) /\ Research!End(t)
      /\ UNCHANGED <<shopPage, shopDoc, shopLatest>>
  BY <1>1, <1>3 DEF Research!LoadedMore
<1>6. k.had + n \in Nat
  BY <1>1, BoundsAssumption DEF Research!Answers
<1>7. Research!Products(k.had + n) \in ShopMeta /\ ~Research!Products(k.had + n).loading
  BY <1>6, BoundsAssumption DEF Research!Products, ShopMeta
<1>8. /\ shopMeta' \in [Shop -> ShopMeta] /\ ~shopMeta'[k.shop].loading
      /\ \A x \in Shop \ {k.shop} : shopMeta'[x] = shopMeta[x]
  BY <1>1, <1>2, <1>7 DEF ResearchInv, ResearchTypes
<1>9. /\ shopCache' \in [Shop -> Nat \cup {Research!Absent}]
      /\ \A x \in Shop \ {k.shop} : shopCache'[x] = shopCache[x]
  BY <1>1, <1>2, <1>6 DEF ResearchInv, ResearchTypes
<1>10. ResearchTypes' /\ TasksFit'
  BY <1>4, <1>5, <1>8, <1>9, ShopPublished, ShopTaskEnds DEF ResearchInv, ResearchTypes
<1>11. \A x \in Shop : shopMeta'[x].loading => shopCache'[x] < Enough \/ LoadsMore(x)'
  BY <1>1, <1>5, <1>8, <1>9, MoreEnds DEF ResearchInv, LoadingEnds
<1>. QED BY <1>4, <1>5, <1>8, <1>10, <1>11, PublicationKeeps

LEMMA ResearchNext == ResearchInv /\ [Research!Next]_shopVars => ResearchInv'
<1> SUFFICES ASSUME ResearchInv, [Research!Next]_shopVars PROVE ResearchInv'
  OBVIOUS
<1>1. CASE Research!Navigate \/ Research!DocumentFollows \/ UNCHANGED shopVars
  BY <1>1 DEF Research!Navigate, Research!DocumentFollows, shopVars, ResearchInv, ResearchTypes,
              TasksFit, SnapsFit, UnresolvedIsComing, LoadingEnds, Coming, LoadsMore, Shops
<1>2. ASSUME NEW t \in Slot, Research!Step(t) PROVE ResearchInv'
  BY <1>2, EnrichKeeps, EnrichFailsKeeps, EnrichedKeeps, LoadMoreKeeps, LoadMoreFailsKeeps,
     LoadedMoreKeeps DEF Research!Step
<1>. QED BY <1>1, <1>2, ReadKeeps DEF Research!Next

LEMMA ResearchInvariant == PagesSpec => [](part = "shop" => ResearchInv)
<1> DEFINE Inv == part = "shop" => ResearchInv
<1>1. PagesInit => Inv
  BY ResearchStart DEF PagesInit
<1>2. Inv /\ [PagesNext]_pagesVars => Inv'
  BY PartStays, ResearchMove, ResearchNext
<1>. QED BY <1>1, <1>2, PTL DEF PagesSpec

\* Once nothing is under way, a shop's research is shown or its failure, and its
\* list is not left loading.
THEOREM ResearchIsShown == PagesSpec => []ResearchArrives
<1>1. ResearchInv => Research!ResearchArrives
  BY SlotAssumption
     DEF ResearchInv, UnresolvedIsComing, LoadingEnds, LoadsMore, Coming,
         Research!ResearchArrives,
         Research!Done
<1>2. (part = "shop" => ResearchInv) => ResearchArrives
  BY <1>1 DEF ResearchArrives
<1>. QED BY <1>2, ResearchInvariant, PTL

-----------------------------------------------------------------------------
(* The page bridge.                                                        *)

PoolRecord == [next : Nat, has : [Bridge!Worker -> Nat], results : [Bridge!Item -> Nat]]

BridgeTypes ==
  /\ script \in {"absent", "loading", "ready", "failed"}
  /\ requestAt \in [Slot -> {"idle", "loading", "pending", "answered", "background",
                            "answeredLate", "rejected"}]
  /\ requestKind \in [Slot -> {"search", "shop"}]
  /\ pool \in [Slot -> [Bridge!Place -> PoolRecord]]
  /\ shopStep \in [Slot -> 0..3]
  /\ loadFailed \in BOOLEAN

\* An item that has been taken has its verdict or is with one worker; the others
\* have none and are with nobody.
Untouched(q, i) == q.results[i] = 0 /\ \A w \in Bridge!Worker : q.has[w] # i
Judged(q, i) == q.results[i] = 1 /\ \A w \in Bridge!Worker : q.has[w] # i
Held(q, i) == /\ q.results[i] = 0 /\ \E w \in Bridge!Worker : q.has[w] = i
              /\ \A v, w \in Bridge!Worker : q.has[v] = i /\ q.has[w] = i => v = w
PoolFits(q) ==
  /\ q.next <= Items + 1
  /\ \A w \in Bridge!Worker : q.has[w] \in 0..Items
  /\ q.next = 0 => /\ \A w \in Bridge!Worker : q.has[w] = 0
                   /\ \A i \in Bridge!Item : q.results[i] <= 1
  /\ q.next # 0 => \A i \in Bridge!Item :
       IF i < q.next THEN Judged(q, i) \/ Held(q, i) ELSE Untouched(q, i)
Whole(q) == q.next = 0 /\ Bridge!InFull(q)

AnswersFit ==
  /\ \A r \in Slot : \A p \in Bridge!Place : PoolFits(pool[r][p])
  /\ \A r \in Slot :
       /\ requestAt[r] = "answered" /\ requestKind[r] = "search" => Whole(pool[r]["page"])
       /\ requestAt[r] = "answeredLate" => Whole(pool[r]["background"])
       /\ requestAt[r] = "loading" /\ script # "loading" => loadFailed
       /\ shopStep[r] # 0 => requestKind[r] = "shop"
  /\ script = "failed" => loadFailed

BridgeInv == BridgeTypes /\ AnswersFit
LEMMA BridgeMove == part = "bridge" /\ [PagesNext]_pagesVars => [Bridge!Next]_bridgeVars
BY DEF PagesNext, Rest, Quiet, pagesVars

LEMMA NewPools ==
  /\ Bridge!Pool \in PoolRecord /\ PoolFits(Bridge!Pool)
  /\ Bridge!NoPool \in PoolRecord /\ PoolFits(Bridge!NoPool)
<1>1. /\ Bridge!Pool.next = 1 /\ Bridge!Pool \in PoolRecord
      /\ \A w \in Bridge!Worker : Bridge!Pool.has[w] = 0
      /\ \A i \in Bridge!Item : Bridge!Pool.results[i] = 0
  BY DEF Bridge!Pool, PoolRecord
<1>2. /\ Bridge!NoPool.next = 0 /\ Bridge!NoPool \in PoolRecord
      /\ Bridge!NoPool.has = Bridge!Pool.has /\ Bridge!NoPool.results = Bridge!Pool.results
  BY <1>1 DEF Bridge!NoPool, PoolRecord
<1>. QED BY <1>1, <1>2, BoundsAssumption DEF PoolFits, Untouched, Bridge!Item

LEMMA BridgeStart == Bridge!Init => BridgeInv
<1> SUFFICES ASSUME Bridge!Init PROVE BridgeInv
  OBVIOUS
<1>1. /\ script = "absent" /\ requestAt = [r \in Slot |-> "idle"] /\ loadFailed = FALSE
      /\ requestKind \in [Slot -> {"search", "shop"}] /\ shopStep = [r \in Slot |-> 0]
      /\ pool \in [Slot -> [Bridge!Place -> PoolRecord]]
      /\ \A r \in Slot : \A p \in Bridge!Place : pool[r][p] = Bridge!NoPool
  <2>1. pool = [r \in Slot |-> [p \in Bridge!Place |-> Bridge!NoPool]]
    BY DEF Bridge!Init
  <2>2. [p \in Bridge!Place |-> Bridge!NoPool] \in [Bridge!Place -> PoolRecord]
    BY NewPools
  <2>. QED BY <2>1, <2>2 DEF Bridge!Init
<1>2. BridgeTypes
  <2>1. requestAt \in [Slot -> {"idle", "loading", "pending", "answered", "background",
                               "answeredLate", "rejected"}]
    BY <1>1
  <2>2. shopStep \in [Slot -> 0..3]
    BY <1>1
  <2>. QED BY <1>1, <2>1, <2>2 DEF BridgeTypes
<1>3. AnswersFit
  BY <1>1, NewPools DEF AnswersFit
<1>. QED BY <1>2, <1>3 DEF BridgeInv

\* One pool changes.
LEMMA OnePool ==
  ASSUME BridgeInv, NEW r \in Slot, NEW p \in Bridge!Place, NEW q \in PoolRecord,
         Bridge!SetPool(r, p, q)
  PROVE  /\ pool' \in [Slot -> [Bridge!Place -> PoolRecord]] /\ pool'[r][p] = q
         /\ \A s \in Slot, o \in Bridge!Place : s # r \/ o # p => pool'[s][o] = pool[s][o]
<1>1. PICK f \in [Bridge!Place -> PoolRecord] :
        /\ f = [pool[r] EXCEPT ![p] = q] /\ f[p] = q
        /\ \A o \in Bridge!Place \ {p} : f[o] = pool[r][o]
  <2>1. pool[r] \in [Bridge!Place -> PoolRecord]
    BY DEF BridgeInv, BridgeTypes
  <2>2. PICK f : f = [pool[r] EXCEPT ![p] = q]
    OBVIOUS
  <2>. QED BY <2>1, <2>2
<1>2. pool' = [pool EXCEPT ![r] = f]
  BY <1>1 DEF Bridge!SetPool
<1>. QED BY <1>1, <1>2 DEF BridgeInv, BridgeTypes

\* A worker takes an item that nobody has, once.
LEMMA TakeFits ==
  ASSUME BridgeInv, NEW r \in Slot, NEW p \in Bridge!Place, NEW w \in Bridge!Worker,
         Bridge!Take(r, p, w)
  PROVE  BridgeInv'
<1>1. PICK q \in PoolRecord : q = pool[r][p] /\ PoolFits(q)
  BY DEF BridgeInv, BridgeTypes, AnswersFit
<1>2. /\ q.next \in Bridge!Item /\ q.has[w] = 0
      /\ Bridge!SetPool(r, p, [next |-> q.next + 1, has |-> [q.has EXCEPT ![w] = q.next],
                               results |-> q.results])
      /\ UNCHANGED <<script, requestAt, requestKind, shopStep, loadFailed>>
  BY <1>1 DEF Bridge!Take
<1>3. PICK n \in PoolRecord :
        /\ n = [next |-> q.next + 1, has |-> [q.has EXCEPT ![w] = q.next],
                results |-> q.results]
        /\ n.next = q.next + 1 /\ n.results = q.results /\ n.has[w] = q.next
        /\ \A v \in Bridge!Worker \ {w} : n.has[v] = q.has[v]
  <2>1. [q.has EXCEPT ![w] = q.next] \in [Bridge!Worker -> Nat] /\ q.next + 1 \in Nat
    BY DEF PoolRecord
  <2>2. PICK n : n = [next |-> q.next + 1, has |-> [q.has EXCEPT ![w] = q.next],
                      results |-> q.results]
    OBVIOUS
  <2>. QED BY <2>1, <2>2 DEF PoolRecord
<1>4. PoolFits(n)
  <2>1. n.next <= Items + 1 /\ n.next # 0 /\ \A v \in Bridge!Worker : n.has[v] \in 0..Items
    BY <1>1, <1>2, <1>3, BoundsAssumption, SMTT(30) DEF PoolFits, Bridge!Item, PoolRecord
  <2>2. ASSUME NEW i \in Bridge!Item, i < q.next PROVE Judged(n, i) \/ Held(n, i)
    <3>1. Judged(q, i) \/ Held(q, i)
      BY <1>1, <1>2, <2>2 DEF PoolFits, Bridge!Item
    <3>. QED BY <1>2, <1>3, <2>2, <3>1 DEF Judged, Held, Bridge!Item
  <2>3. Held(n, q.next)
    <3>1. Untouched(q, q.next)
      BY <1>1, <1>2 DEF PoolFits, Bridge!Item
    <3>. QED BY <1>2, <1>3, <3>1 DEF Untouched, Held
  <2>4. ASSUME NEW i \in Bridge!Item, ~(i < n.next) PROVE Untouched(n, i)
    <3>1. Untouched(q, i) /\ i # q.next
      BY <1>1, <1>2, <1>3, <2>4 DEF PoolFits, Bridge!Item
    <3>. QED BY <1>3, <3>1 DEF Untouched
  <2>5. \A i \in Bridge!Item : i < n.next => i < q.next \/ i = q.next
    BY <1>2, <1>3 DEF Bridge!Item
  <2>. QED BY <2>1, <2>2, <2>3, <2>4, <2>5 DEF PoolFits
<1>5. /\ pool' \in [Slot -> [Bridge!Place -> PoolRecord]] /\ pool'[r][p] = n
      /\ \A s \in Slot, o \in Bridge!Place : s # r \/ o # p => pool'[s][o] = pool[s][o]
  BY <1>2, <1>3, OnePool
<1>6. BridgeTypes'
  BY <1>2, <1>5 DEF BridgeInv, BridgeTypes
<1>7. AnswersFit'
  BY <1>1, <1>2, <1>4, <1>5 DEF BridgeInv, AnswersFit, Whole, Bridge!Place, Bridge!Item
<1>. QED BY <1>6, <1>7 DEF BridgeInv

\* Its verdict on it is the first.
LEMMA VerdictFits ==
  ASSUME BridgeInv, NEW r \in Slot, NEW p \in Bridge!Place, NEW w \in Bridge!Worker,
         Bridge!Verdict(r, p, w)
  PROVE  BridgeInv'
<1>1. PICK q \in PoolRecord : q = pool[r][p] /\ PoolFits(q)
  BY DEF BridgeInv, BridgeTypes, AnswersFit
<1>2. PICK i : i = q.has[w]
  OBVIOUS
<1>3. /\ i # 0
      /\ Bridge!SetPool(r, p, [next |-> q.next, has |-> [q.has EXCEPT ![w] = 0],
                               results |-> [q.results EXCEPT ![i] = @ + 1]])
      /\ UNCHANGED <<script, requestAt, requestKind, shopStep, loadFailed>>
  BY <1>1, <1>2 DEF Bridge!Verdict
<1>4. i \in Bridge!Item /\ q.next # 0
  BY <1>1, <1>2, <1>3, BoundsAssumption DEF PoolFits, Bridge!Item
<1>5. PICK n \in PoolRecord :
        /\ n = [next |-> q.next, has |-> [q.has EXCEPT ![w] = 0],
                results |-> [q.results EXCEPT ![i] = @ + 1]]
        /\ n.next = q.next /\ n.has[w] = 0 /\ n.results[i] = q.results[i] + 1
        /\ \A v \in Bridge!Worker \ {w} : n.has[v] = q.has[v]
        /\ \A j \in Bridge!Item \ {i} : n.results[j] = q.results[j]
  <2>1. /\ [q.has EXCEPT ![w] = 0] \in [Bridge!Worker -> Nat]
        /\ [q.results EXCEPT ![i] = @ + 1] \in [Bridge!Item -> Nat]
    BY <1>4 DEF PoolRecord
  <2>2. PICK n : n = [next |-> q.next, has |-> [q.has EXCEPT ![w] = 0],
                      results |-> [q.results EXCEPT ![i] = @ + 1]]
    OBVIOUS
  <2>. QED BY <1>4, <2>1, <2>2 DEF PoolRecord
<1>6. PoolFits(n)
  <2>1. n.next <= Items + 1 /\ n.next # 0 /\ \A v \in Bridge!Worker : n.has[v] \in 0..Items
    BY <1>1, <1>4, <1>5, BoundsAssumption DEF PoolFits
  <2>2. i < q.next /\ Held(q, i)
    BY <1>1, <1>2, <1>4 DEF PoolFits, Untouched, Judged
  <2>3. Judged(n, i)
    BY <1>2, <1>4, <1>5, <2>2 DEF Held, Judged, Bridge!Item
  <2>4. ASSUME NEW j \in Bridge!Item, j # i
        PROVE  IF j < n.next THEN Judged(n, j) \/ Held(n, j) ELSE Untouched(n, j)
    <3>1. IF j < q.next THEN Judged(q, j) \/ Held(q, j) ELSE Untouched(q, j)
      BY <1>1, <1>4 DEF PoolFits
    <3>2. n.results[j] = q.results[j] /\ \A v \in Bridge!Worker : n.has[v] = j <=> q.has[v] = j
      BY <1>2, <1>5, <2>4 DEF Bridge!Item
    <3>. QED BY <1>5, <3>1, <3>2 DEF Judged, Held, Untouched
  <2>. QED BY <1>5, <2>1, <2>2, <2>3, <2>4 DEF PoolFits
<1>7. /\ pool' \in [Slot -> [Bridge!Place -> PoolRecord]] /\ pool'[r][p] = n
      /\ \A s \in Slot, o \in Bridge!Place : s # r \/ o # p => pool'[s][o] = pool[s][o]
  BY <1>3, <1>5, OnePool
<1>8. BridgeTypes'
  BY <1>3, <1>7 DEF BridgeInv, BridgeTypes
<1>9. AnswersFit'
  BY <1>1, <1>3, <1>4, <1>6, <1>7 DEF BridgeInv, AnswersFit, Whole, Bridge!Place
<1>. QED BY <1>8, <1>9 DEF BridgeInv
\* What a dispatch, a failure or a stop does to the pools of some requests.
Restarted(rs, p, q) ==
  [r \in Slot |-> IF r \in rs THEN [pool[r] EXCEPT ![p] = q] ELSE pool[r]]

OnlyRestarted(rs, p, q) ==
  /\ pool' \in [Slot -> [Bridge!Place -> PoolRecord]]
  /\ \A r \in Slot, o \in Bridge!Place :
       pool'[r][o] = IF r \in rs /\ o = p THEN q ELSE pool[r][o]

LEMMA PoolsRestart ==
  ASSUME BridgeInv, NEW rs \in SUBSET Slot, NEW p \in Bridge!Place,
         NEW q \in {Bridge!Pool, Bridge!NoPool}, pool' = Restarted(rs, p, q)
  PROVE  OnlyRestarted(rs, p, q)
<1>1. q \in PoolRecord
  BY NewPools
<1>2. ASSUME NEW r \in Slot
      PROVE  /\ [pool[r] EXCEPT ![p] = q] \in [Bridge!Place -> PoolRecord]
             /\ pool[r] \in [Bridge!Place -> PoolRecord]
             /\ \A o \in Bridge!Place :
                  [pool[r] EXCEPT ![p] = q][o] = IF o = p THEN q ELSE pool[r][o]
  BY <1>1 DEF BridgeInv, BridgeTypes
<1>. QED BY <1>2 DEF Restarted, OnlyRestarted

LEMMA DispatchFits ==
  ASSUME BridgeInv, NEW rs \in SUBSET Slot, Bridge!Dispatch(rs),
         \A r \in rs : requestAt[r] \in {"idle", "loading"},
         UNCHANGED <<requestKind, loadFailed>>,
         script' \in {"absent", "loading", "ready", "failed"},
         script' # "loading" => \A r \in Slot \ rs : requestAt[r] = "loading" => loadFailed,
         script' = "failed" => loadFailed
  PROVE  BridgeInv'
<1>. DEFINE searches == {r \in rs : requestKind[r] = "search"}
<1>1. /\ requestAt' = [r \in Slot |-> IF r \in rs THEN "pending" ELSE requestAt[r]]
      /\ pool' = [r \in Slot |-> IF r \in searches THEN [pool[r] EXCEPT !["page"] = Bridge!Pool]
                                 ELSE pool[r]]
      /\ shopStep' =
           [r \in Slot |-> IF r \in rs /\ requestKind[r] = "shop" THEN 1 ELSE shopStep[r]]
  <2>1. \A r \in Slot : r \in searches <=> r \in rs /\ requestKind[r] = "search"
    OBVIOUS
  <2>. QED BY <2>1 DEF Bridge!Dispatch
<1>2. /\ pool' \in [Slot -> [Bridge!Place -> PoolRecord]]
      /\ \A r \in Slot, o \in Bridge!Place :
           pool'[r][o] = IF r \in searches /\ o = "page" THEN Bridge!Pool ELSE pool[r][o]
  <2>1. searches \in SUBSET Slot /\ "page" \in Bridge!Place
    BY DEF Bridge!Place
  <2>2. Bridge!Pool \in {Bridge!Pool, Bridge!NoPool}
    OBVIOUS
  <2>. HIDE DEF searches
  <2>3. pool' = Restarted(searches, "page", Bridge!Pool)
    BY <1>1 DEF Restarted
  <2>4. OnlyRestarted(searches, "page", Bridge!Pool)
    BY <2>1, <2>2, <2>3, PoolsRestart
  <2>. QED BY <2>4 DEF OnlyRestarted
<1>3. BridgeTypes'
  <2>1. /\ requestAt' \in [Slot -> {"idle", "loading", "pending", "answered", "background",
                                    "answeredLate", "rejected"}]
        /\ shopStep' \in [Slot -> 0..3]
    BY <1>1 DEF BridgeInv, BridgeTypes
  <2>. QED BY <1>2, <2>1 DEF BridgeInv, BridgeTypes
<1>4. AnswersFit'
  <2>1. \A r \in Slot, p \in Bridge!Place : PoolFits(pool'[r][p])
    BY <1>2, NewPools DEF BridgeInv, AnswersFit
  <2>2. ASSUME NEW r \in Slot
        PROVE  /\ requestAt'[r] = "answered" /\ requestKind[r] = "search"
                    => Whole(pool'[r]["page"])
               /\ requestAt'[r] = "answeredLate" => Whole(pool'[r]["background"])
               /\ requestAt'[r] = "loading" /\ script' # "loading" => loadFailed
               /\ shopStep'[r] # 0 => requestKind[r] = "shop"
    BY <1>1, <1>2 DEF BridgeInv, AnswersFit, Bridge!Place
  <2>. QED BY <2>1, <2>2 DEF AnswersFit
<1>. QED BY <1>3, <1>4 DEF BridgeInv

LEMMA AskFits ==
  ASSUME BridgeInv, NEW r \in Slot, Bridge!Ask(r)
  PROVE  BridgeInv'
<1>1. CASE script = "ready" /\ Bridge!Dispatch({r}) /\ UNCHANGED script
  <2>1. /\ \A s \in {r} : requestAt[s] \in {"idle", "loading"}
        /\ UNCHANGED <<requestKind, loadFailed>>
        /\ script' \in {"absent", "loading", "ready", "failed"}
        /\ script' # "loading" => \A s \in Slot \ {r} : requestAt[s] = "loading" => loadFailed
        /\ script' = "failed" => loadFailed
    BY <1>1 DEF Bridge!Ask, BridgeInv, AnswersFit
  <2>2. {r} \in SUBSET Slot
    OBVIOUS
  <2>. QED BY <1>1, <2>1, <2>2, DispatchFits
<1>2. CASE /\ script # "ready" /\ Bridge!Goto(r, "loading")
           /\ script' = (IF script = "absent" THEN "loading" ELSE script)
           /\ UNCHANGED <<pool, shopStep>>
  BY <1>2 DEF Bridge!Ask, Bridge!Goto, BridgeInv, BridgeTypes, AnswersFit
<1>. QED BY <1>1, <1>2 DEF Bridge!Ask

LEMMA ScriptFits == BridgeInv /\ (Bridge!ScriptLoads \/ Bridge!ScriptFails) => BridgeInv'
<1> SUFFICES ASSUME BridgeInv, Bridge!ScriptLoads \/ Bridge!ScriptFails PROVE BridgeInv'
  OBVIOUS
<1>1. CASE Bridge!ScriptLoads
  <2>1. /\ script' = "ready" /\ Bridge!Dispatch(Bridge!Loading)
        /\ UNCHANGED <<requestKind, loadFailed>>
    BY <1>1 DEF Bridge!ScriptLoads
  <2>2. /\ Bridge!Loading \in SUBSET Slot
        /\ \A r \in Slot : r \in Bridge!Loading <=> requestAt[r] = "loading"
    BY DEF Bridge!Loading
  <2>3. PICK rs \in SUBSET Slot : rs = Bridge!Loading
    BY <2>2
  <2>. QED BY <2>1, <2>2, <2>3, DispatchFits
<1>2. CASE Bridge!ScriptFails
  <2>. DEFINE rs == {r \in Slot : requestAt[r] = "loading" /\ requestKind[r] = "search"}
  <2>1. /\ script' = "failed" /\ loadFailed' = TRUE
        /\ requestAt' = [r \in Slot |-> IF requestAt[r] = "loading" THEN Bridge!Rejected(r)
                                        ELSE requestAt[r]]
        /\ pool' = [r \in Slot |-> IF r \in rs THEN [pool[r] EXCEPT !["background"] = Bridge!Pool]
                                   ELSE pool[r]]
        /\ UNCHANGED <<requestKind, shopStep>>
    BY <1>2 DEF Bridge!ScriptFails, Bridge!Loading
  <2>2. /\ pool' \in [Slot -> [Bridge!Place -> PoolRecord]]
        /\ \A r \in Slot, o \in Bridge!Place :
             pool'[r][o] = IF r \in rs /\ o = "background" THEN Bridge!Pool ELSE pool[r][o]
    <3>1. rs \in SUBSET Slot /\ "background" \in Bridge!Place
      BY DEF Bridge!Place
    <3>2. Bridge!Pool \in {Bridge!Pool, Bridge!NoPool}
      OBVIOUS
    <3>. HIDE DEF rs
    <3>3. pool' = Restarted(rs, "background", Bridge!Pool)
      BY <2>1 DEF Restarted
    <3>4. OnlyRestarted(rs, "background", Bridge!Pool)
      BY <3>1, <3>2, <3>3, PoolsRestart
    <3>. QED BY <3>4 DEF OnlyRestarted
  <2>3. BridgeTypes'
    <3>1. requestAt' \in [Slot -> {"idle", "loading", "pending", "answered", "background",
                                  "answeredLate", "rejected"}]
      BY <2>1 DEF BridgeInv, BridgeTypes, Bridge!Rejected
    <3>. QED BY <2>1, <2>2, <3>1 DEF BridgeInv, BridgeTypes
  <2>4. \A r \in Slot, p \in Bridge!Place : PoolFits(pool'[r][p])
    BY <2>2, NewPools DEF BridgeInv, AnswersFit
  <2>5. ASSUME NEW r \in Slot
        PROVE  /\ requestAt'[r] = "answered" /\ requestKind[r] = "search"
                    => Whole(pool'[r]["page"])
               /\ requestAt'[r] = "answeredLate" => Whole(pool'[r]["background"])
               /\ shopStep[r] # 0 => requestKind[r] = "shop"
    BY <2>1, <2>2 DEF BridgeInv, AnswersFit, Bridge!Place, Bridge!Rejected
  <2>. QED BY <2>1, <2>3, <2>4, <2>5 DEF BridgeInv, AnswersFit
<1>. QED BY <1>1, <1>2

LEMMA TimeoutFits ==
  ASSUME BridgeInv, NEW r \in Slot, Bridge!Timeout(r)
  PROVE  BridgeInv'
<1>1. CASE requestKind[r] = "search"
  <2>1. /\ requestAt' = [requestAt EXCEPT ![r] = "background"]
        /\ Bridge!SetPool(r, "background", Bridge!Pool)
        /\ UNCHANGED <<script, requestKind, shopStep, loadFailed>>
    BY <1>1 DEF Bridge!Timeout, Bridge!Goto, Bridge!Rejected, Bridge!Start
  <2>2. /\ pool' \in [Slot -> [Bridge!Place -> PoolRecord]]
        /\ pool'[r]["background"] = Bridge!Pool
        /\ \A s \in Slot, o \in Bridge!Place :
             s # r \/ o # "background" => pool'[s][o] = pool[s][o]
    <3>1. "background" \in Bridge!Place
      BY DEF Bridge!Place
    <3>. QED BY <2>1, <3>1, OnePool, NewPools
  <2>3. BridgeTypes'
    BY <2>1, <2>2 DEF BridgeInv, BridgeTypes
  <2>4. AnswersFit'
    BY <2>1, <2>2, NewPools DEF BridgeInv, BridgeTypes, AnswersFit, Bridge!Place
  <2>. QED BY <2>3, <2>4 DEF BridgeInv
<1>2. CASE requestKind[r] # "search"
  <2>1. /\ requestAt' = [requestAt EXCEPT ![r] = "rejected"]
        /\ UNCHANGED <<script, requestKind, pool, shopStep, loadFailed>>
    BY <1>2 DEF Bridge!Timeout, Bridge!Goto, Bridge!Rejected
  <2>. QED BY <2>1 DEF BridgeInv, BridgeTypes, AnswersFit
<1>. QED BY <1>1, <1>2

\* An answer is given when every item of its pool has its verdict.
LEMMA CompleteIsWhole ==
  ASSUME BridgeInv, NEW r \in Slot, NEW p \in Bridge!Place, Bridge!Complete(r, p),
         Bridge!SetPool(r, p, [pool[r][p] EXCEPT !.next = 0])
  PROVE  /\ pool' \in [Slot -> [Bridge!Place -> PoolRecord]]
         /\ \A s \in Slot, o \in Bridge!Place : PoolFits(pool'[s][o])
         /\ pool[r][p].next # 0 /\ Whole(pool'[r][p])
         /\ \A s \in Slot, o \in Bridge!Place : s # r \/ o # p => pool'[s][o] = pool[s][o]
<1>1. PICK q \in PoolRecord : /\ q = pool[r][p] /\ PoolFits(q) /\ q.next > Items
                              /\ \A w \in Bridge!Worker : q.has[w] = 0
  BY DEF BridgeInv, BridgeTypes, AnswersFit, Bridge!Complete
<1>2. PICK n \in PoolRecord : /\ n = [q EXCEPT !.next = 0] /\ n.next = 0
                              /\ n.has = q.has /\ n.results = q.results
  <2>1. PICK n : n = [q EXCEPT !.next = 0]
    OBVIOUS
  <2>. QED BY <2>1 DEF PoolRecord
<1>3. q.next # 0 /\ \A i \in Bridge!Item : i < q.next
  BY <1>1, BoundsAssumption DEF Bridge!Item, PoolRecord
<1>4. \A i \in Bridge!Item : q.results[i] = 1
  BY <1>1, <1>3 DEF PoolFits, Judged, Held, Bridge!Item
<1>5. Whole(n) /\ PoolFits(n)
  BY <1>1, <1>2, <1>4, BoundsAssumption DEF Whole, Bridge!InFull, PoolFits
<1>6. Bridge!SetPool(r, p, n)
  BY <1>1, <1>2
<1>. QED BY <1>1, <1>3, <1>5, <1>6, OnePool DEF BridgeInv, AnswersFit

LEMMA BridgeAnswers ==
  ASSUME BridgeInv, NEW r \in Slot, Bridge!PageAnswers(r) \/ Bridge!BackgroundAnswers(r)
  PROVE  BridgeInv'
<1>. DEFINE Ats == {"idle", "loading", "pending", "answered", "background", "answeredLate",
                    "rejected"}
<1>1. CASE Bridge!PageAnswers(r)
  <2>1. /\ Bridge!Complete(r, "page") /\ "page" \in Bridge!Place
        /\ Bridge!SetPool(r, "page", [pool[r]["page"] EXCEPT !.next = 0])
        /\ requestAt' = [requestAt EXCEPT ![r] = IF requestAt[r] = "pending" THEN "answered"
                                                ELSE requestAt[r]]
        /\ UNCHANGED <<script, requestKind, shopStep, loadFailed>>
    BY <1>1 DEF Bridge!PageAnswers, Bridge!Goto, Bridge!Place
  <2>2. /\ pool' \in [Slot -> [Bridge!Place -> PoolRecord]]
        /\ \A s \in Slot, o \in Bridge!Place : PoolFits(pool'[s][o])
        /\ Whole(pool'[r]["page"])
        /\ \A s \in Slot, o \in Bridge!Place : s # r \/ o # "page" => pool'[s][o] = pool[s][o]
    BY <2>1, CompleteIsWhole
  <2>3. requestAt' \in [Slot -> Ats]
    BY <2>1 DEF BridgeInv, BridgeTypes
  <2>4. BridgeTypes'
    BY <2>1, <2>2, <2>3 DEF BridgeInv, BridgeTypes
  <2>5. AnswersFit'
    BY <2>1, <2>2 DEF BridgeInv, BridgeTypes, AnswersFit, Bridge!Place
  <2>. QED BY <2>4, <2>5 DEF BridgeInv
<1>2. CASE Bridge!BackgroundAnswers(r)
  <2>1. /\ Bridge!Complete(r, "background") /\ "background" \in Bridge!Place
        /\ Bridge!SetPool(r, "background", [pool[r]["background"] EXCEPT !.next = 0])
        /\ requestAt' = [requestAt EXCEPT ![r] = "answeredLate"]
        /\ UNCHANGED <<script, requestKind, shopStep, loadFailed>>
    BY <1>2 DEF Bridge!BackgroundAnswers, Bridge!Goto, Bridge!Place
  <2>2. /\ pool' \in [Slot -> [Bridge!Place -> PoolRecord]]
        /\ \A s \in Slot, o \in Bridge!Place : PoolFits(pool'[s][o])
        /\ Whole(pool'[r]["background"])
        /\ \A s \in Slot, o \in Bridge!Place :
             s # r \/ o # "background" => pool'[s][o] = pool[s][o]
    BY <2>1, CompleteIsWhole
  <2>3. BridgeTypes'
    BY <2>1, <2>2 DEF BridgeInv, BridgeTypes
  <2>4. AnswersFit'
    BY <2>1, <2>2 DEF BridgeInv, BridgeTypes, AnswersFit, Bridge!Place
  <2>. QED BY <2>3, <2>4 DEF BridgeInv
<1>. QED BY <1>1, <1>2

LEMMA BackgroundStopFits == BridgeInv /\ Bridge!BackgroundStops => BridgeInv'
<1> SUFFICES ASSUME BridgeInv, Bridge!BackgroundStops PROVE BridgeInv'
  OBVIOUS
<1>. DEFINE rs == {r \in Slot : requestAt[r] = "background"}
<1>1. /\ requestAt' = [r \in Slot |-> IF requestAt[r] = "background" THEN "rejected"
                                      ELSE requestAt[r]]
      /\ pool' = [r \in Slot |-> IF r \in rs THEN [pool[r] EXCEPT !["background"] = Bridge!NoPool]
                                 ELSE pool[r]]
      /\ UNCHANGED <<script, requestKind, shopStep, loadFailed>>
  BY DEF Bridge!BackgroundStops
<1>2. /\ pool' \in [Slot -> [Bridge!Place -> PoolRecord]]
      /\ \A r \in Slot, o \in Bridge!Place :
           pool'[r][o] = IF r \in rs /\ o = "background" THEN Bridge!NoPool ELSE pool[r][o]
  <2>1. rs \in SUBSET Slot /\ "background" \in Bridge!Place
    BY DEF Bridge!Place
  <2>2. Bridge!NoPool \in {Bridge!Pool, Bridge!NoPool}
    OBVIOUS
  <2>. HIDE DEF rs
  <2>3. pool' = Restarted(rs, "background", Bridge!NoPool)
    BY <1>1 DEF Restarted
  <2>4. OnlyRestarted(rs, "background", Bridge!NoPool)
    BY <2>1, <2>2, <2>3, PoolsRestart
  <2>. QED BY <2>4 DEF OnlyRestarted
<1>3. BridgeTypes'
  <2>1. requestAt' \in [Slot -> {"idle", "loading", "pending", "answered", "background",
                                "answeredLate", "rejected"}]
    BY <1>1 DEF BridgeInv, BridgeTypes
  <2>. QED BY <1>1, <1>2, <2>1 DEF BridgeInv, BridgeTypes
<1>4. AnswersFit'
  <2>1. \A r \in Slot, p \in Bridge!Place : PoolFits(pool'[r][p])
    BY <1>2, NewPools DEF BridgeInv, AnswersFit
  <2>. QED BY <1>1, <1>2, <2>1 DEF BridgeInv, AnswersFit, Bridge!Place
<1>. QED BY <1>3, <1>4 DEF BridgeInv

LEMMA ShopFetchFits ==
  ASSUME BridgeInv, NEW r \in Slot, Bridge!ShopFetch(r)
  PROVE  BridgeInv'
<1>1. /\ requestKind[r] = "shop" /\ requestAt' \in [Slot -> {"idle", "loading", "pending",
           "answered", "background", "answeredLate", "rejected"}]
      /\ shopStep' \in [Slot -> 0..3]
      /\ \A s \in Slot \ {r} : requestAt'[s] = requestAt[s] /\ shopStep'[s] = shopStep[s]
      /\ requestAt'[r] = requestAt[r] \/ requestAt'[r] \in {"answered", "rejected"}
      /\ UNCHANGED <<script, requestKind, pool, loadFailed>>
  BY SMTT(30) DEF Bridge!ShopFetch, Bridge!Goto, BridgeInv, BridgeTypes, AnswersFit
<1>2. BridgeTypes'
  BY <1>1 DEF BridgeInv, BridgeTypes
<1>3. AnswersFit'
  BY <1>1 DEF BridgeInv, AnswersFit
<1>. QED BY <1>2, <1>3 DEF BridgeInv

LEMMA BridgeNext == BridgeInv /\ [Bridge!Next]_bridgeVars => BridgeInv'
<1> SUFFICES ASSUME BridgeInv, [Bridge!Next]_bridgeVars PROVE BridgeInv'
  OBVIOUS
<1>1. ASSUME NEW r \in Slot, NEW p \in Bridge!Place, Bridge!Work(r, p) PROVE BridgeInv'
  <2>1. PICK w \in Bridge!Workers(p) : Bridge!Take(r, p, w) \/ Bridge!Verdict(r, p, w)
    BY <1>1 DEF Bridge!Work
  <2>2. w \in Bridge!Worker
    BY DEF Bridge!Workers, Bridge!Worker
  <2>. QED BY <2>1, <2>2, TakeFits, VerdictFits
<1>2. ASSUME NEW r \in Slot, Bridge!Step(r) PROVE BridgeInv'
  BY <1>1, <1>2, AskFits, TimeoutFits, BridgeAnswers, ShopFetchFits DEF Bridge!Step
<1>3. CASE UNCHANGED bridgeVars
  BY <1>3 DEF bridgeVars, BridgeInv, BridgeTypes, AnswersFit
<1>. QED BY <1>2, <1>3, ScriptFits, BackgroundStopFits DEF Bridge!Next

LEMMA BridgeInvariant == PagesSpec => [](part = "bridge" => BridgeInv)
<1> DEFINE Inv == part = "bridge" => BridgeInv
<1>1. PagesInit => Inv
  BY BridgeStart DEF PagesInit
<1>2. Inv /\ [PagesNext]_pagesVars => Inv'
  BY PartStays, BridgeMove, BridgeNext
<1>. QED BY <1>1, <1>2, PTL DEF PagesSpec

\* An answer to a search has one verdict on each product, whoever gives it.
THEOREM SearchesAreAnsweredInFull == PagesSpec => []AnswersAreComplete
<1>1. BridgeInv => Bridge!AnswersAreComplete
  <2> SUFFICES ASSUME BridgeInv PROVE Bridge!AnswersAreComplete
    OBVIOUS
  <2>1. ASSUME NEW r \in Slot, NEW p \in Bridge!Place, NEW i \in Bridge!Item
        PROVE  pool[r][p].results[i] <= 1
    <3>1. PICK q \in PoolRecord : q = pool[r][p] /\ PoolFits(q)
      BY DEF BridgeInv, BridgeTypes, AnswersFit
    <3>2. q.results[i] <= 1
      BY <3>1 DEF PoolFits, Judged, Held, Untouched
    <3>. QED BY <3>1, <3>2
  <2>. QED BY <2>1 DEF BridgeInv, AnswersFit, Whole, Bridge!AnswersAreComplete
<1>2. (part = "bridge" => BridgeInv) => AnswersAreComplete
  BY <1>1 DEF AnswersAreComplete
<1>. QED BY <1>2, BridgeInvariant, PTL

-----------------------------------------------------------------------------
(* Figures of the calculator.                                              *)

LEMMA EntriesAreNumbers ==
  ASSUME NEW s \in Figures!Inputs
  PROVE  /\ s.price \in Nat /\ s.category \in Nat
         /\ \A f \in {"hpp", "units", "revenue", "spend", "roas"} : s[f] # None => s[f] \in Nat
         /\ Figures!OrZero(s.hpp) \in Nat /\ Figures!OrZero(s.operational) \in Nat
         /\ Figures!OrZero(s.spend) \in Nat
         /\ s.regular \in [pct : Nat, cap : Nat] /\ s.special \in [pct : Nat, cap : Nat]
BY AmountAssumption DEF Figures!Inputs, Figures!Read, Figures!OrZero

LEMMA FeesAreNumbers ==
  ASSUME NEW s \in Figures!Inputs
  PROVE  /\ s.price * s.category \in Nat /\ ProcessingFee * 200 \in Nat
         /\ Figures!Promo(s) \in Nat
         /\ \A c \in [pct : Nat, cap : Nat] : Figures!Surcharge(s, c) \in Nat
<1>1. s.price * s.category \in Nat
  BY EntriesAreNumbers
<1>2. ProcessingFee * 200 \in Nat
  BY AmountAssumption
<1>3. Figures!Promo(s) \in Nat
  BY EntriesAreNumbers, AmountAssumption
     DEF Figures!Promo, Figures!Least, Figures!PromoPct, Figures!Scale
<1>4. ASSUME NEW c \in [pct : Nat, cap : Nat] PROVE Figures!Surcharge(s, c) \in Nat
  <2>1. c.pct \in Nat /\ c.cap \in Nat /\ s.price * c.pct \in Nat
    BY EntriesAreNumbers
  <2>. QED BY <2>1 DEF Figures!Surcharge, Figures!Capped, Figures!Least, Figures!Scale
<1>. QED BY <1>1, <1>2, <1>3, <1>4

\* An order never leaves more than its price.
LEMMA ProfitIsANumber ==
  ASSUME NEW s \in Figures!Inputs
  PROVE  /\ Figures!PanelFees(s) \in Nat
         /\ Figures!PanelProfit(s) \in Int /\ Figures!PanelProfit(s) <= 200 * s.price
<1>1. Figures!PanelFees(s) \in Nat
  BY EntriesAreNumbers, FeesAreNumbers DEF Figures!PanelFees, Figures!Scale
<1>. QED BY <1>1, EntriesAreNumbers DEF Figures!PanelProfit, Figures!Scale

\* The table takes the fees of the panel.
LEMMA TableIsPanel ==
  ASSUME NEW s \in Figures!Inputs, s.hpp # None
  PROVE  Figures!TableMargin(s) = Figures!PanelProfit(s)
<1>1. PICK f \in Int : f = Figures!PanelFees(s)
  BY ProfitIsANumber
<1>2. f = s.price * s.category + Figures!Promo(s) + ProcessingFee * 200
          + Figures!Surcharge(s, IF s.size = "special" THEN s.special ELSE s.regular)
  BY <1>1, EntriesAreNumbers, FeesAreNumbers DEF Figures!PanelFees, Figures!Scale
<1>. QED BY <1>1, <1>2, EntriesAreNumbers, FeesAreNumbers
     DEF Figures!TableMargin, Figures!PanelProfit, Figures!OrZero, Figures!Scale

\* The net profit is what the sales leave after the units' costs and the spend
\* with its tax.
LEMMA NetIsSalesLessCosts ==
  ASSUME NEW s \in Figures!Inputs, s.hpp # None, s.price > 0, s.units # None, s.revenue # None
  PROVE  Figures!NetProfit(s) = 200 * s.revenue - s.units * (200 * s.price - Figures!PanelProfit(s))
                                - 200 * Figures!ActualSpend(s)
<1>1. PICK p \in Nat, u \in Nat, v \in Nat, h \in Nat, o \in Nat, f \in Nat, a \in Int :
        /\ p = s.price /\ u = s.units /\ v = s.revenue /\ h = s.hpp
        /\ o = Figures!OrZero(s.operational)
        /\ f = Figures!PanelFees(s) /\ a = Figures!ActualSpend(s)
  <2>1. Figures!ActualSpend(s) \in Int
    BY EntriesAreNumbers DEF Figures!ActualSpend
  <2>. QED BY <2>1, EntriesAreNumbers, ProfitIsANumber
<1>2. Figures!NetProfit(s) = v * 200 - (h + o) * u * 200 - f * u - a * 200
  BY <1>1, EntriesAreNumbers DEF Figures!NetProfit, Figures!NetRevenue, Figures!Scale
<1>3. Figures!PanelProfit(s) = (p - h - o) * 200 - f
  BY <1>1 DEF Figures!PanelProfit, Figures!OrZero, Figures!Scale
<1>4. v * 200 - (h + o) * u * 200 - f * u - a * 200
        = 200 * v - u * (200 * p - ((p - h - o) * 200 - f)) - 200 * a
  OBVIOUS
<1>. QED BY <1>1, <1>2, <1>3, <1>4

\* The spend with tax is 111 percent of it, rounded.
LEMMA SpendIsTaxed ==
  ASSUME NEW s \in Figures!Inputs, s.spend # None
  PROVE  /\ Figures!ActualSpend(s) \in Int
         /\ 100 * Figures!ActualSpend(s) >= 111 * s.spend - 49
         /\ 100 * Figures!ActualSpend(s) <= 111 * s.spend + 50
<1>1. PICK n \in Nat : n = s.spend
  BY EntriesAreNumbers
<1>2. /\ (n * 111 + 50) \div 100 \in Int
      /\ 100 * ((n * 111 + 50) \div 100) >= 111 * n - 49
      /\ 100 * ((n * 111 + 50) \div 100) <= 111 * n + 50
  OBVIOUS
<1>. QED BY <1>1, <1>2 DEF Figures!ActualSpend, Figures!OrZero

\* Figures of an ad: it sold u units for v after spending z, with tax a, at a
\* ROAS of r hundredths; of the entered price p an order leaves m, 200 times; x
\* is what the sales leave before the spend, 200 times.
AdFigures(p, u, v, z, r, m, x, a) ==
  /\ p \in Nat /\ u \in Nat /\ v \in Nat /\ z \in Nat /\ r \in Nat
  /\ m \in Int /\ x \in Int /\ a \in Int
  /\ p > 0 /\ m > 0 /\ m <= 200 * p /\ z > 0
  /\ x = 200 * v - u * (200 * p - m)
  /\ z * (r - 1) <= 100 * v /\ 100 * v <= z * (r + 1)
  /\ 100 * a >= 111 * z - 49 /\ 100 * a <= 111 * z + 50
Rated(p, u, v, r, m, t) ==
  t \in Nat /\ v >= p * u /\ t >= 82 * (p * 200) /\ r * (50 * m) >= 100 * t
BelowBreakEven(p, u, v, r, m) == v <= p * u /\ r * (50 * m) < 100 * (50 * (p * 200))

\* A ROAS at or above 82 fiftieths of the break-even ROAS, with the sales it
\* stands for made at the entered price or above, leaves half a rupiah and more.
LEMMA RatedAdsEarn ==
  ASSUME NEW p, NEW u, NEW v, NEW z, NEW r, NEW m, NEW x, NEW a, NEW t,
         AdFigures(p, u, v, z, r, m, x, a), Rated(p, u, v, r, m, t)
  PROVE  x - 200 * a >= 100
<1>. USE DEF AdFigures, Rated
<1>1. PICK c \in Nat : c = 200 * p - m
  <2>1. 200 * p - m \in Nat
    OBVIOUS
  <2>. QED BY <2>1
<1>2. PICK d \in Nat : d = u * c
  OBVIOUS
<1>3. p * x = v * (200 * p) - (p * u) * c
  <2>1. x = 200 * v - d
    BY <1>1, <1>2
  <2>2. p * x = p * (200 * v) - p * d
    BY <2>1
  <2>3. p * d = (p * u) * c /\ p * (200 * v) = v * (200 * p)
    BY <1>2
  <2>. QED BY <2>2, <2>3
<1>4. v * m = v * (200 * p) - v * c
  BY <1>1
<1>5. PICK w \in Nat : w = p * u
  OBVIOUS
<1>6. v * c >= w * c
  BY <1>5
<1>7. /\ p * x \in Int /\ v * m \in Int /\ v * c \in Int /\ w * c \in Int
      /\ v * (200 * p) \in Int
  OBVIOUS
<1>8. p * x >= v * m
  BY <1>3, <1>4, <1>5, <1>6, <1>7
<1>9. (r - 1) * m >= 32600 * p
  <2>1. PICK y \in Int : y = r * m
    OBVIOUS
  <2>2. r * (50 * m) = 50 * y /\ (r - 1) * m = y - m
    BY <2>1
  <2>. QED BY <2>2
<1>10. 100 * (v * m) >= z * (32600 * p)
  <2>1. (100 * v) * m >= (z * (r - 1)) * m
    OBVIOUS
  <2>2. (z * (r - 1)) * m = z * ((r - 1) * m) /\ (100 * v) * m = 100 * (v * m)
    OBVIOUS
  <2>3. z * ((r - 1) * m) >= z * (32600 * p)
    BY <1>9
  <2>. QED BY <2>1, <2>2, <2>3
<1>11. x >= 326 * z
  <2>1. 100 * (p * x) = (100 * p) * x /\ z * (32600 * p) = (100 * p) * (326 * z)
    OBVIOUS
  <2>2. (100 * p) * x >= (100 * p) * (326 * z)
    BY <1>7, <1>8, <1>10, <2>1
  <2>. QED BY <2>2
<1>. QED BY <1>11

\* A ROAS below the break-even ROAS, with the sales it stands for made at the
\* entered price or below, leaves less than half a rupiah.
LEMMA AdsBelowBreakEvenEarnNothing ==
  ASSUME NEW p, NEW u, NEW v, NEW z, NEW r, NEW m, NEW x, NEW a,
         AdFigures(p, u, v, z, r, m, x, a), BelowBreakEven(p, u, v, r, m)
  PROVE  x - 200 * a < 100
<1>. USE DEF AdFigures, BelowBreakEven
<1>1. PICK c \in Nat : c = 200 * p - m
  <2>1. 200 * p - m \in Nat
    OBVIOUS
  <2>. QED BY <2>1
<1>2. PICK d \in Nat : d = u * c
  OBVIOUS
<1>3. p * x = v * (200 * p) - (p * u) * c
  <2>1. x = 200 * v - d
    BY <1>1, <1>2
  <2>2. p * x = p * (200 * v) - p * d
    BY <2>1
  <2>3. p * d = (p * u) * c /\ p * (200 * v) = v * (200 * p)
    BY <1>2
  <2>. QED BY <2>2, <2>3
<1>4. v * m = v * (200 * p) - v * c
  BY <1>1
<1>5. PICK w \in Nat : w = p * u
  OBVIOUS
<1>6. v * c <= w * c
  BY <1>5
<1>7. /\ p * x \in Int /\ v * m \in Int /\ v * c \in Int /\ w * c \in Int
      /\ v * (200 * p) \in Int
  OBVIOUS
<1>8. p * x <= v * m
  BY <1>3, <1>4, <1>5, <1>6, <1>7
<1>9. (r + 1) * m <= 20200 * p
  <2>1. PICK y \in Int : y = r * m
    OBVIOUS
  <2>2. r * (50 * m) = 50 * y /\ (r + 1) * m = y + m
    BY <2>1
  <2>. QED BY <2>2
<1>10. 100 * (v * m) <= z * (20200 * p)
  <2>1. (100 * v) * m <= (z * (r + 1)) * m
    OBVIOUS
  <2>2. (z * (r + 1)) * m = z * ((r + 1) * m) /\ (100 * v) * m = 100 * (v * m)
    OBVIOUS
  <2>3. z * ((r + 1) * m) <= z * (20200 * p)
    BY <1>9
  <2>. QED BY <2>1, <2>2, <2>3
<1>11. x <= 202 * z
  <2>1. 100 * (p * x) = (100 * p) * x /\ z * (20200 * p) = (100 * p) * (202 * z)
    OBVIOUS
  <2>2. (100 * p) * x <= (100 * p) * (202 * z)
    BY <1>7, <1>8, <1>10, <2>1
  <2>. QED BY <2>2
<1>. QED BY <1>11

LEMMA TargetsRise ==
  ASSUME NEW b \in Nat, NEW m \in Nat, b > 0, m > 0
  PROVE  /\ \A tier \in {"rugi", "kompetitif", "konservatif", "prospektif"} :
              Figures!Target(<<b, m>>, tier)[1] \in Nat /\ Figures!Target(<<b, m>>, tier)[2] = 50 * m
         /\ Figures!Target(<<b, m>>, "rugi")[1] = 50 * b
         /\ \A tier \in {"kompetitif", "konservatif", "prospektif"} :
              Figures!Target(<<b, m>>, tier)[1] >= 82 * b
         /\ Figures!Target(<<b, m>>, "rugi")[1] < Figures!Target(<<b, m>>, "kompetitif")[1]
         /\ Figures!Target(<<b, m>>, "kompetitif")[1] < Figures!Target(<<b, m>>, "konservatif")[1]
         /\ Figures!Target(<<b, m>>, "konservatif")[1] < Figures!Target(<<b, m>>, "prospektif")[1]
BY DEF Figures!Target, Figures!Most, Figures!Times, Figures!Plus

LEMMA FiguresHold ==
  ASSUME NEW s \in Figures!Inputs
  PROVE  /\ s.hpp # None => Figures!BreakEven(s) = Figures!PanelBreakEven(s)
         /\ Figures!PanelBreakEven(s) # None =>
              /\ Figures!TierProfit(s, "rugi") = 0
              /\ \A i \in 1..3 : Figures!Target(Figures!PanelBreakEven(s), Figures!Tiers[i])[1]
                                 < Figures!Target(Figures!PanelBreakEven(s), Figures!Tiers[i + 1])[1]
         /\ Figures!Tallies(s) =>
              /\ Figures!Badge(s) \in {"CUKUP", "BAGUS", "SEMPURNA"}
                   /\ s.revenue >= s.price * s.units => Figures!NetProfitShown(s) > 0
              /\ Figures!Badge(s) = "BURUK" /\ ~Figures!Reaches(s, "rugi")
                   /\ s.revenue <= s.price * s.units => Figures!NetProfitShown(s) <= 0
<1>1. PICK p \in Nat, m \in Int : p = s.price /\ m = Figures!PanelProfit(s) /\ m <= 200 * p
  BY EntriesAreNumbers, ProfitIsANumber
<1>2. s.hpp # None => Figures!BreakEven(s) = Figures!PanelBreakEven(s)
  BY <1>1, TableIsPanel DEF Figures!BreakEven, Figures!PanelBreakEven
<1>3. ASSUME Figures!PanelBreakEven(s) # None
      PROVE  /\ p > 0 /\ m > 0 /\ m \in Nat /\ p * 200 \in Nat /\ p * 200 > 0
             /\ Figures!PanelBreakEven(s) = <<p * 200, m>>
  BY <1>1, <1>3 DEF Figures!PanelBreakEven, Figures!Scale
<1>4. ASSUME Figures!PanelBreakEven(s) # None
      PROVE  /\ Figures!TierProfit(s, "rugi") = 0
             /\ \A i \in 1..3 : Figures!Target(Figures!PanelBreakEven(s), Figures!Tiers[i])[1]
                                < Figures!Target(Figures!PanelBreakEven(s), Figures!Tiers[i + 1])[1]
  <2>1. PICK b \in Nat : b = p * 200 /\ b > 0 /\ m \in Nat /\ m > 0
                        /\ Figures!PanelBreakEven(s) = <<b, m>>
    BY <1>3, <1>4
  <2>2. Figures!TierProfit(s, "rugi") = m * (50 * b) - b * (50 * m)
    BY <1>1, <2>1, TargetsRise DEF Figures!TierProfit, Figures!Scale
  <2>3. m * (50 * b) - b * (50 * m) = 0
    OBVIOUS
  <2>4. \A i \in 1..3 : i = 1 \/ i = 2 \/ i = 3
    OBVIOUS
  <2>. QED BY <2>1, <2>2, <2>3, <2>4, TargetsRise DEF Figures!Tiers
<1>5. ASSUME Figures!BreakEven(s) # None
      PROVE  /\ s.hpp # None /\ p > 0 /\ m > 0
             /\ Figures!BreakEven(s) = <<p * 200, m>> /\ p * 200 \in Nat /\ p * 200 > 0 /\ m \in Nat
  <2>1. s.hpp # None
    BY <1>5 DEF Figures!BreakEven
  <2>. QED BY <1>1, <1>2, <1>3, <1>5, <2>1
<1>6. ASSUME Figures!Tallies(s), Figures!BreakEven(s) # None
      PROVE  /\ s.units \in Nat /\ s.revenue \in Nat /\ s.spend \in Nat /\ s.roas \in Nat
             /\ s.spend > 0 /\ s.spend * (s.roas - 1) <= 100 * s.revenue
             /\ 100 * s.revenue <= s.spend * (s.roas + 1)
             /\ Figures!ActualSpend(s) \in Int
             /\ 100 * Figures!ActualSpend(s) >= 111 * s.spend - 49
             /\ 100 * Figures!ActualSpend(s) <= 111 * s.spend + 50
             /\ Figures!NetProfit(s) = 200 * s.revenue - s.units * (200 * p - m)
                                       - 200 * Figures!ActualSpend(s)
  <2>1. s.units # None /\ s.revenue # None /\ s.spend # None /\ s.roas # None
    BY <1>6 DEF Figures!Tallies
  <2>2. s.units \in Nat /\ s.revenue \in Nat /\ s.spend \in Nat /\ s.roas \in Nat
    BY <2>1, EntriesAreNumbers
  <2>3. /\ s.spend > 0 /\ s.spend * (s.roas - 1) <= 100 * s.revenue
        /\ 100 * s.revenue <= s.spend * (s.roas + 1)
    BY <1>6 DEF Figures!Tallies
  <2>4. Figures!NetProfit(s) = 200 * s.revenue - s.units * (200 * p - m)
                               - 200 * Figures!ActualSpend(s)
    BY <1>1, <1>5, <1>6, <2>1, NetIsSalesLessCosts
  <2>. QED BY <2>1, <2>2, <2>3, <2>4, SpendIsTaxed
<1>7. ASSUME Figures!Tallies(s), Figures!Badge(s) \in {"CUKUP", "BAGUS", "SEMPURNA"},
             s.revenue >= s.price * s.units
      PROVE  Figures!NetProfitShown(s) > 0
  <2>1. /\ Figures!BreakEven(s) # None
        /\ \E tier \in {"kompetitif", "konservatif", "prospektif"} : Figures!Reaches(s, tier)
    BY <1>7 DEF Figures!Badge
  <2>2. PICK u \in Nat, v \in Nat, z \in Nat, r \in Nat, a \in Int :
          u = s.units /\ v = s.revenue /\ z = s.spend /\ r = s.roas /\ a = Figures!ActualSpend(s)
    BY <1>6, <1>7, <2>1
  <2>3. PICK x \in Int : x = 200 * v - u * (200 * p - m)
    <3>1. 200 * v - u * (200 * p - m) \in Int
      OBVIOUS
    <3>. QED BY <3>1
  <2>4. /\ Figures!NetProfit(s) = x - 200 * a
        /\ z > 0 /\ z * (r - 1) <= 100 * v /\ 100 * v <= z * (r + 1)
        /\ 100 * a >= 111 * z - 49 /\ 100 * a <= 111 * z + 50
    BY <1>6, <1>7, <2>1, <2>2, <2>3
  <2>5. PICK t \in Nat : t >= 82 * (p * 200) /\ r * (50 * m) >= 100 * t
    <3>1. PICK tier \in {"kompetitif", "konservatif", "prospektif"} : Figures!Reaches(s, tier)
      BY <2>1
    <3>2. /\ Figures!Target(<<p * 200, m>>, tier)[1] \in Nat
          /\ Figures!Target(<<p * 200, m>>, tier)[1] >= 82 * (p * 200)
          /\ Figures!Target(<<p * 200, m>>, tier)[2] = 50 * m
      BY <1>5, <2>1, TargetsRise
    <3>3. r * (50 * m) >= 100 * Figures!Target(<<p * 200, m>>, tier)[1]
      BY <1>5, <2>1, <2>2, <3>1, <3>2 DEF Figures!Reaches
    <3>. QED BY <3>2, <3>3
  <2>6. p > 0 /\ m > 0 /\ m <= 200 * p /\ v >= p * u
    BY <1>1, <1>5, <1>7, <2>1, <2>2
  <2>7. x - 200 * a >= 100
    <3>1. AdFigures(p, u, v, z, r, m, x, a)
      BY <2>3, <2>4, <2>6 DEF AdFigures
    <3>2. Rated(p, u, v, r, m, t)
      BY <2>5, <2>6 DEF Rated
    <3>. QED BY <3>1, <3>2, RatedAdsEarn
  <2>. QED BY <2>4, <2>7 DEF Figures!NetProfitShown, Figures!Scale
<1>8. ASSUME Figures!Tallies(s), Figures!Badge(s) = "BURUK", ~Figures!Reaches(s, "rugi"),
             s.revenue <= s.price * s.units
      PROVE  Figures!NetProfitShown(s) <= 0
  <2>1. Figures!BreakEven(s) # None
    BY <1>8 DEF Figures!Badge
  <2>2. PICK u \in Nat, v \in Nat, z \in Nat, r \in Nat, a \in Int :
          u = s.units /\ v = s.revenue /\ z = s.spend /\ r = s.roas /\ a = Figures!ActualSpend(s)
    BY <1>6, <1>8, <2>1
  <2>3. PICK x \in Int : x = 200 * v - u * (200 * p - m)
    <3>1. 200 * v - u * (200 * p - m) \in Int
      OBVIOUS
    <3>. QED BY <3>1
  <2>4. /\ Figures!NetProfit(s) = x - 200 * a
        /\ z > 0 /\ z * (r - 1) <= 100 * v /\ 100 * v <= z * (r + 1)
        /\ 100 * a >= 111 * z - 49 /\ 100 * a <= 111 * z + 50
    BY <1>6, <1>8, <2>1, <2>2, <2>3
  <2>5. r * (50 * m) < 100 * (50 * (p * 200))
    BY <1>1, <1>5, <1>8, <2>1, <2>2, TargetsRise DEF Figures!Reaches
  <2>6. p > 0 /\ m > 0 /\ m <= 200 * p /\ v <= p * u
    BY <1>1, <1>5, <1>8, <2>1, <2>2
  <2>7. x - 200 * a < 100
    <3>1. AdFigures(p, u, v, z, r, m, x, a)
      BY <2>3, <2>4, <2>6 DEF AdFigures
    <3>2. BelowBreakEven(p, u, v, r, m)
      BY <2>5, <2>6 DEF BelowBreakEven
    <3>. QED BY <3>1, <3>2, AdsBelowBreakEvenEarnNothing
  <2>. QED BY <2>4, <2>7 DEF Figures!NetProfitShown, Figures!Scale
<1>. QED BY <1>2, <1>4, <1>7, <1>8

LEMMA FiguresMove == part = "figures" /\ [PagesNext]_pagesVars => UNCHANGED input
BY DEF PagesNext, Rest, Quiet, pagesVars, Figures!Next

LEMMA FiguresInvariant == PagesSpec => [](part = "figures" => input \in Figures!Inputs)
<1> DEFINE Inv == part = "figures" => input \in Figures!Inputs
<1>1. PagesInit => Inv
  BY DEF PagesInit, Figures!Init
<1>2. Inv /\ [PagesNext]_pagesVars => Inv'
  BY PartStays, FiguresMove
<1>. QED BY <1>1, <1>2, PTL DEF PagesSpec

\* The panel, the badges of the table and the net profit on an ad's page agree,
\* whatever the prices, costs and fees are, and whatever Shopee reports.
THEOREM TheFiguresAgree == PagesSpec => []FiguresAgree
<1>1. (part = "figures" => input \in Figures!Inputs) => FiguresAgree
  BY FiguresHold DEF FiguresAgree, Figures!FiguresAgree
<1>. QED BY <1>1, FiguresInvariant, PTL

-----------------------------------------------------------------------------
(* The ROAS calculator.                                                    *)

Entry == Calculator!Calc \cup {Blank}
AdTasks == {"hydrate", "hydrated", "save", "saving", "saved", "clear", "clearing"}
CalculatorTask ==
  [op : {"idle", "suggest", "category"} \cup AdTasks, tab : Tab \cup {Blank},
   page : Calculator!Page \cup {Blank}, read : [Ad -> Entry]]

CalculatorTypes ==
  /\ calc \in [Tab -> Calculator!Calc]
  /\ active \in [Tab -> Ad \cup {Blank}]
  /\ lastAd \in [Tab -> Calculator!Page]
  /\ entries \in [Ad -> Entry]
  /\ storageTask \in [Slot -> CalculatorTask]
  /\ crossed \in BOOLEAN

\* A task works for a tab and its page; only the pages of ads are read, saved and
\* cleared.
TasksHaveTabs ==
  \A t \in Slot :
    LET k == storageTask[t] IN
    k.op # "idle" => /\ k.tab \in Tab /\ k.page \in Calculator!Page
                     /\ k.op \in AdTasks => k.page \in Ad

\* What a task has read was an ad's own, too.
AllOwn(es) == \A a \in Ad : es[a] # Blank => Calculator!Own(es[a], a)
TabsOwn == \A w \in Tab : active[w] # Blank => Calculator!Own(calc[w], active[w])
ReadingsOwn == \A t \in Slot : AllOwn(storageTask[t].read)
CalculatorInv ==
  /\ CalculatorTypes /\ TasksHaveTabs
  /\ ~crossed => TabsOwn /\ AllOwn(entries) /\ ReadingsOwn
LEMMA CalculatorMove ==
  part = "calculator" /\ [PagesNext]_pagesVars => [Calculator!Next]_calcVars
BY DEF PagesNext, Rest, Quiet, pagesVars

\* A task without work, an empty calculator and no entries are nobody's.
LEMMA NothingIsOwn ==
  /\ Calculator!Done \in CalculatorTask /\ Calculator!Done.op = "idle"
  /\ Calculator!Done.read = Calculator!NoEntries
  /\ Calculator!NoEntries \in [Ad -> Entry] /\ AllOwn(Calculator!NoEntries)
  /\ Calculator!Empty \in Calculator!Calc /\ \A a : Calculator!Own(Calculator!Empty, a)
BY DEF Calculator!Done, CalculatorTask, Calculator!NoEntries, Entry, AllOwn, Calculator!Empty,
       Calculator!Calc, Calculator!Own

LEMMA CalculatorStart == Calculator!Init => CalculatorInv
<1> SUFFICES ASSUME Calculator!Init PROVE CalculatorInv
  OBVIOUS
<1>. USE NothingIsOwn DEF Calculator!Init
<1>1. CalculatorTypes
  BY DEF CalculatorTypes, Calculator!Page
<1>2. TasksHaveTabs /\ TabsOwn /\ AllOwn(entries) /\ ReadingsOwn
  BY DEF TasksHaveTabs, TabsOwn, ReadingsOwn
<1>. QED BY <1>1, <1>2 DEF CalculatorInv

LEMMA OneTask ==
  ASSUME CalculatorInv, NEW t \in Slot, NEW k \in CalculatorTask,
         storageTask' = [storageTask EXCEPT ![t] = k],
         k.op # "idle" => /\ k.tab \in Tab /\ k.page \in Calculator!Page
                          /\ k.op \in AdTasks => k.page \in Ad
  PROVE  /\ storageTask' \in [Slot -> CalculatorTask] /\ TasksHaveTabs'
         /\ ReadingsOwn /\ AllOwn(k.read) => ReadingsOwn'
<1>1. /\ storageTask' \in [Slot -> CalculatorTask] /\ storageTask'[t] = k
      /\ \A u \in Slot \ {t} : storageTask'[u] = storageTask[u]
  BY DEF CalculatorInv, CalculatorTypes
<1>2. TasksHaveTabs'
  BY <1>1 DEF CalculatorInv, TasksHaveTabs
<1>3. ReadingsOwn /\ AllOwn(k.read) => ReadingsOwn'
  BY <1>1 DEF ReadingsOwn
<1>. QED BY <1>1, <1>2, <1>3

LEMMA TaskBegins ==
  ASSUME CalculatorInv, NEW t \in Slot, NEW w \in Tab, NEW p \in Calculator!Page,
         NEW op \in {"suggest", "category"} \cup AdTasks, op \in AdTasks => p \in Ad,
         Calculator!Begin(t, op, w, p)
  PROVE  /\ storageTask' \in [Slot -> CalculatorTask] /\ TasksHaveTabs'
         /\ ReadingsOwn => ReadingsOwn'
<1>1. PICK k : k = [Calculator!Done EXCEPT !.op = op, !.tab = w, !.page = p]
  OBVIOUS
<1>2. k \in CalculatorTask /\ k.op = op /\ k.tab = w /\ k.page = p /\ k.read = Calculator!NoEntries
  BY <1>1, NothingIsOwn DEF CalculatorTask, Calculator!Done
<1>3. storageTask' = [storageTask EXCEPT ![t] = k]
  BY <1>1 DEF Calculator!Begin
<1>. QED BY <1>2, <1>3, OneTask, NothingIsOwn

LEMMA TaskDone ==
  ASSUME CalculatorInv, NEW t \in Slot, Calculator!End(t)
  PROVE  /\ storageTask' \in [Slot -> CalculatorTask] /\ TasksHaveTabs'
         /\ ReadingsOwn => ReadingsOwn'
BY OneTask, NothingIsOwn DEF Calculator!End

\* A step that changes the calculator of one tab, which the user or a task holds
\* for the page p.
LEMMA OneCalculator ==
  ASSUME CalculatorInv, NEW w \in Tab, NEW p \in Calculator!Page, NEW c \in Calculator!Calc,
         calc' = [calc EXCEPT ![w] = c], Calculator!Cross(w, p), UNCHANGED active,
         Calculator!Own(calc[w], p) => Calculator!Own(c, p)
  PROVE  /\ calc' \in [Tab -> Calculator!Calc] /\ crossed' \in BOOLEAN
         /\ ~crossed' => ~crossed /\ (TabsOwn => TabsOwn')
<1>1. /\ calc' \in [Tab -> Calculator!Calc] /\ calc'[w] = c
      /\ \A v \in Tab \ {w} : calc'[v] = calc[v]
  BY DEF CalculatorInv, CalculatorTypes
<1>2. /\ crossed' \in BOOLEAN
      /\ ~crossed' => ~crossed /\ active[w] = Calculator!Key(p)
  BY DEF Calculator!Cross, Calculator!Stays, CalculatorInv, CalculatorTypes
<1>3. active[w] = Calculator!Key(p) /\ active[w] # Blank => active[w] = p
  BY DEF Calculator!Key
<1>. QED BY <1>1, <1>2, <1>3 DEF TabsOwn

LEMMA HydrateKeeps ==
  ASSUME CalculatorInv, NEW t \in Slot, NEW w \in Tab, NEW p \in Calculator!Page,
         Calculator!Hydrate(t, w, p)
  PROVE  CalculatorInv'
<1>. USE DEF Calculator!Hydrate, Calculator!Set
<1>1. UNCHANGED <<entries, crossed>>
  OBVIOUS
<1>2. CASE p \notin Ad
  <2>1. /\ active' = [active EXCEPT ![w] = Blank] /\ lastAd' = [lastAd EXCEPT ![w] = p]
        /\ UNCHANGED <<calc, storageTask>>
    BY <1>2, AdAssumption DEF Calculator!Key
  <2>2. CalculatorTypes'
    BY <1>1, <2>1 DEF CalculatorInv, CalculatorTypes
  <2>3. TabsOwn => TabsOwn'
    BY <2>1 DEF CalculatorInv, CalculatorTypes, TabsOwn
  <2>. QED BY <1>1, <2>1, <2>2, <2>3 DEF CalculatorInv, TasksHaveTabs, ReadingsOwn
<1>3. CASE p \in Ad /\ active[w] = p
  <2>1. lastAd' = [lastAd EXCEPT ![w] = p] /\ UNCHANGED <<calc, active, storageTask>>
    BY <1>3, AdAssumption DEF Calculator!Key
  <2>2. CalculatorTypes'
    BY <1>1, <2>1 DEF CalculatorInv, CalculatorTypes
  <2>. QED BY <1>1, <2>1, <2>2 DEF CalculatorInv, TasksHaveTabs, ReadingsOwn, TabsOwn
<1>4. CASE p \in Ad /\ active[w] # p
  <2>1. /\ calc' = [calc EXCEPT ![w] = Calculator!Empty]
        /\ active' = [active EXCEPT ![w] = p]
        /\ Calculator!Begin(t, "hydrate", w, p) /\ UNCHANGED lastAd
    BY <1>4, AdAssumption DEF Calculator!Key
  <2>2. /\ storageTask' \in [Slot -> CalculatorTask] /\ TasksHaveTabs'
        /\ ReadingsOwn => ReadingsOwn'
    BY <1>4, <2>1, TaskBegins DEF AdTasks
  <2>3. CalculatorTypes'
    BY <1>1, <1>4, <2>1, <2>2, NothingIsOwn DEF CalculatorInv, CalculatorTypes
  <2>4. TabsOwn => TabsOwn'
    BY <2>1, NothingIsOwn DEF CalculatorInv, CalculatorTypes, TabsOwn
  <2>. QED BY <1>1, <2>2, <2>3, <2>4 DEF CalculatorInv
<1>. QED BY <1>2, <1>3, <1>4

LEMMA StorageReadKeeps ==
  ASSUME CalculatorInv, NEW t \in Slot, Calculator!StorageRead(t)
  PROVE  CalculatorInv'
<1>1. UNCHANGED <<calc, active, lastAd, entries, crossed>>
  BY DEF Calculator!StorageRead
<1>2. PICK op \in {"hydrated", "saving", "clearing"}, found \in [Ad -> Entry] :
        /\ Calculator!Read(t, op, found) /\ storageTask[t].op \in {"hydrate", "save", "clear"}
        /\ AllOwn(entries) => AllOwn(found)
  <2>1. entries \in [Ad -> Entry]
    BY DEF CalculatorInv, CalculatorTypes
  <2>2. CASE storageTask[t].op = "hydrate"
    <3>1. PICK found : found = [Calculator!NoEntries EXCEPT ![storageTask[t].page]
                                  = entries[storageTask[t].page]]
      OBVIOUS
    <3>2. storageTask[t].page \in Ad
      BY <2>2 DEF CalculatorInv, TasksHaveTabs, AdTasks
    <3>3. found \in [Ad -> Entry] /\ (AllOwn(entries) => AllOwn(found))
      BY <2>1, <3>1, <3>2, NothingIsOwn DEF AllOwn, Calculator!NoEntries
    <3>. QED BY <2>2, <3>1, <3>3 DEF Calculator!StorageRead, Calculator!At
  <2>. QED BY <2>1, <2>2 DEF Calculator!StorageRead, Calculator!At
<1>3. PICK k : k = [storageTask[t] EXCEPT !.op = op, !.read = found]
  OBVIOUS
<1>4. /\ k \in CalculatorTask /\ k.op = op /\ k.read = found
      /\ k.tab = storageTask[t].tab /\ k.page = storageTask[t].page
  BY <1>2, <1>3 DEF CalculatorInv, CalculatorTypes, CalculatorTask, AdTasks
<1>5. k.tab \in Tab /\ k.page \in Calculator!Page /\ k.page \in Ad
  BY <1>2, <1>4 DEF CalculatorInv, TasksHaveTabs, AdTasks
<1>6. storageTask' = [storageTask EXCEPT ![t] = k]
  BY <1>2, <1>3 DEF Calculator!Read
<1>7. /\ storageTask' \in [Slot -> CalculatorTask] /\ TasksHaveTabs'
      /\ ReadingsOwn /\ AllOwn(k.read) => ReadingsOwn'
  BY <1>4, <1>5, <1>6, OneTask
<1>. QED BY <1>1, <1>2, <1>4, <1>7 DEF CalculatorInv, CalculatorTypes, TabsOwn

LEMMA HydratedKeeps ==
  ASSUME CalculatorInv, NEW t \in Slot, Calculator!Hydrated(t)
  PROVE  CalculatorInv'
<1>1. PICK w \in Tab, p \in Ad : w = storageTask[t].tab /\ p = storageTask[t].page
  BY DEF Calculator!Hydrated, Calculator!At, CalculatorInv, TasksHaveTabs, AdTasks
<1>2. PICK e \in Entry : e = storageTask[t].read[p]
  BY DEF CalculatorInv, CalculatorTypes, CalculatorTask
<1>3. /\ Calculator!End(t) /\ lastAd' = [lastAd EXCEPT ![w] = p]
      /\ calc' = IF e = Blank THEN calc ELSE [calc EXCEPT ![w] = e]
      /\ Calculator!Cross(w, p) /\ UNCHANGED <<active, entries>>
  BY <1>1, <1>2 DEF Calculator!Hydrated, Calculator!Set
<1>4. p \in Calculator!Page
  BY DEF Calculator!Page
<1>5. /\ crossed' \in BOOLEAN /\ calc' \in [Tab -> Calculator!Calc]
      /\ ~crossed' => ~crossed /\ (TabsOwn /\ ReadingsOwn => TabsOwn')
  <2>1. CASE e = Blank
    BY <1>3, <2>1 DEF Calculator!Cross, CalculatorInv, CalculatorTypes, TabsOwn
  <2>2. CASE e # Blank
    <3>1. e \in Calculator!Calc /\ (ReadingsOwn => Calculator!Own(e, p))
      BY <1>2, <2>2 DEF Entry, ReadingsOwn, AllOwn
    <3>2. CASE Calculator!Own(e, p)
      BY <1>3, <1>4, <2>2, <3>1, <3>2, OneCalculator
    <3>3. CASE ~Calculator!Own(e, p)
      BY <1>3, <2>2, <3>1, <3>3 DEF Calculator!Cross, CalculatorInv, CalculatorTypes
    <3>. QED BY <3>2, <3>3
  <2>. QED BY <2>1, <2>2
<1>6. CalculatorTypes'
  BY <1>3, <1>4, <1>5, TaskDone DEF CalculatorInv, CalculatorTypes
<1>. QED BY <1>3, <1>5, <1>6, TaskDone DEF CalculatorInv

LEMMA EntriesKeep ==
  ASSUME CalculatorInv, NEW t \in Slot,
         Calculator!Cleared(t) \/ Calculator!SaveWrite(t) \/ Calculator!Saved(t)
  PROVE  CalculatorInv'
<1>1. PICK w \in Tab, p \in Ad : w = storageTask[t].tab /\ p = storageTask[t].page
  BY DEF Calculator!Cleared, Calculator!SaveWrite, Calculator!Saved, Calculator!At, CalculatorInv,
         TasksHaveTabs, AdTasks
<1>2. p # Blank /\ Calculator!Key(p) = p
  BY AdAssumption DEF Calculator!Key
<1>3. PICK found \in [Ad -> Entry] : found = storageTask[t].read /\ (ReadingsOwn => AllOwn(found))
  BY DEF CalculatorInv, CalculatorTypes, CalculatorTask, ReadingsOwn
<1>4. /\ crossed' \in BOOLEAN /\ UNCHANGED <<calc, lastAd>>
      /\ ~crossed' => ~crossed /\ active[w] = p
  BY <1>1, <1>2 DEF Calculator!Cleared, Calculator!SaveWrite, Calculator!Saved, Calculator!Cross,
                    Calculator!Stays, CalculatorInv, CalculatorTypes
<1>5. CASE Calculator!Cleared(t)
  <2>1. /\ Calculator!End(t) /\ UNCHANGED active
        /\ entries' = IF found[p] = Blank THEN entries ELSE [found EXCEPT ![p] = Blank]
    BY <1>1, <1>3, <1>5 DEF Calculator!Cleared
  <2>2. /\ entries' \in [Ad -> Entry]
        /\ AllOwn(entries) /\ AllOwn(found) => AllOwn(entries')
    BY <2>1 DEF CalculatorInv, CalculatorTypes, Entry, AllOwn
  <2>3. CalculatorTypes'
    BY <1>4, <2>1, <2>2, TaskDone DEF CalculatorInv, CalculatorTypes
  <2>. QED BY <1>3, <1>4, <2>1, <2>2, <2>3, TaskDone DEF CalculatorInv, TabsOwn
<1>6. CASE Calculator!SaveWrite(t)
  <2>1. /\ storageTask' = [storageTask EXCEPT ![t].op = "saved"] /\ UNCHANGED active
        /\ entries' = [found EXCEPT ![p] = calc[w]] /\ storageTask[t].op = "saving"
    BY <1>1, <1>3, <1>6 DEF Calculator!SaveWrite, Calculator!Goto, Calculator!At
  <2>2. /\ entries' \in [Ad -> Entry]
        /\ AllOwn(found) /\ Calculator!Own(calc[w], p) => AllOwn(entries')
    BY <2>1 DEF CalculatorInv, CalculatorTypes, Entry, AllOwn
  <2>3. /\ storageTask' \in [Slot -> CalculatorTask] /\ TasksHaveTabs'
        /\ ReadingsOwn => ReadingsOwn'
    <3>1. PICK k : k = [storageTask[t] EXCEPT !.op = "saved"]
      OBVIOUS
    <3>2. /\ k \in CalculatorTask /\ k.op = "saved" /\ k.read = found /\ k.tab = w /\ k.page = p
      BY <1>1, <1>3, <3>1 DEF CalculatorInv, CalculatorTypes, CalculatorTask, AdTasks
    <3>3. storageTask' = [storageTask EXCEPT ![t] = k]
      BY <2>1, <3>1
    <3>4. p \in Calculator!Page
      BY DEF Calculator!Page
    <3>. QED BY <1>3, <3>2, <3>3, <3>4, OneTask
  <2>4. CalculatorTypes'
    BY <1>4, <2>1, <2>2, <2>3 DEF CalculatorInv, CalculatorTypes
  <2>5. ~crossed' => TabsOwn' /\ AllOwn(entries)' /\ ReadingsOwn'
    BY <1>2, <1>3, <1>4, <2>1, <2>2, <2>3 DEF CalculatorInv, TabsOwn
  <2>. QED BY <2>3, <2>4, <2>5 DEF CalculatorInv
<1>7. CASE Calculator!Saved(t)
  <2>1. Calculator!End(t) /\ active' = [active EXCEPT ![w] = p] /\ UNCHANGED entries
    BY <1>1, <1>7 DEF Calculator!Saved, Calculator!Set
  <2>2. CalculatorTypes'
    BY <1>4, <2>1, TaskDone DEF CalculatorInv, CalculatorTypes
  <2>3. ~crossed' => TabsOwn'
    BY <1>4, <2>1 DEF CalculatorInv, CalculatorTypes, TabsOwn
  <2>. QED BY <1>4, <2>1, <2>2, <2>3, TaskDone DEF CalculatorInv
<1>. QED BY <1>5, <1>6, <1>7

LEMMA UserKeeps ==
  ASSUME CalculatorInv, NEW w \in Tab,
         \/ Calculator!Enter(w) \/ Calculator!PickCategory(w) \/ Calculator!StoreType(w)
         \/ \E t \in Slot : \/ Calculator!Reset(t, w) \/ Calculator!Save(t, w)
                            \/ Calculator!Suggest(t, w) \/ Calculator!StoreTypeByHand(t, w)
  PROVE  CalculatorInv'
<1>1. PICK p \in Calculator!Page : p = lastAd[w]
  BY DEF CalculatorInv, CalculatorTypes
<1>2. calc[w] \in Calculator!Calc
  BY DEF CalculatorInv, CalculatorTypes
<1>3. CASE Calculator!Enter(w) \/ Calculator!PickCategory(w)
  <2>1. PICK c \in Calculator!Calc :
          /\ calc' = [calc EXCEPT ![w] = c]
          /\ Calculator!Own(calc[w], p) => Calculator!Own(c, p)
    <3>1. CASE Calculator!Enter(w)
      <4>1. PICK c : c = [calc[w] EXCEPT !.input = p]
        OBVIOUS
      <4>2. c \in Calculator!Calc /\ (Calculator!Own(calc[w], p) => Calculator!Own(c, p))
        BY <1>2, <4>1 DEF Calculator!Calc, Calculator!Own
      <4>3. calc' = [calc EXCEPT ![w] = c]
        BY <1>1, <3>1, <4>1 DEF Calculator!Enter
      <4>. QED BY <4>2, <4>3
    <3>2. CASE Calculator!PickCategory(w)
      <4>1. PICK c : c = [calc[w] EXCEPT !.category = p]
        OBVIOUS
      <4>2. c \in Calculator!Calc /\ (Calculator!Own(calc[w], p) => Calculator!Own(c, p))
        BY <1>2, <4>1 DEF Calculator!Calc, Calculator!Own
      <4>3. calc' = [calc EXCEPT ![w] = c]
        BY <1>1, <3>2, <4>1 DEF Calculator!PickCategory
      <4>. QED BY <4>2, <4>3
    <3>. QED BY <1>3, <3>1, <3>2
  <2>2. Calculator!Cross(w, p) /\ UNCHANGED <<active, lastAd, entries, storageTask>>
    BY <1>1, <1>3 DEF Calculator!Enter, Calculator!PickCategory
  <2>. QED BY <2>1, <2>2, OneCalculator
       DEF CalculatorInv, CalculatorTypes, TasksHaveTabs, ReadingsOwn
<1>4. CASE Calculator!StoreType(w)
  <2>1. PICK c : c = [calc[w] EXCEPT !.category = Blank]
    OBVIOUS
  <2>2. /\ c \in Calculator!Calc
        /\ \A a : Calculator!Own(calc[w], a) => Calculator!Own(c, a)
    BY <1>2, <2>1 DEF Calculator!Calc, Calculator!Own
  <2>3. /\ calc' = [calc EXCEPT ![w] = c]
        /\ UNCHANGED <<active, lastAd, entries, storageTask, crossed>>
    BY <1>4, <2>1 DEF Calculator!StoreType
  <2>. QED BY <2>2, <2>3 DEF CalculatorInv, CalculatorTypes, TasksHaveTabs, ReadingsOwn, TabsOwn
<1>5. ASSUME NEW t \in Slot, Calculator!Reset(t, w) PROVE CalculatorInv'
  <2>1. /\ calc' = [calc EXCEPT ![w] = Calculator!Empty] /\ Calculator!Cross(w, p)
        /\ (p \notin Ad /\ UNCHANGED storageTask) \/ (p \in Ad /\ Calculator!Begin(t, "clear", w, p))
        /\ UNCHANGED <<active, lastAd, entries>>
    BY <1>1, <1>5, AdAssumption DEF Calculator!Reset, Calculator!Set, Calculator!Key
  <2>2. /\ storageTask' \in [Slot -> CalculatorTask] /\ TasksHaveTabs'
        /\ ReadingsOwn => ReadingsOwn'
    <3>1. CASE UNCHANGED storageTask
      BY <3>1 DEF CalculatorInv, CalculatorTypes, TasksHaveTabs, ReadingsOwn
    <3>2. CASE p \in Ad /\ Calculator!Begin(t, "clear", w, p)
      BY <3>2, TaskBegins DEF AdTasks
    <3>. QED BY <2>1, <3>1, <3>2
  <2>3. /\ calc' \in [Tab -> Calculator!Calc] /\ crossed' \in BOOLEAN
        /\ ~crossed' => ~crossed /\ (TabsOwn => TabsOwn')
    BY <2>1, OneCalculator, NothingIsOwn
  <2>. QED BY <2>1, <2>2, <2>3 DEF CalculatorInv, CalculatorTypes
<1>6. ASSUME NEW t \in Slot,
             Calculator!Save(t, w) \/ Calculator!Suggest(t, w) \/ Calculator!StoreTypeByHand(t, w)
      PROVE  CalculatorInv'
  <2>1. PICK op \in {"save", "suggest", "category"} :
          Calculator!Begin(t, op, w, p) /\ (op = "save" => p \in Ad)
    BY <1>1, <1>6 DEF Calculator!Save, Calculator!Suggest, Calculator!StoreTypeByHand,
        Calculator!Key
  <2>2. UNCHANGED <<calc, active, lastAd, entries, crossed>>
    BY <1>6 DEF Calculator!Save, Calculator!Suggest, Calculator!StoreTypeByHand
  <2>3. /\ storageTask' \in [Slot -> CalculatorTask] /\ TasksHaveTabs'
        /\ ReadingsOwn => ReadingsOwn'
    BY <2>1, TaskBegins DEF AdTasks
  <2>. QED BY <2>2, <2>3 DEF CalculatorInv, CalculatorTypes, TabsOwn
<1>. QED BY <1>3, <1>4, <1>5, <1>6

LEMMA CategoryTasksKeep ==
  ASSUME CalculatorInv, NEW t \in Slot,
         Calculator!NoSuggestion(t) \/ Calculator!Suggested(t) \/ Calculator!Recategorized(t)
  PROVE  CalculatorInv'
<1>1. /\ Calculator!End(t) /\ UNCHANGED <<active, lastAd, entries>>
  BY DEF Calculator!NoSuggestion, Calculator!Suggested, Calculator!Recategorized
<1>2. CASE UNCHANGED <<calc, crossed>>
  BY <1>1, <1>2, TaskDone DEF CalculatorInv, CalculatorTypes, TabsOwn
<1>3. CASE Calculator!Suggested(t) \/ Calculator!Recategorized(t)
  <2>1. PICK w \in Tab, p \in Calculator!Page : w = storageTask[t].tab /\ p = storageTask[t].page
    BY <1>3 DEF Calculator!Suggested, Calculator!Recategorized, Calculator!At, CalculatorInv,
                TasksHaveTabs
  <2>2. calc[w] \in Calculator!Calc /\ calc' \in {[calc EXCEPT ![w] = calc[w]],
             [calc EXCEPT ![w].category = p], [calc EXCEPT ![w].category = Blank]}
    BY <1>3, <2>1 DEF Calculator!Suggested, Calculator!Recategorized, CalculatorInv,
        CalculatorTypes
  <2>3. PICK c \in Calculator!Calc :
          /\ calc' = [calc EXCEPT ![w] = c]
          /\ Calculator!Own(calc[w], p) => Calculator!Own(c, p)
    <3>1. PICK c, d : c = [calc[w] EXCEPT !.category = p] /\ d = [calc[w] EXCEPT !.category = Blank]
      OBVIOUS
    <3>2. /\ c \in Calculator!Calc /\ (Calculator!Own(calc[w], p) => Calculator!Own(c, p))
          /\ d \in Calculator!Calc /\ (Calculator!Own(calc[w], p) => Calculator!Own(d, p))
      BY <2>2, <3>1 DEF Calculator!Calc, Calculator!Own
    <3>3. calc' \in {[calc EXCEPT ![w] = calc[w]], [calc EXCEPT ![w] = c], [calc EXCEPT ![w] = d]}
      BY <2>2, <3>1
    <3>. QED BY <2>2, <3>2, <3>3
  <2>4. Calculator!Cross(w, p)
    BY <1>3, <2>1 DEF Calculator!Suggested, Calculator!Recategorized
  <2>5. /\ calc' \in [Tab -> Calculator!Calc] /\ crossed' \in BOOLEAN
        /\ ~crossed' => ~crossed /\ (TabsOwn => TabsOwn')
    BY <1>1, <2>3, <2>4, OneCalculator
  <2>. QED BY <1>1, <2>5, TaskDone DEF CalculatorInv, CalculatorTypes
<1>. QED BY <1>2, <1>3 DEF Calculator!NoSuggestion

LEMMA CalculatorNext == CalculatorInv /\ [Calculator!Next]_calcVars => CalculatorInv'
<1> SUFFICES ASSUME CalculatorInv, [Calculator!Next]_calcVars PROVE CalculatorInv'
  OBVIOUS
<1>1. ASSUME NEW t \in Slot, Calculator!Step(t) PROVE CalculatorInv'
  BY <1>1, StorageReadKeeps, HydratedKeeps, EntriesKeep, CategoryTasksKeep, UserKeeps,
      HydrateKeeps
     DEF Calculator!Step
<1>2. ASSUME NEW w \in Tab,
             Calculator!Enter(w) \/ Calculator!PickCategory(w) \/ Calculator!StoreType(w)
      PROVE  CalculatorInv'
  BY <1>2, UserKeeps
<1>3. CASE Calculator!Quiet \/ UNCHANGED calcVars
  BY <1>3 DEF Calculator!Quiet, Calculator!vars, calcVars, CalculatorInv, CalculatorTypes,
              TasksHaveTabs, TabsOwn, ReadingsOwn
<1>. QED BY <1>1, <1>2, <1>3 DEF Calculator!Next
-----------------------------------------------------------------------------
(* The fee category.                                                       *)

CategoryWaiter == [op : {"suggest", "type", "modal", "gone"}, type : Type \cup {None}]
CatalogLine == [at : {"free", "sent", "ok", "failed"}, queue : Seq(CategoryWaiter)]
CategoryTask ==
  [op : {"idle", "suggest", "picker", "pick"}, type : Type \cup {None}, row : Fees \cup {None}]
PickerState == [at : {"closed", "loading", "list", "error"}, type : Type \cup {None}]

CategoryTypes ==
  /\ storeType \in Type /\ labelled \in BOOLEAN
  /\ category \in Fees \cup {None, Typed}
  /\ chosen \in Fees \cup {None} /\ suggestion \in Fees \cup {None}
  /\ load \in [Load -> CatalogLine] /\ waiting \in Load \cup {None}
  /\ asked \in [Slot -> CategoryTask] /\ picker \in PickerState
  /\ staleRow \in BOOLEAN

\* Only a request in flight is waited for, and whoever waits is told.
CatalogFits ==
  /\ \A l \in Load : load[l].at = "free" <=> load[l].queue = <<>>
  /\ waiting # None => load[waiting].at = "sent"

\* Somebody of the kind op waits in a queue.
Waits(q, op) == \E i \in DOMAIN q : q[i].op = op
Somebody(op) == \E l \in Load : Waits(load[l].queue, op)
PickerWaits == picker.at = "loading" => Somebody("modal")

\* What has been suggested is the breadcrumb's match for its type.
Matched(f) == f \in Fees /\ f = Category!BestMatch(path, f.type)
SuggestionsFit ==
  /\ suggestion # None => Matched(suggestion)
  /\ source = "auto" => Matched(category)

\* One request is in flight, and the catalog's state is that request's.
OneLoad ==
  \A l \in Load :
    load[l].at # "free" =>
      /\ \A m \in Load : load[m].at # "free" => m = l
      /\ load[l].at = "sent" => status = "loading"
      /\ load[l].at = "ok" => status = "ready"
      /\ load[l].at = "failed" => status = "error"

\* A row about to be applied is of the type of the store.
PicksFit ==
  /\ picker.at = "list" => status = "ready"
  /\ \A t \in Slot :
       asked[t].op = "pick" =>
         /\ status = "ready" /\ picker.at \in {"closed", "list"}
         /\ asked[t].row \in Fees /\ asked[t].row.type = storeType

\* The last to look a fee up again does so for the type of the store.
LastType(q, type) ==
  \A i \in DOMAIN q :
    q[i].op = "type" /\ (\A j \in DOMAIN q : j > i => q[j].op # "type") => q[i].type = type
AllLast(type) == \A l \in Load : LastType(load[l].queue, type)
FeeFits ==
  /\ AllLast(storeType)
  /\ category \in Fees /\ ~Somebody("type") => category.type = storeType

CategoryInv ==
  /\ CategoryTypes /\ CatalogFits /\ PickerWaits /\ SuggestionsFit
  /\ ~staleRow => OneLoad /\ PicksFit /\ FeeFits

\* What joins and leaves a queue, and what a waiter who has gone leaves.
LEMMA Joined ==
  ASSUME NEW q \in Seq(CategoryWaiter), NEW w \in CategoryWaiter, NEW op, NEW type
  PROVE  /\ Append(q, w) \in Seq(CategoryWaiter) /\ Append(q, w) # <<>>
         /\ Waits(Append(q, w), op) <=> Waits(q, op) \/ w.op = op
         /\ w.op # "type" /\ LastType(q, type) => LastType(Append(q, w), type)
         /\ w.op = "type" /\ w.type = type => LastType(Append(q, w), type)
<1>1. /\ Append(q, w) \in Seq(CategoryWaiter) /\ Append(q, w) # <<>>
      /\ DOMAIN Append(q, w) = 1..(Len(q) + 1) /\ DOMAIN q = 1..Len(q) /\ Len(q) \in Nat
      /\ Append(q, w)[Len(q) + 1] = w
      /\ \A i \in DOMAIN q : Append(q, w)[i] = q[i]
  OBVIOUS
<1>. HIDE DEF CategoryWaiter
<1>2. PICK s : s = Append(q, w)
  OBVIOUS
<1>3. PICK n : n = Len(q) + 1 /\ n \in Nat
  BY <1>1
<1>4. /\ DOMAIN s = DOMAIN q \cup {n} /\ n \in DOMAIN s /\ n \notin DOMAIN q /\ s[n] = w
      /\ \A i \in DOMAIN q : s[i] = q[i] /\ n > i
  BY <1>1, <1>2, <1>3
<1>5. Waits(s, op) <=> Waits(q, op) \/ w.op = op
  BY <1>4 DEF Waits
<1>6. w.op # "type" /\ LastType(q, type) => LastType(s, type)
  BY <1>4 DEF LastType
<1>7. w.op = "type" /\ w.type = type => LastType(s, type)
  BY <1>4 DEF LastType
<1>. QED BY <1>1, <1>2, <1>5, <1>6, <1>7

LEMMA Told ==
  ASSUME NEW q \in Seq(CategoryWaiter), q # <<>>
  PROVE  /\ \A op : Waits(q, op) => Head(q).op = op \/ Waits(Tail(q), op)
         /\ \A type : LastType(q, type) => LastType(Tail(q), type)
         /\ \A type : LastType(q, type) /\ ~Waits(Tail(q), "type") /\ Head(q).op = "type" =>
                        Head(q).type = type
<1>1. PICK n : n = Len(q) - 1 /\ n \in Nat /\ DOMAIN q = 1..(n + 1) /\ 1 \in DOMAIN q
  OBVIOUS
<1>. Tail(q) \in Seq(CategoryWaiter)
  OBVIOUS
<1>2. PICK s : s = Tail(q)
  OBVIOUS
<1>3. DOMAIN s = 1..n /\ \A i \in 1..n : s[i] = q[i + 1]
  BY <1>1, <1>2
<1>4. Head(q) = q[1] /\ q[1] \in CategoryWaiter
  BY <1>1
<1>5. ASSUME NEW op, Waits(q, op) PROVE q[1].op = op \/ Waits(s, op)
  <2>1. PICK i \in DOMAIN q : q[i].op = op
    BY <1>5 DEF Waits
  <2>2. CASE i # 1
    <3>1. i - 1 \in DOMAIN s /\ s[i - 1] = q[i]
      BY <1>1, <1>3, <2>2
    <3>. QED BY <2>1, <3>1 DEF Waits
  <2>. QED BY <2>1, <2>2
<1>6. ASSUME NEW type, LastType(q, type) PROVE LastType(s, type)
  <2> SUFFICES ASSUME NEW i \in DOMAIN s, s[i].op = "type",
                      \A j \in DOMAIN s : j > i => s[j].op # "type"
               PROVE  s[i].type = type
    BY DEF LastType
  <2>1. i + 1 \in DOMAIN q /\ q[i + 1] = s[i] /\ i \in Nat
    BY <1>1, <1>3
  <2>2. ASSUME NEW j \in DOMAIN q, j > i + 1 PROVE q[j].op # "type"
    <3>1. j - 1 \in DOMAIN s /\ s[j - 1] = q[j] /\ j - 1 > i
      BY <1>1, <1>3, <2>1, <2>2
    <3>. QED BY <3>1
  <2>. QED BY <1>6, <2>1, <2>2 DEF LastType
<1>7. ASSUME NEW type, LastType(q, type), ~Waits(s, "type"), q[1].op = "type"
      PROVE  q[1].type = type
  <2>1. ASSUME NEW j \in DOMAIN q, j > 1 PROVE q[j].op # "type"
    <3>1. j - 1 \in DOMAIN s /\ s[j - 1] = q[j]
      BY <1>1, <1>3, <2>1
    <3>. QED BY <1>7, <3>1 DEF Waits
  <2>. QED BY <1>1, <1>7, <2>1 DEF LastType
<1>. QED BY <1>2, <1>4, <1>5, <1>6, <1>7

LEMMA LeftAlone ==
  ASSUME CategoryTypes
  PROVE  /\ Category!Left \in [Load -> CatalogLine]
         /\ \A l \in Load :
              /\ Category!Left[l].at = load[l].at
              /\ Category!Left[l].queue = <<>> <=> load[l].queue = <<>>
              /\ Waits(Category!Left[l].queue, "type") <=> Waits(load[l].queue, "type")
              /\ \A type : LastType(load[l].queue, type) =>
                             LastType(Category!Left[l].queue, type)
<1>1. ASSUME NEW m \in Load
      PROVE  /\ Category!Left[m] \in CatalogLine /\ Category!Left[m].at = load[m].at
             /\ DOMAIN Category!Left[m].queue = DOMAIN load[m].queue
             /\ \A i \in DOMAIN load[m].queue :
                  \/ Category!Left[m].queue[i] = load[m].queue[i]
                  \/ /\ load[m].queue[i].op # "type" /\ Category!Left[m].queue[i].op = "gone"
  <2>1. PICK k \in CatalogLine : k = load[m]
    BY DEF CategoryTypes
  <2>2. PICK q : q = [i \in DOMAIN k.queue |->
           IF k.queue[i].op = "modal" THEN Category!Waiter("gone", None) ELSE k.queue[i]]
    OBVIOUS
  <2>3. k.queue \in Seq(CategoryWaiter) /\ k.at \in {"free", "sent", "ok", "failed"}
    BY DEF CatalogLine
  <2>4. DOMAIN q = 1..Len(k.queue) /\ \A i \in DOMAIN q : k.queue[i] \in CategoryWaiter
    BY <2>2, <2>3
  <2>5. \A i \in DOMAIN q :
          \/ q[i] = k.queue[i]
          \/ k.queue[i].op = "modal" /\ q[i] = Category!Waiter("gone", None)
    BY <2>2
  <2>6. Category!Waiter("gone", None) \in CategoryWaiter /\ Category!Waiter("gone", None).op = "gone"
    BY DEF Category!Waiter, CategoryWaiter
  <2>7. q \in Seq(CategoryWaiter)
    BY <2>2, <2>3, <2>4, <2>5, <2>6
  <2>8. Category!Left[m] = [at |-> k.at, queue |-> q]
    BY <2>1, <2>2 DEF Category!Left, Category!Line
  <2>. QED BY <2>1, <2>2, <2>3, <2>4, <2>5, <2>6, <2>7, <2>8 DEF CatalogLine
<1>2. Category!Left \in [Load -> CatalogLine]
  BY <1>1 DEF Category!Left
<1>3. ASSUME NEW l \in Load
      PROVE  /\ Category!Left[l].queue = <<>> <=> load[l].queue = <<>>
             /\ Waits(Category!Left[l].queue, "type") <=> Waits(load[l].queue, "type")
             /\ \A type : LastType(load[l].queue, type) => LastType(Category!Left[l].queue, type)
  <2>1. PICK q : q = Category!Left[l].queue
    OBVIOUS
  <2>2. PICK r \in Seq(CategoryWaiter) : r = load[l].queue
    BY DEF CategoryTypes, CatalogLine
  <2>3. /\ DOMAIN q = DOMAIN r
        /\ \A i \in DOMAIN r : q[i] = r[i] \/ (r[i].op # "type" /\ q[i].op = "gone")
    BY <1>1, <2>1, <2>2
  <2>4. q \in Seq(CategoryWaiter)
    BY <1>2, <2>1 DEF CatalogLine
  <2>5. q = <<>> <=> r = <<>>
    BY <2>2, <2>3, <2>4
  <2>6. Waits(q, "type") <=> Waits(r, "type")
    BY <2>3 DEF Waits
  <2>7. ASSUME NEW type PROVE LastType(r, type) => LastType(q, type)
    BY <2>3 DEF LastType
  <2>. QED BY <2>1, <2>2, <2>5, <2>6, <2>7
<1>. QED BY <1>1, <1>2, <1>3

LEMMA MatchFits ==
  ASSUME NEW labels, NEW type
  PROVE  Category!BestMatch(labels, type) \in Category!Rows(type) \cup {None}
BY DEF Category!BestMatch

\* A nonempty set of natural numbers has a least one: < is well-founded.
LEMMA LeastNatural ==
  ASSUME NEW S \in SUBSET Nat, S # {}
  PROVE  \E x \in S : \A y \in S : x <= y
<1> DEFINE R == OpToRel(<, Nat)
<1>1. IsWellFoundedOn(R, Nat)
  BY NatLessThanWellFounded
<1>2. \A x, y \in Nat : <<x, y>> \in R <=> x < y
  BY DEF OpToRel
<1> HIDE DEF R
<1>3. PICK x \in S : \A y \in S : ~(<<y, x>> \in R)
  BY <1>1, WFMin
<1>4. ASSUME NEW y \in S PROVE x <= y
  <2>1. x \in Nat /\ y \in Nat
    OBVIOUS
  <2>2. ~(y < x)
    BY <1>2, <1>3, <2>1
  <2>. QED BY <2>1, <2>2
<1>. QED BY <1>4

LEMMA MatchingFits ==
  ASSUME NEW f \in Fees \cup {None}, NEW type
  PROVE  Category!Matching(type, f) \in Category!Rows(type) \cup {None}
<1>1. PICK near : near = {g \in Category!Rows(type) : f # None /\ g.primary = f.primary
                                                          /\ g.secondary = f.secondary}
  OBVIOUS
<1>2. near \subseteq Category!Rows(type) /\ near \subseteq Fees
  BY <1>1 DEF Category!Rows
<1>3. CASE near = {}
  BY <1>1, <1>3 DEF Category!Matching
<1>4. CASE near # {}
  <2>1. PICK S : S = {g.name : g \in near}
    OBVIOUS
  <2>2. S \in SUBSET Nat /\ S # {}
    BY <1>2, <1>4, <2>1, FeesAssumption
  <2>3. \E x \in S : \A y \in S : x <= y
    BY <2>2, LeastNatural
  <2>4. Category!Least(S) \in S
    BY <2>3 DEF Category!Least
  <2>5. PICK name : name = IF \E g \in near : g.name = f.name THEN f.name ELSE Category!Least(S)
    OBVIOUS
  <2>6. \E g \in near : g.name = name
    BY <2>1, <2>4, <2>5
  <2>7. Category!Matching(type, f) = CHOOSE g \in near : g.name = name
    BY <1>1, <1>4, <2>1, <2>5 DEF Category!Matching
  <2>8. (CHOOSE g \in near : g.name = name) \in near
    BY <2>6
  <2>. QED BY <1>2, <2>7, <2>8
<1>. QED BY <1>3, <1>4

\* A waiter has joined a queue of the catalog.
Queued(w) ==
  /\ load' \in [Load -> CatalogLine] /\ waiting' \in Load \cup {None} /\ staleRow' \in BOOLEAN
  /\ CatalogFits'
  /\ staleRow => staleRow'
  /\ ~staleRow' => OneLoad'
  /\ \A op : Somebody(op)' <=> w.op = op \/ Somebody(op)
  /\ w.op # "type" => \A type : AllLast(type) => AllLast(type)'
  /\ w.op = "type" /\ ~staleRow' => AllLast(w.type)'

LEMMA RequestQueues ==
  ASSUME CategoryInv, \A l \in Load : load[l].at \in {"free", "sent"},
         NEW w \in CategoryWaiter, Category!Fetch(w)
  PROVE  Queued(w) /\ status' = "loading"
<1>1. PICK l \in Load : /\ load[l] = Category!Free /\ waiting' = l
                        /\ load' = [load EXCEPT ![l] = Category!Line("sent", <<w>>)]
  BY DEF Category!Fetch
<1>2. PICK k : k = Category!Line("sent", <<w>>)
  OBVIOUS
<1>3. k \in CatalogLine /\ k.at = "sent" /\ k.queue = <<w>> /\ k.queue # <<>>
  BY <1>2 DEF Category!Line, CatalogLine
<1>4. /\ load[l].at = "free" /\ load[l].queue = <<>>
      /\ load' \in [Load -> CatalogLine] /\ load'[l] = k
      /\ \A m \in Load \ {l} : load'[m] = load[m]
  BY <1>1, <1>2, <1>3 DEF CategoryInv, CategoryTypes, Category!Free
<1>5. /\ status' = "loading" /\ staleRow' \in BOOLEAN
      /\ staleRow => staleRow'
      /\ ~staleRow' => Category!Flying = {}
  BY DEF Category!Fetch, CategoryInv, CategoryTypes
<1>6. CatalogFits'
  BY <1>1, <1>3, <1>4 DEF CatalogFits, CategoryInv
<1>7. ~staleRow' => \A m \in Load : load[m].at = "free" /\ load[m].queue = <<>>
  BY <1>5 DEF Category!Flying, CategoryInv, CatalogFits
<1>8. ~staleRow' => OneLoad'
  <2> SUFFICES ASSUME ~staleRow', NEW m \in Load, load'[m].at # "free"
               PROVE  /\ \A n \in Load : load'[n].at # "free" => n = m
                      /\ load'[m].at = "sent"
    BY <1>5 DEF OneLoad
  <2>. QED BY <1>3, <1>4, <1>7
<1>9. \A op : Waits(k.queue, op) <=> w.op = op
  BY <1>3 DEF Waits
<1>10. \A op : ~Waits(load[l].queue, op)
  BY <1>4 DEF Waits
<1>11. ASSUME NEW op PROVE Somebody(op)' <=> w.op = op \/ Somebody(op)
  BY <1>4, <1>9, <1>10 DEF Somebody
<1>12. w.op # "type" => \A type : LastType(k.queue, type)
  BY <1>3 DEF LastType
<1>13. LastType(k.queue, w.type)
  BY <1>3 DEF LastType
<1>14. w.op # "type" => \A type : AllLast(type) => AllLast(type)'
  BY <1>4, <1>12 DEF AllLast
<1>15. ~staleRow' => AllLast(w.type)'
  <2>1. \A m \in Load : ~staleRow' => LastType(load[m].queue, w.type)
    BY <1>7 DEF LastType
  <2>. QED BY <1>4, <1>13, <2>1 DEF AllLast
<1>16. load' \in [Load -> CatalogLine] /\ waiting' \in Load \cup {None} /\ staleRow' \in BOOLEAN
  BY <1>1, <1>4, <1>5
<1>. QED BY <1>5, <1>6, <1>8, <1>11, <1>14, <1>15, <1>16, Zenon DEF Queued

LEMMA WaitQueues ==
  ASSUME CategoryInv, \A l \in Load : load[l].at \in {"free", "sent"},
         NEW w \in CategoryWaiter, Category!Wait(w)
  PROVE  /\ Queued(w) /\ status # "ready"
         /\ status' # "ready"
<1>1. CASE waiting = None
  BY <1>1, RequestQueues DEF Category!Wait
<1>2. CASE waiting # None
  <2>1. PICK q \in Seq(CategoryWaiter) : q = load[waiting].queue
    BY <1>2 DEF CategoryInv, CategoryTypes, CatalogLine
  <2>2. PICK k : k = Category!Line("sent", Append(q, w))
    OBVIOUS
  <2>3. Append(q, w) \in Seq(CategoryWaiter) /\ Append(q, w) # <<>>
    BY Joined
  <2>4. k \in CatalogLine /\ k.at = "sent" /\ k.queue = Append(q, w) /\ k.queue # <<>>
    BY <2>2, <2>3 DEF Category!Line, CatalogLine
  <2>5. waiting \in Load /\ load[waiting].at = "sent"
    BY <1>2 DEF CategoryInv, CategoryTypes, CatalogFits
  <2>6. /\ load' = [load EXCEPT ![waiting] = k] /\ status # "ready"
        /\ UNCHANGED <<status, waiting, staleRow>>
    BY <1>2, <2>1, <2>2, <2>5 DEF Category!Wait, Category!Line
  <2>7. /\ load' \in [Load -> CatalogLine] /\ load'[waiting] = k
        /\ \A m \in Load \ {waiting} : load'[m] = load[m]
    BY <2>4, <2>5, <2>6 DEF CategoryInv, CategoryTypes
  <2>8. CatalogFits'
    BY <2>4, <2>5, <2>6, <2>7 DEF CatalogFits, CategoryInv
  <2>9. ~staleRow => OneLoad'
    BY <2>4, <2>5, <2>6, <2>7 DEF OneLoad, CategoryInv
  <2>10. ASSUME NEW op PROVE Waits(k.queue, op) <=> Waits(q, op) \/ w.op = op
    BY <2>4, Joined
  <2>11. ASSUME NEW op PROVE Somebody(op)' <=> w.op = op \/ Somebody(op)
    BY <2>1, <2>5, <2>7, <2>10 DEF Somebody
  <2>12. ASSUME NEW type, w.op # "type", AllLast(type) PROVE AllLast(type)'
    <3>1. LastType(k.queue, type)
      <4>1. LastType(q, type)
        BY <2>1, <2>5, <2>12 DEF AllLast
      <4>2. LastType(Append(q, w), type)
        BY <2>4, <2>12, <4>1, Joined
      <4>. QED BY <2>4, <4>2
    <3>. QED BY <2>7, <2>12, <3>1 DEF AllLast
  <2>13. w.op = "type" /\ ~staleRow => AllLast(w.type)'
    <3> SUFFICES ASSUME w.op = "type", ~staleRow, NEW m \in Load
                 PROVE  LastType(load'[m].queue, w.type)
      BY DEF AllLast
    <3>1. LastType(k.queue, w.type)
      <4>1. PICK type : type = w.type
        OBVIOUS
      <4>2. LastType(Append(q, w), type)
        BY <4>1, Joined
      <4>. QED BY <2>4, <4>1, <4>2
    <3>2. m # waiting => load[m].queue = <<>>
      BY <2>5 DEF CategoryInv, OneLoad, CatalogFits
    <3>. QED BY <2>7, <3>1, <3>2 DEF LastType
  <2>. QED BY <2>5, <2>6, <2>7, <2>8, <2>9, <2>11, <2>12, <2>13
           DEF Queued, CategoryInv, CategoryTypes
<1>. QED BY <1>1, <1>2

\* What goes on when a waiter of the catalog is told.
LEMMA ProceedFits ==
  ASSUME CategoryInv, NEW w \in CategoryWaiter, NEW ok \in BOOLEAN, Category!Proceed(w, ok),
         UNCHANGED path
  PROVE  /\ category' \in Fees \cup {None, Typed} /\ labelled' \in BOOLEAN
         /\ chosen' \in Fees \cup {None} /\ suggestion' \in Fees \cup {None}
         /\ storeType' = storeType /\ picker' \in PickerState
         /\ SuggestionsFit'
         /\ w.op = "type" /\ category' \in Fees => category'.type = w.type
         /\ w.op # "type" => category' = category \/ category'.type = storeType
         /\ \/ picker' = picker /\ w.op # "modal"
            \/ picker'.at \in {"closed", IF ok THEN "list" ELSE "error"}
<1>1. PICK f : f = Category!BestMatch(path, storeType)
  OBVIOUS
<1>2. f \in Category!Rows(storeType) \cup {None}
  BY <1>1, MatchFits
<1>3. f # None => f \in Fees /\ f.type = storeType /\ Matched(f)
  BY <1>1, <1>2 DEF Category!Rows, Matched
<1>4. PICK g : g = Category!Matching(w.type, chosen)
  OBVIOUS
<1>5. g # None => g \in Fees /\ g.type = w.type
  BY <1>4, MatchingFits DEF Category!Rows, CategoryInv, CategoryTypes
<1>6. CASE w.op = "suggest"
  <2>1. Category!Suggest(w.type, ok) /\ UNCHANGED picker
    BY <1>6 DEF Category!Proceed
  <2>2. /\ category' = category \/ (f # None /\ category' = f)
        /\ chosen' = chosen \/ (f # None /\ chosen' = f)
        /\ labelled' \in BOOLEAN /\ storeType' = storeType
        /\ suggestion' = suggestion \/ suggestion' = f
        /\ (category' = category /\ source' = source) \/ (f # None /\ category' = f)
    BY <1>1, <2>1 DEF Category!Suggest, Category!Apply, Category!calculator,
       Category!suggested, CategoryInv, CategoryTypes
  <2>3. SuggestionsFit'
    BY <1>3, <2>2 DEF SuggestionsFit, Matched, CategoryInv
  <2>. QED BY <1>3, <1>6, <2>1, <2>2, <2>3 DEF CategoryInv, CategoryTypes
<1>7. CASE w.op = "type"
  <2>1. Category!Recategorized(w.type, ok) /\ UNCHANGED picker
    BY <1>7 DEF Category!Proceed
  <2>2. /\ category' = None \/ (g # None /\ category' = g)
        /\ chosen' = None \/ (g # None /\ chosen' = g)
        /\ labelled' \in BOOLEAN /\ storeType' = storeType /\ suggestion' = suggestion
        /\ source' \in {"manual", None}
    BY <1>4, <2>1 DEF Category!Recategorized, Category!Apply, Category!Clear,
       Category!suggested
  <2>3. SuggestionsFit'
    BY <2>2, FeesAssumption DEF SuggestionsFit, Matched, CategoryInv
  <2>. QED BY <1>5, <1>7, <2>1, <2>2, <2>3, FeesAssumption DEF CategoryInv, CategoryTypes
<1>8. CASE w.op \in {"modal", "gone"}
  <2>1. UNCHANGED <<storeType, category, labelled, chosen, source, suggestion>>
    BY <1>8 DEF Category!Proceed, Category!calculator, Category!suggested
  <2>2. SuggestionsFit'
    BY <2>1 DEF SuggestionsFit, Matched, CategoryInv
  <2>3. /\ picker' \in PickerState
        /\ \/ picker' = picker /\ w.op # "modal"
           \/ picker'.at \in {"closed", IF ok THEN "list" ELSE "error"}
    BY <1>8 DEF Category!Proceed, Category!Closed, Category!Rendered, PickerState,
       CategoryInv, CategoryTypes
  <2>. QED BY <1>8, <2>1, <2>2, <2>3 DEF CategoryInv, CategoryTypes
<1>. QED BY <1>6, <1>7, <1>8 DEF CategoryWaiter

LEMMA ResumeFits ==
  ASSUME CategoryInv, NEW l \in Load, Category!Resume(l)
  PROVE  CategoryInv'
<1>1. PICK q \in Seq(CategoryWaiter) : q = load[l].queue /\ q # <<>>
  BY DEF CategoryInv, CategoryTypes, CatalogLine, CatalogFits, Category!Resume
<1>2. Head(q) \in CategoryWaiter /\ Tail(q) \in Seq(CategoryWaiter)
  BY <1>1
<1>3. PICK w \in CategoryWaiter : w = Head(q)
  BY <1>2
<1>4. PICK ok \in BOOLEAN : ok = (load[l].at = "ok")
  OBVIOUS
<1>5. /\ load[l].at = IF ok THEN "ok" ELSE "failed"
      /\ Category!Proceed(w, ok) /\ UNCHANGED <<path, status, waiting, asked, staleRow>>
  BY <1>1, <1>3, <1>4 DEF Category!Resume
<1>6. PICK k \in CatalogLine :
        /\ load' = [load EXCEPT ![l] = k]
        /\ k.queue = Tail(q)
        /\ IF Tail(q) = <<>> THEN k.at = "free" ELSE k.at = load[l].at
  <2>1. PICK k : k = IF Tail(q) = <<>> THEN Category!Free ELSE Category!Line(load[l].at, Tail(q))
    OBVIOUS
  <2>2. load' = [load EXCEPT ![l] = k]
    BY <1>1, <2>1 DEF Category!Resume
  <2>3. load[l].at \in {"free", "sent", "ok", "failed"}
    BY <1>5
  <2>4. Tail(q) = <<>> => k \in CatalogLine /\ k.queue = <<>> /\ k.at = "free"
    BY <1>2, <2>1 DEF Category!Free, CatalogLine
  <2>5. Tail(q) # <<>> => k \in CatalogLine /\ k.queue = Tail(q) /\ k.at = load[l].at
    BY <1>2, <2>1, <2>3 DEF Category!Line, CatalogLine
  <2>. QED BY <2>2, <2>4, <2>5
<1>7. /\ load' \in [Load -> CatalogLine] /\ load'[l] = k
      /\ \A m \in Load \ {l} : load'[m] = load[m]
  BY <1>6 DEF CategoryInv, CategoryTypes
<1>8. CatalogFits'
  BY <1>5, <1>6, <1>7 DEF CategoryInv, CatalogFits, CategoryTypes
<1>9. CategoryTypes'
  BY <1>5, <1>7, ProceedFits DEF CategoryInv, CategoryTypes
<1>10. ASSUME NEW op, Somebody(op) PROVE w.op = op \/ Somebody(op)'
  <2>1. PICK m \in Load : Waits(load[m].queue, op)
    BY <1>10 DEF Somebody
  <2>2. m = l => w.op = op \/ Waits(k.queue, op)
    BY <1>1, <1>3, <1>6, <2>1, Told
  <2>. QED BY <1>7, <2>1, <2>2 DEF Somebody
<1>11. PickerWaits'
  BY <1>5, <1>10, ProceedFits DEF PickerWaits, CategoryInv
<1>12. ASSUME ~staleRow PROVE OneLoad'
  BY <1>5, <1>6, <1>7, <1>12 DEF OneLoad, CategoryInv
<1>13. ASSUME ~staleRow PROVE PicksFit'
  <2>1. status = IF ok THEN "ready" ELSE "error"
    BY <1>5, <1>13 DEF OneLoad, CategoryInv
  <2>. QED BY <1>5, <1>13, <2>1, ProceedFits DEF PicksFit, CategoryInv
<1>14. ASSUME ~staleRow PROVE FeeFits'
  <2>1. storeType' = storeType /\ AllLast(storeType)
    BY <1>5, <1>14, ProceedFits DEF FeeFits, CategoryInv
  <2>2. /\ LastType(Tail(q), storeType)
        /\ ~Waits(Tail(q), "type") /\ w.op = "type" => w.type = storeType
    BY <1>1, <1>3, <2>1, Told DEF AllLast
  <2>3. AllLast(storeType)'
    BY <1>6, <1>7, <2>1, <2>2 DEF AllLast
  <2>4. ASSUME category' \in Fees, ~Somebody("type")' PROVE category'.type = storeType
    <3>1. ~Waits(Tail(q), "type")
      BY <1>6, <1>7, <2>4 DEF Somebody
    <3>2. CASE w.op = "type"
      BY <1>5, <2>2, <2>4, <3>1, <3>2, ProceedFits
    <3>3. CASE w.op # "type"
      <4>1. ~Somebody("type")
        BY <1>10, <2>4, <3>3
      <4>. QED BY <1>5, <1>14, <2>4, <3>3, <4>1, ProceedFits DEF FeeFits, CategoryInv
    <3>. QED BY <3>2, <3>3
  <2>. QED BY <2>1, <2>3, <2>4 DEF FeeFits
<1>15. SuggestionsFit'
  BY <1>5, ProceedFits
<1>. QED BY <1>5, <1>8, <1>9, <1>11, <1>12, <1>13, <1>14, <1>15 DEF CategoryInv

LEMMA RequestsEnd ==
  ASSUME CategoryInv, NEW t \in Slot, Category!End(t)
  PROVE  /\ asked' \in [Slot -> CategoryTask]
         /\ \A u \in Slot : asked'[u] = asked[u] \/ asked'[u].op = "idle"
<1>1. Category!Idle \in CategoryTask /\ Category!Idle.op = "idle"
  BY DEF Category!Idle, CategoryTask
<1>. QED BY <1>1 DEF Category!End, CategoryInv, CategoryTypes

LEMMA RequestsBegin ==
  ASSUME CategoryInv, NEW t \in Slot, NEW op \in {"suggest", "picker", "pick"},
         NEW row \in Fees \cup {None}, Category!Begin(t, op, row)
  PROVE  /\ asked' \in [Slot -> CategoryTask]
         /\ \A u \in Slot : \/ asked'[u] = asked[u]
                            \/ asked'[u].op = op /\ asked'[u].row = row
<1>1. PICK k : k = [op |-> op, type |-> storeType, row |-> row]
  OBVIOUS
<1>2. k \in CategoryTask /\ k.op = op /\ k.row = row
  BY <1>1 DEF CategoryTask, CategoryInv, CategoryTypes
<1>3. asked' = [asked EXCEPT ![t] = k]
  BY <1>1 DEF Category!Begin
<1>. QED BY <1>2, <1>3 DEF CategoryInv, CategoryTypes

\* While the catalog is ready nobody waits for it.
LEMMA ReadyIsFree ==
  ASSUME CategoryInv, \A l \in Load : load[l].at \in {"free", "sent"}, ~staleRow,
         status = "ready"
  PROVE  /\ \A l \in Load : load[l].queue = <<>>
         /\ \A op : ~Somebody(op)
         /\ \A type : AllLast(type)
<1>1. \A l \in Load : load[l].queue = <<>>
  BY DEF CategoryInv, OneLoad, CatalogFits
<1>. QED BY <1>1 DEF Somebody, AllLast, Waits, LastType

\* Unless somebody looks a fee up again, any type is the last.
LEMMA NobodyIsLast == ~Somebody("type") => \A type : AllLast(type)
BY DEF Somebody, AllLast, Waits, LastType

\* Steps of the content script's promises and timers.
LEMMA AnswerFits ==
  ASSUME CategoryInv, \A l \in Load : load[l].at \in {"free", "sent"},
         NEW l \in Load, Category!Answer(l)
  PROVE  CategoryInv'
<1>1. PICK ok \in BOOLEAN :
        /\ load' = [load EXCEPT ![l] = Category!Line(IF ok THEN "ok" ELSE "failed", load[l].queue)]
        /\ status' = IF ok THEN "ready" ELSE "error"
  BY DEF Category!Answer
<1>2. /\ load[l].at = "sent" /\ waiting' = None
      /\ UNCHANGED <<storeType, category, labelled, chosen, source, suggestion, path, asked,
                     picker, staleRow>>
  BY DEF Category!Answer, Category!Flying, Category!calculator, Category!suggested
<1>3. PICK k \in CatalogLine : /\ load' = [load EXCEPT ![l] = k] /\ k.queue = load[l].queue
                               /\ k.at = IF ok THEN "ok" ELSE "failed"
  <2>1. PICK k : k = Category!Line(IF ok THEN "ok" ELSE "failed", load[l].queue)
    OBVIOUS
  <2>2. load[l].queue \in Seq(CategoryWaiter)
    BY DEF CategoryInv, CategoryTypes, CatalogLine
  <2>3. k \in CatalogLine /\ k.queue = load[l].queue /\ k.at = IF ok THEN "ok" ELSE "failed"
    BY <2>1, <2>2 DEF Category!Line, CatalogLine
  <2>. QED BY <1>1, <2>1, <2>3
<1>4. /\ load' \in [Load -> CatalogLine] /\ load'[l] = k
      /\ \A m \in Load \ {l} : load'[m] = load[m]
  BY <1>3 DEF CategoryInv, CategoryTypes
<1>5. \A m \in Load : load'[m].queue = load[m].queue
  BY <1>3, <1>4
<1>6. /\ \A op : Somebody(op)' <=> Somebody(op)
      /\ \A type : AllLast(type)' <=> AllLast(type)
  BY <1>5 DEF Somebody, AllLast
<1>7. CategoryTypes' /\ CatalogFits' /\ PickerWaits' /\ SuggestionsFit'
  <2>1. CategoryTypes'
    BY <1>2, <1>4 DEF CategoryInv, CategoryTypes
  <2>2. CatalogFits'
    BY <1>2, <1>3, <1>4 DEF CategoryInv, CatalogFits
  <2>3. PickerWaits'
    BY <1>2, <1>6 DEF CategoryInv, PickerWaits
  <2>4. SuggestionsFit'
    BY <1>2 DEF CategoryInv, SuggestionsFit, Matched
  <2>. QED BY <2>1, <2>2, <2>3, <2>4
<1>8. ASSUME ~staleRow PROVE OneLoad' /\ PicksFit' /\ FeeFits'
  <2>1. status = "loading"
    BY <1>2, <1>8 DEF CategoryInv, OneLoad
  <2>2. OneLoad'
    BY <1>1, <1>2, <1>3, <1>4, <1>8 DEF CategoryInv, OneLoad
  <2>3. PicksFit'
    BY <1>2, <1>8, <2>1 DEF CategoryInv, PicksFit
  <2>4. AllLast(storeType)'
    <3>1. AllLast(storeType)
      BY <1>8 DEF CategoryInv, FeeFits
    <3>. QED BY <1>2, <1>5, <3>1 DEF AllLast
  <2>5. FeeFits'
    BY <1>2, <1>6, <1>8, <2>4 DEF CategoryInv, FeeFits
  <2>. QED BY <2>2, <2>3, <2>5
<1>. QED BY <1>2, <1>7, <1>8 DEF CategoryInv

\* A step that changes no more than what is asked of the background script, and
\* whether the calculator is saved.
LEMMA AskedFits ==
  ASSUME CategoryInv, asked' \in [Slot -> CategoryTask],
         \A u \in Slot : asked'[u] = asked[u] \/ asked'[u].op # "pick",
         UNCHANGED <<storeType, category, labelled, chosen, source, suggestion, path,
                     status, waiting, load, picker, staleRow>>
  PROVE  CategoryInv'
<1>1. CategoryTypes' /\ CatalogFits' /\ PickerWaits' /\ SuggestionsFit'
  BY DEF CategoryInv, CategoryTypes, CatalogFits, PickerWaits, Somebody, SuggestionsFit, Matched
<1>2. ASSUME ~staleRow PROVE OneLoad' /\ PicksFit' /\ FeeFits'
  <2>1. OneLoad' /\ FeeFits'
    BY <1>2 DEF CategoryInv, OneLoad, FeeFits, AllLast, Somebody
  <2>2. PicksFit'
    BY <1>2 DEF CategoryInv, PicksFit
  <2>. QED BY <2>1, <2>2
<1>. QED BY <1>1, <1>2 DEF CategoryInv

LEMMA AskFitsCategory ==
  ASSUME CategoryInv, NEW t \in Slot,
         Category!AskSuggestion(t) \/ Category!OpenPicker(t) \/ Category!NoLogin(t)
  PROVE  CategoryInv'
<1>. USE DEF Category!calculator, Category!suggested, Category!catalog
<1>1. CASE Category!AskSuggestion(t)
  BY <1>1, RequestsBegin, AskedFits DEF Category!AskSuggestion
<1>2. CASE Category!OpenPicker(t)
  BY <1>2, RequestsBegin, AskedFits DEF Category!OpenPicker
<1>3. CASE Category!NoLogin(t)
  BY <1>3, RequestsEnd, AskedFits DEF Category!NoLogin
<1>. QED BY <1>1, <1>2, <1>3

\* One who waits for the picker or for a suggestion leaves the fee as it is.
LEMMA FeeKeeps ==
  ASSUME CategoryInv, NEW w, w.op # "type", Queued(w), UNCHANGED <<storeType, category>>,
         ~staleRow'
  PROVE  ~staleRow /\ OneLoad' /\ FeeFits'
<1>1. ~staleRow /\ OneLoad'
  BY DEF Queued
<1>2. AllLast(storeType)
  BY <1>1 DEF CategoryInv, FeeFits
<1>3. AllLast(storeType)'
  <2>1. PICK type : type = storeType
    OBVIOUS
  <2>2. AllLast(type)'
    BY <1>2, <2>1 DEF Queued
  <2>. QED BY <2>1, <2>2 DEF AllLast
<1>4. Somebody("type")' <=> Somebody("type")
  BY DEF Queued
<1>. QED BY <1>1, <1>3, <1>4 DEF CategoryInv, FeeFits

LEMMA StateKnownFits ==
  ASSUME CategoryInv, \A l \in Load : load[l].at \in {"free", "sent"},
         NEW t \in Slot, Category!StateKnown(t)
  PROVE  CategoryInv'
<1>. USE DEF Category!calculator, Category!suggested, Category!catalog
<1>1. /\ asked' \in [Slot -> CategoryTask]
      /\ \A u \in Slot : asked'[u] = asked[u] \/ asked'[u].op = "idle"
      /\ UNCHANGED path
  BY RequestsEnd DEF Category!StateKnown
<1>2. PICK w : w = Category!Waiter("suggest", asked[t].type)
  OBVIOUS
<1>3. w \in CategoryWaiter /\ w.op = "suggest" /\ w.type = asked[t].type
  BY <1>2 DEF Category!Waiter, CategoryWaiter, CategoryInv, CategoryTypes, CategoryTask
<1>4. CASE /\ Category!Suggest(asked[t].type, TRUE)
           /\ UNCHANGED <<status, waiting, load, picker, staleRow>>
  <2>1. Category!Proceed(w, TRUE)
    BY <1>3, <1>4 DEF Category!Proceed
  <2>2. CategoryTypes' /\ SuggestionsFit' /\ CatalogFits' /\ PickerWaits'
    <3>1. CategoryTypes'
      BY <1>1, <1>3, <1>4, <2>1, ProceedFits DEF CategoryInv, CategoryTypes
    <3>2. SuggestionsFit'
      BY <1>1, <1>3, <2>1, ProceedFits
    <3>3. CatalogFits' /\ PickerWaits'
      BY <1>4 DEF CategoryInv, CatalogFits, PickerWaits, Somebody
    <3>. QED BY <3>1, <3>2, <3>3
  <2>3. /\ storeType' = storeType
        /\ category' = category \/ category'.type = storeType
    BY <1>1, <1>3, <2>1, ProceedFits
  <2>4. ASSUME ~staleRow PROVE OneLoad' /\ PicksFit' /\ FeeFits'
    <3>1. OneLoad' /\ PicksFit'
      BY <1>1, <1>4, <2>3, <2>4 DEF CategoryInv, OneLoad, PicksFit
    <3>2. AllLast(storeType)' /\ (Somebody("type")' <=> Somebody("type"))
      BY <1>4, <2>3, <2>4 DEF CategoryInv, FeeFits, AllLast, Somebody
    <3>3. FeeFits'
      BY <2>3, <2>4, <3>2 DEF CategoryInv, FeeFits
    <3>. QED BY <3>1, <3>3
  <2>. QED BY <1>4, <2>2, <2>4 DEF CategoryInv
<1>5. CASE /\ Category!Wait(w)
           /\ UNCHANGED <<storeType, category, labelled, chosen, source, suggestion, picker>>
  <2>1. Queued(w) /\ status # "ready"
    BY <1>3, <1>5, WaitQueues
  <2>2. CategoryTypes' /\ SuggestionsFit' /\ CatalogFits' /\ PickerWaits'
    <3>1. CategoryTypes'
      BY <1>1, <1>5, <2>1 DEF CategoryInv, CategoryTypes, Queued
    <3>2. SuggestionsFit'
      BY <1>1, <1>5 DEF CategoryInv, SuggestionsFit, Matched
    <3>3. CatalogFits' /\ PickerWaits'
      BY <1>5, <2>1 DEF CategoryInv, PickerWaits, Queued
    <3>. QED BY <3>1, <3>2, <3>3
  <2>3. ASSUME ~staleRow' PROVE OneLoad' /\ PicksFit' /\ FeeFits'
    <3>1. ~staleRow /\ OneLoad' /\ FeeFits'
      BY <1>3, <1>5, <2>1, <2>3, FeeKeeps
    <3>. QED BY <1>1, <1>5, <2>1, <3>1 DEF CategoryInv, PicksFit
  <2>. QED BY <2>2, <2>3 DEF CategoryInv
<1>. QED BY <1>2, <1>4, <1>5 DEF Category!StateKnown

LEMMA ShowPickerFits ==
  ASSUME CategoryInv, \A l \in Load : load[l].at \in {"free", "sent"},
         NEW t \in Slot, Category!ShowPicker(t)
  PROVE  CategoryInv'
<1>. USE DEF Category!calculator, Category!suggested, Category!catalog
<1>1. /\ asked' \in [Slot -> CategoryTask]
      /\ \A u \in Slot : asked'[u] = asked[u] \/ asked'[u].op = "idle"
      /\ UNCHANGED <<path, storeType, category, labelled, chosen, source, suggestion>>
  BY RequestsEnd DEF Category!ShowPicker
<1>2. PICK w : w = Category!Waiter("modal", None)
  OBVIOUS
<1>3. w \in CategoryWaiter /\ w.op = "modal"
  BY <1>2 DEF Category!Waiter, CategoryWaiter
<1>4. SuggestionsFit'
  BY <1>1 DEF CategoryInv, SuggestionsFit, Matched
<1>5. CASE /\ status = "ready" /\ picker' = Category!Rendered(TRUE)
           /\ UNCHANGED <<status, waiting, load, staleRow>>
  <2>1. picker' \in PickerState /\ picker'.at = "list"
    BY <1>5 DEF Category!Rendered, PickerState, CategoryInv, CategoryTypes
  <2>2. CategoryTypes' /\ CatalogFits' /\ PickerWaits'
    BY <1>1, <1>5, <2>1 DEF CategoryInv, CategoryTypes, CatalogFits, PickerWaits
  <2>3. ASSUME ~staleRow PROVE OneLoad' /\ PicksFit' /\ FeeFits'
    <3>1. OneLoad' /\ FeeFits'
      BY <1>1, <1>5, <2>3 DEF CategoryInv, OneLoad, FeeFits, AllLast, Somebody
    <3>2. PicksFit'
      BY <1>1, <1>5, <2>1, <2>3 DEF CategoryInv, PicksFit
    <3>. QED BY <3>1, <3>2
  <2>. QED BY <1>4, <1>5, <2>2, <2>3 DEF CategoryInv
<1>6. CASE Category!Wait(w) /\ picker' = [at |-> "loading", type |-> storeType]
  <2>1. Queued(w) /\ status # "ready"
    BY <1>3, <1>6, WaitQueues
  <2>2. picker' \in PickerState /\ picker'.at = "loading"
    BY <1>6 DEF PickerState, CategoryInv, CategoryTypes
  <2>3. CategoryTypes' /\ CatalogFits' /\ PickerWaits'
    <3>1. CategoryTypes'
      BY <1>1, <2>1, <2>2 DEF CategoryInv, CategoryTypes, Queued
    <3>2. CatalogFits' /\ PickerWaits'
      BY <1>3, <2>1 DEF PickerWaits, Queued
    <3>. QED BY <3>1, <3>2
  <2>4. ASSUME ~staleRow' PROVE OneLoad' /\ PicksFit' /\ FeeFits'
    <3>1. ~staleRow /\ OneLoad' /\ FeeFits'
      BY <1>1, <1>3, <2>1, <2>4, FeeKeeps
    <3>. QED BY <1>1, <2>1, <2>2, <3>1 DEF CategoryInv, PicksFit
  <2>. QED BY <1>4, <2>3, <2>4 DEF CategoryInv
<1>. QED BY <1>2, <1>5, <1>6 DEF Category!ShowPicker

LEMMA RetryFits ==
  ASSUME CategoryInv, \A l \in Load : load[l].at \in {"free", "sent"}, Category!Retry
  PROVE  CategoryInv'
<1>. USE DEF Category!calculator, Category!suggested, Category!catalog
<1>1. /\ picker.at = "error" /\ picker' = [at |-> "loading", type |-> picker.type]
      /\ UNCHANGED <<path, storeType, category, labelled, chosen, source, suggestion, asked>>
  BY DEF Category!Retry
<1>2. PICK w : w = Category!Waiter("modal", None)
  OBVIOUS
<1>3. w \in CategoryWaiter /\ w.op = "modal"
  BY <1>2 DEF Category!Waiter, CategoryWaiter
<1>4. Queued(w)
  BY <1>2, <1>3, RequestQueues DEF Category!Retry
<1>5. picker' \in PickerState /\ picker'.at = "loading"
  BY <1>1 DEF PickerState, CategoryInv, CategoryTypes
<1>6. CategoryTypes' /\ CatalogFits' /\ PickerWaits' /\ SuggestionsFit'
  <2>1. CategoryTypes'
    BY <1>1, <1>4, <1>5 DEF CategoryInv, CategoryTypes, Queued
  <2>2. CatalogFits' /\ PickerWaits'
    BY <1>3, <1>4 DEF PickerWaits, Queued
  <2>3. SuggestionsFit'
    BY <1>1 DEF CategoryInv, SuggestionsFit, Matched
  <2>. QED BY <2>1, <2>2, <2>3
<1>7. ASSUME ~staleRow' PROVE OneLoad' /\ PicksFit' /\ FeeFits'
  <2>1. ~staleRow /\ OneLoad' /\ FeeFits'
    BY <1>1, <1>3, <1>4, <1>7, FeeKeeps
  <2>. QED BY <1>1, <1>5, <2>1 DEF CategoryInv, PicksFit
<1>. QED BY <1>6, <1>7 DEF CategoryInv

\* Steps of the user.
LEMMA BrowseFits ==
  ASSUME CategoryInv, Category!Browse
  PROVE  CategoryInv'
<1>1. /\ picker.at = "list" /\ picker' = Category!Rendered(TRUE)
      /\ UNCHANGED <<storeType, category, labelled, chosen, source, suggestion, path,
                     status, waiting, load, asked, staleRow>>
  BY DEF Category!Browse, Category!calculator, Category!suggested, Category!catalog
<1>2. picker' \in PickerState /\ picker'.at = "list"
  BY <1>1 DEF Category!Rendered, PickerState, CategoryInv, CategoryTypes
<1>3. CategoryTypes' /\ CatalogFits' /\ PickerWaits' /\ SuggestionsFit'
  BY <1>1, <1>2 DEF CategoryInv, CategoryTypes, CatalogFits, PickerWaits, SuggestionsFit, Matched
<1>4. ASSUME ~staleRow PROVE OneLoad' /\ PicksFit' /\ FeeFits'
  <2>1. OneLoad' /\ FeeFits'
    BY <1>1, <1>4 DEF CategoryInv, OneLoad, FeeFits, AllLast, Somebody
  <2>2. PicksFit'
    BY <1>1, <1>2, <1>4 DEF CategoryInv, PicksFit
  <2>. QED BY <2>1, <2>2
<1>. QED BY <1>1, <1>3, <1>4 DEF CategoryInv

LEMMA ClosePickerFits ==
  ASSUME CategoryInv, Category!ClosePicker
  PROVE  CategoryInv'
<1>1. /\ picker' = Category!Closed /\ load' = Category!Left
      /\ UNCHANGED <<storeType, category, labelled, chosen, source, suggestion, path,
                     status, waiting, asked, staleRow>>
  BY DEF Category!ClosePicker, Category!calculator, Category!suggested
<1>2. picker' \in PickerState /\ picker'.at = "closed"
  BY <1>1 DEF Category!Closed, PickerState
<1>3. CategoryTypes
  BY DEF CategoryInv
<1>4. /\ load' \in [Load -> CatalogLine]
      /\ \A l \in Load : /\ load'[l].at = load[l].at
                         /\ load'[l].queue = <<>> <=> load[l].queue = <<>>
                         /\ Waits(load'[l].queue, "type") <=> Waits(load[l].queue, "type")
  BY <1>1, <1>3, LeftAlone
<1>5. CategoryTypes' /\ CatalogFits' /\ PickerWaits' /\ SuggestionsFit'
  <2>1. CategoryTypes'
    BY <1>1, <1>2, <1>3, <1>4 DEF CategoryTypes
  <2>2. CatalogFits'
    BY <1>1, <1>3, <1>4 DEF CategoryInv, CategoryTypes, CatalogFits
  <2>3. PickerWaits' /\ SuggestionsFit'
    BY <1>1, <1>2 DEF CategoryInv, PickerWaits, SuggestionsFit, Matched
  <2>. QED BY <2>1, <2>2, <2>3
<1>6. ASSUME ~staleRow PROVE OneLoad' /\ PicksFit' /\ FeeFits'
  <2>1. OneLoad'
    BY <1>1, <1>4, <1>6 DEF CategoryInv, OneLoad
  <2>2. PicksFit'
    BY <1>1, <1>2, <1>6 DEF CategoryInv, PicksFit
  <2>3. \A l \in Load : LastType(load'[l].queue, storeType)
    BY <1>1, <1>3, <1>6, LeftAlone DEF CategoryInv, FeeFits, AllLast
  <2>4. Somebody("type")' <=> Somebody("type")
    BY <1>4 DEF Somebody
  <2>5. FeeFits'
    BY <1>1, <1>6, <2>3, <2>4 DEF CategoryInv, FeeFits, AllLast
  <2>. QED BY <2>1, <2>2, <2>5
<1>. QED BY <1>1, <1>5, <1>6 DEF CategoryInv

LEMMA PickFits ==
  ASSUME CategoryInv, NEW t \in Slot, Category!Pick(t)
  PROVE  CategoryInv'
<1>1. /\ picker.at = "list" /\ picker' = Category!Closed
      /\ staleRow' = (staleRow \/ picker.type # storeType)
      /\ UNCHANGED <<storeType, category, labelled, chosen, source, suggestion, path,
                     status, waiting, load>>
  BY DEF Category!Pick, Category!calculator, Category!suggested, Category!catalog
<1>2. PICK f \in Category!Rows(picker.type) : Category!Begin(t, "pick", f)
  BY DEF Category!Pick
<1>3. f \in Fees /\ f.type = picker.type
  BY DEF Category!Rows
<1>4. /\ asked' \in [Slot -> CategoryTask]
      /\ \A u \in Slot : asked'[u] = asked[u] \/ (asked'[u].op = "pick" /\ asked'[u].row = f)
  BY <1>2, <1>3, RequestsBegin
<1>5. picker' \in PickerState /\ picker'.at = "closed"
  BY <1>1 DEF Category!Closed, PickerState
<1>6. staleRow' \in BOOLEAN /\ (~staleRow' => ~staleRow /\ f.type = storeType)
  BY <1>1, <1>3 DEF CategoryInv, CategoryTypes
<1>7. CategoryTypes' /\ CatalogFits' /\ PickerWaits' /\ SuggestionsFit'
  <2>1. CategoryTypes'
    BY <1>1, <1>4, <1>5, <1>6 DEF CategoryInv, CategoryTypes
  <2>. QED BY <1>1, <1>5, <2>1 DEF CategoryInv, CatalogFits, PickerWaits, SuggestionsFit, Matched
<1>8. ASSUME ~staleRow' PROVE OneLoad' /\ PicksFit' /\ FeeFits'
  <2>1. OneLoad' /\ FeeFits'
    BY <1>1, <1>6, <1>8 DEF CategoryInv, OneLoad, FeeFits, AllLast, Somebody
  <2>2. PicksFit'
    BY <1>1, <1>3, <1>4, <1>5, <1>6, <1>8 DEF CategoryInv, PicksFit
  <2>. QED BY <2>1, <2>2
<1>. QED BY <1>7, <1>8 DEF CategoryInv

LEMMA PickedFits ==
  ASSUME CategoryInv, NEW t \in Slot, Category!Picked(t)
  PROVE  CategoryInv'
<1>1. PICK f : f = asked[t].row
  OBVIOUS
<1>2. /\ asked[t].op = "pick" /\ category' = f /\ labelled' = TRUE /\ chosen' = f
      /\ source' = "manual"
      /\ UNCHANGED <<storeType, suggestion, path, status, waiting, load, picker, staleRow>>
  BY <1>1 DEF Category!Picked, Category!Apply, Category!suggested, Category!catalog
<1>3. /\ asked' \in [Slot -> CategoryTask]
      /\ \A u \in Slot : asked'[u] = asked[u] \/ asked'[u].op = "idle"
  BY RequestsEnd DEF Category!Picked
<1>4. f \in Fees \cup {None} /\ (~staleRow => f.type = storeType)
  BY <1>1, <1>2 DEF CategoryInv, CategoryTypes, CategoryTask, PicksFit
<1>5. CategoryTypes' /\ CatalogFits' /\ PickerWaits' /\ SuggestionsFit'
  <2>1. CategoryTypes'
    BY <1>2, <1>3, <1>4 DEF CategoryInv, CategoryTypes
  <2>. QED BY <1>2, <2>1 DEF CategoryInv, CatalogFits, PickerWaits, Somebody, SuggestionsFit,
               Matched
<1>6. ASSUME ~staleRow PROVE OneLoad' /\ PicksFit' /\ FeeFits'
  <2>1. OneLoad' /\ AllLast(storeType)'
    BY <1>2, <1>6 DEF CategoryInv, OneLoad, FeeFits, AllLast
  <2>2. PicksFit'
    BY <1>2, <1>3, <1>6 DEF CategoryInv, PicksFit
  <2>3. FeeFits'
    BY <1>2, <1>4, <1>6, <2>1 DEF FeeFits
  <2>. QED BY <2>1, <2>2, <2>3
<1>. QED BY <1>2, <1>5, <1>6 DEF CategoryInv

\* The type changes or stays, and the fee is cleared, or one of the new type.
LEMMA StoreTypeFits ==
  ASSUME CategoryInv, \A l \in Load : load[l].at \in {"free", "sent"},
         Category!StoreTypeByHand
  PROVE  CategoryInv'
<1>. USE DEF Category!calculator, Category!suggested, Category!catalog
<1>1. PICK type \in Type :
        /\ storeType' = type
        /\ \/ /\ status = "ready" /\ UNCHANGED <<suggestion, status, waiting, load>>
              /\ LET f == Category!Matching(type, chosen) IN
                 IF f # None THEN Category!Apply(f, "manual") ELSE Category!Clear
              /\ staleRow' = (staleRow \/ Category!Picking)
           \/ /\ Category!Wait(Category!Waiter("type", type))
              /\ UNCHANGED <<category, labelled, chosen, source, suggestion>>
  BY DEF Category!StoreTypeByHand
<1>2. picker = Category!Closed /\ UNCHANGED <<path, asked, picker>>
  BY DEF Category!StoreTypeByHand
<1>3. picker.at = "closed"
  BY <1>2 DEF Category!Closed
<1>4. CASE /\ status = "ready" /\ UNCHANGED <<suggestion, status, waiting, load>>
           /\ LET f == Category!Matching(type, chosen) IN
              IF f # None THEN Category!Apply(f, "manual") ELSE Category!Clear
           /\ staleRow' = (staleRow \/ Category!Picking)
  <2>1. PICK f : f = Category!Matching(type, chosen)
    OBVIOUS
  <2>2. f # None => f \in Fees /\ f.type = type
    BY <2>1, MatchingFits DEF Category!Rows, CategoryInv, CategoryTypes
  <2>3. /\ category' = None \/ (f # None /\ category' = f)
        /\ chosen' = None \/ (f # None /\ chosen' = f)
        /\ labelled' \in BOOLEAN /\ source' \in {"manual", None}
    BY <1>4, <2>1 DEF Category!Apply, Category!Clear
  <2>4. staleRow' \in BOOLEAN /\ (~staleRow' => ~staleRow /\ ~Category!Picking)
    BY <1>4 DEF CategoryInv, CategoryTypes, Category!Picking
  <2>5. CategoryTypes' /\ CatalogFits' /\ PickerWaits' /\ SuggestionsFit'
    <3>1. CategoryTypes'
      BY <1>1, <1>2, <1>4, <2>2, <2>3, <2>4 DEF CategoryInv, CategoryTypes
    <3>2. CatalogFits' /\ PickerWaits'
      BY <1>2, <1>4 DEF CategoryInv, CatalogFits, PickerWaits, Somebody
    <3>3. SuggestionsFit'
      BY <1>2, <1>4, <2>3, FeesAssumption DEF CategoryInv, SuggestionsFit, Matched
    <3>. QED BY <3>1, <3>2, <3>3
  <2>6. ASSUME ~staleRow' PROVE OneLoad' /\ PicksFit' /\ FeeFits'
    <3>1. OneLoad'
      BY <1>4, <2>4, <2>6 DEF CategoryInv, OneLoad
    <3>2. PicksFit'
      BY <1>2, <1>3, <1>4, <2>4, <2>6 DEF CategoryInv, PicksFit, Category!Picking
    <3>3. \A l \in Load : load'[l].queue = <<>>
      BY <1>4, <2>4, <2>6, ReadyIsFree
    <3>4. AllLast(storeType)'
      BY <3>3 DEF AllLast, LastType
    <3>5. FeeFits'
      BY <1>1, <2>2, <2>3, <3>4, FeesAssumption DEF FeeFits
    <3>. QED BY <3>1, <3>2, <3>5
  <2>. QED BY <2>5, <2>6 DEF CategoryInv
<1>5. CASE /\ Category!Wait(Category!Waiter("type", type))
           /\ UNCHANGED <<category, labelled, chosen, source, suggestion>>
  <2>1. PICK w : w = Category!Waiter("type", type)
    OBVIOUS
  <2>2. w \in CategoryWaiter /\ w.op = "type" /\ w.type = type
    BY <2>1 DEF Category!Waiter, CategoryWaiter
  <2>3. Queued(w) /\ status # "ready"
    BY <1>5, <2>1, <2>2, WaitQueues
  <2>4. CategoryTypes' /\ CatalogFits' /\ PickerWaits' /\ SuggestionsFit'
    <3>1. CategoryTypes'
      BY <1>1, <1>2, <1>5, <2>3 DEF CategoryInv, CategoryTypes, Queued
    <3>2. CatalogFits' /\ PickerWaits'
      BY <1>2, <1>3, <2>3 DEF PickerWaits, Queued
    <3>3. SuggestionsFit'
      BY <1>2, <1>5 DEF CategoryInv, SuggestionsFit, Matched
    <3>. QED BY <3>1, <3>2, <3>3
  <2>5. ASSUME ~staleRow' PROVE OneLoad' /\ PicksFit' /\ FeeFits'
    <3>1. ~staleRow /\ OneLoad'
      BY <2>3, <2>5 DEF Queued
    <3>2. PicksFit'
      BY <1>2, <1>3, <2>3, <3>1 DEF CategoryInv, PicksFit
    <3>3. AllLast(w.type)' /\ Somebody("type")'
      BY <2>2, <2>3, <2>5 DEF Queued
    <3>4. AllLast(storeType)'
      BY <1>1, <2>2, <3>3 DEF AllLast
    <3>. QED BY <3>1, <3>2, <3>3, <3>4 DEF FeeFits
  <2>. QED BY <2>4, <2>5 DEF CategoryInv
<1>. QED BY <1>1, <1>4, <1>5

\* The fee is cleared; the type changes only while no row is about to be applied.
LEMMA ClearFits ==
  ASSUME CategoryInv, Category!Defaults \/ Category!Reset
  PROVE  CategoryInv'
<1>. USE DEF Category!calculator, Category!suggested, Category!catalog
<1>1. /\ category' = None /\ labelled' = FALSE /\ chosen' = None /\ source' = None
      /\ storeType' \in Type /\ suggestion' \in {None, suggestion}
      /\ UNCHANGED <<path, status, waiting, load, asked, picker>>
  BY DEF Category!Defaults, Category!Reset, Category!Clear
<1>2. /\ staleRow' \in BOOLEAN
      /\ ~staleRow' => ~staleRow /\ (storeType' = storeType \/ ~Category!Underway)
  BY DEF Category!Defaults, Category!Reset, CategoryInv, CategoryTypes, Category!Underway,
         Category!Picking
<1>3. ~Category!Underway =>
        /\ \A t \in Slot : asked[t].op # "pick"
        /\ ~Somebody("type")
  BY DEF Category!Underway, Category!Picking, Somebody, Waits
<1>4. CategoryTypes' /\ CatalogFits' /\ PickerWaits' /\ SuggestionsFit'
  <2>1. CategoryTypes'
    BY <1>1, <1>2 DEF CategoryInv, CategoryTypes
  <2>2. CatalogFits' /\ PickerWaits'
    BY <1>1 DEF CategoryInv, CatalogFits, PickerWaits, Somebody
  <2>3. SuggestionsFit'
    BY <1>1, FeesAssumption DEF CategoryInv, SuggestionsFit, Matched
  <2>. QED BY <2>1, <2>2, <2>3
<1>5. ASSUME ~staleRow' PROVE OneLoad' /\ PicksFit' /\ FeeFits'
  <2>1. OneLoad'
    BY <1>1, <1>2, <1>5 DEF CategoryInv, OneLoad
  <2>2. PicksFit'
    BY <1>1, <1>2, <1>3, <1>5 DEF CategoryInv, PicksFit
  <2>3. PICK type : type = storeType'
    OBVIOUS
  <2>4. AllLast(type)
    BY <1>2, <1>3, <1>5, <2>3, NobodyIsLast DEF CategoryInv, FeeFits
  <2>5. AllLast(storeType)'
    BY <1>1, <2>3, <2>4 DEF AllLast
  <2>. QED BY <1>1, <2>1, <2>2, <2>5, FeesAssumption DEF FeeFits
<1>. QED BY <1>4, <1>5 DEF CategoryInv

LEMMA TypeFeeFits ==
  ASSUME CategoryInv, Category!TypeFee
  PROVE  CategoryInv'
<1>1. /\ category' \in {Typed, None} /\ source' \in {"manual", None}
      /\ UNCHANGED <<storeType, labelled, chosen, suggestion, path, status, waiting, load,
                     asked, picker, staleRow>>
  BY DEF Category!TypeFee, Category!suggested, Category!catalog
<1>2. CategoryTypes' /\ CatalogFits' /\ PickerWaits' /\ SuggestionsFit'
  BY <1>1, FeesAssumption DEF CategoryInv, CategoryTypes, CatalogFits, PickerWaits, Somebody,
     SuggestionsFit, Matched
<1>3. ASSUME ~staleRow PROVE OneLoad' /\ PicksFit' /\ FeeFits'
  <2>1. OneLoad' /\ PicksFit'
    BY <1>1, <1>3 DEF CategoryInv, OneLoad, PicksFit
  <2>2. FeeFits'
    BY <1>1, <1>3, FeesAssumption DEF CategoryInv, FeeFits, AllLast
  <2>. QED BY <2>1, <2>2
<1>. QED BY <1>1, <1>2, <1>3 DEF CategoryInv

LEMMA CategoryStart == Category!Init => CategoryInv
<1> SUFFICES ASSUME Category!Init PROVE CategoryInv
  OBVIOUS
<1>. USE DEF Category!Init
<1>1. /\ Category!Free \in CatalogLine /\ Category!Free.at = "free" /\ Category!Free.queue = <<>>
      /\ Category!Idle \in CategoryTask /\ Category!Idle.op = "idle"
      /\ Category!Closed \in PickerState /\ Category!Closed.at = "closed"
  BY DEF Category!Free, CatalogLine, Category!Idle, CategoryTask, Category!Closed, PickerState
<1>2. CategoryTypes
  BY <1>1 DEF CategoryTypes
<1>3. CatalogFits /\ PickerWaits /\ OneLoad /\ PicksFit
  BY <1>1 DEF CatalogFits, PickerWaits, OneLoad, PicksFit
<1>4. SuggestionsFit
  BY FeesAssumption DEF SuggestionsFit
<1>5. FeeFits
  BY <1>1, FeesAssumption DEF FeeFits, AllLast, LastType
<1>. QED BY <1>2, <1>3, <1>4, <1>5 DEF CategoryInv

LEMMA CategoryMove ==
  part = "category" /\ [PagesNext]_pagesVars => [Category!Next]_categoryVars
BY DEF PagesNext, Rest, Quiet, pagesVars

LEMMA CategoryNext == CategoryInv /\ [Category!Next]_categoryVars => CategoryInv'
<1> SUFFICES ASSUME CategoryInv, [Category!Next]_categoryVars PROVE CategoryInv'
  OBVIOUS
<1>1. CASE UNCHANGED categoryVars
  BY <1>1 DEF categoryVars, CategoryInv, CategoryTypes, CatalogFits, PickerWaits, Somebody,
     SuggestionsFit, Matched, OneLoad, PicksFit, FeeFits, AllLast
<1>2. ASSUME NEW l \in Load, Category!Resume(l) PROVE CategoryInv'
  BY <1>2, ResumeFits
<1>3. ASSUME \A l \in Load : load[l].at \in {"free", "sent"}, Category!Event
      PROVE  CategoryInv'
  <2>1. ASSUME NEW l \in Load, Category!Answer(l) PROVE CategoryInv'
    BY <1>3, <2>1, AnswerFits
  <2>2. ASSUME NEW t \in Slot,
               \/ Category!AskSuggestion(t) \/ Category!OpenPicker(t) \/ Category!NoLogin(t)
               \/ Category!StateKnown(t) \/ Category!ShowPicker(t) \/ Category!Pick(t)
               \/ Category!Picked(t)
        PROVE  CategoryInv'
    BY <1>3, <2>2, AskFitsCategory, StateKnownFits, ShowPickerFits, PickFits, PickedFits
  <2>3. ASSUME Category!Save PROVE CategoryInv'
    BY <2>3, AskedFits DEF Category!Save, Category!calculator, Category!suggested,
       Category!catalog, CategoryInv, CategoryTypes
  <2>4. ASSUME \/ Category!Retry \/ Category!Browse \/ Category!ClosePicker
               \/ Category!StoreTypeByHand \/ Category!Defaults \/ Category!Reset
               \/ Category!TypeFee
        PROVE  CategoryInv'
    BY <1>3, <2>4, RetryFits, BrowseFits, ClosePickerFits, StoreTypeFits, ClearFits, TypeFeeFits
  <2>. QED BY <1>3, <2>1, <2>2, <2>3, <2>4 DEF Category!Event
<1>. QED BY <1>1, <1>2, <1>3 DEF Category!Next

\* When nothing is under way, nobody is left to change the fee.
LEMMA CalmFits == CategoryInv => Category!CategoryFits
<1> SUFFICES ASSUME CategoryInv PROVE Category!CategoryFits
  OBVIOUS
<1>1. ASSUME Category!Calm, ~staleRow, category \in Fees PROVE category.type = storeType
  <2>1. \A l \in Load : load[l].queue = <<>>
    BY <1>1 DEF Category!Calm, Category!Free
  <2>2. ~Somebody("type")
    BY <2>1 DEF Somebody, Waits
  <2>. QED BY <1>1, <2>2 DEF CategoryInv, FeeFits
<1>2. ASSUME Category!Calm, ~staleRow, source = "auto", suggestion \in Category!Rows(storeType)
      PROVE  category = suggestion
  <2>1. suggestion # None /\ suggestion.type = storeType
    BY <1>2, FeesAssumption DEF Category!Rows
  <2>2. Matched(category) /\ Matched(suggestion)
    BY <1>2, <2>1 DEF CategoryInv, SuggestionsFit
  <2>3. category.type = storeType
    BY <1>1, <1>2, <2>2 DEF Matched
  <2>. QED BY <2>1, <2>2, <2>3 DEF Matched
<1>3. picker.at = "loading" =>
        \E l \in Load : \E i \in DOMAIN load[l].queue : load[l].queue[i].op = "modal"
  BY DEF CategoryInv, PickerWaits, Somebody, Waits
<1>. QED BY <1>1, <1>2, <1>3 DEF Category!CategoryFits

\* The fields of an ad's calculator, its saved entry and its fee are its own, however
\* pages, tabs, answers and the catalog interleave.
THEOREM TheCalculatorIsOwn == PagesSpec => []CalculatorIsOwn
<1> DEFINE Inv == /\ part = "calculator" => CalculatorInv
                  /\ part = "category" => CategoryInv
<1>1. PagesInit => Inv
  BY CalculatorStart, CategoryStart DEF PagesInit
<1>2. Inv /\ [PagesNext]_pagesVars => Inv'
  BY PartStays, CalculatorMove, CalculatorNext, CategoryMove, CategoryNext
<1>3. CalculatorInv => Calculator!CalculatorIsOwn
  BY DEF CalculatorInv, TabsOwn, AllOwn, Calculator!CalculatorIsOwn
<1>4. Inv => CalculatorIsOwn
  BY <1>3, CalmFits DEF CalculatorIsOwn
<1>. QED BY <1>1, <1>2, <1>4, PTL DEF PagesSpec
=============================================================================
