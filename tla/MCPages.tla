------------------------------ MODULE MCPages ------------------------------
(***************************************************************************)
(* Instances for TLC of what the extension's content script shows on       *)
(* Shopee's pages.  On one page only one of these parts is at work, part,  *)
(* and the others rest; PageSnapshots has two instances, one of which has  *)
(* the ROAS calculator opened and closed.  The background script's         *)
(* requests for a page's snapshot, the fee category of the calculator and  *)
(* its arithmetic are parts, too.                                          *)
(***************************************************************************)
EXTENDS PageSnapshots, TLC

CONSTANTS
  Tab, Ad, Public, Blank,               \* calculators, and the ads they are for
  Url, Single, Other, Metric, Task, MaxRetries,   \* dashboards, pages of one ad
  Shop, Total, First, More, Enough,     \* shops, and lists of their products
  Items, PageWorkers, BackgroundWorkers,
  Request, Window, Active,              \* browser tabs, asked for snapshots
  Type, Fees, Paths, Load, MaxWaiting, Typed,     \* the fee category
  ProcessingFee, PromoCap, Prices, Costs, Operations, CategoryPcts, FreeDelivery,
  Units, Revenues, Spends, Roases,
  None                                  \* nothing; what a part does without

\* Names of different kinds differ, and limits and amounts are natural numbers.
ASSUME NoneAssumption ==
  None \notin Url \cup Single \cup {Other} \cup Shop \cup Request \cup Window
            \cup Costs \cup Operations \cup Units \cup Revenues \cup Spends \cup Roases
ASSUME PageAssumption == Url \cap Single = {} /\ Other \notin Url \cup Single
ASSUME AdAssumption == Blank \notin Ad \cup {Public} /\ Public \notin Ad
ASSUME SlotAssumption == NoSlot \notin Slot
ASSUME BoundsAssumption ==
  {MaxRetries, Total, First, More, Enough, Items, PageWorkers, BackgroundWorkers} \subseteq Nat
ASSUME AmountAssumption ==
  /\ ProcessingFee \in Nat /\ PromoCap \in Nat
  /\ Prices \cup Costs \cup Operations \cup CategoryPcts \subseteq Nat
  /\ Units \cup Revenues \cup Spends \cup Roases \subseteq Nat
  /\ FreeDelivery \subseteq [pct : Nat, cap : Nat]

ASSUME FeesAssumption ==
  /\ Fees \subseteq [type : Type, primary : Nat, secondary : Nat, name : Nat]
  /\ None \notin Fees /\ None \notin Load /\ None # "auto" /\ Typed \notin Fees

VARIABLES
  part,
  calc, active, persisted, lastAd, entries, storageTask, crossed,
  address, document, readable, lastAds, activeAd, publication, stable, shown,
  rendered, retries, retry, settled, followup, watch, stop, idle, observing, lagged,
  shopPage, shopDoc, shopLast, shopQueued, shopLatest, shopCache, shopMeta, shopTask,
  script, requestAt, requestKind, pool, shopStep, loadFailed,
  at, on, tabState, pending, armed, promise, cut,
  storeType, category, labelled, chosen, source, suggestion, lastKey, saved, path,
  status, waiting, load, asked, picker, staleRow,
  input

calcVars == <<calc, active, persisted, lastAd, entries, storageTask, crossed>>
adsVars == <<address, document, readable, lastAds, activeAd, publication, stable,
             shown, rendered, retries, retry, settled, followup, watch, stop, idle,
             observing, lagged>>
shopVars == <<shopPage, shopDoc, shopLast, shopQueued, shopLatest, shopCache, shopMeta,
              shopTask>>
bridgeVars == <<script, requestAt, requestKind, pool, shopStep, loadFailed>>
snapshotVars == <<at, on, tabState, pending, armed, promise, cut>>
categoryVars == <<storeType, category, labelled, chosen, source, suggestion, lastKey,
                  saved, path, status, waiting, load, asked, picker, staleRow>>
pagesVars == <<part, vars, calcVars, adsVars, shopVars, bridgeVars, snapshotVars,
               categoryVars, input>>

\* The calculator over a product, and pages without an overlay.
Modal == INSTANCE PageSnapshots
  WITH Kind <- {"search", "product", "other"}, Clicks <- {"roas", "save"}

Calculator == INSTANCE RoasCalculator WITH last <- lastAd, task <- storageTask

Ads == INSTANCE AdsDashboard
  WITH Ad <- Single, Slot <- Task, page <- address, doc <- document, last <- lastAds,
       active <- activeAd, task <- publication

Research == INSTANCE ShopResearch
  WITH NoShop <- None, page <- shopPage, doc <- shopDoc, last <- shopLast,
       queued <- shopQueued, latest <- shopLatest, cache <- shopCache,
       meta <- shopMeta, task <- shopTask

Bridge == INSTANCE PageBridge
  WITH Request <- Slot, at <- requestAt, kind <- requestKind

Snapshots == INSTANCE SnapshotRequests
  WITH Tab <- Window, NoTab <- None, NoRequest <- None

Category == INSTANCE RoasCategory
  WITH persisted <- saved, promise <- waiting, task <- asked, modal <- picker,
       stale <- staleRow

\* Two types of stores whose categories differ, and one breadcrumb.
TwoTypes ==
  {[type |-> "star", primary |-> 1, secondary |-> 1, name |-> 1],
   [type |-> "star", primary |-> 2, secondary |-> 1, name |-> 1],
   [type |-> "non_star", primary |-> 1, secondary |-> 1, name |-> 2]}
Breadcrumb == {<<2, 1, 2>>}

\* Prices in thousands, percentages in halves.
Figures == INSTANCE RoasFigures
Surcharges == {[pct |-> 8, cap |-> 1], [pct |-> 10, cap |-> 0]}

-----------------------------------------------------------------------------
CalculatorRests ==
  /\ calc = None /\ active = None /\ persisted = None /\ lastAd = None /\ entries = None
  /\ storageTask = None /\ crossed = None
AdsRest ==
  /\ address = None /\ document = None /\ readable = None /\ lastAds = None
  /\ activeAd = None /\ publication = None /\ stable = None /\ shown = None
  /\ rendered = None /\ retries = None /\ retry = None /\ settled = None
  /\ followup = None /\ watch = None /\ stop = None /\ idle = None /\ observing = None
  /\ lagged = None
ResearchRests ==
  /\ shopPage = None /\ shopDoc = None /\ shopLast = None /\ shopQueued = None
  /\ shopLatest = None /\ shopCache = None /\ shopMeta = None /\ shopTask = None
BridgeRests ==
  /\ script = None /\ requestAt = None /\ requestKind = None /\ pool = None
  /\ shopStep = None /\ loadFailed = None
SnapshotsRest ==
  /\ at = None /\ on = None /\ tabState = None /\ pending = None /\ armed = None
  /\ promise = None /\ cut = None
CategoryRests ==
  /\ storeType = None /\ category = None /\ labelled = None /\ chosen = None
  /\ source = None /\ suggestion = None /\ lastKey = None /\ saved = None /\ path = None
  /\ status = None /\ waiting = None /\ load = None /\ asked = None /\ picker = None
  /\ staleRow = None

PagesInit ==
  /\ part \in {"browse", "modal", "calculator", "ads", "shop", "bridge", "snapshots",
               "category", "figures"}
  /\ IF part = "modal" THEN Modal!Init ELSE Init
  /\ part \notin {"browse", "modal"} => pages[1].kind = "search"
  /\ IF part = "calculator" THEN Calculator!Init ELSE CalculatorRests
  /\ IF part = "ads" THEN Ads!Init ELSE AdsRest
  /\ IF part = "shop" THEN Research!Init ELSE ResearchRests
  /\ IF part = "bridge" THEN Bridge!Init ELSE BridgeRests
  /\ IF part = "snapshots" THEN Snapshots!Init ELSE SnapshotsRest
  /\ IF part = "category" THEN Category!Init ELSE CategoryRests
  /\ IF part = "figures" THEN Figures!Init ELSE input = None

Rest(p) ==
  /\ part = p /\ UNCHANGED part
  /\ p \notin {"browse", "modal"} => UNCHANGED vars
  /\ p # "calculator" => UNCHANGED calcVars
  /\ p # "ads" => UNCHANGED adsVars
  /\ p # "shop" => UNCHANGED shopVars
  /\ p # "bridge" => UNCHANGED bridgeVars
  /\ p # "snapshots" => UNCHANGED snapshotVars
  /\ p # "category" => UNCHANGED categoryVars
  /\ p # "figures" => UNCHANGED input

\* At the bounds nothing more happens.
Quiet == UNCHANGED pagesVars

PagesNext ==
  \/ Rest("browse") /\ Next
  \/ Rest("modal") /\ Modal!Next
  \/ Rest("calculator") /\ Calculator!Next
  \/ Rest("ads") /\ Ads!Next
  \/ Rest("shop") /\ Research!Next
  \/ Rest("bridge") /\ Bridge!Next
  \/ Rest("snapshots") /\ Snapshots!Next
  \/ Rest("category") /\ Category!Next
  \/ Rest("figures") /\ Figures!Next
  \/ Quiet

PagesSpec == PagesInit /\ [][PagesNext]_pagesVars

\* Tasks are interchangeable, and so are ads and dashboards.
PagesSymmetry == Permutations(Slot) \cup Permutations(Ad)

-----------------------------------------------------------------------------
\* The calculator of an ad and its saved entry hold what was entered for it
\* (hydrateRoasCalculatorStateForSnapshot, saveRoasCalculatorStateForSnapshot); its
\* fee is one of its own type of store (applyRoasCategorySelection).
CalculatorIsOwn ==
  /\ part = "calculator" => Calculator!CalculatorIsOwn
  /\ part = "category" => Category!CategoryFits

\* A dashboard of ads shows no metric of another address unless the document
\* lagged (getStableShopeeAdsDashboard).
MetricsAreOfTheAddress == part = "ads" => Ads!MetricsAreOfTheAddress

\* A half-shown page of ads is tried again, and a dashboard is not observed for
\* ever (scheduleAdsDashboardBootstrapRetry, endAdsDashboardTransientWatch).
RetriedAndObservedInTime == part = "ads" => Ads!RetriedAndObservedInTime

\* A shop's research is shown, or its failure, once nothing is under way
\* (enrichShopSnapshot, loadMoreShopProducts).
ResearchArrives == part = "shop" => Research!ResearchArrives

\* Each product of a search gets one verdict, whoever answers (mapWithConcurrency,
\* handleEnrichmentRequest, handleEnrichSearchResults).
AnswersAreComplete == part = "bridge" => Bridge!AnswersAreComplete

\* A request that waits for a tab's snapshot has its timer and, unless another
\* took it, its entry (refreshActiveTabSnapshot, pendingSnapshotResolvers).
OpenIsTimed == part = "snapshots" => Snapshots!OpenIsTimed

\* The panel, the badges of the table and the net profit on an ad's page agree
\* (computeRoasMetrics, computeBreakEvenRoasFromCalculatorState).
FiguresAgree == part = "figures" => Figures!FiguresAgree
=============================================================================
