------------------------ MODULE PageSnapshotsProofs ------------------------
(***************************************************************************)
(* Proofs about PageSnapshots, for any number of tasks, products, visits   *)
(* and changes of the document: no enrichment is taken back, and no        *)
(* refresh is lost but for the causes NoRefreshIsLost names.               *)
(***************************************************************************)
EXTENDS PageSnapshots, TLAPS

-----------------------------------------------------------------------------
(* Snapshots.  Every snapshot a task, the timer or the overlay holds was   *)
(* read from a document there has been, and carries enrichments that the   *)
(* cache has of the products it lists.                                     *)

Genuine(s) ==
  /\ s = [visit |-> s.visit, dom |-> s.dom, known |-> s.known]
  /\ s.visit \in 0..page /\ s.dom \in Nat
  /\ s.visit = page => s.dom <= dom
  /\ s.known \subseteq cache \cap ListOf(s)

SnapInv ==
  /\ page \in Nat \ {0} /\ dom \in Nat /\ lastUrl \in 0..page
  /\ task = [t \in Slot |-> task[t]]
  /\ \A t \in Slot : Genuine(task[t].snap)
  /\ Genuine(last) /\ Genuine(queued)

LEMMA NoSnapGenuine ==
  ASSUME page \in Nat \ {0} PROVE Genuine(NoSnap)
BY DEF Genuine, NoSnap

LEMMA DetectedGenuine == SnapInv => Genuine(Detected)
BY DEF SnapInv, Genuine, Detected

LEMMA SnapInit == Init => SnapInv
BY NoSnapGenuine DEF Init, SnapInv, Done

\* What the cache gains and a page gains stays genuine.
LEMMA GenuineKept ==
  ASSUME SnapInv, NEW s, Genuine(s), cache \subseteq cache',
         UNCHANGED <<page, pages>>, dom' \in Nat, dom <= dom'
  PROVE  Genuine(s)'
BY DEF SnapInv, Genuine, ListOf

\* What a step may go on with: a snapshot that the cache will account for.
Backed(s) ==
  /\ s = [visit |-> s.visit, dom |-> s.dom, known |-> s.known]
  /\ s.visit \in 0..page /\ s.dom \in Nat
  /\ s.visit = page => s.dom <= dom
  /\ s.known \subseteq cache' \cap ListOf(s)

LEMMA GenuineBacked ==
  ASSUME NEW s, Genuine(s), cache \subseteq cache'
  PROVE  Backed(s)
BY DEF Genuine, Backed

\* A step of a task publishes such a snapshot or goes on with one.
Publishes(t, s) ==
  /\ Publish(t, s) /\ Backed(s)
  /\ UNCHANGED <<browser, queued>> /\ cache \subseteq cache'
  /\ lastUrl' \in {lastUrl, page}

GoesOn(t) ==
  /\ UNCHANGED <<browser, lastUrl, last>> /\ cache \subseteq cache'
  /\ task' = task \/ \E l, s : Become(t, l, s) /\ Backed(s)
  /\ \E s : queued' = s /\ Backed(s)

LEMMA TaskGenuine ==
  ASSUME SnapInv, NEW t \in Slot, NEW l, NEW s, Become(t, l, s),
         Backed(s), cache \subseteq cache', UNCHANGED browser
  PROVE  /\ task' = [g \in Slot |-> task'[g]]
         /\ \A g \in Slot : Genuine(task[g].snap)'
<1>1. task' = [g \in Slot |-> task'[g]]
  BY DEF Become, SnapInv
<1>2. ASSUME NEW g \in Slot PROVE Genuine(task[g].snap)'
  <2>1. CASE g = t
    <3>1. task'[g].snap = s
      BY <2>1 DEF Become, SnapInv
    <3>. QED BY <3>1 DEF Backed, Genuine, ListOf, browser
  <2>2. CASE g # t
    <3>1. task'[g] = task[g] /\ Genuine(task[g].snap)
      BY <2>2 DEF Become, SnapInv
    <3>. QED BY <3>1 DEF Genuine, ListOf, browser
  <2>. QED BY <2>1, <2>2
<1>. QED BY <1>1, <1>2

\* A published snapshot has all that the cache has of what it lists.
LEMMA PublishGenuine ==
  ASSUME SnapInv, NEW t \in Slot, NEW s, Publishes(t, s)
  PROVE  /\ last' = [visit |-> s.visit, dom |-> s.dom, known |-> cache' \cap ListOf(s)]
         /\ SnapInv'
<1>1. last' = [visit |-> s.visit, dom |-> s.dom, known |-> cache' \cap ListOf(s)]
  BY DEF Publishes, Publish, Resolved, Adding, Backed
<1>2. PICK l : l = last'
  OBVIOUS
<1>3. Backed(l)
  BY <1>1, <1>2 DEF Publishes, Backed, ListOf
<1>4. Become(t, "sending", l)
  BY <1>2 DEF Publishes, Publish
<1>5. Genuine(last)'
  BY <1>2, <1>3 DEF Publishes, Backed, Genuine, ListOf, browser
<1>6. Genuine(queued)'
  BY DEF Publishes, SnapInv, Genuine, ListOf, browser
<1>. QED BY <1>1, <1>3, <1>4, <1>5, <1>6, TaskGenuine DEF Publishes, SnapInv, browser

LEMMA GoesOnGenuine ==
  ASSUME SnapInv, NEW t \in Slot, GoesOn(t)
  PROVE  SnapInv'
<1>1. Genuine(last)' /\ Genuine(queued)'
  BY DEF GoesOn, Backed, SnapInv, Genuine, ListOf, browser
<1>2. /\ task' = [g \in Slot |-> task'[g]]
      /\ \A g \in Slot : Genuine(task[g].snap)'
  <2>1. CASE task' = task
    BY <2>1 DEF GoesOn, SnapInv, Genuine, ListOf, browser
  <2>2. CASE \E l, s : Become(t, l, s) /\ Backed(s)
    BY <2>2, TaskGenuine DEF GoesOn
  <2>. QED BY <2>1, <2>2 DEF GoesOn
<1>. QED BY <1>1, <1>2 DEF GoesOn, SnapInv, browser

LEMMA StepGenuine ==
  ASSUME SnapInv, NEW t \in Slot, Step(t)
  PROVE  GoesOn(t) \/ \E s : Publishes(t, s)
<1>. USE DEF SnapInv
<1>1. PICK here : here = Detected
  OBVIOUS
<1>2. PICK mine : mine = task[t].snap
  OBVIOUS
<1>3. /\ Genuine(here) /\ Genuine(mine) /\ Genuine(NoSnap)
      /\ Genuine(queued) /\ Genuine(last)
  BY <1>1, <1>2, NoSnapGenuine, DetectedGenuine
<1>4. ASSUME cache \subseteq cache'
      PROVE  Backed(here) /\ Backed(mine) /\ Backed(NoSnap) /\ Backed(queued)
  BY <1>3, <1>4, GenuineBacked
<1>5. ASSUME NEW found \in SUBSET ListOf(mine), cache' = cache \cup found
      PROVE  Backed(Adding(mine, found))
  BY <1>3, <1>5 DEF Adding, Genuine, Backed, ListOf
<1>6. CASE ForceSend(t) \/ NoticeRoute(t)
  BY <1>1, <1>4, <1>6 DEF ForceSend, NoticeRoute, Publishes
<1>7. CASE Refresh(t)
  <2>1. CASE Publish(t, here)
    BY <1>1, <1>4, <1>7, <2>1 DEF Refresh, Publishes
  <2>2. CASE UNCHANGED <<task, last, cache>>
    BY <1>4, <1>7, <2>2 DEF Refresh, GoesOn
  <2>. QED BY <1>1, <1>7, <2>1, <2>2 DEF Refresh
<1>8. CASE Sent(t) \/ SendFails(t)
  BY <1>2, <1>4, <1>8 DEF Sent, SendFails, End, GoesOn
<1>9. CASE Enrich(t)
  <2>1. UNCHANGED <<browser, lastUrl, last, cache>> /\ queued' = NoSnap
    BY <1>9 DEF Enrich
  <2>2. task' = task \/ \E l : Become(t, l, queued)
    BY <1>9 DEF Enrich
  <2>. QED BY <1>4, <2>1, <2>2 DEF GoesOn
<1>10. CASE SearchAnswer(t)
  <2>1. CASE End(t) /\ Unshown /\ cache' = cache
    BY <1>4, <1>10, <2>1 DEF SearchAnswer, End, Unshown, GoesOn
  <2>2. ASSUME NEW found \in SUBSET ListOf(mine), cache' = cache \cup found,
               \/ End(t) /\ Unshown
               \/ Publish(t, Adding(mine, found))
        PROVE  GoesOn(t) \/ \E s : Publishes(t, s)
    <3>1. UNCHANGED <<browser, lastUrl, queued>>
      BY <1>10 DEF SearchAnswer
    <3>2. CASE End(t) /\ Unshown
      BY <1>4, <2>2, <3>1, <3>2 DEF End, Unshown, GoesOn
    <3>3. CASE Publish(t, Adding(mine, found))
      BY <1>5, <2>2, <3>1, <3>3 DEF Publishes
    <3>. QED BY <2>2, <3>2, <3>3
  <2>. QED BY <1>2, <1>10, <2>1, <2>2 DEF SearchAnswer
<1>11. CASE ProductAnswer(t)
  <2>1. UNCHANGED <<browser, lastUrl, last, queued>>
    BY <1>11 DEF ProductAnswer
  <2>2. CASE End(t) /\ cache' = cache
    BY <1>4, <2>1, <2>2 DEF End, GoesOn
  <2>3. ASSUME NEW found \in SUBSET ListOf(mine), cache' = cache \cup found,
               NEW l, Become(t, l, Adding(mine, found))
        PROVE  GoesOn(t)
    BY <1>4, <1>5, <2>1, <2>3 DEF GoesOn
  <2>. QED BY <1>2, <1>11, <2>2, <2>3 DEF ProductAnswer
<1>12. CASE Keywords(t)
  <2>1. CASE Publish(t, mine)
    BY <1>4, <1>12, <2>1 DEF Keywords, Publishes
  <2>2. CASE End(t) /\ Unshown
    BY <1>4, <1>12, <2>2 DEF Keywords, End, Unshown, GoesOn
  <2>. QED BY <1>2, <1>12, <2>1, <2>2 DEF Keywords
<1>13. CASE LoadMore(t) \/ Scrolled(t)
  BY <1>1, <1>4, <1>13 DEF LoadMore, Scrolled, GoesOn
<1>14. CASE LoadedMore(t)
  BY <1>2, <1>4, <1>14 DEF LoadedMore, Publishes
<1>. QED
  BY <1>6, <1>7, <1>8, <1>9, <1>10, <1>11, <1>12, <1>13, <1>14 DEF Step

\* Users, routes and the document leave tasks and timers alone.
LEMMA OthersGenuine ==
  ASSUME SnapInv,
         \/ SaveProduct \/ Enter \/ Leave \/ OpenRoasCalculator
         \/ CloseRoasCalculator \/ Navigate \/ DomChanges \/ UNCHANGED vars
  PROVE  SnapInv' /\ last' = last
<1>. USE DEF SnapInv
<1>1. CASE Enter \/ Leave \/ OpenRoasCalculator \/ CloseRoasCalculator \/ UNCHANGED vars
  <2>1. UNCHANGED <<browser, lastUrl, last, cache, queued, task>>
    BY <1>1 DEF Enter, Leave, OpenRoasCalculator, CloseRoasCalculator, vars
  <2>. QED BY <2>1 DEF browser, Genuine, ListOf
<1>2. CASE SaveProduct
  <2>1. UNCHANGED <<browser, lastUrl, last, queued, task>> /\ cache \subseteq cache'
    BY <1>2 DEF SaveProduct
  <2>. QED BY <2>1 DEF browser, Genuine, ListOf
<1>3. CASE DomChanges
  <2>1. UNCHANGED <<page, pages, lastUrl, last, cache, queued, task>> /\ dom' = dom + 1
    BY <1>3 DEF DomChanges
  <2>. QED BY <2>1 DEF Genuine, ListOf
<1>4. CASE Navigate
  <2>1. /\ UNCHANGED <<lastUrl, last, cache, queued, task>>
        /\ page' = page + 1 /\ dom' = 0
        /\ \A v \in 1..page : pages'[v] = pages[v]
    BY <1>4 DEF Navigate
  <2>2. \A v \in 0..page : v = 0 \/ v \in 1..page
    OBVIOUS
  <2>. QED BY <2>1, <2>2 DEF Genuine, ListOf
<1>. QED BY <1>1, <1>2, <1>3, <1>4

LEMMA SnapNext == SnapInv /\ [Next]_vars => SnapInv'
BY StepGenuine, PublishGenuine, GoesOnGenuine, OthersGenuine DEF Next

LEMMA SnapsHold == Spec => []SnapInv
BY SnapInit, SnapNext, PTL DEF Spec

-----------------------------------------------------------------------------
\* As long as the same page is shown, no snapshot takes an enrichment away that
\* one before it had, whichever comes late (publishSnapshot,
\* applyResolvedEnrichmentToSnapshot).
THEOREM EnrichmentIsKept == Spec => EnrichmentStays
<1>1. SnapInv /\ [Next]_vars
      => [last'.visit = last.visit => last.known \subseteq last'.known]_vars
  <2> SUFFICES ASSUME SnapInv, Next, last'.visit = last.visit
               PROVE  last.known \subseteq last'.known
    OBVIOUS
  <2>1. CASE last' = last
    BY <2>1
  <2>2. ASSUME NEW t \in Slot, NEW s, Publishes(t, s)
        PROVE  last.known \subseteq last'.known
    <3>1. last'.visit = s.visit /\ last'.known = cache' \cap ListOf(s)
      BY <2>2, PublishGenuine
    <3>2. last.known \subseteq cache \cap ListOf(last)
      BY DEF SnapInv, Genuine
    <3>3. cache \subseteq cache'
      BY <2>2 DEF Publishes
    <3>. QED BY <3>1, <3>2, <3>3 DEF ListOf
  <2>3. ASSUME NEW t \in Slot, GoesOn(t) PROVE last' = last
    BY <2>3 DEF GoesOn
  <2>. QED BY <2>1, <2>2, <2>3, StepGenuine, OthersGenuine DEF Next
<1>. QED BY <1>1, SnapsHold, PTL DEF Spec, EnrichmentStays

-----------------------------------------------------------------------------
(* Refreshes.  A refresh is only deferred under a lock, and a lock has its *)
(* user: in the overlay, in the calculator, or in an overlay that has been *)
(* removed.                                                                *)

Stale == lastUrl = page /\ ~(last.visit = page /\ last.dom = dom)

RefreshInv ==
  /\ timer \in BOOLEAN /\ locked \in BOOLEAN /\ deferred \in BOOLEAN
  /\ hover \in BOOLEAN /\ open \in BOOLEAN /\ orphan \in BOOLEAN
  /\ taken \in BOOLEAN /\ overtaken \in BOOLEAN
  /\ deferred => locked
  /\ orphan => locked
  /\ locked => hover \/ open \/ orphan
  /\ Stale => timer \/ deferred \/ taken \/ overtaken

LEMMA RefreshInit == Init => RefreshInv
<1>. SUFFICES ASSUME Init PROVE RefreshInv
  OBVIOUS
<1>1. ~Stale
  BY DEF Init, Stale
<1>. QED BY <1>1, Zenon DEF Init, RefreshInv

\* What a publication leaves to be done: nothing if it is of the document as
\* it is; else what was due remains due, or it has overtaken a newer one.
LEMMA PublishRefreshes ==
  ASSUME SnapInv, RefreshInv, NEW t \in Slot, NEW s, Publish(t, s), Backed(s),
         UNCHANGED <<browser, open>>,
         timer' \in BOOLEAN, locked' \in BOOLEAN, deferred' \in BOOLEAN,
         locked' => locked, deferred' => locked',
         \/ s.visit = page /\ s.dom = dom
         \/ UNCHANGED lastUrl /\ (timer \/ deferred => timer' \/ deferred')
  PROVE  RefreshInv'
<1>1. /\ last'.visit = s.visit /\ last'.dom = s.dom
      /\ overtaken' = IF s.visit = page /\ s.dom = dom THEN FALSE ELSE overtaken \/ Older(s)
      /\ taken' = (taken /\ ~(s.visit = page /\ s.dom = dom))
      /\ page' = page /\ dom' = dom /\ open' = open
  BY DEF Publish, Resolved, Adding, browser
<1>2. PICK same \in BOOLEAN : same = (KindOf(s) = KindOf(last))
  BY Zenon
<1>3. /\ hover' = (hover /\ same)
      /\ orphan' = (locked' /\ (orphan \/ (hover /\ ~same)))
  BY <1>2 DEF Publish
<1>4. PICK older \in BOOLEAN : older = Older(s)
  BY Zenon DEF Older
<1>5. /\ hover' \in BOOLEAN /\ open' \in BOOLEAN /\ orphan' \in BOOLEAN
      /\ taken' \in BOOLEAN /\ overtaken' \in BOOLEAN
  BY <1>1, <1>3, <1>4 DEF RefreshInv
<1>6. /\ orphan' => locked'
      /\ locked' => hover' \/ open' \/ orphan'
  BY <1>1, <1>2, <1>3 DEF RefreshInv
<1>7. ASSUME Stale' PROVE timer' \/ deferred' \/ taken' \/ overtaken'
  <2>1. ~(s.visit = page /\ s.dom = dom)
    BY <1>1, <1>7 DEF Stale
  <2>2. CASE Older(s)
    BY <1>1, <2>1, <2>2
  <2>3. CASE ~Older(s)
    <3>1. ~(last.visit = page /\ last.dom = dom)
      BY <2>1, <2>3 DEF Older, Backed, SnapInv, Genuine
    <3>2. Stale
      BY <1>1, <1>7, <2>1, <3>1 DEF Stale
    <3>. QED BY <1>1, <2>1, <3>2 DEF RefreshInv
  <2>. QED BY <2>2, <2>3
<1>. QED BY <1>5, <1>6, <1>7 DEF RefreshInv

\* What shows nothing new loses nothing that is due.
Idles ==
  /\ UNCHANGED <<browser, lastUrl, last, locked, open>>
  /\ UNCHANGED <<taken, overtaken, hover, orphan>>
  /\ UNCHANGED <<timer, deferred>> \/ (locked /\ timer' = FALSE /\ deferred' = TRUE)

LEMMA IdlesRefreshes == RefreshInv /\ Idles => RefreshInv'
<1>. SUFFICES ASSUME RefreshInv, Idles PROVE RefreshInv'
  OBVIOUS
<1>1. Stale' <=> Stale
  BY DEF Idles, Stale, browser
<1>2. CASE UNCHANGED <<timer, deferred>>
  BY <1>1, <1>2 DEF RefreshInv, Idles
<1>3. CASE locked /\ timer' = FALSE /\ deferred' = TRUE
  BY <1>1, <1>3, Zenon DEF RefreshInv, Idles
<1>. QED BY <1>2, <1>3 DEF Idles

LEMMA StepRefreshes ==
  ASSUME SnapInv, RefreshInv, NEW t \in Slot, Step(t)
  PROVE  RefreshInv'
<1>1. PICK here : here = Detected
  OBVIOUS
<1>2. PICK mine : mine = task[t].snap
  OBVIOUS
<1>3. Genuine(here) /\ here.visit = page /\ here.dom = dom /\ Genuine(mine)
  BY <1>1, <1>2, DetectedGenuine DEF SnapInv, Detected
<1>4. ASSUME cache \subseteq cache' PROVE Backed(here) /\ Backed(mine)
  BY <1>3, <1>4, GenuineBacked
<1>5. CASE ForceSend(t) \/ NoticeRoute(t)
  <2>1. /\ Publish(t, here) /\ UNCHANGED <<browser, open, timer, cache>>
        /\ deferred' = FALSE /\ locked' = FALSE
    BY <1>1, <1>5 DEF ForceSend, NoticeRoute
  <2>2. timer' \in BOOLEAN
    BY <2>1 DEF RefreshInv
  <2>. QED BY <1>3, <1>4, <2>1, <2>2, PublishRefreshes
<1>6. CASE Refresh(t)
  <2>1. CASE Publish(t, here) /\ ~locked /\ UNCHANGED <<cache, deferred>>
    <3>1. /\ UNCHANGED <<browser, open, locked, deferred, cache>> /\ timer' = FALSE
      BY <1>6, <2>1 DEF Refresh
    <3>2. /\ timer' \in BOOLEAN /\ locked' \in BOOLEAN /\ deferred' \in BOOLEAN
          /\ deferred' => locked'
      BY <3>1 DEF RefreshInv
    <3>. QED BY <1>3, <1>4, <2>1, <3>1, <3>2, PublishRefreshes
  <2>2. CASE /\ locked /\ deferred' = TRUE
             /\ UNCHANGED <<task, last, cache, taken, overtaken, hover, modal, orphan>>
    BY <1>6, <2>2, IdlesRefreshes DEF Refresh, Idles
  <2>. QED BY <1>1, <1>6, <2>1, <2>2 DEF Refresh
<1>7. ASSUME NEW s, Publish(t, s), Backed(s), UNCHANGED <<browser, lastUrl>>,
             UNCHANGED <<timer, locked, deferred, open>>
      PROVE  RefreshInv'
  BY <1>7, PublishRefreshes DEF RefreshInv
<1>8. CASE Sent(t) \/ SendFails(t) \/ Enrich(t) \/ LoadMore(t) \/ Scrolled(t)
  BY <1>8, IdlesRefreshes
     DEF Sent, SendFails, Enrich, LoadMore, Scrolled, Idles, lock
<1>9. CASE SearchAnswer(t)
  <2>1. UNCHANGED <<browser, lastUrl, timer, locked, deferred, open>>
    BY <1>9 DEF SearchAnswer
  <2>2. CASE Unshown
    BY <2>1, <2>2, IdlesRefreshes DEF Unshown, Idles
  <2>3. ASSUME NEW found \in SUBSET ListOf(mine), cache' = cache \cup found,
               Publish(t, Adding(mine, found))
        PROVE  RefreshInv'
    <3>1. Backed(Adding(mine, found))
      BY <1>3, <2>3 DEF Adding, Genuine, Backed, ListOf
    <3>. QED BY <1>7, <2>1, <2>3, <3>1
  <2>. QED BY <1>2, <1>9, <2>2, <2>3 DEF SearchAnswer
<1>10. CASE ProductAnswer(t)
  BY <1>10, IdlesRefreshes DEF ProductAnswer, Idles, lock
<1>11. CASE Keywords(t)
  <2>1. UNCHANGED <<browser, lastUrl, timer, locked, deferred, open, cache>>
    BY <1>11 DEF Keywords
  <2>2. CASE Unshown
    BY <2>1, <2>2, IdlesRefreshes DEF Unshown, Idles
  <2>3. CASE Publish(t, mine)
    BY <1>4, <1>7, <2>1, <2>3
  <2>. QED BY <1>2, <1>11, <2>2, <2>3 DEF Keywords
<1>12. CASE LoadedMore(t)
  BY <1>2, <1>4, <1>7, <1>12 DEF LoadedMore
<1>. QED
  BY <1>5, <1>6, <1>8, <1>9, <1>10, <1>11, <1>12 DEF Step

LEMMA OthersRefresh ==
  ASSUME SnapInv, RefreshInv,
         \/ SaveProduct \/ Enter \/ Leave \/ OpenRoasCalculator
         \/ CloseRoasCalculator \/ Navigate \/ DomChanges \/ UNCHANGED vars
  PROVE  RefreshInv'
<1>. USE DEF RefreshInv, Stale
<1>1. CASE SaveProduct \/ UNCHANGED vars
  BY <1>1, IdlesRefreshes DEF SaveProduct, vars, lock, Idles
<1>2. CASE Enter
  BY <1>2 DEF Enter, browser
<1>3. CASE Leave
  BY <1>3 DEF Leave, browser, QueueRefresh
<1>4. CASE OpenRoasCalculator
  BY <1>4 DEF OpenRoasCalculator, browser
<1>5. CASE CloseRoasCalculator
  BY <1>5 DEF CloseRoasCalculator, browser, QueueRefresh
<1>6. CASE Navigate
  BY <1>6 DEF Navigate, lock, SnapInv
<1>7. CASE DomChanges
  BY <1>7 DEF DomChanges, QueueRefresh
<1>. QED BY <1>1, <1>2, <1>3, <1>4, <1>5, <1>6, <1>7

LEMMA RefreshNext == SnapInv /\ RefreshInv /\ [Next]_vars => RefreshInv'
BY StepRefreshes, OthersRefresh DEF Next

\* A page that shows another document than the one there is has its refresh
\* due, deferred under a user who will leave, or one of the two named causes
\* (queueRefresh, sendSnapshot, unlockOverlayInteraction).
THEOREM RefreshesAreKept == Spec => []NoRefreshIsLost
<1>1. RefreshInv => NoRefreshIsLost
  BY DEF RefreshInv, NoRefreshIsLost, Stale
<1>. QED
  BY <1>1, SnapInit, SnapNext, RefreshInit, RefreshNext, PTL DEF Spec
=============================================================================
