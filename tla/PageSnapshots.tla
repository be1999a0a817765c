---------------------------- MODULE PageSnapshots ----------------------------
(***************************************************************************)
(* The content script of the extension on Shopee's public pages            *)
(* (content.ts): what it has read of the page is published (shown in an    *)
(* overlay, sent to the background script), enriched with what Shopee's    *)
(* API knows of the products, and published again.                         *)
(*                                                                         *)
(* Pages are visits, numbered; dom counts the changes of the document of   *)
(* the current one.  A snapshot is the visit and the document it was read  *)
(* from and the products whose enrichment it carries.  The watchers only   *)
(* notice: of a changed address every second, of a changed document at     *)
(* once.  While the user is in the overlay it is locked and refreshes are  *)
(* deferred.  Tasks (Slot) are the asynchronous functions under way; a     *)
(* task holds the snapshot it began with.                                  *)
(*                                                                         *)
(* Shop pages have ShopResearch, the pages of ads RoasCalculator and       *)
(* AdsDashboard.  Bounds: Slot, MaxVisits, MaxDom, Kind (a subset of        *)
(* "search", "product" and "other"), Clicks (what the user clicks on: "more",*)
(* "save", "reload", "roas").                                              *)
(***************************************************************************)
EXTENDS Integers, FiniteSets

CONSTANTS Product, Slot, NoSlot, Kind, Clicks, MaxVisits, MaxDom

VARIABLES
  page,         \* the visit the browser is at, ...
  dom,          \* ... the changes of its document ...
  pages,        \* ... and what the pages visited so far are
  lastUrl,      \* the visit the route watcher knows
  last,         \* lastSnapshot, and the overlay
  cache,        \* resolvedSearchResultEnrichmentCache
  queued,       \* the enrichment timer's snapshot
  latest,       \* the task whose enrichment request has the newest id, by kind
  task,
  timer,        \* refreshTimeoutId
  locked,       \* isOverlayInteractionLocked
  deferred,     \* hasDeferredRefresh
  hover,        \* the user's mouse or focus is in the overlay
  open,         \* isRoasCalculatorOpen
  modal,        \* the calculator is in the overlay
  taken,        \* history: a refresh that was due has been cancelled, ...
  overtaken,    \* ... an older snapshot published, since the page was last read
  orphan        \* history: the overlay was removed under the user who had locked it

browser == <<page, dom, pages>>
lock == <<locked, deferred, hover, open, modal, orphan>>
vars == <<browser, lastUrl, last, cache, queued, latest, task, timer, lock, taken,
          overtaken>>

Visit == 1..MaxVisits
NoSnap == [visit |-> 0, dom |-> 0, known |-> {}]
Snap == [visit: 0..MaxVisits, dom: 0..MaxDom, known: SUBSET Product]
Done == [at |-> "idle", snap |-> NoSnap]

KindOf(s) == IF s.visit = 0 THEN "other" ELSE pages[s.visit].kind
ListOf(s) == IF s.visit = 0 THEN {} ELSE pages[s.visit].lists

PageOf(k, ps) == [kind |-> k, lists |-> ps]
\* A search lists products, a product page is about one.
Pages ==
  {p \in {PageOf("search", Product), PageOf("other", {})}
            \cup {PageOf("product", {q}) : q \in Product} : p.kind \in Kind}

Init ==
  /\ page = 1 /\ dom = 0
  /\ \E p \in Pages : pages = [v \in {1} |-> p]
  /\ lastUrl = 0
  /\ last = NoSnap /\ cache = {} /\ queued = NoSnap
  /\ latest = [k \in Kind |-> NoSlot]
  /\ task = [t \in Slot |-> Done]
  /\ timer = FALSE /\ locked = FALSE /\ deferred = FALSE
  /\ hover = FALSE /\ open = FALSE /\ modal = FALSE
  /\ taken = FALSE /\ overtaken = FALSE /\ orphan = FALSE

\* detectPageSnapshot
Detected == [visit |-> page, dom |-> dom, known |-> {}]

Adding(s, found) ==
  [visit |-> s.visit, dom |-> s.dom, known |-> s.known \cup found]

\* Variant: enrichments that were received before are not applied.
ResolvedForgets(s) == s

\* applyResolvedEnrichmentToSnapshot
Resolved(s) == Adding(s, cache' \cap ListOf(s))

-----------------------------------------------------------------------------
Free(t) == task[t].at = "idle"
Become(t, l, s) == task' = [task EXCEPT ![t] = [at |-> l, snap |-> s]]
End(t) == Become(t, "idle", NoSnap)

Older(s) == s.visit < last.visit \/ (s.visit = last.visit /\ s.dom < last.dom)

\* publishSnapshot up to its message to the background script.  Another kind
\* of page removes the overlay with the calculator in it (and without any
\* event that the mouse has left); the same kind may render it anew.
\* hydrateRoasCalculatorStateForSnapshot, awaited in between, returns on these
\* pages before it reads any storage, so that no timer, event or message comes
\* between the removal and what follows.
Publish(t, s) ==
  LET same == KindOf(s) = KindOf(last) IN
  /\ last' = Resolved(s)
  /\ Become(t, "sending", last')
  /\ overtaken' = IF s.visit = page /\ s.dom = dom THEN FALSE ELSE overtaken \/ Older(s)
  /\ taken' = (taken /\ ~(s.visit = page /\ s.dom = dom))
  /\ hover' = (hover /\ same)
  /\ orphan' = (locked' /\ (orphan \/ (hover /\ ~same)))
  /\ modal' \in {modal /\ same, FALSE}

\* publishSnapshot after it: both enrichment timers are cleared and the one of
\* the snapshot's kind is set.
Sent(t) ==
  /\ task[t].at = "sending"
  /\ queued' = IF KindOf(task[t].snap) = "other" THEN NoSnap ELSE task[t].snap
  /\ End(t)
  /\ UNCHANGED <<browser, lastUrl, last, cache, latest, timer, lock, taken, overtaken>>

SendFails(t) ==
  /\ task[t].at = "sending" /\ End(t)
  /\ UNCHANGED <<browser, lastUrl, last, cache, queued, latest, timer, lock, taken,
                 overtaken>>

\* queueRefresh
QueueRefresh ==
  IF locked' THEN timer' = timer /\ deferred' = TRUE
  ELSE timer' = TRUE /\ deferred' = FALSE

\* forceSendSnapshot, for the background script or the overlay's button.
ForceSend(t) ==
  /\ "reload" \in Clicks /\ Free(t) /\ last # NoSnap
  /\ deferred' = FALSE /\ locked' = FALSE
  /\ UNCHANGED cache /\ Publish(t, Detected)
  /\ UNCHANGED <<browser, lastUrl, queued, latest, timer, open>>

\* watchRouteChanges, and the first snapshot when the script is loaded.
NoticeRoute(t) ==
  /\ Free(t) /\ lastUrl # page /\ lastUrl' = page
  /\ deferred' = FALSE /\ locked' = FALSE
  /\ UNCHANGED cache /\ Publish(t, Detected)
  /\ UNCHANGED <<browser, queued, latest, timer, open>>

\* sendSnapshot
Refresh(t) ==
  /\ timer /\ timer' = FALSE /\ Free(t) /\ UNCHANGED locked
  /\ \/ /\ locked /\ deferred' = TRUE
        /\ UNCHANGED <<task, last, cache, taken, overtaken, hover, modal, orphan>>
     \/ ~locked /\ UNCHANGED <<cache, deferred>> /\ Publish(t, Detected)
  /\ UNCHANGED <<browser, lastUrl, queued, latest, open>>

-----------------------------------------------------------------------------
\* The timers of queueSearchEnrichment and queueProductDetailEnrichment: a
\* snapshot that lacks something asks for it, under the next request id.
Enrich(t) ==
  LET s == queued k == KindOf(s) IN
  /\ s # NoSnap /\ queued' = NoSnap /\ Free(t)
  /\ \/ ListOf(s) \subseteq s.known /\ UNCHANGED <<task, latest>>
     \/ /\ ~(ListOf(s) \subseteq s.known)
        /\ latest' = [latest EXCEPT ![k] = t] /\ Become(t, "asked", s)
     \/ /\ ListOf(s) \subseteq s.known /\ k = "product"
        /\ latest' = [latest EXCEPT ![k] = t] /\ Become(t, "keywords", s)
  /\ UNCHANGED <<browser, lastUrl, last, cache, timer, lock, taken, overtaken>>

Unshown == UNCHANGED <<last, taken, overtaken, hover, modal, orphan>>

\* enrichSearchSnapshot: answers of the bridge or of the background script.
SearchAnswer(t) ==
  LET s == task[t].snap IN
  /\ UNCHANGED locked /\ task[t].at = "asked" /\ KindOf(s) = "search"
  /\ \/ End(t) /\ Unshown /\ UNCHANGED cache
     \/ /\ latest["search"] = t
        /\ \E found \in SUBSET ListOf(s) :
             /\ cache' = cache \cup found
             /\ IF found \subseteq s.known THEN End(t) /\ Unshown
                ELSE Publish(t, Adding(s, found))
  /\ UNCHANGED <<browser, lastUrl, queued, latest, timer, open, deferred>>

\* enrichProductDetailSnapshot, whose request id is not looked at again once
\* the keywords are there.
ProductAnswer(t) ==
  LET s == task[t].snap IN
  /\ task[t].at = "asked" /\ KindOf(s) = "product"
  /\ \/ latest["product"] # t /\ End(t) /\ UNCHANGED cache
     \/ /\ latest["product"] = t
        /\ \E found \in SUBSET ListOf(s) :
             /\ cache' = cache \cup found
             /\ Become(t, IF found \subseteq s.known THEN "keywords" ELSE "changed",
                       Adding(s, found))
  /\ UNCHANGED <<browser, lastUrl, last, queued, latest, timer, lock, taken, overtaken>>

Keywords(t) ==
  /\ UNCHANGED locked /\ task[t].at \in {"keywords", "changed"}
  /\ UNCHANGED cache
  /\ \/ task[t].at = "keywords" /\ End(t) /\ Unshown
     \/ Publish(t, task[t].snap)
  /\ UNCHANGED <<browser, lastUrl, queued, latest, timer, open, deferred>>

\* A product saved from its card or page is enriched first.
SaveProduct ==
  /\ "save" \in Clicks
  /\ \E q \in ListOf(last) : cache' = cache \cup {q}
  /\ UNCHANGED <<browser, lastUrl, last, queued, latest, task, timer, lock, taken,
                 overtaken>>

\* "Muat Lebih Banyak": loadMoreSearchResults scrolls and reads the page again
\* and again, and what it read last is published, locked or not.
LoadMore(t) ==
  /\ "more" \in Clicks
  /\ Free(t) /\ KindOf(last) = "search" /\ pages[page].kind = "search"
  /\ Become(t, "scrolling", Detected)
  /\ UNCHANGED <<browser, lastUrl, last, cache, queued, latest, timer, lock, taken,
                 overtaken>>

Scrolled(t) ==
  /\ task[t].at = "scrolling" /\ pages[page].kind = "search"
  /\ task[t].snap # Detected /\ Become(t, "scrolling", Detected)
  /\ UNCHANGED <<browser, lastUrl, last, cache, queued, latest, timer, lock, taken,
                 overtaken>>

LoadedMore(t) ==
  /\ UNCHANGED <<locked, cache>> /\ task[t].at = "scrolling" /\ Publish(t, task[t].snap)
  /\ UNCHANGED <<browser, lastUrl, queued, latest, timer, open, deferred>>

-----------------------------------------------------------------------------
\* The mouse or the focus enters the overlay: a refresh that was due is
\* cancelled, not deferred.
Enter ==
  /\ KindOf(last) # "other" /\ ~hover
  /\ hover' = TRUE /\ locked' = TRUE
  /\ timer' = FALSE /\ taken' = (taken \/ timer)
  /\ UNCHANGED <<browser, lastUrl, last, cache, queued, latest, task, deferred, open,
                 modal, overtaken, orphan>>

\* Variant: what was deferred is forgotten.
LeaveForgets ==
  /\ hover /\ hover' = FALSE
  /\ locked' = (locked /\ open) /\ orphan' = (orphan /\ locked')
  /\ deferred' = (deferred /\ open) /\ UNCHANGED timer
  /\ UNCHANGED <<browser, lastUrl, last, cache, queued, latest, task, open, modal,
                 taken, overtaken>>

\* unlockOverlayInteraction
Leave ==
  /\ hover /\ hover' = FALSE
  /\ locked' = (locked /\ open) /\ orphan' = (orphan /\ locked')
  /\ IF deferred /\ ~open THEN QueueRefresh ELSE UNCHANGED <<deferred, timer>>
  /\ UNCHANGED <<browser, lastUrl, last, cache, queued, latest, task, open, modal,
                 taken, overtaken>>

OpenRoasCalculator ==
  /\ "roas" \in Clicks /\ KindOf(last) = "product"
  /\ open' = TRUE /\ modal' = TRUE /\ locked' = TRUE
  /\ UNCHANGED <<browser, lastUrl, last, cache, queued, latest, task, timer, deferred,
                 hover, orphan, taken, overtaken>>

CloseRoasCalculator ==
  /\ modal /\ open' = FALSE /\ modal' = FALSE /\ locked' = FALSE
  /\ orphan' = FALSE
  /\ IF deferred THEN QueueRefresh ELSE UNCHANGED <<deferred, timer>>
  /\ UNCHANGED <<browser, lastUrl, last, cache, queued, latest, task, hover, taken,
                 overtaken>>

-----------------------------------------------------------------------------
Navigate ==
  /\ page < MaxVisits /\ page' = page + 1 /\ dom' = 0
  /\ \E p \in Pages : pages' = [v \in 1..page' |-> IF v = page' THEN p ELSE pages[v]]
  /\ UNCHANGED <<lastUrl, last, cache, queued, latest, task, timer, lock, taken,
                 overtaken>>

\* The mutation observer of watchDomChanges.
DomChanges ==
  /\ dom < MaxDom /\ dom' = dom + 1
  /\ UNCHANGED locked /\ QueueRefresh
  /\ UNCHANGED <<page, pages, lastUrl, last, cache, queued, latest, task, hover, open,
                 modal, orphan, taken, overtaken>>

Step(t) ==
  \/ Sent(t) \/ SendFails(t) \/ ForceSend(t) \/ NoticeRoute(t) \/ Refresh(t)
  \/ Enrich(t) \/ SearchAnswer(t) \/ ProductAnswer(t) \/ Keywords(t)
  \/ LoadMore(t) \/ Scrolled(t) \/ LoadedMore(t)

Next ==
  \/ \E t \in Slot : Step(t)
  \/ SaveProduct \/ Enter \/ Leave \/ OpenRoasCalculator \/ CloseRoasCalculator
  \/ Navigate \/ DomChanges

Spec == Init /\ [][Next]_vars

-----------------------------------------------------------------------------
\* What is shown is the noticed page as it is now, or else a refresh is due,
\* or deferred until somebody leaves the overlay or closes the calculator, or
\* the cause is one of three: entering the overlay has cancelled the refresh, an
\* enrichment or a slow search that had begun before has published its older
\* snapshot over it, or it is deferred for a user whose overlay such a snapshot
\* has removed.  No route change, lock or forced snapshot loses a refresh
\* otherwise.
NoRefreshIsLost ==
  lastUrl = page /\ <<last.visit, last.dom>> # <<page, dom>> =>
    timer \/ (deferred /\ (hover \/ open \/ orphan)) \/ taken \/ overtaken

\* As long as the same page is shown, no snapshot takes an enrichment away
\* that one before it had, whichever of them comes late.
EnrichmentStays ==
  [][last'.visit = last.visit => last.known \subseteq last'.known]_vars
=============================================================================
