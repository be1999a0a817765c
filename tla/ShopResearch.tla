---------------------------- MODULE ShopResearch ----------------------------
(***************************************************************************)
(* Research of the shop whose page the user is at (content.ts): the shop's *)
(* profile and best-selling products are asked for through the page        *)
(* bridge, kept per shop, and more of them are loaded on demand.           *)
(*                                                                         *)
(* A page is known by its shop, NoShop being any other page.  doc is the   *)
(* shop the document is about, which lags behind the address; a snapshot   *)
(* has the identifier read from it, if any.  Of the products of a shop     *)
(* only their number is kept.  A publication is one step here: what it     *)
(* awaits is in PageSnapshots and RoasCalculator.  A shop with fewer       *)
(* products than Enough is asked for again after each publication.         *)
(* Bounds: Shop, Slot, Total and the limits.                               *)
(***************************************************************************)
EXTENDS Integers

CONSTANTS
  Shop, NoShop, Slot, NoSlot,
  Total,        \* products of a shop
  First,        \* the limit of the first request, 60
  More,         \* the limit of the following ones, 40
  Enough        \* products that are not asked for again, 20

VARIABLES
  page, doc,
  last,         \* lastSnapshot
  queued,       \* the snapshot shopResearchEnrichmentTimeoutId was set for
  latest,       \* the task of shopResearchRequestId
  cache,        \* shopeeShopResearchCache: the number of products
  meta,         \* shopeeShopResearchMeta
  task

vars == <<page, doc, last, queued, latest, cache, meta, task>>

Absent == -1
NoMeta == [next |-> 0, more |-> FALSE, loading |-> FALSE]
NoSnap == [page |-> NoShop, id |-> NoShop, research |-> NoShop, failed |-> FALSE]
Done == [op |-> "idle", snap |-> NoSnap, shop |-> NoShop, had |-> 0, meta |-> NoMeta]

Init ==
  /\ page \in Shop /\ doc = page
  /\ last = NoSnap /\ queued = NoSnap /\ latest = NoSlot
  /\ cache = [s \in Shop |-> Absent] /\ meta = [s \in Shop |-> NoMeta]
  /\ task = [t \in Slot |-> Done]

-----------------------------------------------------------------------------
\* An answer may have fewer products than there are.
Answers(from, limit) == {n \in 0..limit : from + n <= Total}

\* buildShopResearchSnapshot: of a research only its products are counted, those
\* there were and those of the answer.
Built(had, n) == had + n
Products(n) == [next |-> n, more |-> Total > n, loading |-> FALSE]

\* applyResolvedEnrichmentToSnapshot
Resolved(s, products) ==
  IF s.research = NoShop /\ s.id # NoShop /\ products[s.id] # Absent
  THEN [s EXCEPT !.research = s.id] ELSE s

SameKey(s, r) ==
  IF s.id = NoShop \/ r.id = NoShop THEN s.id = r.id /\ s.page = r.page ELSE s.id = r.id

\* Variant: the timer that runs is kept, whatever it was set for.
QueueKeepsTimer(s) ==
  CASE s.page = NoShop -> NoSnap
    [] s.page # NoShop /\ s.failed -> queued
    [] s.page # NoShop /\ ~s.failed -> IF queued # NoSnap THEN queued ELSE s

\* queueShopResearchEnrichment
Queue(s) ==
  CASE s.page = NoShop -> NoSnap
    [] s.page # NoShop /\ s.failed -> queued
    [] s.page # NoShop /\ ~s.failed ->
         IF queued # NoSnap /\ SameKey(queued, s) THEN queued ELSE s

\* publishSnapshot
Publish(s) ==
  LET r == Resolved(s, cache') IN last' = r /\ queued' = Queue(r)

End(t) == task' = [task EXCEPT ![t] = Done]

\* The page is read: at a new address, on a change of the document, on demand.
Read ==
  /\ UNCHANGED <<page, doc, latest, cache, meta, task>>
  /\ \E id \in IF page = NoShop THEN {NoShop} ELSE {doc, NoShop} :
       Publish([NoSnap EXCEPT !.page = page, !.id = id])

-----------------------------------------------------------------------------
\* enrichShopSnapshot, which takes a missing identifier from the document as it
\* is now; a request that asks for nothing still makes the one before outdated.
Enrich(t) ==
  LET s == queued
      shop == IF s.id # NoShop THEN s.id ELSE doc
  IN
  /\ s # NoSnap /\ task[t] = Done
  /\ queued' = NoSnap
  /\ IF shop = NoShop \/ cache[shop] >= Enough
     THEN latest' = NoSlot /\ UNCHANGED <<meta, task>>
     ELSE /\ latest' = t
          /\ meta' = [meta EXCEPT ![shop] =
                        [next |-> IF cache[shop] = Absent THEN 0 ELSE cache[shop],
                         more |-> TRUE, loading |-> TRUE]]
          /\ task' = [task EXCEPT ![t] = [Done EXCEPT !.op = "enrich", !.snap = s,
                                                      !.shop = shop]]
  /\ UNCHANGED <<page, doc, last, cache>>

\* A failure is published even if the request is outdated, ...
EnrichFails(t) ==
  LET shop == task[t].shop IN
  /\ task[t].op = "enrich" /\ End(t)
  /\ meta' = [meta EXCEPT ![shop] = NoMeta]
  /\ UNCHANGED <<page, doc, latest, cache>>
  /\ Publish([task[t].snap EXCEPT !.id = shop, !.failed = TRUE])

\* ... an answer is not, and leaves the shop loading.
Enriched(t) ==
  LET shop == task[t].shop IN
  /\ task[t].op = "enrich" /\ End(t)
  /\ IF latest # t THEN UNCHANGED <<last, queued, cache, meta>>
     ELSE \E n \in Answers(0, First) :
            /\ cache' = [cache EXCEPT ![shop] = Built(0, n)]
            /\ meta' = [meta EXCEPT ![shop] = Products(Built(0, n))]
            /\ Publish([task[t].snap EXCEPT !.id = shop, !.research = shop])
  /\ UNCHANGED <<page, doc, latest>>

\* loadMoreShopProducts goes on from where the products ended when asked.
LoadMore(t) ==
  LET shop == last.id IN
  /\ task[t] = Done /\ shop # NoShop /\ cache[shop] # Absent
  /\ meta[shop].more /\ ~meta[shop].loading
  /\ meta' = [meta EXCEPT ![shop].loading = TRUE]
  /\ task' = [task EXCEPT ![t] = [op |-> "more", snap |-> last, shop |-> shop,
                                  had |-> cache[shop], meta |-> meta[shop]]]
  /\ UNCHANGED <<page, doc, last, queued, latest, cache>>

LoadMoreFails(t) ==
  LET shop == task[t].shop IN
  /\ task[t].op = "more" /\ End(t)
  /\ meta' = [meta EXCEPT ![shop] = task[t].meta]
  /\ UNCHANGED <<page, doc, last, queued, latest, cache>>

LoadedMore(t) ==
  LET shop == task[t].shop IN
  /\ task[t].op = "more" /\ End(t)
  /\ \E n \in Answers(task[t].meta.next, More) :
       /\ cache' = [cache EXCEPT ![shop] = Built(task[t].had, n)]
       /\ meta' = [meta EXCEPT ![shop] = Products(Built(task[t].had, n))]
  /\ Publish([task[t].snap EXCEPT !.research = shop])
  /\ UNCHANGED <<page, doc, latest>>

-----------------------------------------------------------------------------
Navigate ==
  /\ page' \in Shop \cup {NoShop} /\ page' # page
  /\ UNCHANGED <<doc, last, queued, latest, cache, meta, task>>

DocumentFollows ==
  /\ doc' = page
  /\ UNCHANGED <<page, last, queued, latest, cache, meta, task>>

Step(t) ==
  \/ Enrich(t) \/ EnrichFails(t) \/ Enriched(t)
  \/ LoadMore(t) \/ LoadMoreFails(t) \/ LoadedMore(t)

Next == Read \/ Navigate \/ DocumentFollows \/ \E t \in Slot : Step(t)
Spec == Init /\ [][Next]_vars

-----------------------------------------------------------------------------
\* When nothing is under way and no timer is set, the snapshot of a shop whose
\* identifier was read shows that shop's research or says that it failed, and
\* its list is not left loading, which would keep more from being loaded: no
\* outdated request, failure, change of page or load of more does that.
ResearchArrives ==
  queued = NoSnap /\ (\A t \in Slot : task[t] = Done) /\ last.id # NoShop =>
    /\ last.research = last.id \/ last.failed
    /\ ~meta[last.id].loading
=============================================================================
