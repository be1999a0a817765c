----------------------------- MODULE PageBridge -----------------------------
(***************************************************************************)
(* How the content script asks for what Shopee's API knows: through a      *)
(* script it adds to the page (content.ts, page-bridge.ts), whose answers  *)
(* are events, and failing that through the background script              *)
(* (background.ts).  Both fetch one product at a time per worker, so many  *)
(* workers at once (mapWithConcurrency).                                   *)
(*                                                                         *)
(* A request is for the products of a search or for a shop and is made     *)
(* once, under an id of its own.  An answered request may still be worked  *)
(* on by the page, since a timeout is not told to it.  Delays between two  *)
(* fetches are left out.  Bounds: Request, Items.                          *)
(***************************************************************************)
EXTENDS Integers, FiniteSets

CONSTANTS
  Request,
  Items,        \* products of a search
  PageWorkers, BackgroundWorkers

VARIABLES
  script,       \* the script element: "absent", "loading", "ready", "failed"
  at,           \* where the content script is with a request
  kind,         \* "search", "shop"
  pool,         \* the fetches for a request, in the page and in the background
  shopStep,     \* how far the page is with a shop's request
  loadFailed    \* history: the script could not be loaded

vars == <<script, at, kind, pool, shopStep, loadFailed>>

Place == {"page", "background"}
Item == 1..Items
Worker == 1..PageWorkers \cup 1..BackgroundWorkers
Workers(p) == 1..(IF p = "page" THEN PageWorkers ELSE BackgroundWorkers)

\* nextIndex, the item each worker has, 0 without one, and how often a verdict
\* on an item was written.
Pool == [next |-> 1, has |-> [w \in Worker |-> 0], results |-> [i \in Item |-> 0]]
NoPool == [Pool EXCEPT !.next = 0]

Init ==
  /\ script = "absent"
  /\ at = [r \in Request |-> "idle"]
  /\ kind \in [Request -> {"search", "shop"}]
  /\ pool = [r \in Request |-> [p \in Place |-> NoPool]]
  /\ shopStep = [r \in Request |-> 0]
  /\ loadFailed = FALSE

-----------------------------------------------------------------------------
Goto(r, l) == at' = [at EXCEPT ![r] = l]

SetPool(r, p, q) == pool' = [pool EXCEPT ![r] = [@ EXCEPT ![p] = q]]

\* Dispatching the event starts the page's handler at once.
Start(r, p) == SetPool(r, p, Pool)
Dispatch(rs) ==
  /\ at' = [r \in Request |-> IF r \in rs THEN "pending" ELSE at[r]]
  /\ pool' = [r \in Request |->
                IF r \in rs /\ kind[r] = "search" THEN [pool[r] EXCEPT !["page"] = Pool]
                ELSE pool[r]]
  /\ shopStep' = [r \in Request |-> IF r \in rs /\ kind[r] = "shop" THEN 1 ELSE shopStep[r]]

\* A search that the page does not answer is put to the background script.
Rejected(r) == IF kind[r] = "search" THEN "background" ELSE "rejected"

\* requestPageBridgeSearchEnrichment and requestPageBridgeShopResearch first
\* see to it that the script is there.  One that could not be loaded stays in
\* the page and is waited for, although it is not loaded again.
Ask(r) ==
  /\ at[r] = "idle"
  /\ \/ /\ script = "ready" /\ Dispatch({r}) /\ UNCHANGED script
     \/ /\ script # "ready" /\ Goto(r, "loading")
        /\ script' = (IF script = "absent" THEN "loading" ELSE script)
        /\ UNCHANGED <<pool, shopStep>>
  /\ UNCHANGED <<kind, loadFailed>>

Loading == {r \in Request : at[r] = "loading"}

ScriptLoads ==
  /\ script = "loading" /\ script' = "ready"
  /\ Dispatch(Loading)
  /\ UNCHANGED <<kind, loadFailed>>

ScriptFails ==
  /\ script = "loading" /\ script' = "failed" /\ loadFailed' = TRUE
  /\ at' = [r \in Request |-> IF r \in Loading THEN Rejected(r) ELSE at[r]]
  /\ pool' = [r \in Request |->
                IF r \in Loading /\ kind[r] = "search"
                THEN [pool[r] EXCEPT !["background"] = Pool] ELSE pool[r]]
  /\ UNCHANGED <<kind, shopStep>>

Timeout(r) ==
  /\ at[r] = "pending" /\ Goto(r, Rejected(r))
  /\ IF kind[r] = "search" THEN Start(r, "background") ELSE UNCHANGED pool
  /\ UNCHANGED <<script, kind, shopStep, loadFailed>>

-----------------------------------------------------------------------------
\* Variant: the next index is taken when the item before is done.
TakeKeepsIndex(r, p, w) ==
  LET q == pool[r][p] IN
  /\ q.next \in Item /\ q.has[w] = 0
  /\ SetPool(r, p, [next |-> IF q.results[q.next] > 0 THEN q.next + 1 ELSE q.next,
                    has |-> [q.has EXCEPT ![w] = q.next], results |-> q.results])
  /\ UNCHANGED <<script, at, kind, shopStep, loadFailed>>

\* A worker of mapWithConcurrency takes the next item ...
Take(r, p, w) ==
  LET q == pool[r][p] IN
  /\ q.next \in Item /\ q.has[w] = 0
  /\ SetPool(r, p, [next |-> q.next + 1, has |-> [q.has EXCEPT ![w] = q.next],
                    results |-> q.results])
  /\ UNCHANGED <<script, at, kind, shopStep, loadFailed>>

\* ... and finds it among those it has fetched before, fetches it or fails to,
\* which is a verdict as well.
Verdict(r, p, w) ==
  LET q == pool[r][p] i == q.has[w] IN
  /\ i # 0
  /\ SetPool(r, p, [next |-> q.next, has |-> [q.has EXCEPT ![w] = 0],
                    results |-> [q.results EXCEPT ![i] = @ + 1]])
  /\ UNCHANGED <<script, at, kind, shopStep, loadFailed>>

Complete(r, p) ==
  LET q == pool[r][p] IN q.next > Items /\ \A w \in Worker : q.has[w] = 0

\* The page answers once all its workers have ended; an answer that nobody
\* waits for any more is ignored.
PageAnswers(r) ==
  /\ Complete(r, "page")
  /\ SetPool(r, "page", [pool[r]["page"] EXCEPT !.next = 0])
  /\ Goto(r, IF at[r] = "pending" THEN "answered" ELSE at[r])
  /\ UNCHANGED <<script, kind, shopStep, loadFailed>>

\* handleEnrichSearchResults answers, or the message to it fails.
BackgroundAnswers(r) ==
  /\ at[r] = "background" /\ Complete(r, "background")
  /\ SetPool(r, "background", [pool[r]["background"] EXCEPT !.next = 0])
  /\ Goto(r, "answeredLate")
  /\ UNCHANGED <<script, kind, shopStep, loadFailed>>

\* The service worker is stopped: what it was asked is rejected.
BackgroundStops ==
  /\ at' = [r \in Request |-> IF at[r] = "background" THEN "rejected" ELSE at[r]]
  /\ pool' = [r \in Request |-> IF at[r] = "background"
                               THEN [pool[r] EXCEPT !["background"] = NoPool] ELSE pool[r]]
  /\ UNCHANGED <<script, kind, shopStep, loadFailed>>

-----------------------------------------------------------------------------
\* handleShopRequest: base, then detail, then categories beside the products;
\* only the categories may be missing.
ShopFetch(r) ==
  /\ shopStep[r] \in 1..3
  /\ \/ /\ shopStep[r] < 3 /\ shopStep' = [shopStep EXCEPT ![r] = @ + 1] /\ UNCHANGED at
     \/ /\ shopStep[r] = 3 /\ shopStep' = [shopStep EXCEPT ![r] = 0]
        /\ Goto(r, IF at[r] = "pending" THEN "answered" ELSE at[r])
     \/ /\ shopStep' = [shopStep EXCEPT ![r] = 0]
        /\ Goto(r, IF at[r] = "pending" THEN "rejected" ELSE at[r])
  /\ UNCHANGED <<script, kind, pool, loadFailed>>

Work(r, p) == \E w \in Workers(p) : Take(r, p, w) \/ Verdict(r, p, w)

Step(r) ==
  \/ Ask(r) \/ Timeout(r) \/ PageAnswers(r) \/ BackgroundAnswers(r) \/ ShopFetch(r)
  \/ \E p \in Place : Work(r, p)

Next == ScriptLoads \/ ScriptFails \/ BackgroundStops \/ \E r \in Request : Step(r)
Spec == Init /\ [][Next]_vars

-----------------------------------------------------------------------------
InFull(q) == \A i \in Item : q.results[i] = 1

\* An answer to a search has one verdict on each of its products, whoever gives
\* it and whatever was timed out or failed in between: no product is
\* skipped, and none fetched twice by the workers that share the list.  Only a
\* script that once could not be loaded leaves a request waiting for it.
AnswersAreComplete ==
  \A r \in Request :
    /\ at[r] = "answered" /\ kind[r] = "search" => InFull(pool[r]["page"])
    /\ at[r] = "answeredLate" => InFull(pool[r]["background"])
    /\ \A p \in Place, i \in Item : pool[r][p].results[i] <= 1
    /\ at[r] = "loading" /\ script # "loading" => loadFailed
=============================================================================
