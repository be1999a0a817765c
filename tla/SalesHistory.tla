---------------------------- MODULE SalesHistory ----------------------------
(***************************************************************************)
(* The listing of captured batches (IngestionService.listLatest...) and    *)
(* the sales estimates it computes for public product pages from earlier   *)
(* captures of the same product.                                           *)
(*                                                                         *)
(* captured is the sequence of batches in the order of their creation; a   *)
(* batch says when the page was captured, which the extension decides, so  *)
(* the two orders differ.  A sales count is what parseSalesHintUnits makes *)
(* of the hint on the page, NoCount when it makes nothing of it.           *)
(*                                                                         *)
(* Bounds: Day, Sold, Product, Query (the inputs), MaxBatches; Listed and *)
(* Take stand for the page sizes 20 and 250, Lookback for 32 days.         *)
(***************************************************************************)
EXTENDS Integers, Sequences, SequencesExt, FiniteSetsExt

CONSTANTS
  Day, Sold,           \* capture days, sales counts
  Product, Query,      \* addresses of product pages without, and their, query
  Windows,             \* lengths of the estimates: 7, 15 and 30 days
  Lookback, Listed, Take,
  MaxBatches

VARIABLE captured

NoCount == -1
NoEstimate == -1

\* A raw payload: a product page with its address and hint, a search page, or
\* a product page whose object has gone from the bucket.
Preview ==
  [page: {"product"}, product: Product, query: Query, day: Day,
   sold: Sold \cup {NoCount}]
  \cup [page: {"lost"}, day: Day] \cup [page: {"search"}, day: {0}]

Init == captured = << >>

Capture ==
  /\ Len(captured) < MaxBatches
  /\ \E b \in Preview : captured' = Append(captured, b)

\* removeForOrganization
RemoveBatch == \E i \in DOMAIN captured : captured' = RemoveAt(captured, i)

Next == Capture \/ RemoveBatch
Spec == Init /\ [][Next]_captured

-----------------------------------------------------------------------------
\* The batches an organization is shown: the latest created.
Shown == {i \in DOMAIN captured : i > Len(captured) - Listed}

\* extractPreviewFromRawPayload: nothing without content.
HasPreview(i) == captured[i].page # "lost"

\* normalizeComparableProductUrl drops the query and the fragment.
ProductKey(b) == b.product

\* The product pages among them are estimated.
Targets == {i \in Shown : HasPreview(i) /\ captured[i].page = "product"}

\* A listing of captures is ordered from the newest.
Before(i, j) == \/ captured[i].day > captured[j].day
                \/ captured[i].day = captured[j].day /\ i < j
First(S) == CHOOSE i \in S : \A j \in S : ~Before(j, i)

\* Product captures since the oldest target, less the lookback: the Take newest,
\* of which those whose object can be read are points of their product.
Since == Min({captured[i].day : i \in Targets}) - Lookback
Historical ==
  LET all == {i \in DOMAIN captured : /\ captured[i].page # "search"
                                      /\ captured[i].day >= Since}
  IN  {i \in all : Cardinality({j \in all : Before(j, i)}) < Take}
Points(i) == {j \in Historical : /\ captured[j].page = "product"
                                 /\ ProductKey(captured[j]) = ProductKey(captured[i])}

\* What was sold between a baseline and the target, never less than nothing.
Delta(i, baseline) == Max({captured[i].sold - captured[baseline].sold, 0})

\* Variant: the first capture old enough is the baseline, known or not.
EstimateFromFirst(i, window) ==
  LET old == {j \in Points(i) : captured[j].day <= captured[i].day - window}
  IN  IF captured[i].sold = NoCount \/ old = {} THEN NoEstimate
      ELSE IF captured[First(old)].sold = NoCount THEN NoEstimate
      ELSE Delta(i, First(old))

\* buildEstimatedSalesDelta: the first point with a count, at least window days
\* older, is the baseline.
Known(i, window) == {j \in Points(i) : /\ captured[j].sold # NoCount
                                       /\ captured[j].day <= captured[i].day - window}
Estimate(i, window) ==
  IF captured[i].sold = NoCount \/ Known(i, window) = {} THEN NoEstimate
  ELSE Delta(i, First(Known(i, window)))

\* Every capture of a product that shows a count shows at least the counts of
\* its earlier captures.
CountsGrow ==
  \A i, j \in DOMAIN captured :
    LET a == captured[i]  b == captured[j] IN
    /\ a.page = "product" /\ b.page = "product" /\ a.product = b.product
    /\ a.day < b.day /\ a.sold # NoCount /\ b.sold # NoCount
    => a.sold <= b.sold

\* Estimates of longer windows contain those of shorter ones: while the counts
\* of a product only grow, a longer window never sells less than a shorter, and
\* it is never known where the shorter is not, whatever was captured late,
\* removed, lost from the bucket or cut off by the page sizes.
WindowsAreNested ==
  \A i \in Targets, v \in Windows, w \in Windows :
    v < w /\ Estimate(i, w) # NoEstimate =>
      /\ Estimate(i, v) # NoEstimate
      /\ CountsGrow => Estimate(i, v) <= Estimate(i, w)

\* The answer does not depend on the query of the address: for every product
\* page shown, each window's baseline is the latest known count of that page at
\* least that old, if all captures fit one page.
LatestOldEnough(i, window) ==
  {j \in DOMAIN captured :
    LET b == captured[j] IN
    /\ b.page = "product" /\ b.product = captured[i].product /\ b.sold # NoCount
    /\ captured[i].day - b.day \in window..Lookback}
EstimateUsesLatest ==
  \A i \in Targets, w \in Windows :
    LET old == LatestOldEnough(i, w) IN
    /\ Len(captured) <= Take /\ captured[i].sold # NoCount /\ old # {}
    => \E j \in old :
         /\ \A k \in old : captured[k].day <= captured[j].day
         /\ Estimate(i, w) = Delta(i, j)
=============================================================================
