---------------------------- MODULE SyncPayload ----------------------------
(***************************************************************************)
(* From a page to an ingestion batch: what the extension detects of a page *)
(* (detection.ts), the payload it builds of it (background.ts), and what   *)
(* the API demands of that payload (ingestion).                            *)
(*                                                                         *)
(* A page is the facts that the detection tells apart: its host, what its  *)
(* path is, whether the address has a query, whether the document looks    *)
(* like a shop, and whether what the page needs, a keyword or a product's  *)
(* title, is read.                                                         *)
(* Facts are sent as they are; only those a check looks at are in the      *)
(* payload.  A shop's identifier falls back on its name and that on 'Toko  *)
(* Shopee', so it is never missing.  The shops a user selects stay in the  *)
(* organization.  Bound: MaxVersion, releases of the extension.            *)
(***************************************************************************)
EXTENDS Naturals

CONSTANTS Shop, None, MaxVersion

VARIABLES
  page,
  version,              \* EXTENSION_VERSION
  selected,             \* selectedShopId
  session,              \* the API's record of the extension session
  answer                \* of the last sync

vars == <<page, version, selected, session, answer>>

Host == {"shopee", "seller", "tiktok", "tiktok_ads", "other"}
Path == {"search", "product", "shop", "pas", "portal_product", "marketing", "else"}
Page == [host : Host, path : Path, query : BOOLEAN, shopLike : BOOLEAN,
         read : BOOLEAN]
Start == [host |-> "other", path |-> "else", query |-> FALSE, shopLike |-> FALSE,
          read |-> FALSE]

-----------------------------------------------------------------------------
\* detectPageType: the type of page, the first that fits.
Shopee(p) == p.host \in {"shopee", "seller"}
PageType(p) ==
  CASE Shopee(p) /\ (p.path = "search" \/ p.query) -> "shopee_public_search"
    [] Shopee(p) /\ ~(p.path = "search" \/ p.query) ->
         IF p.host = "seller"
         THEN CASE p.path = "pas" -> "shopee_ads_product_detail"
                [] p.path \in {"portal_product", "product"} -> "shopee_seller_product_page"
                [] p.path = "marketing" -> "shopee_ads_dashboard"
                [] OTHER -> "unknown"
         ELSE CASE p.path \in {"product", "pas"} -> "shopee_public_product"
                [] p.path = "shop" -> "shopee_public_shop"
                [] OTHER -> "unknown"
    [] p.host = "tiktok_ads" -> "tiktok_ads_dashboard"
    [] p.host = "tiktok" -> IF p.path = "search" \/ p.query THEN "tiktok_public_search"
                            ELSE "unknown"
    [] p.host = "other" -> "unknown"

Owned == {"shopee_ads_product_detail", "shopee_seller_product_page", "shopee_ads_dashboard",
          "tiktok_ads_dashboard"}
Mode(type) ==
  CASE type = "unknown" -> None [] type \in Owned -> "owned" [] OTHER -> "public"

\* detectPageSnapshot: a public page of Shopee that looks like a shop is one.
DetectedType(p) ==
  LET type == PageType(p) IN
  IF Shopee(p) /\ Mode(type) = "public" /\ p.shopLike THEN "shopee_public_shop" ELSE type

-----------------------------------------------------------------------------
\* buildSyncPayload, or the message the popup shows instead.
Payload(p) ==
  LET type == DetectedType(p) IN
  [ok |-> TRUE, type |-> type, mode |-> Mode(type),
   shop |-> IF Mode(type) = "owned" THEN selected ELSE None, version |-> version]
\* A product of a list or of a shop's research, made a page of its own.
Preview == [host |-> "shopee", path |-> "product", query |-> FALSE, shopLike |-> FALSE,
            read |-> TRUE]
Complaint(what) == [ok |-> FALSE, message |-> what]

\* Variant: an owned page is sent without a shop.
BuiltWithoutShop ==
  LET type == DetectedType(page) IN
  CASE type = "unknown" -> Complaint("not supported")
    [] type = "shopee_public_search" /\ ~page.read -> Complaint("no keyword")
    [] type = "shopee_public_product" /\ ~page.read -> Complaint("no product")
    [] OTHER -> Payload(page)

Built ==
  LET type == DetectedType(page) IN
  CASE type = "unknown" -> Complaint("not supported")
    [] Mode(type) = "owned" /\ selected = None -> Complaint("choose a shop")
    [] type = "shopee_public_search" /\ ~page.read -> Complaint("no keyword")
    [] type = "shopee_public_product" /\ ~page.read -> Complaint("no product")
    [] OTHER -> Payload(page)

\* CreateIngestionBatchDto with ingestion.constants; the identity, times and
\* addresses the extension sends are always of their form.
AllowedPageTypes ==
  {"shopee_ads_dashboard", "shopee_seller_product_page", "shopee_public_search",
   "shopee_public_product", "shopee_public_shop", "tiktok_ads_dashboard",
   "tiktok_public_search"}
Validated(payload) ==
  payload.type \in AllowedPageTypes /\ payload.mode \in {"owned", "public"}

\* The controller's validation, then assertSessionMatchesRequest and the checks of
\* createBatch.
Refusal(payload) ==
  CASE ~Validated(payload) -> "page type"
    [] session.shop # None /\ payload.shop # None /\ payload.shop # session.shop -> "other shop"
    [] payload.version # session.version -> "other version"
    [] payload.mode = "owned" /\ payload.shop = None -> "shop missing"
    [] OTHER -> "none"

-----------------------------------------------------------------------------
Init ==
  /\ page = Start /\ version = 1 /\ selected = None
  /\ session = [shop |-> None, version |-> 1] /\ answer = [sent |-> FALSE]

\* The tab shows another page.
Navigate ==
  /\ page' \in Page /\ answer' = [sent |-> FALSE]
  /\ UNCHANGED <<version, selected, session>>

\* handleSetSelectedShop leaves the session as it is.
SelectShop ==
  /\ selected' \in (Shop \cup {None}) \ {selected} /\ answer' = [sent |-> FALSE]
  /\ UNCHANGED <<page, version, session>>

\* createSessionBundle, of a login (no shop) or of recoverExtensionSession,
\* which passes the selected shop on.
CreateSession ==
  /\ \/ selected' = None \/ UNCHANGED selected
  /\ session' = [shop |-> selected', version |-> version] /\ answer' = [sent |-> FALSE]
  /\ UNCHANGED <<page, version>>

\* The browser updates the extension; its session stays in the storage.
Update ==
  /\ version < MaxVersion /\ version' = version + 1 /\ answer' = [sent |-> FALSE]
  /\ UNCHANGED <<page, selected, session>>

\* handleSyncNow
SyncNow ==
  /\ answer' = (IF Built.ok THEN [sent |-> TRUE, payload |-> Built, refusal |-> Refusal(Built)]
                ELSE [sent |-> FALSE])
  /\ UNCHANGED <<page, version, selected, session>>

\* handleSyncProductPreview
SyncProductPreview ==
  /\ answer' = [sent |-> TRUE, payload |-> Payload(Preview),
                refusal |-> Refusal(Payload(Preview))]
  /\ UNCHANGED <<page, version, selected, session>>

Next == Navigate \/ SelectShop \/ CreateSession \/ Update \/ SyncNow \/ SyncProductPreview
Spec == Init /\ [][Next]_vars

-----------------------------------------------------------------------------
\* What the extension is ready to send of a page the API takes, except the
\* detail of an ad, and except while its session is older than the choice of
\* another shop or than an update of the extension.
PayloadsAreTaken ==
  answer.sent =>
    \/ answer.refusal = "none"
    \/ answer.payload.type = "shopee_ads_product_detail"
    \/ session.version # version
    \/ answer.payload.mode = "owned" /\ session.shop \notin {None, selected}
=============================================================================
