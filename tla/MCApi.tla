------------------------------- MODULE MCApi -------------------------------
(***************************************************************************)
(* Instances for TLC of the API's components beside billing, and of the    *)
(* worker.  The components share no state but what each of them models as  *)
(* its environment, so a behaviour moves one of them, part, and the others *)
(* rest.                                                                   *)
(***************************************************************************)
EXTENDS Quota, Sequences, TLC

CONSTANTS
  p1,                       \* the plan that is bought
  Session, Ext, Token,      \* sessions, and tokens beside them
  Link,                     \* tokens of a person who resets again and again
  Batch, NoBatch,
  Key, Bucket(_), Folded(_), Entries, Slot,   \* the category fees
  Product, Query, Day, Sold, Windows, Lookback, Listed, Take, MaxBatches,
                            \* the captures of product pages
  Resting                   \* the value of what a part does without

\* Sessions and extension sessions are rows of two tables; no batch is no batch;
\* an article names an entry once (usedLabels).
ASSUME SessionAssumption == Session # {} /\ Session \cap Ext = {}
ASSUME BatchAssumption == NoBatch \notin Batch
\* Days, counts and windows are natural numbers, counted from some first day.
ASSUME HistoryAssumption ==
  /\ Day \subseteq Nat /\ Sold \subseteq Nat /\ Windows \subseteq Nat
  /\ Lookback \in Nat /\ Take \in Nat
ASSUME EntriesAssumption ==
  /\ Entries \in Seq([key: Key, gratis: BOOLEAN])
  /\ \A i, j \in 1..Len(Entries) : Entries[i].key = Entries[j].key => i = j

VARIABLES
  part,
  registered, admin, password, access, session, ext, token, mailed, req,
  lapsed, now,
  batch, payload, object, bucket, work, answered, asked, excused, cut, deaths,
  captured,
  connectionState, held, open, boot, down, refused,
  fees, request, seed, deploys, touched

authVars == <<registered, admin, password, access, session, ext, token, mailed,
              req, lapsed, now>>
batchVars == <<batch, payload, object, bucket, work, answered, asked, excused,
               cut, deaths>>
queueVars == <<connectionState, held, open, boot, down, refused>>
catalogVars == <<fees, request, seed, deploys, touched>>
apiVars == <<part, vars, authVars, batchVars, captured, queueVars, catalogVars>>

\* The organization under some kinds of request and changes of its plan.
Under(kinds, n) ==
  /\ Next /\ changes' <= n
  /\ \A h \in Handler : loc'[h].kind \in kinds \cup {"none"}
  /\ "invite" \notin kinds => UNCHANGED account

\* A reset link requested and used again and again, beside a web session.
Tokens == INSTANCE AuthSessionsProofs
  WITH Ext <- {}, Token <- Link, Org <- {1, 2}, Internal <- 2,
       SessionTTL <- 1, ExtTTL <- 1, TokenTTL <- 1, Purposes <- {"use"},
       MaxResets <- 3, MaxTime <- 1

\* Web and extension sessions in two workspaces, and one reset.
Sessions == INSTANCE AuthSessionsProofs
  WITH Org <- {1, 2}, Internal <- 2,
       SessionTTL <- 1, ExtTTL <- 1, TokenTTL <- 1,
       Purposes <- {"logout", "switch", "extend"}, MaxResets <- 1, MaxTime <- 1

Batches == INSTANCE Ingestion
  WITH Worker <- Handler, MaxDeaths <- 1

History == INSTANCE SalesHistory

Runner == INSTANCE QueueRunner

\* Three keys of which two differ in case only and the third is in the bucket
\* of both.
BucketOf(key) == "bucket"
FoldedOf(key) == IF key = "AA" THEN "aa" ELSE key
ShopeeEntries == <<[key |-> "aa", gratis |-> TRUE], [key |-> "bb", gratis |-> FALSE]>>
Fees == INSTANCE Catalog
  WITH Id <- Handler, NoId <- NoBatch, MaxDeploys <- 2

-----------------------------------------------------------------------------
AuthRests ==
  /\ registered = Resting /\ admin = Resting /\ password = Resting /\ access = Resting
  /\ session = Resting /\ ext = Resting /\ token = Resting /\ mailed = Resting
  /\ req = Resting /\ lapsed = Resting /\ now = Resting
BatchesRest ==
  /\ batch = Resting /\ payload = Resting /\ object = Resting /\ bucket = Resting
  /\ work = Resting /\ answered = Resting /\ asked = Resting /\ excused = Resting
  /\ cut = Resting /\ deaths = Resting
QueueRests ==
  /\ connectionState = Resting /\ held = Resting /\ open = Resting /\ boot = Resting
  /\ down = Resting /\ refused = Resting

ApiInit ==
  /\ part \in {"members", "shops", "defaults", "tokens", "sessions", "batches",
               "history", "queue", "catalog"}
  /\ Init
  /\ plan[p1] # NoRow
  /\ part # "shops" => plan[p1].shops = 2
  /\ part # "members" => plan[p1].members = 2
  /\ part \notin {"members", "shops"} => sub = p1
  /\ CASE part = "tokens" -> Tokens!Init
       [] part = "sessions" -> Sessions!Init
       [] OTHER -> AuthRests
  /\ IF part = "batches" THEN Batches!Init ELSE BatchesRest
  /\ IF part = "history" THEN History!Init ELSE captured = Resting
  /\ IF part = "queue" THEN Runner!Init ELSE QueueRests
  /\ Fees!Init

Rest(p) ==
  /\ part = p /\ UNCHANGED part
  /\ p \notin {"members", "shops", "defaults"} => UNCHANGED vars
  /\ p \notin {"tokens", "sessions"} => UNCHANGED authVars
  /\ p # "batches" => UNCHANGED batchVars
  /\ p # "history" => UNCHANGED captured
  /\ p # "queue" => UNCHANGED queueVars
  /\ p # "catalog" => UNCHANGED catalogVars

ApiNext ==
  \/ Rest("members") /\ Under({"invite", "role", "remove"}, 0)
  \/ Rest("shops") /\ Under({"shop"}, MaxPlanChanges)
  \/ Rest("defaults") /\ Under({"shop", "defaults"}, 0)
  \/ Rest("tokens") /\ Tokens!Next
  \/ Rest("sessions") /\ Sessions!Next
  \/ Rest("batches") /\ Batches!Next
  \/ Rest("history") /\ History!Next
  \/ Rest("queue") /\ Runner!Next
  \/ Rest("catalog") /\ Fees!Next

ApiSpec == ApiInit /\ [][ApiNext]_apiVars

\* Requests are interchangeable, and so are shops.
ApiSymmetry == Permutations(Handler) \cup Permutations(Shop)

-----------------------------------------------------------------------------
\* Every table, request and counter of the part that moves has its type.
ApiTypeOK ==
  /\ TypeOK
  /\ part = "tokens" => Tokens!TypeOK
  /\ part = "sessions" => Sessions!TypeOK
  /\ part = "batches" => Batches!TypeOK

\* No web or extension session outlives a password reset, although requests
\* admitted before it still touch, move and extend their session by id.
NoSessionOutlivesReset ==
  /\ part = "tokens" => Tokens!NoSessionOutlivesReset
  /\ part = "sessions" => Sessions!NoSessionOutlivesReset

\* Requesting a reset link invalidates the ones before it, and a link sets the
\* password once; only as many links stay open, or are used again, as there
\* were requests in flight together (requestPasswordReset, resetPassword).
ResetLinksAreInFlight ==
  part = "tokens" => Tokens!OpenTokensAreInFlight /\ Tokens!TokenUsesAreInFlight

\* An extension session that reached its expiry with no request in flight on
\* it is never admitted again, however heartbeats extend by id.
LapsedStaysOut == part = "sessions" => Sessions!LapsedStaysOut

\* A session, web or extension, that was deleted or has expired is never
\* usable again: AuthSessions implements Credential.
Bearer == INSTANCE Credential
  WITH Id <- Session \cup Ext,
       usable <- IF part = "sessions" THEN Sessions!UsableBearers ELSE {},
       revoked <- IF part = "sessions" THEN Sessions!RevokedBearers ELSE {}
SessionsAreCredentials == Bearer!Spec

\* What createBatch has answered for stays stored until somebody asks to remove
\* it, whatever fails, dies or is removed beside it.
AnsweredIsStored == part = "batches" => Batches!AnsweredIsStored

\* A batch left ACCEPTED without a payload belongs to a request that died with
\* the process or is still running (createBatch); an object whose batch is gone
\* is there because S3 failed to delete it or the removal met the upload
\* (removeForOrganization).
LeftoversHaveCause ==
  part = "batches" => Batches!NothingIsLostSilently /\ Batches!OrphanHasCause

\* A longer window never sells less than a shorter one and is never known where
\* the shorter is not (buildEstimatedSalesDelta); and each starts at the latest
\* known count old enough, whatever the query of the address
\* (buildPublicProductSalesHistory).
WindowsFollowCaptures ==
  part = "history" => History!WindowsAreNested /\ History!EstimateUsesLatest

\* A start-up that ended degraded leaves no connection behind unless its close
\* failed (cleanupQueueResources).
DegradedHoldsNothing == part = "queue" => Runner!DegradedHoldsNothing

\* A deploy's seeding changes a fee only to give it the surcharges it has not
\* (seedShopeeCategoryFees), unless an admin wrote it since the seeding read.
DeploysKeepEdits == Fees!DeploysKeepEdits
=============================================================================
