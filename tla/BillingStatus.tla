--------------------------- MODULE BillingStatus ---------------------------
(***************************************************************************)
(* The pure decisions of src/apps/api/src/modules/billing/billing.service: *)
(* how a gateway transaction status becomes an invoice status and a        *)
(* subscription status, when a subscription is due for the lifecycle job   *)
(* or for a renewal invoice, and when an invoice may be cleaned up.        *)
(* Dates are integers (model days); NoTime is a null column.               *)
(***************************************************************************)
EXTENDS Integers

NoTime == -1

\* enum InvoiceStatus (ISSUED is never written by the service)
InvoiceStatus ==
  {"DRAFT", "PENDING_PAYMENT", "PAID", "FAILED", "EXPIRED", "VOID", "REFUNDED"}

\* enum SubscriptionStatus
SubscriptionStatus ==
  {"TRIALING", "PENDING_ACTIVATION", "ACTIVE", "PAST_DUE", "GRACE_PERIOD",
   "CANCELED", "EXPIRED"}

\* The transaction statuses the service tells apart.
TxStatus ==
  {"pending", "settlement", "failed", "expired", "cancelled", "refunded"}

\* Variant: a status the mapping forgets is stored as it came.
InvoiceStatusUnmapped(st) == IF st = "settlement" THEN "PAID" ELSE st

mapInvoiceStatusFromTransaction(st) ==
  CASE st = "settlement" -> "PAID"
    [] st = "failed"     -> "FAILED"
    [] st = "expired"    -> "EXPIRED"
    [] st = "cancelled"  -> "VOID"
    [] st = "refunded"   -> "REFUNDED"
    [] OTHER             -> "PENDING_PAYMENT"

\* current is the subscription status the caller read, perhaps long ago.
mapSubscriptionStatusFromTransaction(st, current) ==
  CASE st = "settlement" -> "ACTIVE"
    [] st = "failed"     -> IF current = "ACTIVE" THEN "PAST_DUE"
                                                  ELSE "PENDING_ACTIVATION"
    [] st = "expired"    -> IF current = "ACTIVE" THEN "GRACE_PERIOD"
                                                  ELSE "EXPIRED"
    [] st \in {"cancelled", "refunded"} -> "CANCELED"
    [] OTHER             -> "PENDING_ACTIVATION"

\* A renewal paid before the running period is over starts when that period
\* ends; every other payment starts at its own instant.
NextPeriodStart(cycle, periodEnd, activatedAt) ==
  IF cycle = "renewal" /\ periodEnd # NoTime /\ periodEnd > activatedAt
    THEN periodEnd
    ELSE activatedAt

\* Variants: a null period end counts as long past; past due subscriptions,
\* or grace periods, are left out.
NullPeriodIsDue(s, ref) ==
  \/ s.status \in {"ACTIVE", "PAST_DUE"} /\ s.periodEnd < ref
  \/ s.status = "GRACE_PERIOD" /\ s.graceEnd # NoTime /\ s.graceEnd < ref

PastDueIsForgotten(s, ref) ==
  \/ s.status = "ACTIVE" /\ s.periodEnd # NoTime /\ s.periodEnd < ref
  \/ s.status = "GRACE_PERIOD" /\ s.graceEnd # NoTime /\ s.graceEnd < ref

GraceIsForgotten(s, ref) ==
  s.status \in {"ACTIVE", "PAST_DUE"} /\ s.periodEnd # NoTime /\ s.periodEnd < ref

\* The filter of reconcileSubscriptionLifecycle.
IsLifecycleDue(s, ref) ==
  \/ /\ s.status \in {"ACTIVE", "PAST_DUE"}
     /\ s.periodEnd # NoTime
     /\ s.periodEnd < ref
  \/ /\ s.status = "GRACE_PERIOD"
     /\ s.graceEnd # NoTime
     /\ s.graceEnd < ref

\* The filter of processRenewalBilling, plan conditions included.
IsRenewable(s, ref, lead, paid) ==
  /\ s.status = "ACTIVE"
  /\ s.autoRenew
  /\ s.periodEnd # NoTime
  /\ ref <= s.periodEnd
  /\ s.periodEnd <= ref + lead
  /\ s.plan \in paid

\* Variant: an invoice that awaits payment does not count.
OnlyDraftOrPaidBlocks(v, due) == v.due = due /\ v.status \in {"DRAFT", "PAID"}

\* An invoice that stops the renewal job from creating another one.
BlocksRenewal(v, due) ==
  /\ v.due = due
  /\ v.status \in {"DRAFT", "PENDING_PAYMENT", "PAID"}

\* Variant: the retention age is not asked for.
CleanableAtAnyAge(v, ref, retention) ==
  \/ v.status \in {"FAILED", "EXPIRED", "VOID"}
  \/ v.status = "PENDING_PAYMENT" /\ (v.due = NoTime \/ v.due < ref)

\* The filter of cleanupUnsuccessfulTransactions.
IsCleanable(v, ref, retention) ==
  /\ v.created < ref - retention
  /\ \/ v.status \in {"FAILED", "EXPIRED", "VOID"}
     \/ v.status = "PENDING_PAYMENT" /\ (v.due = NoTime \/ v.due < ref)
=============================================================================
