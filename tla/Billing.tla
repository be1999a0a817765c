------------------------------ MODULE Billing ------------------------------
(***************************************************************************)
(* Subscription billing of one organization: BillingService (checkout,     *)
(* payment callback, payment status refresh) and BillingCleanupService     *)
(* (lifecycle job, renewal job, cleanup job), running against one database *)
(* and one payment gateway.                                                *)
(*                                                                         *)
(* Every request is an asynchronous Node handler.  None of them opens a    *)
(* transaction around its reads and writes, so a handler is modelled as a  *)
(* process whose program counter stops at every awaited database or        *)
(* gateway call; anything may happen between two of its steps.  Handler is *)
(* the set of requests that can be in flight together, BG is the one       *)
(* background cycle of the API process.                                    *)
(*                                                                         *)
(* Bounds: Invoice (rows ever created), MaxTime (days), Attempt (delivery  *)
(* attempts), MaxCrashes, Horizon (a settlement applied over and over moves  *)
(* the period end on without limit), and the sets Requests, Outcomes and   *)
(* ChargeOutcomes, which say what an instance lets happen.                 *)
(***************************************************************************)
EXTENDS BillingStatus, FiniteSets

CONSTANTS
  Handler, BG,        \* request handlers, and the background cycle
  Plan, Paid, Free,   \* public plans, the priced ones, the default one
  Invoice, NoInvoice, \* invoice row ids; NoInvoice is no id
  Attempt,            \* delivery attempts of one gateway notification
  Requests,           \* which of "checkout", "callback", "refresh" arrive
  Outcomes,           \* transaction statuses the gateway reports
  ChargeOutcomes,     \* what a createCharge call may do: ok, lost, refused
  Period,             \* billing interval of each plan
  Grace, Lead,        \* grace period; days before the end a renewal is billed
  Retention,          \* age at which an unsuccessful invoice is cleaned up
  MaxTime, MaxCrashes,
  Horizon             \* no status is applied any more beyond this period end

ASSUME ProcAssumption == BG \notin Handler
ASSUME PlanAssumption == Paid \subseteq Plan /\ Free \in Plan \ Paid
ASSUME InvoiceAssumption == NoInvoice \notin Invoice
ASSUME AttemptAssumption == Attempt \subseteq Nat \ {0}
ASSUME OutcomesAssumption == Outcomes \subseteq TxStatus
ASSUME PeriodAssumption == Period \in [Plan -> Nat \ {0}]
ASSUME TimeAssumption ==
  /\ Grace \in Nat /\ Lead \in Nat /\ MaxTime \in Nat /\ MaxCrashes \in Nat
  /\ Retention \in Nat \ {0} /\ Horizon \in Nat

Proc == Handler \cup {BG}

VARIABLES
  sub,        \* the organization's subscription row
  inv,        \* invoice rows; UNUSED before, DELETED after they exist
  tx,         \* transactionStatus of an invoice's payment transaction row
  snap,       \* the entitlement snapshot row
  processed,  \* callback deliveries stored with processedSuccessfully
  order,      \* gateway: transaction status of an invoice's order
  linked,     \* gateway: orders whose payment link the customer was given
  notes,      \* gateway: notifications it has to deliver
  applied,    \* history: statuses whose effect reached the subscription
  revived,    \* history: renewals brought back by a report after they had ended
  pc, loc,    \* control and local variables of every process
  clock, crashes

db == <<sub, inv, tx, snap, processed, applied, revived>>
gateway == <<order, linked, notes>>
vars == <<db, gateway, pc, loc, clock, crashes>>

-----------------------------------------------------------------------------
Time == Int

Subscription ==
  [plan: Plan, status: SubscriptionStatus, periodEnd: Time, graceEnd: Time,
   autoRenew: BOOLEAN]

InvoiceRow ==
  [status: InvoiceStatus \cup {"UNUSED", "DELETED"}, plan: Plan,
   cycle: {"checkout", "renewal"}, due: Time, created: Time]

NoTx == "none"

\* A notification is identified by its delivery id: an order reaches a
\* status once.  A delivery is one attempt to hand it over.
Note == [inv: Invoice, st: TxStatus, at: Time]
Delivery == [inv: Invoice, st: TxStatus, att: Attempt]

\* What a handler remembers across awaits.  sub is the subscription record it
\* read or wrote last, late says that a day went by since the handler began.
Local ==
  [inv: Invoice \cup {NoInvoice}, plan: Plan, st: TxStatus \cup {NoTx},
   at: Time, att: Attempt \cup {0}, sub: Subscription, ids: SUBSET Invoice, late: BOOLEAN]

\* Where a process waits: for its next request or cycle, or for the answer to
\* the call it makes next.
Label ==
  {"idle", "reserve", "invoice", "charge", "pending", "store", "chargeFailed",
   "record", "lookupStore", "applyRead", "applyTx", "applyInvoice", "applySub",
   "activateRead", "activateWrite", "snapshot", "ack", "lifecycle",
   "renewalScan", "renewalCheck", "renewalCreate", "cleanupScan", "cleanup"}

DefaultSubscription ==
  [plan |-> Free, status |-> "TRIALING", periodEnd |-> NoTime,
   graceEnd |-> NoTime, autoRenew |-> FALSE]

IdleLocal ==
  [inv |-> NoInvoice, plan |-> Free, st |-> NoTx, at |-> NoTime, att |-> 0,
   sub |-> DefaultSubscription, ids |-> {}, late |-> FALSE]

\* signup creates the subscription row, without a snapshot.
Init ==
  /\ sub = DefaultSubscription
  /\ inv = [i \in Invoice |->
              [status |-> "UNUSED", plan |-> Free, cycle |-> "checkout",
               due |-> NoTime, created |-> NoTime]]
  /\ tx = [i \in Invoice |-> NoTx]
  /\ snap = [plan |-> Free, status |-> "none"]
  /\ processed = {}
  /\ order = [i \in Invoice |-> NoTx]
  /\ linked = {}
  /\ notes = {}
  /\ applied = {}
  /\ revived = {}
  /\ pc = [p \in Proc |-> "idle"]
  /\ loc = [p \in Proc |-> IdleLocal]
  /\ clock = 0
  /\ crashes = 0

-----------------------------------------------------------------------------
(* Helpers.                                                                *)

At(p, label) == pc[p] = label
Go(p, label) == pc' = [pc EXCEPT ![p] = label]
Finish(p) == Go(p, "idle") /\ loc' = [loc EXCEPT ![p] = IdleLocal]

\* The background cycle goes on with its next job, a request ends.
Continue(p, next) ==
  IF p = BG THEN Go(p, next) /\ loc' = [loc EXCEPT ![p] =
                                  [IdleLocal EXCEPT !.late = loc[p].late]]
            ELSE Finish(p)

HasRow(i) == inv[i].status \in InvoiceStatus
Row(p) == inv[loc[p].inv]
DeliveryOf(p) == [inv |-> loc[p].inv, st |-> loc[p].st, att |-> loc[p].att]

\* A renewal that had ended when it gets status st.
Live == {"DRAFT", "PENDING_PAYMENT", "PAID"}
Revived(i, st) ==
  {k \in {i} : inv[k].cycle = "renewal" /\ inv[k].status \notin Live /\ st \in Live}

\* Ids a row can still be created with (the bound on rows).
FreshId(i) == inv[i].status = "UNUSED" /\ \A p \in Proc : loc[p].inv # i

-----------------------------------------------------------------------------
(* checkout.                                                               *)

\* Owner, plan and readiness checks passed; no row is touched yet.
CheckoutStart(h) ==
  /\ "checkout" \in Requests
  /\ At(h, "idle")
  /\ \E p \in Plan, i \in Invoice :
       /\ FreshId(i)
       /\ loc' = [loc EXCEPT ![h].plan = p, ![h].inv = i]
  /\ Go(h, "reserve")
  /\ UNCHANGED <<db, gateway, clock, crashes>>

\* The subscription moves to the chosen plan before anything is paid; the
\* period columns and the snapshot keep their values.
CheckoutReserve(h) ==
  /\ At(h, "reserve")
  /\ LET p == loc[h].plan IN
       /\ sub' = [sub EXCEPT !.plan = p,
                             !.status = IF p \in Paid THEN "PENDING_ACTIVATION"
                                                      ELSE "ACTIVE",
                             !.autoRenew = p \in Paid,
                             !.graceEnd = NoTime]
       /\ loc' = [loc EXCEPT ![h].at = clock]
  /\ Go(h, "invoice")
  /\ UNCHANGED <<inv, tx, snap, processed, applied, revived, gateway, clock, crashes>>

CheckoutInvoice(h) ==
  /\ At(h, "invoice")
  /\ LET p == loc[h].plan IN
       /\ inv' = [inv EXCEPT ![loc[h].inv] =
                    [status |-> IF p \in Paid THEN "DRAFT" ELSE "PAID",
                     plan |-> p, cycle |-> "checkout", due |-> NoTime,
                     created |-> clock]]
       /\ Go(h, IF p \in Paid THEN "charge" ELSE "activateRead")
  /\ UNCHANGED <<sub, tx, snap, processed, applied, revived, gateway, loc, clock, crashes>>

-----------------------------------------------------------------------------
(* createCharge and what follows it, shared by checkout and the renewal    *)
(* job.                                                                    *)

\* Variant: a refused charge is taken for an accepted one.
ChargeNeverFails(p) ==
  /\ At(p, "charge")
  /\ \E outcome \in ChargeOutcomes :
       /\ Go(p, "pending")
       /\ order' = IF outcome = "refused" THEN order
                     ELSE [order EXCEPT ![loc[p].inv] = "pending"]
  /\ UNCHANGED <<db, linked, notes, loc, clock, crashes>>

\* lost: the gateway registered the order, the answer never arrived.
CreateCharge(p) ==
  /\ At(p, "charge")
  /\ \E outcome \in ChargeOutcomes :
       /\ Go(p, IF outcome = "ok" THEN "pending" ELSE "chargeFailed")
       /\ IF outcome = "refused"
            THEN UNCHANGED <<order, notes>>
            ELSE /\ order' = [order EXCEPT ![loc[p].inv] = "pending"]
                 /\ notes' = notes \cup
                      {n \in {[inv |-> loc[p].inv, st |-> "pending", at |-> clock]} :
                         n.st \in Outcomes}
  /\ UNCHANGED <<db, linked, loc, clock, crashes>>

\* Unconditional: a callback may have moved the invoice since.
ChargePending(p) ==
  /\ At(p, "pending")
  /\ HasRow(loc[p].inv)
  /\ inv' = [inv EXCEPT ![loc[p].inv].status = "PENDING_PAYMENT"]
  /\ revived' = revived \cup Revived(loc[p].inv, "PENDING_PAYMENT")
  /\ Go(p, "store")
  /\ UNCHANGED <<sub, tx, snap, processed, applied, gateway, loc, clock, crashes>>

ChargeStore(p) ==
  /\ At(p, "store")
  /\ HasRow(loc[p].inv)
  /\ tx' = [tx EXCEPT ![loc[p].inv] = "pending"]
  /\ linked' = linked \cup {loc[p].inv}
  /\ Continue(p, "cleanupScan")
  /\ UNCHANGED <<sub, inv, snap, processed, applied, revived, order, notes, clock, crashes>>

ChargeFailed(p) ==
  /\ At(p, "chargeFailed")
  /\ HasRow(loc[p].inv)
  /\ inv' = [inv EXCEPT ![loc[p].inv].status = "FAILED"]
  /\ Continue(p, "cleanupScan")
  /\ UNCHANGED <<sub, tx, snap, processed, applied, revived, gateway, clock, crashes>>

-----------------------------------------------------------------------------
(* handlePaymentCallback.                                                  *)

\* The delivery is looked up first: one already processed is answered with
\* { ok: true } and nothing else.
CallbackStart(h) ==
  /\ "callback" \in Requests
  /\ At(h, "idle")
  /\ sub.periodEnd <= Horizon
  /\ \E n \in notes, a \in Attempt :
       /\ [inv |-> n.inv, st |-> n.st, att |-> a] \notin processed
       /\ loc' = [loc EXCEPT ![h].inv = n.inv, ![h].st = n.st,
                             ![h].at = n.at, ![h].att = a]
  /\ Go(h, "record")
  /\ UNCHANGED <<db, gateway, clock, crashes>>

\* Variant: the delivery is stored as processed at once.
ProcessedOnArrival(h) ==
  /\ At(h, "record")
  /\ processed' = processed \cup {DeliveryOf(h)}
  /\ HasRow(loc[h].inv)
  /\ loc' = [loc EXCEPT ![h].at = clock]
  /\ Go(h, "applyRead")
  /\ UNCHANGED <<sub, inv, tx, snap, applied, revived, gateway, clock, crashes>>

\* The delivery is stored as not processed.  A rejected signature or a
\* missing invoice ends the request there.  A payload without a
\* transaction_time takes effect now.
CallbackRecord(h) ==
  /\ At(h, "record")
  /\ processed' = processed \ {DeliveryOf(h)}
  /\ \/ Finish(h)
     \/ /\ HasRow(loc[h].inv)
        /\ \E t \in {loc[h].at, clock} : loc' = [loc EXCEPT ![h].at = t]
        /\ Go(h, "applyRead")
  /\ UNCHANGED <<sub, inv, tx, snap, applied, revived, gateway, clock, crashes>>

CallbackAck(h) ==
  /\ At(h, "ack")
  /\ HasRow(loc[h].inv)
  /\ processed' = processed \cup {DeliveryOf(h)}
  /\ Finish(h)
  /\ UNCHANGED <<sub, inv, tx, snap, applied, revived, gateway, clock, crashes>>

-----------------------------------------------------------------------------
(* refreshPaymentStatus.                                                   *)

\* The owner asks for an invoice; the gateway answers with its status now.
RefreshLookup(h) ==
  /\ "refresh" \in Requests
  /\ At(h, "idle")
  /\ sub.periodEnd <= Horizon
  /\ \E i \in Invoice :
       /\ HasRow(i)
       /\ order[i] # NoTx
       /\ loc' = [loc EXCEPT ![h].inv = i, ![h].st = order[i]]
  /\ Go(h, "lookupStore")
  /\ UNCHANGED <<db, gateway, clock, crashes>>

RefreshStore(h) ==
  /\ At(h, "lookupStore")
  /\ HasRow(loc[h].inv)
  /\ tx' = [tx EXCEPT ![loc[h].inv] = loc[h].st]
  /\ linked' = linked \cup {loc[h].inv}
  /\ loc' = [loc EXCEPT ![h].at = clock]
  /\ Go(h, "applyRead")
  /\ UNCHANGED <<sub, inv, snap, processed, applied, revived, order, notes, clock, crashes>>

-----------------------------------------------------------------------------
(* applyTransactionStatusTransition, shared by callback and refresh.       *)

\* The invoice is read with its subscription and plan.
ApplyRead(h) ==
  /\ At(h, "applyRead")
  /\ HasRow(loc[h].inv)
  /\ loc' = [loc EXCEPT ![h].sub = sub, ![h].plan = Row(h).plan]
  /\ Go(h, "applyTx")
  /\ UNCHANGED <<db, gateway, clock, crashes>>

ApplyTx(h) ==
  /\ At(h, "applyTx")
  /\ HasRow(loc[h].inv)
  /\ tx' = [tx EXCEPT ![loc[h].inv] = loc[h].st]
  /\ Go(h, "applyInvoice")
  /\ UNCHANGED <<sub, inv, snap, processed, applied, revived, gateway, loc, clock, crashes>>

\* Whatever the invoice's status is by now.
ApplyInvoice(h) ==
  /\ At(h, "applyInvoice")
  /\ HasRow(loc[h].inv)
  /\ inv' = [inv EXCEPT ![loc[h].inv].status =
                          mapInvoiceStatusFromTransaction(loc[h].st)]
  /\ revived' = revived \cup Revived(loc[h].inv, mapInvoiceStatusFromTransaction(loc[h].st))
  /\ Go(h, IF loc[h].st = "settlement" THEN "activateRead" ELSE "applySub")
  /\ UNCHANGED <<sub, tx, snap, processed, applied, gateway, loc, clock, crashes>>

\* The new status depends on the subscription status ApplyRead saw.
ApplySubscription(h) ==
  /\ At(h, "applySub")
  /\ LET st == mapSubscriptionStatusFromTransaction(loc[h].st, loc[h].sub.status)
     IN  sub' = [sub EXCEPT !.status = st,
                            !.graceEnd = IF st = "GRACE_PERIOD"
                                           THEN loc[h].at + Grace ELSE NoTime]
  /\ applied' = applied \cup {[inv |-> loc[h].inv, st |-> loc[h].st]}
  /\ loc' = [loc EXCEPT ![h].sub = sub']
  /\ Go(h, "snapshot")
  /\ UNCHANGED <<inv, tx, snap, processed, revived, gateway, clock, crashes>>

\* activateSubscriptionAfterPayment: read the subscription, then write it.
ActivateRead(h) ==
  /\ At(h, "activateRead")
  /\ loc' = [loc EXCEPT ![h].sub = sub]
  /\ Go(h, "activateWrite")
  /\ UNCHANGED <<db, gateway, clock, crashes>>

\* Variant: autoRenew is written back whatever the plan costs.
ActivateKeepsRenewal(h) ==
  /\ At(h, "activateWrite")
  /\ LET l == loc[h] IN
       /\ sub' = [plan |-> l.plan, status |-> "ACTIVE",
                  periodEnd |-> NextPeriodStart(Row(h).cycle, l.sub.periodEnd, l.at)
                                  + Period[l.plan],
                  graceEnd |-> NoTime, autoRenew |-> l.sub.autoRenew]
       /\ applied' = applied \cup
            {a \in {[inv |-> l.inv, st |-> l.st]} : a.st # NoTx}
  /\ loc' = [loc EXCEPT ![h].sub = sub']
  /\ Go(h, "snapshot")
  /\ UNCHANGED <<inv, tx, snap, processed, revived, gateway, clock, crashes>>

\* Variant: the payment activates whatever plan the subscription has by now.
ActivateKeepsPlan(h) ==
  /\ At(h, "activateWrite")
  /\ sub' = [sub EXCEPT !.status = "ACTIVE", !.graceEnd = NoTime,
                        !.periodEnd = loc[h].at + Period[loc[h].plan]]
  /\ loc' = [loc EXCEPT ![h].sub = sub']
  /\ Go(h, "snapshot")
  /\ UNCHANGED <<inv, tx, snap, processed, applied, revived, gateway, clock, crashes>>

ActivateWrite(h) ==
  /\ At(h, "activateWrite")
  /\ LET l == loc[h] IN
       /\ sub' = [plan |-> l.plan, status |-> "ACTIVE",
                  periodEnd |-> NextPeriodStart(Row(h).cycle, l.sub.periodEnd, l.at)
                                  + Period[l.plan],
                  graceEnd |-> NoTime,
                  autoRenew |-> l.plan \in Paid /\ l.sub.autoRenew]
       /\ applied' = applied \cup
            {a \in {[inv |-> l.inv, st |-> l.st]} : a.st # NoTx}
  /\ loc' = [loc EXCEPT ![h].sub = sub']
  /\ Go(h, "snapshot")
  /\ UNCHANGED <<inv, tx, snap, processed, revived, gateway, clock, crashes>>

\* refreshEntitlementSnapshot, with the record the last write returned.
RefreshSnapshot(p) ==
  /\ At(p, "snapshot")
  /\ snap' = [plan |-> loc[p].sub.plan, status |-> loc[p].sub.status]
  /\ IF loc[p].att # 0 THEN Go(p, "ack") /\ UNCHANGED loc
                       ELSE Continue(p, "renewalScan")
  /\ UNCHANGED <<sub, inv, tx, processed, applied, revived, gateway, clock, crashes>>

\* Variant: the update of a vanished invoice is retried for ever.
UpdateNeverGivesUp(p) ==
  /\ pc[p] \in {"pending", "store", "chargeFailed", "lookupStore", "applyRead",
                "applyTx", "ack"}
  /\ ~HasRow(loc[p].inv)
  /\ Finish(p)
  /\ UNCHANGED <<db, gateway, clock, crashes>>

\* A statement on a row that cleanup deleted throws, and so does storing a
\* delivery or a payment transaction that refers to it.
Abort(p) ==
  /\ pc[p] \in {"pending", "store", "chargeFailed", "lookupStore", "applyRead",
                "applyTx", "applyInvoice", "ack"}
  /\ ~HasRow(loc[p].inv)
  /\ Finish(p)
  /\ UNCHANGED <<db, gateway, clock, crashes>>

-----------------------------------------------------------------------------
(* The background cycle: lifecycle, renewal and cleanup job in turn.  An   *)
(* exception ends the cycle; the timer is set again in any case.           *)

LifecycleScan ==
  /\ At(BG, "idle")
  /\ IF IsLifecycleDue(sub, clock)
       THEN Go(BG, "lifecycle") /\ loc' = [loc EXCEPT ![BG].sub = sub]
       ELSE Go(BG, "renewalScan") /\ UNCHANGED loc
  /\ UNCHANGED <<db, gateway, clock, crashes>>

\* Variant: the job opens a grace period without its last day.
GraceWithoutEnd ==
  /\ At(BG, "lifecycle")
  /\ sub' = [sub EXCEPT !.status = IF loc[BG].sub.status = "GRACE_PERIOD"
                                     THEN "EXPIRED" ELSE "GRACE_PERIOD"]
  /\ loc' = [loc EXCEPT ![BG].sub = sub']
  /\ Go(BG, "snapshot")
  /\ UNCHANGED <<inv, tx, snap, processed, applied, revived, gateway, clock, crashes>>

\* Decided on the record the scan read, written to whatever is there now.
\* cancelAtPeriodEnd is never set, so a lapsed period always enters grace.
LifecycleWrite ==
  /\ At(BG, "lifecycle")
  /\ LET seen == loc[BG].sub IN
       sub' = IF seen.status = "GRACE_PERIOD"
                THEN [sub EXCEPT !.status = "EXPIRED"]
                ELSE [sub EXCEPT !.status = "GRACE_PERIOD",
                                 !.graceEnd = seen.periodEnd + Grace]
  /\ loc' = [loc EXCEPT ![BG].sub = sub']
  /\ Go(BG, "snapshot")
  /\ UNCHANGED <<inv, tx, snap, processed, applied, revived, gateway, clock, crashes>>

\* ensureReadiness is asked only when there is something to renew; when it
\* throws, the cycle ends without its cleanup job.
RenewalScan ==
  /\ At(BG, "renewalScan")
  /\ \/ /\ IsRenewable(sub, clock, Lead, Paid)
        /\ Go(BG, "renewalCheck")
        /\ loc' = [loc EXCEPT ![BG].sub = sub]
     \/ IsRenewable(sub, clock, Lead, Paid) /\ Finish(BG)
     \/ /\ ~IsRenewable(sub, clock, Lead, Paid)
        /\ Go(BG, "cleanupScan")
        /\ UNCHANGED loc
  /\ UNCHANGED <<db, gateway, clock, crashes>>

\* When no row id is left (the bound), the model skips the renewal.
RenewalCheck ==
  /\ At(BG, "renewalCheck")
  /\ IF \/ \E i \in Invoice : BlocksRenewal(inv[i], loc[BG].sub.periodEnd)
        \/ \A i \in Invoice : ~FreshId(i)
       THEN Continue(BG, "cleanupScan")
       ELSE /\ \E i \in Invoice : FreshId(i) /\ loc' = [loc EXCEPT ![BG].inv = i]
            /\ Go(BG, "renewalCreate")
  /\ UNCHANGED <<db, gateway, clock, crashes>>

RenewalCreate ==
  /\ At(BG, "renewalCreate")
  /\ inv' = [inv EXCEPT ![loc[BG].inv] =
               [status |-> "DRAFT", plan |-> loc[BG].sub.plan,
                cycle |-> "renewal", due |-> loc[BG].sub.periodEnd,
                created |-> clock]]
  /\ Go(BG, "charge")
  /\ UNCHANGED <<sub, tx, snap, processed, applied, revived, gateway, loc, clock, crashes>>

CleanupScan ==
  /\ At(BG, "cleanupScan")
  /\ LET old == {i \in Invoice : IsCleanable(inv[i], clock, Retention)} IN
       IF old = {} THEN Finish(BG)
                   ELSE Go(BG, "cleanup") /\ loc' = [loc EXCEPT ![BG].ids = old]
  /\ UNCHANGED <<db, gateway, clock, crashes>>

\* Deletes by id, without looking at the status again.
CleanupDelete ==
  /\ At(BG, "cleanup")
  /\ LET old == loc[BG].ids IN
       /\ inv' = [i \in DOMAIN inv |-> IF i \in old
                                         THEN [inv[i] EXCEPT !.status = "DELETED"]
                                         ELSE inv[i]]
       /\ tx' = [i \in DOMAIN tx |-> IF i \in old THEN NoTx ELSE tx[i]]
       /\ processed' = {d \in processed : d.inv \notin old}
  /\ Finish(BG)
  /\ UNCHANGED <<sub, snap, applied, revived, gateway, clock, crashes>>

-----------------------------------------------------------------------------
(* The environment: the gateway, time, and the death of the API process.   *)

\* Statuses an order can move to.  An order is settled or refused only by a
\* customer who was given its payment link.
GatewayNext(st) ==
  CASE st = "pending"    -> {"settlement", "failed", "expired", "cancelled"}
    [] st = "failed"     -> {"settlement"}
    [] st = "settlement" -> {"refunded"}
    [] OTHER             -> {}

GatewayStep ==
  /\ \E i \in Invoice : \E st \in Outcomes \cap GatewayNext(order[i]) :
       /\ st \in {"settlement", "failed"} => i \in linked
       /\ order' = [order EXCEPT ![i] = st]
       /\ notes' = notes \cup {[inv |-> i, st |-> st, at |-> clock]}
  /\ UNCHANGED <<db, linked, pc, loc, clock, crashes>>

\* A tick is a day: no request and no cycle sees two of them.
Tick ==
  /\ clock < MaxTime
  /\ \A p \in Proc : ~loc[p].late
  /\ clock' = clock + 1
  /\ loc' = [p \in DOMAIN loc |-> [loc[p] EXCEPT !.late = ~At(p, "idle")]]
  /\ UNCHANGED <<db, gateway, pc, crashes>>

Crash ==
  /\ crashes < MaxCrashes
  /\ crashes' = crashes + 1
  /\ pc' = [p \in DOMAIN pc |-> "idle"]
  /\ loc' = [p \in DOMAIN loc |-> IdleLocal]
  /\ UNCHANGED <<db, gateway, clock>>

-----------------------------------------------------------------------------
Arrive(h) == CheckoutStart(h) \/ CallbackStart(h) \/ RefreshLookup(h)

RequestStep(h) ==
  \/ CheckoutReserve(h) \/ CheckoutInvoice(h)
  \/ CallbackRecord(h) \/ CallbackAck(h) \/ RefreshStore(h)
  \/ ApplyRead(h) \/ ApplyTx(h) \/ ApplyInvoice(h) \/ ApplySubscription(h)
  \/ ActivateRead(h) \/ ActivateWrite(h)

SharedStep(p) ==
  \/ CreateCharge(p) \/ ChargePending(p) \/ ChargeStore(p) \/ ChargeFailed(p)
  \/ RefreshSnapshot(p) \/ Abort(p)

Job ==
  \/ LifecycleScan \/ LifecycleWrite \/ RenewalScan \/ RenewalCheck
  \/ RenewalCreate \/ CleanupScan \/ CleanupDelete

Cycle == Job \/ SharedStep(BG)

Next ==
  \/ \E h \in Handler : Arrive(h) \/ RequestStep(h) \/ SharedStep(h)
  \/ Cycle
  \/ GatewayStep \/ Tick \/ Crash

Spec == Init /\ [][Next]_vars

\* A handler that started runs on, and the cycle's timer is set again in a
\* finally block.  Nothing obliges a request to arrive, the gateway to move,
\* time to pass or the process to die.
Fairness ==
  /\ \A h \in Handler : WF_vars(RequestStep(h) \/ SharedStep(h))
  /\ WF_vars(Cycle)

FairSpec == Spec /\ Fairness

-----------------------------------------------------------------------------
(* Properties.                                                             *)

\* Type correctness of rows, gateway facts and handler locals.
TypeOK ==
  /\ sub \in Subscription
  /\ inv \in [Invoice -> InvoiceRow]
  /\ tx \in [Invoice -> TxStatus \cup {NoTx}]
  /\ snap \in [plan: Plan, status: SubscriptionStatus \cup {"none"}]
  /\ processed \subseteq Delivery
  /\ order \in [Invoice -> TxStatus \cup {NoTx}]
  /\ linked \subseteq Invoice
  /\ notes \subseteq Note
  /\ applied \subseteq [inv: Invoice, st: TxStatus]
  /\ revived \subseteq Invoice
  /\ pc \in [Proc -> Label]
  /\ loc \in [Proc -> Local]
  /\ clock \in 0..MaxTime
  /\ crashes \in 0..MaxCrashes

Reported(i, st) == \E n \in notes : n.inv = i /\ n.st = st
Bought(p) == \E i \in Invoice : inv[i].plan = p /\ Reported(i, "settlement")

\* What was heard of any order; createCharge answers without a notification.
Heard == {st \in TxStatus : \E i \in Invoice :
            order[i] # NoTx /\ (st # "pending" => Reported(i, st))}

BoughtPlans == {p \in Plan : Bought(p)}

\* Whatever requests, deliveries, jobs and deaths cross each other, the
\* subscription row and the entitlement snapshot move as Entitlement says: no
\* step of the service changes other columns than its kind of change may, and
\* none without what must have come before it.
Entitled == INSTANCE Entitlement WITH bought <- BoughtPlans, heard <- Heard
SubscriptionIsEntitlement == Entitled!Spec

\* A priced plan is active, in the subscription and in the entitlement
\* snapshot, only if the gateway settled an invoice for that very plan:
\* however checkouts, callbacks, refreshes and the lifecycle job interleave,
\* none combines the plan of one with the status of another into ACTIVE.
ActivePlanWasBought ==
  /\ sub.status = "ACTIVE" /\ sub.plan \in Paid => Bought(sub.plan)
  /\ snap.status = "ACTIVE" /\ snap.plan \in Paid => Bought(snap.plan)

\* What an invoice for a priced plan says of its payment, the gateway said of
\* its order at some time; it awaits payment only if there is an order.
InvoiceBackedByGateway ==
  \A i \in Invoice : inv[i].plan \in Paid =>
    /\ inv[i].status = "PENDING_PAYMENT" => order[i] # NoTx
    /\ inv[i].status = "PAID" => Reported(i, "settlement")
    /\ inv[i].status = "EXPIRED" => Reported(i, "expired")
    /\ inv[i].status = "VOID" => Reported(i, "cancelled")
    /\ inv[i].status = "REFUNDED" => Reported(i, "refunded")

\* A subscription is cancelled, past due or expired only because the gateway
\* reported such a status of some order or because there was a period to end.
DowngradeHasCause ==
  LET reported(st) == \E i \in Invoice : Reported(i, st) IN
    /\ sub.status = "CANCELED" => reported("cancelled") \/ reported("refunded")
    /\ sub.status = "PAST_DUE" => reported("failed")
    /\ sub.status \in {"GRACE_PERIOD", "EXPIRED"} =>
         reported("expired") \/ sub.periodEnd # NoTime

\* The lifecycle job can end every entitlement that should end: a grace
\* period has its last day, and so does an active priced plan.
EveryTermEnds ==
  /\ sub.status = "GRACE_PERIOD" => sub.graceEnd # NoTime
  /\ sub.status = "ACTIVE" /\ sub.plan \in Paid => sub.periodEnd # NoTime

\* Only a priced plan renews, so the renewal job never bills for a free one,
\* even when a late settlement writes back an autoRenew it read earlier.
AutoRenewIsPriced == sub.autoRenew => sub.plan \in Paid

\* A delivery answered for good is never lost: its status had reached the
\* subscription, whatever died or was deleted meanwhile.
AckedDeliveryWasApplied ==
  \A d \in processed : [inv |-> d.inv, st |-> d.st] \in applied

\* Cleanup never takes an invoice away from the checkout or renewal that is
\* still charging it.
ChargedInvoiceKeepsRow ==
  \A p \in Proc :
    pc[p] \in {"charge", "pending", "store", "chargeFailed"} => HasRow(loc[p].inv)

\* One due date is billed by one renewal invoice at a time, whatever charges are
\* refused or remain unanswered, however reports, clean-ups and deaths cross the
\* job; but for an invoice that had ended, FAILED say for want of an answer, and
\* that a later report brings back to life.
OneLiveRenewal ==
  \A i, j \in {k \in Invoice \ revived :
                 inv[k].cycle = "renewal" /\ inv[k].status \in Live} :
    inv[i].due = inv[j].due => i = j

\* An active or past due subscription whose period is over does not stay so,
\* and a grace period past its last day is left.
LapsedPeriodIsNoticed ==
  (sub.status \in {"ACTIVE", "PAST_DUE"} /\ sub.periodEnd # NoTime
     /\ sub.periodEnd < clock)
    ~> ~(sub.status \in {"ACTIVE", "PAST_DUE"} /\ sub.periodEnd < clock)
GraceRunsOut ==
  (sub.status = "GRACE_PERIOD" /\ sub.graceEnd < clock)
    ~> ~(sub.status = "GRACE_PERIOD" /\ sub.graceEnd < clock)

\* No request hangs, also when its invoice is deleted under it.
EveryRequestEnds == \A h \in Handler : pc[h] # "idle" ~> pc[h] = "idle"

\* docs 28, section 22: a settlement that took effect does not move the paid
\* period again when the same payment is looked at once more.
SettlementAppliedOnce ==
  [][\A h \in Handler :
       /\ ActivateWrite(h)
       /\ [inv |-> loc[h].inv, st |-> "settlement"] \in applied
       => sub'.periodEnd = sub.periodEnd]_vars

\* docs 28, section 22: a webhook delivered again does not extend a renewed
\* subscription again.
RenewalExtendsOnce ==
  [][\A h \in Handler :
       /\ ActivateWrite(h)
       /\ Row(h).cycle = "renewal"
       /\ [inv |-> loc[h].inv, st |-> "settlement"] \in applied
       => sub'.periodEnd = sub.periodEnd]_vars

\* docs 28, section 9: with nothing in flight, the entitlement snapshot of an
\* active subscription is that of the subscription as it is now.
SnapshotFollowsSubscription ==
  (\A p \in Proc : pc[p] = "idle") /\ sub.status = "ACTIVE"
    => snap.plan = sub.plan /\ snap.status = "ACTIVE"

\* docs 28, section 18: a tenant enters the grace period when a payment fails
\* or the subscription has run out.
GraceAfterTheEnd ==
  sub.status = "GRACE_PERIOD" =>
    \/ sub.periodEnd < clock
    \/ \E i \in Invoice : Reported(i, "expired") \/ Reported(i, "failed")

\* docs 28, section 16: an order the customer paid still has the invoice its
\* settlement will be applied to.
SettledOrderHasInvoice ==
  \A i \in Invoice : order[i] = "settlement" => HasRow(i)

=============================================================================
