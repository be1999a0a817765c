------------------------ MODULE BillingSafetyProofs ------------------------
(***************************************************************************)
(* What an acknowledged delivery has done, what the renewal job may bill,  *)
(* how subscriptions end and what cleanup leaves alone:                    *)
(* AckedDeliveryWasApplied, AutoRenewIsPriced, EveryTermEnds,              *)
(* DowngradeHasCause, ChargedInvoiceKeepsRow and OneLiveRenewal, and that  *)
(* Billing implements Entitlement, for every value of the constants.       *)
(***************************************************************************)
EXTENDS BillingProofs

-----------------------------------------------------------------------------
(* One process moves.                                                      *)

OthersStay(p) == \A q \in Proc \ {p} : pc'[q] = pc[q] /\ loc'[q] = loc[q]

LEMMA MoveStays ==
  ASSUME TypeInv, NEW p \in Proc, NEW label, NEW l, Moves(p, label, l)
  PROVE  OthersStay(p) /\ pc'[p] = label /\ loc'[p] = l
BY DEF Moves, OthersStay, TypeInv, TypeOK

\* A step that goes on with the locals it has, or with changed ones.
LEMMA GoStays ==
  ASSUME TypeInv, NEW p \in Proc, NEW label, Go(p, label), UNCHANGED loc
  PROVE  OthersStay(p) /\ pc'[p] = label /\ loc'[p] = loc[p]
BY MovesHere, MoveStays

LEMMA StepStays ==
  ASSUME TypeInv, NEW p \in Proc, NEW label, NEW l,
         Go(p, label), loc' = [loc EXCEPT ![p] = l]
  PROVE  OthersStay(p) /\ pc'[p] = label /\ loc'[p] = l
BY MoveStays DEF Go, Moves

LEMMA FinishStays ==
  ASSUME TypeInv, NEW p \in Proc, Finish(p)
  PROVE  OthersStay(p) /\ pc'[p] = "idle"
BY StepStays DEF Finish

LEMMA ContinueStays ==
  ASSUME TypeInv, NEW p \in Proc, NEW label, Continue(p, label)
  PROVE  OthersStay(p) /\ pc'[p] \in {"idle", label}
<1>1. CASE p # BG
  BY <1>1, FinishStays DEF Continue
<1>2. CASE p = BG
  <2> DEFINE l == [IdleLocal EXCEPT !.late = loc[p].late]
  <2>1. Go(p, label) /\ loc' = [loc EXCEPT ![p] = l]
    BY <1>2 DEF Continue
  <2> HIDE DEF l
  <2>. QED BY <2>1, StepStays
<1>. QED BY <1>1, <1>2

-----------------------------------------------------------------------------
(* Deliveries and renewals.                                                *)

\* Labels of handlePaymentCallback.
CallbackLabels ==
  {"record", "applyRead", "applyTx", "applyInvoice", "applySub", "activateRead",
   "activateWrite", "snapshot", "ack"}

\* Only a callback carries an attempt; past its write to the subscription, the
\* status it carries has been applied.
Carries(label, l, done) ==
  l.att # 0 =>
    /\ label \in CallbackLabels
    /\ label \in {"snapshot", "ack"} => [inv |-> l.inv, st |-> l.st] \in done

CallbacksOK == \A p \in Proc : Carries(pc[p], loc[p], applied)

AckInv == TypeInv /\ CallbacksOK /\ AckedDeliveryWasApplied /\ AutoRenewIsPriced

-----------------------------------------------------------------------------
(* The locals of a callback.                                               *)

LEMMA MoveKeeps ==
  ASSUME AckInv, TypeInv', NEW p \in Proc, OthersStay(p),
         Carries(pc'[p], loc'[p], applied'), applied \subseteq applied',
         \A d \in processed' \ processed : [inv |-> d.inv, st |-> d.st] \in applied',
         AutoRenewIsPriced'
  PROVE  AckInv'
<1>1. CallbacksOK'
  BY DEF AckInv, CallbacksOK, Carries, OthersStay
<1>2. AckedDeliveryWasApplied'
  BY DEF AckInv, AckedDeliveryWasApplied
<1>. QED BY <1>1, <1>2 DEF AckInv

\* A process that carries no attempt.
LEMMA PlainMoveKeeps ==
  ASSUME AckInv, TypeInv', NEW p \in Proc, OthersStay(p), loc'[p].att = 0,
         processed' \subseteq processed, applied \subseteq applied',
         UNCHANGED sub \/ AutoRenewIsPriced'
  PROVE  AckInv'
<1>1. Carries(pc'[p], loc'[p], applied')
  BY DEF Carries
<1>2. AutoRenewIsPriced'
  BY DEF AckInv, AutoRenewIsPriced
<1>. QED BY <1>1, <1>2, MoveKeeps

LEMMA CallbackHere ==
  ASSUME AckInv, NEW p \in Proc
  PROVE  /\ TypeInv /\ loc[p] \in Local /\ LocalTyped(pc[p], loc[p])
         /\ Carries(pc[p], loc[p], applied)
         /\ pc[p] \notin CallbackLabels => loc[p].att = 0
BY HereTyped DEF AckInv, CallbacksOK, Carries

LEMMA FinishPlain ==
  ASSUME TypeInv, NEW p \in Proc, Finish(p)
  PROVE  OthersStay(p) /\ loc'[p].att = 0
BY DEF Finish, Go, OthersStay, IdleLocal, TypeInv, TypeOK

LEMMA ContinuePlain ==
  ASSUME TypeInv, NEW p \in Proc, NEW label, Continue(p, label)
  PROVE  OthersStay(p) /\ loc'[p].att = 0
<1>1. CASE p # BG
  BY <1>1, FinishPlain DEF Continue
<1>2. CASE p = BG
  <2> DEFINE l == [IdleLocal EXCEPT !.late = loc[p].late]
  <2>1. l.att = 0
    BY DEF IdleLocal
  <2>2. Go(p, label) /\ loc' = [loc EXCEPT ![p] = l]
    BY <1>2 DEF Continue
  <2> HIDE DEF l
  <2>. QED BY <2>1, <2>2 DEF Go, OthersStay, TypeInv, TypeOK
<1>. QED BY <1>1, <1>2

-----------------------------------------------------------------------------
(* Checkout, charge and refresh.                                           *)

LEMMA CheckoutKeeps ==
  ASSUME AckInv, NEW h \in Handler,
         CheckoutStart(h) \/ CheckoutReserve(h) \/ CheckoutInvoice(h)
  PROVE  AckInv'
<1>1. h \in Proc /\ TypeInv'
  BY CheckoutStartTyped, CheckoutReserveTyped, CheckoutInvoiceTyped DEF AckInv, Proc
<1>2. loc[h].att = 0
  BY <1>1, CallbackHere
     DEF CheckoutStart, CheckoutReserve, CheckoutInvoice, At, CallbackLabels
<1>3. OthersStay(h) /\ loc'[h].att = loc[h].att
  <2>1. CASE CheckoutStart(h)
    <3>1. PICK p \in Plan, i \in Invoice :
            loc' = [loc EXCEPT ![h].plan = p, ![h].inv = i]
      BY <2>1 DEF CheckoutStart
    <3> DEFINE l == [loc[h] EXCEPT !.plan = p, !.inv = i]
    <3>2. Go(h, "reserve") /\ loc' = [loc EXCEPT ![h] = l] /\ l.att = loc[h].att
      BY <1>1, <2>1, <3>1, CallbackHere DEF CheckoutStart, TypeInv, TypeOK, Local
    <3> HIDE DEF l
    <3>. QED BY <1>1, <3>2, CallbackHere, StepStays
  <2>2. CASE CheckoutReserve(h)
    <3> DEFINE l == [loc[h] EXCEPT !.at = clock]
    <3>1. Go(h, "invoice") /\ loc' = [loc EXCEPT ![h] = l] /\ l.att = loc[h].att
      BY <1>1, <2>2, CallbackHere DEF CheckoutReserve, TypeInv, TypeOK, Local
    <3> HIDE DEF l
    <3>. QED BY <1>1, <3>1, CallbackHere, StepStays
  <2>3. CASE CheckoutInvoice(h)
    <3>1. UNCHANGED loc /\ \E label \in Label : Go(h, label)
      BY <2>3 DEF CheckoutInvoice, Label
    <3>. QED BY <1>1, <3>1, CallbackHere, GoStays
  <2>. QED BY <2>1, <2>2, <2>3
<1>4. UNCHANGED <<processed, applied>>
  BY DEF CheckoutStart, CheckoutReserve, CheckoutInvoice, db
<1>5. CASE CheckoutReserve(h)
  <2> DEFINE status == IF loc[h].plan \in Paid THEN "PENDING_ACTIVATION" ELSE "ACTIVE"
             auto == loc[h].plan \in Paid
  <2>1. sub' = [sub EXCEPT !.plan = loc[h].plan, !.status = status,
                           !.autoRenew = auto, !.graceEnd = NoTime]
    BY <1>5, Zenon DEF CheckoutReserve
  <2>2. sub \in Subscription
    BY DEF AckInv, TypeInv, TypeOK
  <2> HIDE DEF status
  <2>3. AutoRenewIsPriced'
    BY <2>1, <2>2 DEF AutoRenewIsPriced, Subscription
  <2>. QED BY <1>1, <1>2, <1>3, <1>4, <2>3, PlainMoveKeeps
<1>6. CASE ~CheckoutReserve(h)
  <2>1. UNCHANGED sub
    BY <1>6 DEF CheckoutStart, CheckoutInvoice, db
  <2>. QED BY <1>1, <1>2, <1>3, <1>4, <2>1, PlainMoveKeeps
<1>. QED BY <1>5, <1>6

LEMMA ChargeKeeps ==
  ASSUME AckInv, NEW p \in Proc,
         CreateCharge(p) \/ ChargePending(p) \/ ChargeStore(p) \/ ChargeFailed(p)
  PROVE  AckInv'
<1>1. TypeInv'
  BY CreateChargeTyped, ChargePendingTyped, ChargeStoreTyped, ChargeFailedTyped
     DEF AckInv
<1>2. UNCHANGED <<processed, applied, sub>>
  BY DEF CreateCharge, ChargePending, ChargeStore, ChargeFailed, db
<1>3. CASE CreateCharge(p) \/ ChargePending(p)
  <2>1. loc[p].att = 0
    BY <1>3, CallbackHere DEF CreateCharge, ChargePending, At, CallbackLabels
  <2>2. UNCHANGED loc /\ \E label \in Label : Go(p, label)
    BY <1>3 DEF CreateCharge, ChargePending, Label
  <2>. QED BY <1>1, <1>2, <2>1, <2>2, CallbackHere, GoStays, PlainMoveKeeps
<1>4. CASE ChargeStore(p) \/ ChargeFailed(p)
  <2>1. Continue(p, "cleanupScan")
    BY <1>4 DEF ChargeStore, ChargeFailed
  <2>. QED BY <1>1, <1>2, <2>1, CallbackHere, ContinuePlain, PlainMoveKeeps
<1>. QED BY <1>3, <1>4

LEMMA RefreshKeeps ==
  ASSUME AckInv, NEW h \in Handler, RefreshLookup(h) \/ RefreshStore(h)
  PROVE  AckInv'
<1>1. h \in Proc /\ TypeInv'
  BY RefreshLookupTyped, RefreshStoreTyped DEF AckInv, Proc
<1>2. loc[h].att = 0
  BY <1>1, CallbackHere DEF RefreshLookup, RefreshStore, At, CallbackLabels
<1>3. OthersStay(h) /\ loc'[h].att = loc[h].att
  <2>1. CASE RefreshLookup(h)
    <3>1. PICK i \in Invoice : loc' = [loc EXCEPT ![h].inv = i, ![h].st = order[i]]
      BY <2>1 DEF RefreshLookup
    <3> DEFINE l == [loc[h] EXCEPT !.inv = i, !.st = order[i]]
    <3>2. Go(h, "lookupStore") /\ loc' = [loc EXCEPT ![h] = l] /\ l.att = loc[h].att
      BY <1>1, <2>1, <3>1, CallbackHere DEF RefreshLookup, TypeInv, TypeOK, Local
    <3> HIDE DEF l
    <3>. QED BY <1>1, <3>2, CallbackHere, StepStays
  <2>2. CASE RefreshStore(h)
    <3> DEFINE l == [loc[h] EXCEPT !.at = clock]
    <3>1. Go(h, "applyRead") /\ loc' = [loc EXCEPT ![h] = l] /\ l.att = loc[h].att
      BY <1>1, <2>2, CallbackHere DEF RefreshStore, TypeInv, TypeOK, Local
    <3> HIDE DEF l
    <3>. QED BY <1>1, <3>1, CallbackHere, StepStays
  <2>. QED BY <2>1, <2>2
<1>4. UNCHANGED <<processed, applied, sub>>
  BY DEF RefreshLookup, RefreshStore, db
<1>. QED BY <1>1, <1>2, <1>3, <1>4, PlainMoveKeeps

-----------------------------------------------------------------------------
(* The payment callback and the transition it shares with the refresh.     *)

LEMMA CallbackStartKeepsAck ==
  ASSUME AckInv, NEW h \in Handler, CallbackStart(h) PROVE AckInv'
<1>1. h \in Proc /\ TypeInv'
  BY CallbackStartTyped DEF AckInv, Proc
<1>2. OthersStay(h) /\ pc'[h] = "record"
  BY <1>1, CallbackHere DEF CallbackStart, Go, OthersStay, TypeInv, TypeOK
<1>3. Carries(pc'[h], loc'[h], applied')
  BY <1>2 DEF Carries, CallbackLabels
<1>4. UNCHANGED <<processed, applied, sub>>
  BY DEF CallbackStart, db
<1>. QED BY <1>1, <1>2, <1>3, <1>4, MoveKeeps DEF AckInv, AutoRenewIsPriced

LEMMA CallbackRecordKeepsAck ==
  ASSUME AckInv, NEW h \in Handler, CallbackRecord(h) PROVE AckInv'
<1>1. h \in Proc /\ TypeInv'
  BY CallbackRecordTyped DEF AckInv, Proc
<1>2. UNCHANGED <<applied, sub>> /\ processed' \subseteq processed
  BY DEF CallbackRecord
<1>3. CASE Finish(h)
  BY <1>1, <1>2, <1>3, CallbackHere, FinishPlain, PlainMoveKeeps
<1>4. CASE ~Finish(h)
  <2>1. OthersStay(h) /\ pc'[h] = "applyRead"
    BY <1>1, <1>4, CallbackHere DEF CallbackRecord, Go, OthersStay, TypeInv, TypeOK
  <2>2. Carries(pc'[h], loc'[h], applied')
    BY <2>1 DEF Carries, CallbackLabels
  <2>. QED BY <1>1, <1>2, <2>1, <2>2, MoveKeeps DEF AckInv, AutoRenewIsPriced
<1>. QED BY <1>3, <1>4

LEMMA CallbackAckKeepsAck ==
  ASSUME AckInv, NEW h \in Handler, CallbackAck(h) PROVE AckInv'
<1>1. h \in Proc /\ TypeInv'
  BY CallbackAckTyped DEF AckInv, Proc
<1>2. UNCHANGED <<applied, sub>> /\ processed' = processed \cup {DeliveryOf(h)}
  BY DEF CallbackAck
<1>3. [inv |-> loc[h].inv, st |-> loc[h].st] \in applied
  BY <1>1, CallbackHere DEF CallbackAck, At, Carries, LocalTyped
<1>4. \A d \in processed' \ processed : [inv |-> d.inv, st |-> d.st] \in applied'
  BY <1>2, <1>3 DEF DeliveryOf
<1>5. OthersStay(h) /\ loc'[h].att = 0
  BY <1>1, CallbackHere, FinishPlain DEF CallbackAck
<1>6. Carries(pc'[h], loc'[h], applied')
  BY <1>5 DEF Carries
<1>. QED BY <1>1, <1>2, <1>4, <1>5, <1>6, MoveKeeps DEF AckInv, AutoRenewIsPriced

\* The steps of the transition before the subscription is written.
LEMMA TransitionKeeps ==
  ASSUME AckInv, NEW h \in Handler,
         ApplyRead(h) \/ ApplyTx(h) \/ ApplyInvoice(h) \/ ActivateRead(h)
  PROVE  AckInv'
<1>1. h \in Proc /\ TypeInv'
  BY ApplyReadTyped, ApplyTxTyped, ApplyInvoiceTyped, ActivateReadTyped
     DEF AckInv, Proc
<1>2. UNCHANGED <<processed, applied, sub>>
  BY DEF ApplyRead, ApplyTx, ApplyInvoice, ActivateRead, db
<1>3. /\ OthersStay(h)
      /\ pc'[h] \in {"applyTx", "applyInvoice", "applySub", "activateRead", "activateWrite"}
  BY <1>1, CallbackHere DEF ApplyRead, ApplyTx, ApplyInvoice, ActivateRead, Go,
                       OthersStay, TypeInv, TypeOK
<1>4. Carries(pc'[h], loc'[h], applied')
  BY <1>3 DEF Carries, CallbackLabels
<1>. QED BY <1>1, <1>2, <1>3, <1>4, MoveKeeps DEF AckInv, AutoRenewIsPriced

LEMMA ApplySubscriptionKeepsAck ==
  ASSUME AckInv, NEW h \in Handler, ApplySubscription(h) PROVE AckInv'
<1> DEFINE l == [loc[h] EXCEPT !.sub = sub']
           st == mapSubscriptionStatusFromTransaction(loc[h].st, loc[h].sub.status)
           g == IF st = "GRACE_PERIOD" THEN loc[h].at + Grace ELSE NoTime
<1>1. h \in Proc /\ TypeInv'
  BY ApplySubscriptionTyped DEF AckInv, Proc
<1>2. Go(h, "snapshot") /\ loc' = [loc EXCEPT ![h] = l]
  BY <1>1, CallbackHere DEF ApplySubscription, TypeInv, TypeOK
<1>3. l.inv = loc[h].inv /\ l.st = loc[h].st
  BY <1>1, CallbackHere DEF Local
<1>4. UNCHANGED processed /\ applied' = applied \cup {[inv |-> loc[h].inv, st |-> loc[h].st]}
  BY DEF ApplySubscription
<1>5. sub' = [sub EXCEPT !.status = st, !.graceEnd = g]
  BY Zenon DEF ApplySubscription
<1>6. sub \in Subscription
  BY DEF AckInv, TypeInv, TypeOK
<1> HIDE DEF l, st, g
<1>7. AutoRenewIsPriced'
  BY <1>5, <1>6 DEF AckInv, AutoRenewIsPriced, Subscription
<1>8. OthersStay(h) /\ pc'[h] = "snapshot" /\ loc'[h] = l
  BY <1>1, <1>2, CallbackHere, StepStays
<1>9. Carries(pc'[h], loc'[h], applied')
  BY <1>3, <1>4, <1>8 DEF Carries, CallbackLabels
<1>. QED BY <1>1, <1>4, <1>7, <1>8, <1>9, MoveKeeps

LEMMA ActivateWriteKeepsAck ==
  ASSUME AckInv, NEW h \in Handler, ActivateWrite(h) PROVE AckInv'
<1> DEFINE l == [loc[h] EXCEPT !.sub = sub']
           end == NextPeriodStart(Row(h).cycle, loc[h].sub.periodEnd, loc[h].at)
                    + Period[loc[h].plan]
           auto == loc[h].plan \in Paid /\ loc[h].sub.autoRenew
<1>1. h \in Proc /\ TypeInv'
  BY ActivateWriteTyped DEF AckInv, Proc
<1>2. Go(h, "snapshot") /\ loc' = [loc EXCEPT ![h] = l]
  BY <1>1, CallbackHere DEF ActivateWrite, TypeInv, TypeOK
<1>3. l.inv = loc[h].inv /\ l.st = loc[h].st /\ l.att = loc[h].att
  BY <1>1, CallbackHere DEF Local
<1>4. /\ UNCHANGED processed
      /\ applied' = applied \cup
           {a \in {[inv |-> loc[h].inv, st |-> loc[h].st]} : a.st # NoTx}
  BY Zenon DEF ActivateWrite
<1>5. sub' = [plan |-> loc[h].plan, status |-> "ACTIVE", periodEnd |-> end,
              graceEnd |-> NoTime, autoRenew |-> auto]
  BY Zenon DEF ActivateWrite
<1> HIDE DEF l, end
<1>6. AutoRenewIsPriced'
  BY <1>5 DEF AutoRenewIsPriced
<1>7. OthersStay(h) /\ pc'[h] = "snapshot" /\ loc'[h] = l
  BY <1>1, <1>2, CallbackHere, StepStays
<1>8. loc[h].att # 0 => [inv |-> loc[h].inv, st |-> loc[h].st] \in applied'
  BY <1>1, <1>4, CallbackHere DEF LocalTyped
<1>9. Carries(pc'[h], loc'[h], applied')
  BY <1>3, <1>7, <1>8 DEF Carries, CallbackLabels
<1>. QED BY <1>1, <1>4, <1>6, <1>7, <1>9, MoveKeeps

LEMMA RefreshSnapshotKeepsAck ==
  ASSUME AckInv, NEW p \in Proc, RefreshSnapshot(p) PROVE AckInv'
<1>1. TypeInv' /\ UNCHANGED <<processed, applied, sub>>
  BY RefreshSnapshotTyped DEF AckInv, RefreshSnapshot
<1>2. CASE loc[p].att # 0
  <2>1. OthersStay(p) /\ pc'[p] = "ack" /\ loc'[p] = loc[p]
    BY <1>2, CallbackHere, GoStays DEF RefreshSnapshot
  <2>2. Carries(pc'[p], loc'[p], applied')
    BY <1>1, <2>1, CallbackHere DEF Carries, CallbackLabels, RefreshSnapshot, At
  <2>. QED BY <1>1, <2>1, <2>2, MoveKeeps DEF AckInv, AutoRenewIsPriced
<1>3. CASE loc[p].att = 0
  BY <1>1, <1>3, CallbackHere, ContinuePlain, PlainMoveKeeps DEF RefreshSnapshot
<1>. QED BY <1>2, <1>3

LEMMA AbortKeepsAck ==
  ASSUME AckInv, NEW p \in Proc, Abort(p) PROVE AckInv'
<1>1. TypeInv' /\ UNCHANGED <<processed, applied, sub>> /\ Finish(p)
  BY AbortTyped DEF AckInv, Abort, db
<1>. QED BY <1>1, CallbackHere, FinishPlain, PlainMoveKeeps

-----------------------------------------------------------------------------
(* The background cycle: it carries no attempt.                            *)

LEMMA CycleCarriesNone ==
  ASSUME AckInv, Job
  PROVE  TypeInv' /\ BG \in Proc /\ loc[BG].att = 0
<1>1. TypeInv'
  BY LifecycleScanTyped, LifecycleWriteTyped, RenewalScanTyped, RenewalCheckTyped,
     RenewalCreateTyped, CleanupScanTyped, CleanupDeleteTyped DEF AckInv, Job
<1>2. pc[BG] \notin CallbackLabels
  BY DEF Job, LifecycleScan, LifecycleWrite, RenewalScan, RenewalCheck, RenewalCreate,
         CleanupScan, CleanupDelete, At, CallbackLabels
<1>. QED BY <1>1, <1>2, CallbackHere DEF Proc

LEMMA LifecycleKeeps ==
  ASSUME AckInv, LifecycleScan \/ LifecycleWrite PROVE AckInv'
<1>1. TypeInv' /\ BG \in Proc /\ loc[BG].att = 0
  BY CycleCarriesNone DEF Job
<1>2. UNCHANGED <<processed, applied>>
  BY DEF LifecycleScan, LifecycleWrite, db
<1>3. CASE LifecycleScan
  <2> DEFINE l == [loc[BG] EXCEPT !.sub = sub]
  <2>1. UNCHANGED sub
    BY <1>3 DEF LifecycleScan, db
  <2>2. CASE UNCHANGED loc /\ Go(BG, "renewalScan")
    BY <1>1, <1>2, <2>1, <2>2, CallbackHere, GoStays, PlainMoveKeeps
  <2>3. CASE Go(BG, "lifecycle") /\ loc' = [loc EXCEPT ![BG].sub = sub]
    <3>1. loc' = [loc EXCEPT ![BG] = l] /\ l.att = 0
      BY <1>1, <2>3, CallbackHere DEF TypeInv, TypeOK, Local
    <3> HIDE DEF l
    <3>. QED BY <1>1, <1>2, <2>1, <2>3, <3>1, CallbackHere, StepStays, PlainMoveKeeps
  <2>. QED BY <1>3, <2>2, <2>3 DEF LifecycleScan
<1>4. CASE LifecycleWrite
  <2> DEFINE l == [loc[BG] EXCEPT !.sub = sub']
             end == loc[BG].sub.periodEnd + Grace
  <2>1. loc' = [loc EXCEPT ![BG] = l] /\ l.att = 0 /\ Go(BG, "snapshot")
    BY <1>1, <1>4, CallbackHere DEF LifecycleWrite, TypeInv, TypeOK, Local
  <2>2. \/ sub' = [sub EXCEPT !.status = "EXPIRED"]
        \/ sub' = [sub EXCEPT !.status = "GRACE_PERIOD", !.graceEnd = end]
    BY <1>4, Zenon DEF LifecycleWrite
  <2>3. sub \in Subscription
    BY DEF AckInv, TypeInv, TypeOK
  <2> HIDE DEF l, end
  <2>4. AutoRenewIsPriced'
    BY <2>2, <2>3 DEF AckInv, AutoRenewIsPriced, Subscription
  <2>. QED BY <1>1, <1>2, <2>1, <2>4, CallbackHere, StepStays, PlainMoveKeeps
<1>. QED BY <1>3, <1>4

LEMMA RenewalKeeps ==
  ASSUME AckInv, RenewalScan \/ RenewalCheck \/ RenewalCreate PROVE AckInv'
<1>1. TypeInv' /\ BG \in Proc /\ loc[BG].att = 0
  BY CycleCarriesNone DEF Job
<1>2. UNCHANGED <<processed, applied, sub>>
  BY DEF RenewalScan, RenewalCheck, RenewalCreate, db
<1>3. CASE RenewalScan
  <2> DEFINE l == [loc[BG] EXCEPT !.sub = sub]
  <2>1. CASE Finish(BG)
    BY <1>1, <1>2, <2>1, CallbackHere, FinishPlain, PlainMoveKeeps
  <2>2. CASE UNCHANGED loc /\ Go(BG, "cleanupScan")
    BY <1>1, <1>2, <2>2, CallbackHere, GoStays, PlainMoveKeeps
  <2>3. CASE Go(BG, "renewalCheck") /\ loc' = [loc EXCEPT ![BG].sub = sub]
    <3>1. loc' = [loc EXCEPT ![BG] = l] /\ l.att = 0
      BY <1>1, <2>3, CallbackHere DEF TypeInv, TypeOK, Local
    <3> HIDE DEF l
    <3>. QED BY <1>1, <1>2, <2>3, <3>1, CallbackHere, StepStays, PlainMoveKeeps
  <2>. QED BY <1>3, <2>1, <2>2, <2>3 DEF RenewalScan
<1>4. CASE RenewalCheck
  <2>1. CASE Continue(BG, "cleanupScan")
    BY <1>1, <1>2, <2>1, CallbackHere, ContinuePlain, PlainMoveKeeps
  <2>2. CASE ~Continue(BG, "cleanupScan")
    <3>1. PICK i \in Invoice :
            Go(BG, "renewalCreate") /\ loc' = [loc EXCEPT ![BG].inv = i]
      BY <1>4, <2>2 DEF RenewalCheck
    <3> DEFINE l == [loc[BG] EXCEPT !.inv = i]
    <3>2. loc' = [loc EXCEPT ![BG] = l] /\ l.att = 0
      BY <1>1, <3>1, CallbackHere DEF TypeInv, TypeOK, Local
    <3> HIDE DEF l
    <3>. QED BY <1>1, <1>2, <3>1, <3>2, CallbackHere, StepStays, PlainMoveKeeps
  <2>. QED BY <2>1, <2>2
<1>5. CASE RenewalCreate
  <2>1. UNCHANGED loc /\ Go(BG, "charge")
    BY <1>5 DEF RenewalCreate
  <2>. QED BY <1>1, <1>2, <2>1, CallbackHere, GoStays, PlainMoveKeeps
<1>. QED BY <1>3, <1>4, <1>5

LEMMA CleanupKeeps ==
  ASSUME AckInv, CleanupScan \/ CleanupDelete PROVE AckInv'
<1>1. TypeInv' /\ BG \in Proc /\ loc[BG].att = 0
  BY CycleCarriesNone DEF Job
<1>2. UNCHANGED <<applied, sub>> /\ processed' \subseteq processed
  BY DEF CleanupScan, CleanupDelete, db
<1>3. CASE Finish(BG)
  BY <1>1, <1>2, <1>3, CallbackHere, FinishPlain, PlainMoveKeeps
<1>4. CASE ~Finish(BG)
  <2> DEFINE old == {i \in Invoice : IsCleanable(inv[i], clock, Retention)}
             l == [loc[BG] EXCEPT !.ids = old]
  <2>1. Go(BG, "cleanup") /\ loc' = [loc EXCEPT ![BG].ids = old]
    BY <1>4 DEF CleanupScan, CleanupDelete
  <2> HIDE DEF old
  <2>2. loc' = [loc EXCEPT ![BG] = l] /\ l.att = 0
    BY <1>1, <2>1, CallbackHere DEF TypeInv, TypeOK, Local
  <2> HIDE DEF l
  <2>. QED BY <1>1, <1>2, <2>1, <2>2, CallbackHere, StepStays, PlainMoveKeeps
<1>. QED BY <1>3, <1>4

-----------------------------------------------------------------------------
(* Steps of the environment, and the theorems.                             *)

LEMMA EnvironmentKeeps ==
  ASSUME AckInv, GatewayStep \/ Tick \/ Crash \/ UNCHANGED vars PROVE AckInv'
<1>1. TypeInv'
  BY TypeStep DEF AckInv, Next
<1>2. UNCHANGED <<processed, applied, sub>>
  BY DEF GatewayStep, Tick, Crash, vars, db
<1>3. CallbacksOK'
  <2> SUFFICES ASSUME NEW p \in Proc PROVE Carries(pc'[p], loc'[p], applied')
    BY DEF CallbacksOK
  <2>1. Carries(pc[p], loc[p], applied)
    BY CallbackHere
  <2>2. CASE GatewayStep \/ UNCHANGED vars
    BY <1>2, <2>1, <2>2 DEF GatewayStep, vars
  <2>3. CASE Tick
    <3> DEFINE late == ~At(p, "idle")
    <3>1. loc'[p] = [loc[p] EXCEPT !.late = late] /\ UNCHANGED pc
      BY <2>3, Processes DEF Tick, AckInv
    <3> HIDE DEF late
    <3>2. loc'[p].att = loc[p].att /\ loc'[p].inv = loc[p].inv /\ loc'[p].st = loc[p].st
      BY <3>1, CallbackHere DEF Local
    <3>. QED BY <1>2, <2>1, <3>1, <3>2 DEF Carries
  <2>4. CASE Crash
    BY <2>4, Processes DEF Crash, Carries, IdleLocal, AckInv
  <2>. QED BY <2>2, <2>3, <2>4
<1>. QED BY <1>1, <1>2, <1>3 DEF AckInv, AckedDeliveryWasApplied, AutoRenewIsPriced

LEMMA AckInit == Init => AckInv
<1> SUFFICES ASSUME Init PROVE AckInv
  OBVIOUS
<1>1. CallbacksOK
  BY DEF Init, CallbacksOK, Carries, IdleLocal
<1>2. AckedDeliveryWasApplied /\ AutoRenewIsPriced
  BY DEF Init, AckedDeliveryWasApplied, AutoRenewIsPriced, DefaultSubscription
<1>. QED BY <1>1, <1>2, TypeInit DEF AckInv

LEMMA AckStep == AckInv /\ [Next]_vars => AckInv'
<1> SUFFICES ASSUME AckInv, [Next]_vars PROVE AckInv'
  OBVIOUS
<1>1. ASSUME NEW h \in Handler, Arrive(h) \/ RequestStep(h) PROVE AckInv'
  BY <1>1, CheckoutKeeps, RefreshKeeps, CallbackStartKeepsAck, CallbackRecordKeepsAck,
     CallbackAckKeepsAck, TransitionKeeps, ApplySubscriptionKeepsAck,
     ActivateWriteKeepsAck DEF Arrive, RequestStep
<1>2. ASSUME NEW p \in Proc, SharedStep(p) PROVE AckInv'
  BY <1>2, ChargeKeeps, RefreshSnapshotKeepsAck, AbortKeepsAck DEF SharedStep
<1>3. ASSUME Job PROVE AckInv'
  BY <1>3, LifecycleKeeps, RenewalKeeps, CleanupKeeps DEF Job
<1>. QED BY <1>1, <1>2, <1>3, EnvironmentKeeps DEF Next, Cycle, Proc

\* AckInv is invariant.
THEOREM AckInvariant == Spec => []AckInv
BY AckInit, AckStep, PTL DEF Spec

\* A delivery the gateway will not repeat, because it was answered as
\* processed, had reached the subscription: whatever died, was deleted or was
\* delivered twice in between.
THEOREM AckedIsApplied == Spec => []AckedDeliveryWasApplied
<1>1. AckInv => AckedDeliveryWasApplied
  BY DEF AckInv
<1>. QED BY <1>1, AckInvariant, PTL

\* No interleaving of checkouts and late settlements makes a free plan renew.
THEOREM RenewalIsPriced == Spec => []AutoRenewIsPriced
<1>1. AckInv => AutoRenewIsPriced
  BY DEF AckInv
<1>. QED BY <1>1, AckInvariant, PTL

-----------------------------------------------------------------------------
(* Terms.  A handler that may activate the subscription or open a grace    *)
(* period carries an instant to count from, and the lifecycle job carries  *)
(* the end of a period, unless it ends a grace period.                     *)

TimedLabels ==
  {"invoice", "record", "applyRead", "applyTx", "applyInvoice", "applySub",
   "activateRead", "activateWrite"}

\* There was a period to end, or an order that expired.
Ended == sub.periodEnd # NoTime \/ \E i \in Invoice : Reported(i, "expired")

Timed(label, l) ==
  /\ label \in TimedLabels => l.at >= 0
  /\ label = "lifecycle" /\ l.sub.status # "GRACE_PERIOD" => l.sub.periodEnd >= 0
  /\ label = "lifecycle" => Ended

TimedOK(p) == Timed(pc[p], loc[p])

TermInv ==
  /\ sub.periodEnd >= NoTime
  /\ \A n \in notes : n.at >= 0
  /\ EveryTermEnds /\ DowngradeHasCause
  /\ \A p \in Proc : TimedOK(p)

LEMMA TermMove ==
  ASSUME TypeInv, TermInv, NEW p \in Proc, OthersStay(p),
         notes \subseteq notes', \A n \in notes' : n.at >= 0,
         sub'.periodEnd >= NoTime,
         sub.periodEnd # NoTime => sub'.periodEnd # NoTime,
         EveryTermEnds', DowngradeHasCause', TimedOK(p)'
  PROVE  TermInv'
<1>1. Ended => Ended'
  BY DEF Ended, Reported
<1>2. ASSUME NEW q \in Proc PROVE TimedOK(q)'
  <2>1. CASE q = p
    BY <2>1
  <2>2. CASE q # p
    <3>1. pc'[q] = pc[q] /\ loc'[q] = loc[q] /\ TimedOK(q)
      BY <2>2 DEF OthersStay, TermInv
    <3>. QED BY <1>1, <3>1 DEF TimedOK, Timed
  <2>. QED BY <2>1, <2>2
<1>. QED BY <1>2 DEF TermInv

\* A step that leaves the subscription alone.
LEMMA TermQuiet ==
  ASSUME TypeInv, TermInv, NEW p \in Proc, OthersStay(p), UNCHANGED sub,
         notes \subseteq notes', \A n \in notes' : n.at >= 0,
         TimedOK(p)'
  PROVE  TermInv'
<1>1. \A i \in Invoice : \A st : Reported(i, st) => Reported(i, st)'
  BY DEF Reported
<1>2. EveryTermEnds' /\ DowngradeHasCause'
  BY <1>1, Zenon DEF TermInv, EveryTermEnds, DowngradeHasCause
<1>. QED BY <1>2, TermMove DEF TermInv

\* One that goes on where no instant is needed.
LEMMA TermElsewhere ==
  ASSUME TypeInv, TermInv, NEW p \in Proc, OthersStay(p),
         UNCHANGED <<sub, notes>>, pc'[p] \notin TimedLabels \cup {"lifecycle"}
  PROVE  TermInv'
BY TermQuiet DEF TimedOK, Timed, TermInv

\* Charges, acknowledgements and what fails.
LEMMA ChargeTerm ==
  ASSUME AccessInv, TermInv, NEW p \in Proc,
         ChargePending(p) \/ ChargeStore(p) \/ ChargeFailed(p) \/ CallbackAck(p)
           \/ RefreshSnapshot(p) \/ Abort(p)
  PROVE  TermInv'
<1>1. TypeInv
  BY DEF AccessInv
<1>2. UNCHANGED <<sub, notes>>
  BY DEF ChargePending, ChargeStore, ChargeFailed, CallbackAck, RefreshSnapshot, Abort,
         db, gateway
<1>3. OthersStay(p) /\ pc'[p] \in {"store", "idle", "cleanupScan", "renewalScan", "ack"}
  <2>1. CASE ChargePending(p)
    BY <1>1, <2>1, GoStays DEF ChargePending
  <2>2. CASE ChargeStore(p) \/ ChargeFailed(p)
    BY <1>1, <2>2, ContinueStays DEF ChargeStore, ChargeFailed
  <2>3. CASE CallbackAck(p) \/ Abort(p)
    BY <1>1, <2>3, FinishStays DEF CallbackAck, Abort
  <2>4. CASE RefreshSnapshot(p)
    <3>1. CASE loc[p].att # 0
      BY <1>1, <2>4, <3>1, GoStays DEF RefreshSnapshot
    <3>2. CASE loc[p].att = 0
      BY <1>1, <2>4, <3>2, ContinueStays DEF RefreshSnapshot
    <3>. QED BY <3>1, <3>2
  <2>. QED BY <2>1, <2>2, <2>3, <2>4
<1>. QED BY <1>1, <1>2, <1>3, TermElsewhere DEF TimedLabels

LEMMA CreateChargeTerm ==
  ASSUME AccessInv, TermInv, NEW p \in Proc, CreateCharge(p) PROVE TermInv'
<1>1. TypeInv
  BY DEF AccessInv
<1>2. PICK outcome \in ChargeOutcomes :
        /\ Go(p, IF outcome = "ok" THEN "pending" ELSE "chargeFailed")
        /\ \/ UNCHANGED notes
           \/ notes' = notes \cup {n \in {[inv |-> loc[p].inv, st |-> "pending", at |-> clock]} :
                                     n.st \in Outcomes}
  BY DEF CreateCharge
<1>3. OthersStay(p) /\ pc'[p] \in {"pending", "chargeFailed"}
  BY <1>1, <1>2, GoStays DEF CreateCharge
<1>4. notes \subseteq notes' /\ \A n \in notes' : n.at >= 0
  BY <1>1, <1>2 DEF TermInv, TypeInv, TypeOK
<1>5. TimedOK(p)'
  BY <1>3 DEF TimedOK, Timed, TimedLabels
<1>. QED BY <1>1, <1>3, <1>4, <1>5, TermQuiet DEF CreateCharge, db

\* Checkouts.
LEMMA CheckoutTerm ==
  ASSUME AccessInv, TermInv, NEW h \in Handler, CheckoutStart(h) \/ CheckoutInvoice(h)
  PROVE  TermInv'
<1>1. TypeInv /\ h \in Proc
  BY DEF AccessInv, Proc
<1>2. UNCHANGED <<sub, notes>>
  BY DEF CheckoutStart, CheckoutInvoice, db, gateway
<1>3. CASE CheckoutStart(h)
  <2>1. PICK p \in Plan, i \in Invoice :
          loc' = [loc EXCEPT ![h].plan = p, ![h].inv = i]
    BY <1>3 DEF CheckoutStart
  <2>2. OthersStay(h) /\ pc'[h] = "reserve"
    BY <1>1, <1>3, <2>1 DEF CheckoutStart, Go, OthersStay, TypeInv, TypeOK
  <2>. QED BY <1>1, <1>2, <2>2, TermElsewhere DEF TimedLabels
<1>4. CASE CheckoutInvoice(h)
  <2>1. PICK label \in {"charge", "activateRead"} : Go(h, label)
    BY <1>4 DEF CheckoutInvoice
  <2>2. OthersStay(h) /\ pc'[h] = label /\ loc'[h] = loc[h] /\ pc[h] = "invoice"
    BY <1>1, <1>4, <2>1, GoStays DEF CheckoutInvoice, At
  <2>3. TimedOK(h)'
    BY <1>1, <2>2 DEF TimedOK, Timed, TimedLabels, TermInv
  <2>. QED BY <1>1, <1>2, <2>2, <2>3, TermQuiet DEF TermInv
<1>. QED BY <1>3, <1>4

LEMMA CheckoutReserveTerm ==
  ASSUME AccessInv, TermInv, NEW h \in Handler, CheckoutReserve(h) PROVE TermInv'
<1> DEFINE l == [loc[h] EXCEPT !.at = clock]
<1>1. TypeInv /\ h \in Proc /\ loc[h] \in Local
  BY Here DEF AccessInv, Proc
<1>2. Go(h, "invoice") /\ loc' = [loc EXCEPT ![h] = l] /\ l.at = clock /\ UNCHANGED notes
  BY <1>1 DEF CheckoutReserve, Local, TypeInv, TypeOK, gateway
<1> HIDE DEF l
<1>3. OthersStay(h) /\ pc'[h] = "invoice" /\ loc'[h].at = clock
  BY <1>1, <1>2, StepStays
<1>4. TimedOK(h)'
  BY <1>1, <1>3 DEF TimedOK, Timed, TypeInv, TypeOK
<1>5. /\ sub'.periodEnd = sub.periodEnd /\ sub'.status \in {"PENDING_ACTIVATION", "ACTIVE"}
      /\ sub'.status = "ACTIVE" => sub'.plan \notin Paid
  BY <1>1 DEF CheckoutReserve, TypeInv, TypeOK, Subscription, Local
<1>6. EveryTermEnds' /\ DowngradeHasCause'
  BY <1>5 DEF EveryTermEnds, DowngradeHasCause
<1>. QED BY <1>1, <1>2, <1>3, <1>4, <1>5, <1>6, TermMove DEF TermInv

\* Callbacks and refreshes up to the transition.
LEMMA CallbackTerm ==
  ASSUME AccessInv, TermInv, NEW h \in Handler, CallbackStart(h) \/ CallbackRecord(h)
  PROVE  TermInv'
<1>1. TypeInv /\ h \in Proc /\ loc[h] \in Local
  BY Here DEF AccessInv, Proc
<1>2. UNCHANGED <<sub, notes>>
  BY DEF CallbackStart, CallbackRecord, db, gateway
<1>3. CASE CallbackStart(h)
  <2>1. PICK n \in notes, a \in Attempt :
          loc' = [loc EXCEPT ![h].inv = n.inv, ![h].st = n.st,
                             ![h].at = n.at, ![h].att = a]
    BY <1>3 DEF CallbackStart
  <2> DEFINE l == [loc[h] EXCEPT !.inv = n.inv, !.st = n.st, !.at = n.at, !.att = a]
  <2>2. Go(h, "record") /\ loc' = [loc EXCEPT ![h] = l] /\ l.at = n.at
    BY <1>1, <1>3, <2>1 DEF CallbackStart, Local, TypeInv, TypeOK
  <2> HIDE DEF l
  <2>3. OthersStay(h) /\ pc'[h] = "record" /\ loc'[h].at = n.at
    BY <1>1, <2>2, StepStays
  <2>4. TimedOK(h)'
    BY <2>3 DEF TimedOK, Timed, TermInv
  <2>. QED BY <1>1, <1>2, <2>3, <2>4, TermQuiet DEF TermInv
<1>4. CASE Finish(h)
  <2>1. OthersStay(h) /\ pc'[h] = "idle"
    BY <1>1, <1>4, FinishStays
  <2>. QED BY <1>1, <1>2, <2>1, TermElsewhere DEF TimedLabels
<1>5. CASE CallbackRecord(h) /\ ~Finish(h)
  <2>1. PICK t \in {loc[h].at, clock} : loc' = [loc EXCEPT ![h].at = t]
    BY <1>5 DEF CallbackRecord
  <2> DEFINE l == [loc[h] EXCEPT !.at = t]
  <2>2. Go(h, "applyRead") /\ loc' = [loc EXCEPT ![h] = l] /\ l.at = t /\ pc[h] = "record"
    BY <1>1, <1>5, <2>1 DEF CallbackRecord, At, Local, TypeInv, TypeOK
  <2> HIDE DEF l
  <2>3. OthersStay(h) /\ pc'[h] = "applyRead" /\ loc'[h].at = t
    BY <1>1, <2>2, StepStays
  <2>4. loc[h].at >= 0 /\ clock >= 0
    BY <1>1, <2>2 DEF TermInv, TimedOK, Timed, TimedLabels, TypeInv, TypeOK
  <2>5. TimedOK(h)'
    BY <2>3, <2>4 DEF TimedOK, Timed
  <2>. QED BY <1>1, <1>2, <2>3, <2>5, TermQuiet DEF TermInv
<1>. QED BY <1>3, <1>4, <1>5

LEMMA RefreshTerm ==
  ASSUME AccessInv, TermInv, NEW h \in Handler, RefreshLookup(h) \/ RefreshStore(h)
  PROVE  TermInv'
<1>1. TypeInv /\ h \in Proc /\ loc[h] \in Local
  BY Here DEF AccessInv, Proc
<1>2. UNCHANGED <<sub, notes>>
  BY DEF RefreshLookup, RefreshStore, db, gateway
<1>3. CASE RefreshLookup(h)
  <2>1. PICK i \in Invoice : loc' = [loc EXCEPT ![h].inv = i, ![h].st = order[i]]
    BY <1>3 DEF RefreshLookup
  <2>2. OthersStay(h) /\ pc'[h] = "lookupStore"
    BY <1>1, <1>3, <2>1 DEF RefreshLookup, Go, OthersStay, TypeInv, TypeOK
  <2>. QED BY <1>1, <1>2, <2>2, TermElsewhere DEF TimedLabels
<1>4. CASE RefreshStore(h)
  <2> DEFINE l == [loc[h] EXCEPT !.at = clock]
  <2>1. Go(h, "applyRead") /\ loc' = [loc EXCEPT ![h] = l] /\ l.at = clock
    BY <1>1, <1>4 DEF RefreshStore, Local, TypeInv, TypeOK
  <2> HIDE DEF l
  <2>2. OthersStay(h) /\ pc'[h] = "applyRead" /\ loc'[h].at = clock
    BY <1>1, <2>1, StepStays
  <2>3. TimedOK(h)'
    BY <1>1, <2>2 DEF TimedOK, Timed, TypeInv, TypeOK
  <2>. QED BY <1>1, <1>2, <2>2, <2>3, TermQuiet DEF TermInv
<1>. QED BY <1>3, <1>4

\* The transition keeps the instant it came with.
LEMMA TransitionTerm ==
  ASSUME AccessInv, TermInv, NEW h \in Handler,
         ApplyRead(h) \/ ApplyTx(h) \/ ApplyInvoice(h) \/ ActivateRead(h)
  PROVE  TermInv'
<1>1. TypeInv /\ h \in Proc /\ loc[h] \in Local
  BY Here DEF AccessInv, Proc
<1>2. UNCHANGED <<sub, notes>>
  BY DEF ApplyRead, ApplyTx, ApplyInvoice, ActivateRead, db, gateway
<1>3. loc[h].at >= 0
  BY <1>1 DEF ApplyRead, ApplyTx, ApplyInvoice, ActivateRead, At, TermInv, TimedOK, Timed,
              TimedLabels
<1>4. OthersStay(h) /\ pc'[h] # "lifecycle" /\ loc'[h].at = loc[h].at
  <2>1. CASE ApplyRead(h)
    <3> DEFINE l == [loc[h] EXCEPT !.sub = sub, !.plan = Row(h).plan]
    <3>1. Go(h, "applyTx") /\ loc' = [loc EXCEPT ![h] = l] /\ l.at = loc[h].at
      BY <1>1, <2>1 DEF ApplyRead, Local, TypeInv, TypeOK
    <3> HIDE DEF l
    <3>2. OthersStay(h) /\ pc'[h] = "applyTx" /\ loc'[h] = l
      BY <1>1, <3>1, StepStays
    <3>. QED BY <3>1, <3>2
  <2>2. CASE ApplyTx(h) \/ ApplyInvoice(h)
    <3>1. PICK label \in {"applyInvoice", "activateRead", "applySub"} : Go(h, label)
      BY <2>2 DEF ApplyTx, ApplyInvoice
    <3>. QED BY <1>1, <2>2, <3>1, GoStays DEF ApplyTx, ApplyInvoice
  <2>3. CASE ActivateRead(h)
    <3> DEFINE l == [loc[h] EXCEPT !.sub = sub]
    <3>1. Go(h, "activateWrite") /\ loc' = [loc EXCEPT ![h] = l] /\ l.at = loc[h].at
      BY <1>1, <2>3 DEF ActivateRead, Local, TypeInv, TypeOK
    <3> HIDE DEF l
    <3>2. OthersStay(h) /\ pc'[h] = "activateWrite" /\ loc'[h] = l
      BY <1>1, <3>1, StepStays
    <3>. QED BY <3>1, <3>2
  <2>. QED BY <2>1, <2>2, <2>3
<1>5. TimedOK(h)'
  BY <1>3, <1>4 DEF TimedOK, Timed
<1>. QED BY <1>1, <1>2, <1>4, <1>5, TermQuiet DEF TermInv

\* What a transaction other than a settlement makes of a subscription.
LEMMA MappedDowngrade ==
  ASSUME NEW tst \in TxStatus \ {"settlement"}, NEW current
  PROVE  LET st == mapSubscriptionStatusFromTransaction(tst, current) IN
           /\ st # "ACTIVE"
           /\ st = "CANCELED" => tst \in {"cancelled", "refunded"}
           /\ st = "PAST_DUE" => tst = "failed"
           /\ st \in {"GRACE_PERIOD", "EXPIRED"} => tst = "expired"
BY DEF mapSubscriptionStatusFromTransaction, TxStatus

LEMMA ApplySubscriptionTerm ==
  ASSUME AccessInv, TermInv, NEW h \in Handler, ApplySubscription(h) PROVE TermInv'
<1> DEFINE st == mapSubscriptionStatusFromTransaction(loc[h].st, loc[h].sub.status)
           end == IF st = "GRACE_PERIOD" THEN loc[h].at + Grace ELSE NoTime
<1>1. TypeInv /\ h \in Proc /\ loc[h] \in Local
  BY Here DEF AccessInv, Proc
<1>2. /\ pc[h] = "applySub" /\ UNCHANGED notes
      /\ sub' = [sub EXCEPT !.status = st, !.graceEnd = end]
  BY DEF ApplySubscription, At, gateway
<1>3. loc[h].st \in TxStatus \ {"settlement"} /\ Seen(loc[h].inv, loc[h].st)
      /\ loc[h].inv \in Invoice
  BY <1>1, <1>2, Here DEF Carried, LocalTyped, Local, StatusLabels, RowLabels
<1>4. loc[h].at >= 0 /\ loc[h].at \in Int /\ Grace \in Nat
  BY <1>1, <1>2, TimeAssumption DEF TermInv, TimedOK, Timed, TimedLabels, Local, Time
<1>5. /\ st # "ACTIVE"
      /\ st = "CANCELED" => loc[h].st \in {"cancelled", "refunded"}
      /\ st = "PAST_DUE" => loc[h].st = "failed"
      /\ st \in {"GRACE_PERIOD", "EXPIRED"} => loc[h].st = "expired"
  BY <1>3, MappedDowngrade
<1> HIDE DEF st
<1>6. st = "GRACE_PERIOD" => end # NoTime
  BY <1>4 DEF NoTime
<1> HIDE DEF end
<1>7. sub'.status = st /\ sub'.graceEnd = end /\ sub'.periodEnd = sub.periodEnd
  BY <1>1, <1>2 DEF TypeInv, TypeOK, Subscription
<1>8. EveryTermEnds'
  BY <1>5, <1>6, <1>7 DEF EveryTermEnds
<1>9. DowngradeHasCause'
  <2>1. PICK i \in Invoice : i = loc[h].inv
    BY <1>3
  <2>2. PICK tst \in TxStatus : tst = loc[h].st
    BY <1>3
  <2>3. tst # "pending" => Reported(i, tst)'
    BY <1>2, <1>3, <2>1, <2>2 DEF Seen, Reported
  <2>. QED BY <1>5, <1>7, <2>2, <2>3 DEF DowngradeHasCause
<1>10. OthersStay(h) /\ pc'[h] = "snapshot"
  BY <1>1 DEF ApplySubscription, Go, OthersStay, TypeInv, TypeOK
<1>11. TimedOK(h)'
  BY <1>10 DEF TimedOK, Timed, TimedLabels
<1>. QED BY <1>1, <1>2, <1>7, <1>8, <1>9, <1>10, <1>11, TermMove DEF TermInv

LEMMA ActivateWriteTerm ==
  ASSUME AccessInv, TermInv, NEW h \in Handler, ActivateWrite(h) PROVE TermInv'
<1> DEFINE start == NextPeriodStart(Row(h).cycle, loc[h].sub.periodEnd, loc[h].at)
<1>1. TypeInv /\ h \in Proc /\ loc[h] \in Local
  BY Here DEF AccessInv, Proc
<1>2. pc[h] = "activateWrite" /\ UNCHANGED notes
  BY DEF ActivateWrite, At, gateway
<1>3. loc[h].at >= 0 /\ loc[h].at \in Int /\ loc[h].sub.periodEnd \in Int
  BY <1>1, <1>2 DEF TermInv, TimedOK, Timed, TimedLabels, Local, Subscription, Time
<1>4. start \in Int /\ start >= 0
  BY <1>3 DEF NextPeriodStart
<1>5. sub'.status = "ACTIVE" /\ sub'.periodEnd = start + Period[loc[h].plan]
  BY DEF ActivateWrite
<1> HIDE DEF start
<1>6. Period[loc[h].plan] \in Nat \ {0}
  BY <1>1, PeriodAssumption DEF Local
<1>7. sub'.periodEnd >= NoTime /\ sub'.periodEnd # NoTime
  BY <1>4, <1>5, <1>6 DEF NoTime
<1>8. EveryTermEnds' /\ DowngradeHasCause'
  BY <1>5, <1>7 DEF EveryTermEnds, DowngradeHasCause
<1>9. OthersStay(h) /\ pc'[h] = "snapshot"
  BY <1>1 DEF ActivateWrite, Go, OthersStay, TypeInv, TypeOK
<1>10. TimedOK(h)'
  BY <1>9 DEF TimedOK, Timed, TimedLabels
<1>. QED BY <1>1, <1>2, <1>7, <1>8, <1>9, <1>10, TermMove DEF TermInv

\* What the lifecycle job finds due has ended.
LEMMA DueEnds ==
  ASSUME TypeInv, TermInv, IsLifecycleDue(sub, clock)
  PROVE  Ended /\ (sub.status # "GRACE_PERIOD" => sub.periodEnd >= 0)
<1>1. sub.periodEnd \in Int /\ sub.periodEnd >= NoTime
  BY DEF TypeInv, TypeOK, Subscription, Time, TermInv
<1>2. CASE sub.status = "GRACE_PERIOD"
  BY <1>2 DEF TermInv, DowngradeHasCause, Ended
<1>3. CASE sub.status # "GRACE_PERIOD"
  BY <1>1, <1>3 DEF IsLifecycleDue, Ended, NoTime
<1>. QED BY <1>2, <1>3

LEMMA LifecycleTerm ==
  ASSUME AccessInv, TermInv, LifecycleScan \/ LifecycleWrite PROVE TermInv'
<1>1. TypeInv /\ BG \in Proc /\ loc[BG] \in Local
  BY Here DEF AccessInv, Proc
<1>2. CASE LifecycleScan /\ ~IsLifecycleDue(sub, clock)
  <2>1. Go(BG, "renewalScan") /\ UNCHANGED <<loc, sub, notes>>
    BY <1>2 DEF LifecycleScan, db, gateway
  <2>. QED BY <1>1, <2>1, GoStays, TermElsewhere DEF TimedLabels
<1>3. CASE LifecycleScan /\ IsLifecycleDue(sub, clock)
  <2> DEFINE l == [loc[BG] EXCEPT !.sub = sub]
  <2>1. /\ Go(BG, "lifecycle") /\ loc' = [loc EXCEPT ![BG] = l] /\ l.sub = sub
        /\ UNCHANGED <<sub, notes>>
    BY <1>1, <1>3 DEF LifecycleScan, Local, TypeInv, TypeOK, db, gateway
  <2> HIDE DEF l
  <2>2. OthersStay(BG) /\ pc'[BG] = "lifecycle" /\ loc'[BG].sub = sub
    BY <1>1, <2>1, StepStays
  <2>3. Ended' /\ (sub.status # "GRACE_PERIOD" => sub.periodEnd >= 0)
    BY <1>1, <1>3, <2>1, DueEnds DEF Ended, Reported
  <2>4. TimedOK(BG)'
    BY <2>2, <2>3 DEF TimedOK, Timed, TimedLabels
  <2>. QED BY <1>1, <2>1, <2>2, <2>4, TermQuiet DEF TermInv
<1>4. CASE LifecycleWrite
  <2>1. pc[BG] = "lifecycle" /\ UNCHANGED notes
    BY <1>4 DEF LifecycleWrite, At, gateway
  <2>2. Ended /\ (loc[BG].sub.status # "GRACE_PERIOD" => loc[BG].sub.periodEnd >= 0)
    BY <1>1, <2>1 DEF TermInv, TimedOK, Timed
  <2>3. sub'.periodEnd = sub.periodEnd /\ sub'.status \in {"EXPIRED", "GRACE_PERIOD"}
    BY <1>1, <1>4 DEF LifecycleWrite, TypeInv, TypeOK, Subscription
  <2>4. sub'.status = "GRACE_PERIOD" => sub'.graceEnd # NoTime
    <3>1. CASE loc[BG].sub.status = "GRACE_PERIOD"
      BY <1>1, <1>4, <3>1 DEF LifecycleWrite, TypeInv, TypeOK, Subscription
    <3>2. CASE loc[BG].sub.status # "GRACE_PERIOD"
      <4> DEFINE end == loc[BG].sub.periodEnd + Grace
      <4>1. loc[BG].sub.periodEnd \in Int /\ Grace \in Nat
        BY <1>1, TimeAssumption DEF Local, Subscription, Time
      <4>2. end # NoTime
        BY <2>2, <3>2, <4>1 DEF NoTime
      <4>3. sub' = [sub EXCEPT !.status = "GRACE_PERIOD", !.graceEnd = end]
        BY <1>4, <3>2 DEF LifecycleWrite
      <4> HIDE DEF end
      <4>. QED BY <1>1, <4>2, <4>3 DEF TypeInv, TypeOK, Subscription
    <3>. QED BY <3>1, <3>2
  <2>5. Ended'
    BY <2>1, <2>2, <2>3 DEF Ended, Reported
  <2>6. EveryTermEnds' /\ DowngradeHasCause'
    BY <2>3, <2>4, <2>5 DEF EveryTermEnds, DowngradeHasCause, Ended
  <2>7. OthersStay(BG) /\ pc'[BG] = "snapshot"
    BY <1>1, <1>4 DEF LifecycleWrite, Go, OthersStay, TypeInv, TypeOK
  <2>8. TimedOK(BG)'
    BY <2>7 DEF TimedOK, Timed, TimedLabels
  <2>. QED BY <1>1, <2>1, <2>3, <2>6, <2>7, <2>8, TermMove DEF TermInv
<1>. QED BY <1>2, <1>3, <1>4

LEMMA RenewalTerm ==
  ASSUME AccessInv, TermInv,
         RenewalScan \/ RenewalCheck \/ RenewalCreate \/ CleanupScan \/ CleanupDelete
  PROVE  TermInv'
<1>1. TypeInv /\ BG \in Proc
  BY DEF AccessInv, Proc
<1>2. UNCHANGED <<sub, notes>>
  BY DEF RenewalScan, RenewalCheck, RenewalCreate, CleanupScan, CleanupDelete, db, gateway
<1>3. /\ OthersStay(BG)
      /\ pc'[BG] \in {"renewalCheck", "renewalCreate", "charge", "cleanupScan", "cleanup",
                      "idle"}
  <2>1. CASE Finish(BG)
    BY <1>1, <2>1, FinishStays
  <2>2. CASE Continue(BG, "cleanupScan")
    BY <1>1, <2>2, ContinueStays
  <2>3. CASE RenewalScan /\ ~Finish(BG)
    BY <1>1, <2>3 DEF RenewalScan, Go, OthersStay, TypeInv, TypeOK
  <2>4. CASE RenewalCheck /\ ~Continue(BG, "cleanupScan")
    <3>1. Go(BG, "renewalCreate") /\ \E i \in Invoice : loc' = [loc EXCEPT ![BG].inv = i]
      BY <2>4 DEF RenewalCheck
    <3>. QED BY <1>1, <3>1 DEF Go, OthersStay, TypeInv, TypeOK
  <2>5. CASE RenewalCreate
    BY <1>1, <2>5, GoStays DEF RenewalCreate
  <2>6. CASE CleanupScan /\ ~Finish(BG)
    <3> DEFINE old == {i \in Invoice : IsCleanable(inv[i], clock, Retention)}
    <3>1. Go(BG, "cleanup") /\ loc' = [loc EXCEPT ![BG].ids = old]
      BY <2>6 DEF CleanupScan
    <3> HIDE DEF old
    <3>. QED BY <1>1, <3>1 DEF Go, OthersStay, TypeInv, TypeOK
  <2>. QED BY <2>1, <2>2, <2>3, <2>4, <2>5, <2>6 DEF CleanupDelete
<1>. QED BY <1>1, <1>2, <1>3, TermElsewhere DEF TimedLabels

LEMMA EnvironmentTerm ==
  ASSUME AccessInv, TermInv, GatewayStep \/ Tick \/ Crash \/ UNCHANGED vars PROVE TermInv'
<1>1. TypeInv
  BY DEF AccessInv
<1>2. UNCHANGED sub /\ notes \subseteq notes' /\ \A n \in notes' : n.at >= 0
  BY <1>1 DEF GatewayStep, Tick, Crash, vars, db, gateway, TermInv, TypeInv, TypeOK
<1>3. \A i \in Invoice : \A st : Reported(i, st) => Reported(i, st)'
  BY <1>2 DEF Reported
<1>4. EveryTermEnds' /\ DowngradeHasCause' /\ (Ended => Ended')
  BY <1>2, <1>3, Zenon DEF TermInv, EveryTermEnds, DowngradeHasCause, Ended
<1>5. ASSUME NEW p \in Proc PROVE TimedOK(p)'
  <2>1. TimedOK(p) /\ loc[p] \in Local
    BY <1>1, HereTyped DEF TermInv
  <2>2. CASE GatewayStep \/ UNCHANGED vars
    BY <1>4, <2>1, <2>2 DEF GatewayStep, vars, TimedOK, Timed
  <2>3. CASE Tick
    <3> DEFINE late == ~At(p, "idle")
    <3>1. loc'[p] = [loc[p] EXCEPT !.late = late] /\ UNCHANGED pc
      BY <1>1, <2>3 DEF Tick, TypeInv, TypeOK
    <3> HIDE DEF late
    <3>2. loc'[p].at = loc[p].at /\ loc'[p].sub = loc[p].sub
      BY <2>1, <3>1 DEF Local
    <3>. QED BY <1>4, <2>1, <3>1, <3>2 DEF TimedOK, Timed
  <2>4. CASE Crash
    <3>1. pc'[p] = "idle"
      BY <1>1, <2>4 DEF Crash, TypeInv, TypeOK
    <3>. QED BY <3>1 DEF TimedOK, Timed, TimedLabels
  <2>. QED BY <2>2, <2>3, <2>4
<1>. QED BY <1>2, <1>4, <1>5 DEF TermInv

LEMMA TermInit == Init => TermInv
<1> SUFFICES ASSUME Init PROVE TermInv
  OBVIOUS
<1>1. sub = DefaultSubscription /\ notes = {} /\ \A p \in Proc : pc[p] = "idle"
  BY DEF Init
<1>. QED BY <1>1 DEF TermInv, EveryTermEnds, DowngradeHasCause, DefaultSubscription, NoTime,
                    TimedOK, Timed, TimedLabels

LEMMA TermStep == AccessInv /\ TermInv /\ [Next]_vars => TermInv'
<1> SUFFICES ASSUME AccessInv, TermInv, [Next]_vars PROVE TermInv'
  OBVIOUS
<1>1. ASSUME NEW p \in Proc, SharedStep(p) PROVE TermInv'
  BY <1>1, ChargeTerm, CreateChargeTerm DEF SharedStep
<1>2. ASSUME NEW h \in Handler, Arrive(h) \/ RequestStep(h) PROVE TermInv'
  BY <1>2, CheckoutTerm, CheckoutReserveTerm, CallbackTerm, RefreshTerm, TransitionTerm,
     ApplySubscriptionTerm, ActivateWriteTerm, ChargeTerm DEF Arrive, RequestStep, Proc
<1>3. ASSUME Job PROVE TermInv'
  BY <1>3, LifecycleTerm, RenewalTerm DEF Job
<1>. QED BY <1>1, <1>2, <1>3, EnvironmentTerm DEF Next, Cycle, Proc

THEOREM TermInvariant == Spec => []TermInv
BY AccessInvariant, TermInit, TermStep, PTL DEF Spec

\* Every grace period has its last day and every active priced plan its end,
\* so the lifecycle job can end them, whatever settlements, downgrades and
\* jobs overwrite each other.
THEOREM TermsEnd == Spec => []EveryTermEnds
<1>1. TermInv => EveryTermEnds
  BY DEF TermInv
<1>. QED BY <1>1, TermInvariant, PTL

\* No interleaving cancels, suspends or expires a subscription without a
\* report of the gateway or a period that was there to end.
THEOREM DowngradesAreCaused == Spec => []DowngradeHasCause
<1>1. TermInv => DowngradeHasCause
  BY DEF TermInv
<1>. QED BY <1>1, TermInvariant, PTL

-----------------------------------------------------------------------------
(* Charges and cleanup.  No request sees two ticks, so the row that a      *)
(* process charges was created today or, if it is late, yesterday; what    *)
(* cleanup has chosen is older.                                            *)

Charging == {"charge", "pending", "store", "chargeFailed"}

Kept(label, l) ==
  /\ label \in Charging =>
       /\ HasRow(l.inv)
       /\ inv[l.inv].created >= clock - 1
       /\ l.late \/ inv[l.inv].created >= clock
  /\ label = "cleanup" => \A i \in l.ids : inv[i].created < clock - Retention

KeptOK(p) == Kept(pc[p], loc[p])
KeptInv == \A p \in Proc : KeptOK(p)

\* What becomes of a row while others look at it.
RowKept(i) ==
  \/ inv'[i] = inv[i]
  \/ inv'[i].status \in InvoiceStatus /\ inv'[i].created = inv[i].created
  \/ ~Spent(i)

LEMMA KeptMove ==
  ASSUME AccessInv, KeptInv, NEW p \in Proc, OthersStay(p), UNCHANGED clock,
         \A i \in Invoice : RowKept(i), KeptOK(p)'
  PROVE  KeptInv'
<1> SUFFICES ASSUME NEW q \in Proc, q # p PROVE KeptOK(q)'
  BY DEF KeptInv
<1>1. pc'[q] = pc[q] /\ loc'[q] = loc[q] /\ KeptOK(q)
  BY DEF OthersStay, KeptInv
<1>2. LocalTyped(pc[q], loc[q]) /\ Carried(pc[q], loc[q]) /\ loc[q] \in Local
  BY Here
<1>3. CASE pc[q] \in Charging
  <2>1. loc[q].inv \in Invoice /\ HasRow(loc[q].inv)
    BY <1>1, <1>2, <1>3 DEF LocalTyped, RowLabels, Charging, KeptOK, Kept
  <2>2. /\ inv'[loc[q].inv].status \in InvoiceStatus
        /\ inv'[loc[q].inv].created = inv[loc[q].inv].created
    BY <2>1, RowIsSpent DEF RowKept, HasRow
  <2>. QED BY <1>1, <1>3, <2>2, Zenon DEF KeptOK, Kept, HasRow, Charging
<1>4. CASE pc[q] = "cleanup"
  <2>1. ASSUME NEW i \in loc[q].ids PROVE inv'[i].created < clock - Retention
    <3>1. i \in Invoice /\ Spent(i) /\ inv[i].created < clock - Retention
      BY <1>1, <1>2, <1>4 DEF Carried, Local, KeptOK, Kept
    <3>. QED BY <3>1 DEF RowKept
  <2>. QED BY <1>1, <1>4, <2>1 DEF KeptOK, Kept, Charging
<1>5. CASE pc[q] \notin Charging \cup {"cleanup"}
  BY <1>1, <1>5 DEF KeptOK, Kept
<1>. QED BY <1>3, <1>4, <1>5

LEMMA KeptElsewhere ==
  ASSUME AccessInv, KeptInv, NEW p \in Proc, OthersStay(p), UNCHANGED clock,
         \A i \in Invoice : RowKept(i), pc'[p] \notin Charging \cup {"cleanup"}
  PROVE  KeptInv'
BY KeptMove DEF KeptOK, Kept

\* Steps that touch no row and lead to no charge.
LEMMA ElsewhereKept ==
  ASSUME AccessInv, KeptInv, NEW p \in Proc,
         \/ CheckoutStart(p) \/ CheckoutReserve(p) \/ CallbackStart(p)
         \/ CallbackRecord(p) \/ CallbackAck(p) \/ RefreshLookup(p) \/ RefreshStore(p)
         \/ ApplyRead(p) \/ ApplyTx(p) \/ ApplySubscription(p) \/ ActivateRead(p)
         \/ ActivateWrite(p) \/ ChargeStore(p) \/ RefreshSnapshot(p) \/ Abort(p)
  PROVE  KeptInv'
<1>1. TypeInv
  BY DEF AccessInv
<1>2. UNCHANGED <<inv, clock>>
  BY DEF CheckoutStart, CheckoutReserve, CallbackStart, CallbackRecord, CallbackAck,
         RefreshLookup, RefreshStore, ApplyRead, ApplyTx, ApplySubscription, ActivateRead,
         ActivateWrite, ChargeStore, RefreshSnapshot, Abort, db
<1>3. OthersStay(p) /\ pc'[p] \notin Charging \cup {"cleanup"}
  <2>1. CASE CheckoutStart(p) \/ CheckoutReserve(p)
    BY <1>1, <2>1 DEF CheckoutStart, CheckoutReserve, Go, OthersStay, TypeInv, TypeOK,
                      Charging
  <2>2. CASE Finish(p)
    BY <1>1, <2>2, FinishStays DEF Charging
  <2>3. CASE CallbackStart(p) \/ (CallbackRecord(p) /\ ~Finish(p))
    BY <1>1, <2>3 DEF CallbackStart, CallbackRecord, Go, OthersStay, TypeInv, TypeOK, Charging
  <2>4. CASE RefreshLookup(p) \/ RefreshStore(p)
    BY <1>1, <2>4 DEF RefreshLookup, RefreshStore, Go, OthersStay, TypeInv, TypeOK, Charging
  <2>5. CASE ApplyRead(p) \/ ApplyTx(p) \/ ApplySubscription(p)
    BY <1>1, <2>5 DEF ApplyRead, ApplyTx, ApplySubscription, Go, OthersStay, TypeInv, TypeOK,
                      Charging
  <2>6. CASE ActivateRead(p) \/ ActivateWrite(p)
    BY <1>1, <2>6 DEF ActivateRead, ActivateWrite, Go, OthersStay, TypeInv, TypeOK, Charging
  <2>7. CASE ChargeStore(p)
    BY <1>1, <2>7, ContinueStays DEF ChargeStore, Charging
  <2>8. CASE RefreshSnapshot(p) /\ loc[p].att = 0
    BY <1>1, <2>8, ContinueStays DEF RefreshSnapshot, Charging
  <2>9. CASE RefreshSnapshot(p) /\ loc[p].att # 0
    BY <1>1, <2>9, GoStays DEF RefreshSnapshot, Charging
  <2>. QED BY <2>1, <2>2, <2>3, <2>4, <2>5, <2>6, <2>7, <2>8, <2>9 DEF CallbackAck, Abort
<1>. QED BY <1>1, <1>2, <1>3, KeptElsewhere DEF RowKept

\* A row that its creator charges next.
LEMMA CreatedKept ==
  ASSUME AccessInv, KeptInv, NEW p \in Proc, pc[p] \in Reserving, UNCHANGED clock,
         NEW r \in InvoiceRow, r.status \in InvoiceStatus, r.created = clock,
         inv' = [inv EXCEPT ![loc[p].inv] = r],
         NEW label, label # "cleanup", Go(p, label), UNCHANGED loc
  PROVE  KeptInv'
<1>1. TypeInv /\ loc[p].inv \in Invoice /\ ~Spent(loc[p].inv)
  BY Here DEF ReservedOK, LocalTyped, RowLabels, Reserving
<1>2. OthersStay(p) /\ pc'[p] = label /\ loc'[p] = loc[p]
  BY <1>1, GoStays
<1>3. \A i \in Invoice : RowKept(i)
  BY <1>1 DEF RowKept, TypeInv, TypeOK
<1>4. inv'[loc[p].inv] = r /\ clock \in Int
  BY <1>1 DEF TypeInv, TypeOK
<1>5. HasRow(loc[p].inv)' /\ r.created >= clock - 1 /\ r.created >= clock
  BY <1>2, <1>4 DEF HasRow
<1>6. KeptOK(p)'
  BY <1>2, <1>4, <1>5 DEF KeptOK, Kept
<1>. QED BY <1>2, <1>3, <1>6, KeptMove

LEMMA CreateKept ==
  ASSUME AccessInv, KeptInv, (\E h \in Handler : CheckoutInvoice(h)) \/ RenewalCreate
  PROVE  KeptInv'
<1>1. TypeInv /\ clock \in Time
  BY DEF AccessInv, TypeInv, TypeOK, Time
<1>2. CASE \E h \in Handler : CheckoutInvoice(h)
  <2>1. PICK h \in Handler : CheckoutInvoice(h)
    BY <1>2
  <2> DEFINE r == [status |-> IF loc[h].plan \in Paid THEN "DRAFT" ELSE "PAID",
                   plan |-> loc[h].plan, cycle |-> "checkout", due |-> NoTime,
                   created |-> clock]
  <2>2. h \in Proc /\ loc[h] \in Local
    BY Here DEF Proc
  <2>3. r \in InvoiceRow /\ r.status \in InvoiceStatus /\ r.created = clock
    BY <1>1, <2>2, NullTyped DEF InvoiceRow, InvoiceStatus, Local
  <2>4. PICK label \in {"charge", "activateRead"} : Go(h, label)
    BY <2>1 DEF CheckoutInvoice
  <2>5. /\ inv' = [inv EXCEPT ![loc[h].inv] = r] /\ UNCHANGED <<loc, clock>>
        /\ pc[h] \in Reserving
    BY <2>1 DEF CheckoutInvoice, At, Reserving
  <2> HIDE DEF r
  <2>. QED BY <2>2, <2>3, <2>4, <2>5, CreatedKept
<1>3. CASE RenewalCreate
  <2> DEFINE r == [status |-> "DRAFT", plan |-> loc[BG].sub.plan, cycle |-> "renewal",
                   due |-> loc[BG].sub.periodEnd, created |-> clock]
  <2>1. BG \in Proc /\ loc[BG] \in Local
    BY Here DEF Proc
  <2>2. r \in InvoiceRow /\ r.status \in InvoiceStatus /\ r.created = clock
    BY <1>1, <2>1 DEF InvoiceRow, InvoiceStatus, Local, Subscription
  <2>3. /\ inv' = [inv EXCEPT ![loc[BG].inv] = r] /\ UNCHANGED <<loc, clock>>
        /\ pc[BG] \in Reserving /\ Go(BG, "charge")
    BY <1>3 DEF RenewalCreate, At, Reserving
  <2> HIDE DEF r
  <2>. QED BY <2>1, <2>2, <2>3, CreatedKept
<1>. QED BY <1>2, <1>3

\* A statement that sets the status of one row.
LEMMA StatusKept ==
  ASSUME TypeInv, NEW i \in Invoice, NEW st \in InvoiceStatus,
         inv' = [inv EXCEPT ![i].status = st]
  PROVE  /\ \A j \in Invoice : RowKept(j)
         /\ inv'[i].status = st /\ inv'[i].created = inv[i].created
<1>1. inv \in [Invoice -> InvoiceRow]
  BY DEF TypeInv, TypeOK
<1>2. inv'[i] = [inv[i] EXCEPT !.status = st]
  BY <1>1
<1>3. inv'[i].status = st /\ inv'[i].created = inv[i].created
  BY <1>1, <1>2 DEF InvoiceRow
<1>4. \A j \in Invoice \ {i} : inv'[j] = inv[j]
  BY <1>1
<1>. QED BY <1>3, <1>4 DEF RowKept

LEMMA ChargeKept ==
  ASSUME AccessInv, KeptInv, NEW p \in Proc,
         CreateCharge(p) \/ ChargePending(p) \/ ChargeFailed(p)
  PROVE  KeptInv'
<1>1. /\ TypeInv /\ KeptOK(p)
      /\ pc[p] \in {"charge", "pending", "chargeFailed"} /\ UNCHANGED clock
  BY DEF AccessInv, KeptInv, CreateCharge, ChargePending, ChargeFailed, At
<1>2. loc[p].inv \in Invoice /\ HasRow(loc[p].inv)
  BY <1>1, Here DEF LocalTyped, RowLabels, KeptOK, Kept, Charging
<1>3. CASE CreateCharge(p)
  <2>1. UNCHANGED <<inv, loc>>
    BY <1>3 DEF CreateCharge, db
  <2>2. PICK label \in {"pending", "chargeFailed"} : Go(p, label)
    BY <1>3 DEF CreateCharge
  <2>3. OthersStay(p) /\ pc'[p] = label /\ loc'[p] = loc[p]
    BY <1>1, <2>1, <2>2, GoStays
  <2>4. KeptOK(p)'
    BY <1>1, <2>1, <2>3 DEF KeptOK, Kept, Charging, HasRow
  <2>. QED BY <1>1, <2>1, <2>3, <2>4, KeptMove DEF RowKept
<1>4. CASE ChargePending(p)
  <2>1. UNCHANGED loc /\ Go(p, "store")
    BY <1>4 DEF ChargePending
  <2>2. OthersStay(p) /\ pc'[p] = "store" /\ loc'[p] = loc[p]
    BY <1>1, <2>1, GoStays
  <2>3. "PENDING_PAYMENT" \in InvoiceStatus
    BY DEF InvoiceStatus
  <2>4. /\ \A j \in Invoice : RowKept(j)
        /\ inv'[loc[p].inv].status = "PENDING_PAYMENT"
        /\ inv'[loc[p].inv].created = inv[loc[p].inv].created
    BY <1>1, <1>2, <1>4, <2>3, StatusKept DEF ChargePending
  <2>5. KeptOK(p)'
    BY <1>1, <2>2, <2>3, <2>4 DEF KeptOK, Kept, Charging, HasRow
  <2>. QED BY <1>1, <2>2, <2>4, <2>5, KeptMove
<1>5. CASE ChargeFailed(p)
  <2>1. OthersStay(p) /\ pc'[p] \in {"idle", "cleanupScan"}
    BY <1>1, <1>5, ContinueStays DEF ChargeFailed
  <2>2. "FAILED" \in InvoiceStatus
    BY DEF InvoiceStatus
  <2>3. \A j \in Invoice : RowKept(j)
    BY <1>1, <1>2, <1>5, <2>2, StatusKept DEF ChargeFailed
  <2>. QED BY <1>1, <2>1, <2>3, KeptElsewhere DEF Charging
<1>. QED BY <1>3, <1>4, <1>5

\* A notification that finds a charged row leaves it in place.
LEMMA ApplyInvoiceKept ==
  ASSUME AccessInv, KeptInv, NEW h \in Handler, ApplyInvoice(h) PROVE KeptInv'
<1> DEFINE st == mapInvoiceStatusFromTransaction(loc[h].st)
<1>1. TypeInv /\ h \in Proc /\ UNCHANGED <<clock, loc>>
  BY DEF AccessInv, Proc, ApplyInvoice
<1>2. loc[h].inv \in Invoice /\ loc[h].st \in TxStatus
  BY <1>1, Here DEF ApplyInvoice, At, LocalTyped, RowLabels, StatusLabels, Local
<1>3. st \in InvoiceStatus /\ inv' = [inv EXCEPT ![loc[h].inv].status = st]
  BY <1>2, MappingsTyped DEF ApplyInvoice
<1> HIDE DEF st
<1>4. \A j \in Invoice : RowKept(j)
  BY <1>1, <1>2, <1>3, StatusKept
<1>5. PICK label \in {"activateRead", "applySub"} : Go(h, label)
  BY DEF ApplyInvoice
<1>6. OthersStay(h) /\ pc'[h] = label
  BY <1>1, <1>5, GoStays
<1>. QED BY <1>1, <1>4, <1>6, KeptElsewhere DEF Charging

LEMMA JobKept ==
  ASSUME AccessInv, KeptInv,
         LifecycleScan \/ LifecycleWrite \/ RenewalScan \/ RenewalCheck
  PROVE  KeptInv'
<1>1. TypeInv /\ BG \in Proc
  BY DEF AccessInv, Proc
<1>2. UNCHANGED <<inv, clock>>
  BY DEF LifecycleScan, LifecycleWrite, RenewalScan, RenewalCheck, db
<1>3. OthersStay(BG) /\ pc'[BG] \notin Charging \cup {"cleanup"}
  <2>1. CASE Finish(BG)
    BY <1>1, <2>1, FinishStays DEF Charging
  <2>2. CASE Continue(BG, "cleanupScan")
    BY <1>1, <2>2, ContinueStays DEF Charging
  <2>3. CASE LifecycleScan \/ LifecycleWrite
    BY <1>1, <2>3 DEF LifecycleScan, LifecycleWrite, Go, OthersStay, TypeInv, TypeOK, Charging
  <2>4. CASE RenewalScan /\ ~Finish(BG)
    BY <1>1, <2>4 DEF RenewalScan, Go, OthersStay, TypeInv, TypeOK, Charging
  <2>5. CASE RenewalCheck /\ ~Continue(BG, "cleanupScan")
    <3>1. Go(BG, "renewalCreate") /\ \E i \in Invoice : loc' = [loc EXCEPT ![BG].inv = i]
      BY <2>5 DEF RenewalCheck
    <3>. QED BY <1>1, <3>1 DEF Go, OthersStay, TypeInv, TypeOK, Charging
  <2>. QED BY <2>1, <2>2, <2>3, <2>4, <2>5
<1>. QED BY <1>1, <1>2, <1>3, KeptElsewhere DEF RowKept

LEMMA CleanupScanKept ==
  ASSUME AccessInv, KeptInv, CleanupScan PROVE KeptInv'
<1> DEFINE old == {i \in Invoice : IsCleanable(inv[i], clock, Retention)}
<1>1. TypeInv /\ BG \in Proc /\ UNCHANGED <<inv, clock>>
  BY DEF AccessInv, Proc, CleanupScan, db
<1>2. \A i \in old : inv[i].created < clock - Retention
  BY DEF IsCleanable
<1>3. Finish(BG) \/ (Go(BG, "cleanup") /\ loc' = [loc EXCEPT ![BG].ids = old])
  BY DEF CleanupScan
<1> HIDE DEF old
<1>4. CASE Finish(BG)
  <2>1. OthersStay(BG) /\ pc'[BG] = "idle"
    BY <1>1, <1>4, FinishStays
  <2>. QED BY <1>1, <2>1, KeptElsewhere DEF RowKept, Charging
<1>5. CASE Go(BG, "cleanup") /\ loc' = [loc EXCEPT ![BG].ids = old]
  <2>1. OthersStay(BG) /\ pc'[BG] = "cleanup" /\ loc'[BG].ids = old
    BY <1>1, <1>5, Here DEF Go, OthersStay, TypeInv, TypeOK, Local
  <2>2. KeptOK(BG)'
    BY <1>1, <1>2, <2>1 DEF KeptOK, Kept, Charging
  <2>. QED BY <1>1, <2>1, <2>2, KeptMove DEF RowKept
<1>. QED BY <1>3, <1>4, <1>5

\* What cleanup chose is older than the retention, and what is being charged
\* is not.
LEMMA CleanupDeleteKept ==
  ASSUME AccessInv, KeptInv, CleanupDelete PROVE KeptInv'
<1>1. /\ TypeInv /\ BG \in Proc /\ UNCHANGED clock
      /\ clock \in Int /\ Retention \in Nat \ {0}
  BY TimeAssumption DEF AccessInv, Proc, CleanupDelete, TypeInv, TypeOK
<1>2. OthersStay(BG) /\ pc'[BG] = "idle"
  BY <1>1, FinishStays DEF CleanupDelete
<1>3. \A i \in loc[BG].ids : inv[i].created < clock - Retention
  BY <1>1 DEF KeptInv, KeptOK, Kept, CleanupDelete, At
<1>4. /\ inv \in [Invoice -> InvoiceRow]
      /\ \A i \in Invoice : inv'[i] = IF i \in loc[BG].ids
                                        THEN [inv[i] EXCEPT !.status = "DELETED"] ELSE inv[i]
  BY <1>1 DEF CleanupDelete, TypeInv, TypeOK
<1>5. \A i \in Invoice : inv'[i].created = inv[i].created /\ inv[i].created \in Int
  BY <1>4 DEF InvoiceRow, Time
<1> SUFFICES ASSUME NEW q \in Proc PROVE KeptOK(q)'
  BY DEF KeptInv
<1>6. CASE q = BG
  BY <1>2, <1>6 DEF KeptOK, Kept, Charging
<1>7. CASE q # BG
  <2>1. pc'[q] = pc[q] /\ loc'[q] = loc[q] /\ KeptOK(q)
    BY <1>2, <1>7 DEF OthersStay, KeptInv
  <2>2. LocalTyped(pc[q], loc[q]) /\ loc[q] \in Local
    BY Here
  <2>3. CASE pc[q] \in Charging
    <3>1. /\ loc[q].inv \in Invoice /\ HasRow(loc[q].inv)
          /\ inv[loc[q].inv].created >= clock - 1
      BY <2>1, <2>2, <2>3 DEF LocalTyped, RowLabels, Charging, KeptOK, Kept
    <3>2. loc[q].inv \notin loc[BG].ids
      BY <1>1, <1>3, <1>5, <3>1
    <3>3. inv'[loc[q].inv] = inv[loc[q].inv]
      BY <1>4, <3>1, <3>2
    <3>. QED BY <1>1, <2>1, <2>3, <3>3 DEF KeptOK, Kept, HasRow, Charging
  <2>4. CASE pc[q] = "cleanup"
    <3>1. \A i \in loc[q].ids : inv'[i].created < clock - Retention
      BY <1>5, <2>1, <2>2, <2>4 DEF KeptOK, Kept, Local
    <3>. QED BY <1>1, <2>1, <2>4, <3>1 DEF KeptOK, Kept, Charging
  <2>. QED BY <2>1, <2>3, <2>4 DEF KeptOK, Kept
<1>. QED BY <1>6, <1>7

LEMMA TickKept ==
  ASSUME AccessInv, KeptInv, Tick PROVE KeptInv'
<1>1. /\ TypeInv /\ UNCHANGED <<inv, pc>> /\ clock' = clock + 1
      /\ clock \in Int /\ Retention \in Nat
  BY TimeAssumption DEF AccessInv, Tick, db, TypeInv, TypeOK
<1> SUFFICES ASSUME NEW q \in Proc PROVE KeptOK(q)'
  BY DEF KeptInv
<1> DEFINE late == ~At(q, "idle")
<1>2. loc'[q] = [loc[q] EXCEPT !.late = late] /\ ~loc[q].late
  BY <1>1 DEF Tick, TypeInv, TypeOK
<1>3. late <=> pc[q] # "idle"
  BY DEF At
<1> HIDE DEF late
<1>4. LocalTyped(pc[q], loc[q]) /\ loc[q] \in Local /\ KeptOK(q)
  BY Here DEF KeptInv
<1>5. loc'[q].inv = loc[q].inv /\ loc'[q].ids = loc[q].ids /\ loc'[q].late = late
  BY <1>2, <1>4 DEF Local
<1>6. \A i \in Invoice : inv[i].created \in Int
  BY <1>1 DEF TypeInv, TypeOK, InvoiceRow, Time
<1>7. CASE pc[q] \in Charging
  <2>1. loc[q].inv \in Invoice /\ HasRow(loc[q].inv) /\ inv[loc[q].inv].created >= clock
    BY <1>2, <1>4, <1>7, Zenon DEF LocalTyped, RowLabels, Charging, KeptOK, Kept
  <2>2. inv[loc[q].inv].created >= clock' - 1
    BY <1>1, <1>6, <2>1
  <2>3. loc'[q].late
    BY <1>3, <1>5, <1>7 DEF Charging
  <2>4. inv'[loc'[q].inv].status \in InvoiceStatus
    BY <1>1, <1>5, <2>1 DEF HasRow
  <2>5. pc'[q] # "cleanup" /\ inv'[loc'[q].inv].created >= clock' - 1
    BY <1>1, <1>5, <1>7, <2>2 DEF Charging
  <2>. QED BY <2>3, <2>4, <2>5, Zenon DEF KeptOK, Kept, HasRow
<1>8. CASE pc[q] = "cleanup"
  <2>1. \A i \in loc[q].ids : inv[i].created < clock' - Retention
    BY <1>1, <1>4, <1>6, <1>8 DEF KeptOK, Kept, Local
  <2>. QED BY <1>1, <1>5, <1>8, <2>1 DEF KeptOK, Kept, Charging
<1>. QED BY <1>1, <1>7, <1>8 DEF KeptOK, Kept

LEMMA EnvironmentKept ==
  ASSUME AccessInv, KeptInv, GatewayStep \/ Crash \/ UNCHANGED vars PROVE KeptInv'
<1>1. UNCHANGED <<inv, clock>> /\ TypeInv
  BY DEF AccessInv, GatewayStep, Crash, vars, db
<1>2. CASE Crash
  <2>1. \A q \in Proc : pc'[q] = "idle"
    BY <1>1, <1>2 DEF Crash, TypeInv, TypeOK
  <2>. QED BY <2>1 DEF KeptInv, KeptOK, Kept, Charging
<1>3. CASE GatewayStep \/ UNCHANGED vars
  <2>1. UNCHANGED <<pc, loc>>
    BY <1>3 DEF GatewayStep, vars
  <2>. QED BY <1>1, <2>1 DEF KeptInv, KeptOK, Kept, HasRow
<1>. QED BY <1>2, <1>3

LEMMA KeptInit == Init => KeptInv
BY DEF Init, KeptInv, KeptOK, Kept, Charging

LEMMA KeptStep == AccessInv /\ KeptInv /\ [Next]_vars => KeptInv'
<1> SUFFICES ASSUME AccessInv, KeptInv, [Next]_vars PROVE KeptInv'
  OBVIOUS
<1>1. ASSUME NEW p \in Proc, SharedStep(p) PROVE KeptInv'
  BY <1>1, ElsewhereKept, ChargeKept DEF SharedStep
<1>2. ASSUME NEW h \in Handler, Arrive(h) \/ RequestStep(h) PROVE KeptInv'
  BY <1>2, ElsewhereKept, CreateKept, ApplyInvoiceKept DEF Arrive, RequestStep, Proc
<1>3. ASSUME Job PROVE KeptInv'
  BY <1>3, JobKept, CreateKept, CleanupScanKept, CleanupDeleteKept DEF Job
<1>. QED BY <1>1, <1>2, <1>3, TickKept, EnvironmentKept DEF Next, Cycle, Proc

\* Cleanup never takes an invoice away from the checkout or renewal that is
\* still charging it, whatever the retention and however long a row has been
\* chosen before it is deleted.
THEOREM ChargedRowsStay == Spec => []ChargedInvoiceKeepsRow
<1>1. KeptInv => ChargedInvoiceKeepsRow
  BY DEF KeptInv, KeptOK, Kept, Charging, ChargedInvoiceKeepsRow
<1>. QED BY <1>1, AccessInvariant, KeptInit, KeptStep, PTL DEF Spec

-----------------------------------------------------------------------------
(* Renewals.  The renewals that count are those that never ended: a row    *)
(* that did can become live again only through a report or the answer to a *)
(* charge, and is then among the revived.                                  *)

LiveRenewal(i) == i \notin revived /\ inv[i].cycle = "renewal" /\ inv[i].status \in Live

\* Between the check and the create nobody bills the date the job bills.
DueIsFree ==
  pc[BG] = "renewalCreate" =>
    \A i \in Invoice : LiveRenewal(i) => inv[i].due # loc[BG].sub.periodEnd

RenewInv == DueIsFree /\ OneLiveRenewal

\* No renewal comes to life.
NoneRevives ==
  \A i \in Invoice : LiveRenewal(i)' => LiveRenewal(i) /\ inv'[i].due = inv[i].due

\* A step by which none comes to life, and which does not make the job's check.
LEMMA RenewMove ==
  ASSUME RenewInv, NoneRevives, NEW p \in Proc, OthersStay(p), pc'[p] # "renewalCreate"
  PROVE  RenewInv'
<1>1. OneLiveRenewal'
  BY DEF RenewInv, OneLiveRenewal, NoneRevives, LiveRenewal
<1>2. DueIsFree'
  BY DEF RenewInv, DueIsFree, NoneRevives, OthersStay, Proc
<1>. QED BY <1>1, <1>2 DEF RenewInv

\* Steps that touch no row.
LEMMA RenewElsewhere ==
  ASSUME RenewInv, UNCHANGED <<inv, revived>>,
         NEW p \in Proc, OthersStay(p), pc'[p] # "renewalCreate"
  PROVE  RenewInv'
<1>1. NoneRevives
  BY DEF NoneRevives, LiveRenewal
<1>. QED BY <1>1, RenewMove

LEMMA ElsewhereRenews ==
  ASSUME AccessInv, RenewInv, NEW p \in Proc,
         \/ CheckoutStart(p) \/ CheckoutReserve(p) \/ CallbackStart(p)
         \/ CallbackRecord(p) \/ CallbackAck(p) \/ RefreshLookup(p) \/ RefreshStore(p)
         \/ ApplyRead(p) \/ ApplyTx(p) \/ ApplySubscription(p) \/ ActivateRead(p)
         \/ ActivateWrite(p) \/ CreateCharge(p) \/ ChargeStore(p)
         \/ RefreshSnapshot(p) \/ Abort(p)
  PROVE  RenewInv'
<1>1. TypeInv /\ loc[p] \in Local
  BY Here
<1>2. UNCHANGED <<inv, revived>>
  BY DEF CheckoutStart, CheckoutReserve, CallbackStart, CallbackRecord, CallbackAck,
         RefreshLookup, RefreshStore, ApplyRead, ApplyTx, ApplySubscription, ActivateRead,
         ActivateWrite, CreateCharge, ChargeStore, RefreshSnapshot, Abort, db
<1>3. OthersStay(p) /\ pc'[p] # "renewalCreate"
  <2>1. CASE CheckoutStart(p) \/ CheckoutReserve(p) \/ CallbackStart(p)
    BY <1>1, <2>1 DEF CheckoutStart, CheckoutReserve, CallbackStart, Go, OthersStay,
                      TypeInv, TypeOK
  <2>2. CASE Finish(p)
    BY <1>1, <2>2, FinishStays
  <2>3. CASE RefreshLookup(p) \/ RefreshStore(p) \/ ApplyRead(p) \/ ApplyTx(p)
    BY <1>1, <2>3 DEF RefreshLookup, RefreshStore, ApplyRead, ApplyTx, Go, OthersStay,
                      TypeInv, TypeOK
  <2>4. CASE CallbackRecord(p) /\ ~Finish(p)
    BY <1>1, <2>4 DEF CallbackRecord, Go, OthersStay, TypeInv, TypeOK
  <2>5. CASE ApplySubscription(p) \/ ActivateRead(p) \/ ActivateWrite(p)
    BY <1>1, <2>5 DEF ApplySubscription, ActivateRead, ActivateWrite, Go, OthersStay,
                      TypeInv, TypeOK
  <2>6. CASE CreateCharge(p)
    <3>1. PICK outcome \in ChargeOutcomes :
             Go(p, IF outcome = "ok" THEN "pending" ELSE "chargeFailed")
      BY <2>6 DEF CreateCharge
    <3>. QED BY <1>1, <2>6, <3>1, GoStays DEF CreateCharge
  <2>7. CASE ChargeStore(p) \/ (RefreshSnapshot(p) /\ loc[p].att = 0)
    BY <1>1, <2>7, ContinueStays DEF ChargeStore, RefreshSnapshot
  <2>8. CASE RefreshSnapshot(p) /\ loc[p].att # 0
    BY <1>1, <2>8, GoStays DEF RefreshSnapshot
  <2>. QED BY <2>1, <2>2, <2>3, <2>4, <2>5, <2>6, <2>7, <2>8 DEF CallbackAck, Abort
<1>. QED BY <1>2, <1>3, RenewElsewhere

\* A statement that sets the status of one row.
LEMMA RenewStatus ==
  ASSUME TypeInv, RenewInv, NEW i \in Invoice, NEW st,
         inv' = [inv EXCEPT ![i].status = st], revived' = revived \cup Revived(i, st),
         NEW p \in Proc, OthersStay(p), pc'[p] # "renewalCreate"
  PROVE  RenewInv'
<1>1. /\ inv \in [Invoice -> InvoiceRow]
      /\ inv'[i].status = st /\ inv'[i].cycle = inv[i].cycle /\ inv'[i].due = inv[i].due
      /\ \A j \in Invoice \ {i} : inv'[j] = inv[j]
  BY DEF TypeInv, TypeOK, InvoiceRow
<1>2. LiveRenewal(i)' => LiveRenewal(i)
  BY <1>1 DEF LiveRenewal, Revived
<1>3. NoneRevives
  BY <1>1, <1>2 DEF NoneRevives, LiveRenewal
<1>. QED BY <1>3, RenewMove

LEMMA ChargePendingRenews ==
  ASSUME AccessInv, RenewInv, NEW p \in Proc, ChargePending(p) PROVE RenewInv'
<1>1. TypeInv /\ loc[p].inv \in Invoice
  BY Here DEF ChargePending, At, LocalTyped, RowLabels
<1>2. OthersStay(p) /\ pc'[p] = "store"
  BY <1>1, GoStays DEF ChargePending
<1>3. /\ inv' = [inv EXCEPT ![loc[p].inv].status = "PENDING_PAYMENT"]
      /\ revived' = revived \cup Revived(loc[p].inv, "PENDING_PAYMENT")
  BY DEF ChargePending
<1>. QED BY <1>1, <1>2, <1>3, RenewStatus

LEMMA ChargeFailedRenews ==
  ASSUME AccessInv, RenewInv, NEW p \in Proc, ChargeFailed(p) PROVE RenewInv'
<1>1. TypeInv /\ loc[p].inv \in Invoice
  BY Here DEF ChargeFailed, At, LocalTyped, RowLabels
<1>2. OthersStay(p) /\ pc'[p] \in {"idle", "cleanupScan"}
  BY <1>1, ContinueStays DEF ChargeFailed
<1>3. inv' = [inv EXCEPT ![loc[p].inv].status = "FAILED"] /\ UNCHANGED revived
  BY DEF ChargeFailed
<1>4. Revived(loc[p].inv, "FAILED") = {}
  BY DEF Revived, Live
<1>5. revived' = revived \cup Revived(loc[p].inv, "FAILED")
  BY <1>3, <1>4
<1>6. pc'[p] # "renewalCreate"
  BY <1>2
<1>. QED BY <1>1, <1>2, <1>3, <1>5, <1>6, RenewStatus

LEMMA ApplyInvoiceRenews ==
  ASSUME AccessInv, RenewInv, NEW h \in Handler, ApplyInvoice(h) PROVE RenewInv'
<1>1. TypeInv /\ h \in Proc /\ loc[h].inv \in Invoice /\ UNCHANGED loc
  BY Here DEF Proc, ApplyInvoice, At, LocalTyped, RowLabels, StatusLabels
<1>2. PICK label \in {"activateRead", "applySub"} : Go(h, label)
  BY DEF ApplyInvoice
<1>3. OthersStay(h) /\ pc'[h] # "renewalCreate"
  BY <1>1, <1>2, GoStays
<1>4. PICK st : st = mapInvoiceStatusFromTransaction(loc[h].st)
  OBVIOUS
<1>5. /\ inv' = [inv EXCEPT ![loc[h].inv].status = st]
      /\ revived' = revived \cup Revived(loc[h].inv, st)
  BY <1>4 DEF ApplyInvoice
<1>. QED BY <1>1, <1>3, <1>5, RenewStatus

LEMMA CheckoutInvoiceRenews ==
  ASSUME AccessInv, RenewInv, NEW h \in Handler, CheckoutInvoice(h) PROVE RenewInv'
<1> DEFINE i == loc[h].inv
<1>1. TypeInv /\ h \in Proc /\ i \in Invoice /\ UNCHANGED <<loc, revived>>
  BY Here DEF Proc, CheckoutInvoice, At, LocalTyped, RowLabels
<1>2. PICK label \in {"charge", "activateRead"} : Go(h, label)
  BY DEF CheckoutInvoice
<1>3. OthersStay(h) /\ pc'[h] # "renewalCreate"
  BY <1>1, <1>2, GoStays
<1>4. inv'[i].cycle = "checkout" /\ \A j \in Invoice \ {i} : inv'[j] = inv[j]
  BY <1>1 DEF CheckoutInvoice, TypeInv, TypeOK
<1>5. NoneRevives
  BY <1>1, <1>4 DEF NoneRevives, LiveRenewal
<1>. QED BY <1>1, <1>3, <1>5, RenewMove

LEMMA RenewalCreateRenews ==
  ASSUME AccessInv, RenewInv, RenewalCreate PROVE RenewInv'
<1> DEFINE i == loc[BG].inv
<1>1. TypeInv /\ BG \in Proc
  BY Here DEF Proc
<1>2. i \in Invoice /\ pc[BG] = "renewalCreate" /\ UNCHANGED <<loc, revived>>
  BY <1>1, Here DEF RenewalCreate, At, LocalTyped, RowLabels
<1>3. pc'[BG] = "charge"
  BY <1>1 DEF RenewalCreate, Go, TypeInv, TypeOK
<1>4. /\ inv'[i].due = loc[BG].sub.periodEnd
      /\ \A j \in Invoice \ {i} : inv'[j] = inv[j]
  BY <1>1, <1>2 DEF RenewalCreate, TypeInv, TypeOK
<1>5. \A j \in Invoice \ {i} : LiveRenewal(j)' => inv'[j].due # inv'[i].due
  BY <1>2, <1>4 DEF RenewInv, DueIsFree, LiveRenewal
<1>6. OneLiveRenewal'
  BY <1>2, <1>4, <1>5 DEF RenewInv, OneLiveRenewal, LiveRenewal
<1>7. DueIsFree'
  BY <1>3 DEF DueIsFree
<1>. QED BY <1>6, <1>7 DEF RenewInv

LEMMA JobRenews ==
  ASSUME AccessInv, RenewInv,
         LifecycleScan \/ LifecycleWrite \/ RenewalScan \/ CleanupScan
  PROVE  RenewInv'
<1>1. TypeInv /\ BG \in Proc /\ UNCHANGED <<inv, revived>>
  BY DEF AccessInv, Proc, LifecycleScan, LifecycleWrite, RenewalScan, CleanupScan, db
<1>2. OthersStay(BG) /\ pc'[BG] # "renewalCreate"
  <2>1. CASE Finish(BG)
    BY <1>1, <2>1, FinishStays
  <2>2. CASE LifecycleScan \/ LifecycleWrite
    BY <1>1, <2>2 DEF LifecycleScan, LifecycleWrite, Go, OthersStay, TypeInv, TypeOK
  <2>3. CASE RenewalScan /\ ~Finish(BG)
    BY <1>1, <2>3 DEF RenewalScan, Go, OthersStay, TypeInv, TypeOK
  <2>4. CASE CleanupScan /\ ~Finish(BG)
    <3> DEFINE old == {i \in Invoice : IsCleanable(inv[i], clock, Retention)}
    <3>1. Go(BG, "cleanup") /\ loc' = [loc EXCEPT ![BG].ids = old]
      BY <2>4 DEF CleanupScan
    <3> HIDE DEF old
    <3>. QED BY <1>1, <3>1 DEF Go, OthersStay, TypeInv, TypeOK
  <2>. QED BY <2>1, <2>2, <2>3, <2>4
<1>. QED BY <1>1, <1>2, RenewElsewhere

LEMMA RenewalCheckRenews ==
  ASSUME AccessInv, RenewInv, RenewalCheck PROVE RenewInv'
<1>1. TypeInv /\ BG \in Proc /\ loc[BG] \in Local /\ UNCHANGED <<inv, revived>>
  BY Here DEF Proc, RenewalCheck, db
<1>2. CASE Continue(BG, "cleanupScan")
  <2>1. OthersStay(BG) /\ pc'[BG] \in {"idle", "cleanupScan"}
    BY <1>1, <1>2, ContinueStays
  <2>. QED BY <1>1, <2>1, RenewElsewhere
<1>3. CASE ~Continue(BG, "cleanupScan")
  <2>1. \A i \in Invoice : ~BlocksRenewal(inv[i], loc[BG].sub.periodEnd)
    BY <1>3 DEF RenewalCheck
  <2>2. PICK i \in Invoice : loc' = [loc EXCEPT ![BG].inv = i]
    BY <1>3 DEF RenewalCheck
  <2>3. loc'[BG].sub = loc[BG].sub
    BY <1>1, <2>2 DEF TypeInv, TypeOK, Local
  <2>4. DueIsFree'
    BY <1>1, <2>1, <2>3 DEF DueIsFree, LiveRenewal, BlocksRenewal, Live
  <2>5. OneLiveRenewal'
    BY <1>1 DEF RenewInv, OneLiveRenewal
  <2>. QED BY <2>4, <2>5 DEF RenewInv
<1>. QED BY <1>2, <1>3

LEMMA CleanupDeleteRenews ==
  ASSUME AccessInv, RenewInv, CleanupDelete PROVE RenewInv'
<1>1. TypeInv /\ BG \in Proc /\ UNCHANGED revived
  BY DEF AccessInv, Proc, CleanupDelete
<1>2. OthersStay(BG) /\ pc'[BG] = "idle"
  BY <1>1, FinishStays DEF CleanupDelete
<1>3. \A i \in Invoice : inv'[i] = [inv[i] EXCEPT !.status = "DELETED"] \/ inv'[i] = inv[i]
  BY <1>1 DEF CleanupDelete, TypeInv, TypeOK
<1>4. \A i \in Invoice : inv'[i].status = "DELETED" \/ inv'[i] = inv[i]
  BY <1>1, <1>3 DEF TypeInv, TypeOK, InvoiceRow
<1>5. NoneRevives
  BY <1>1, <1>4 DEF NoneRevives, LiveRenewal, Live
<1>. QED BY <1>1, <1>2, <1>5, RenewMove

LEMMA EnvironmentRenews ==
  ASSUME AccessInv, RenewInv, GatewayStep \/ Tick \/ Crash \/ UNCHANGED vars
  PROVE  RenewInv'
<1>1. TypeInv /\ BG \in Proc /\ UNCHANGED <<inv, revived>>
  BY DEF AccessInv, Proc, GatewayStep, Tick, Crash, vars, db
<1>2. OneLiveRenewal'
  BY <1>1 DEF RenewInv, OneLiveRenewal
<1>3. CASE Crash
  <2>1. pc'[BG] = "idle"
    BY <1>1, <1>3 DEF Crash, TypeInv, TypeOK
  <2>. QED BY <1>2, <2>1 DEF RenewInv, DueIsFree
<1>4. CASE Tick
  <2> DEFINE late == ~At(BG, "idle")
  <2>1. loc'[BG] = [loc[BG] EXCEPT !.late = late] /\ UNCHANGED pc
    BY <1>1, <1>4 DEF Tick, TypeInv, TypeOK
  <2> HIDE DEF late
  <2>2. loc'[BG].sub = loc[BG].sub
    BY <1>1, <2>1, Here DEF Local
  <2>. QED BY <1>1, <1>2, <2>1, <2>2 DEF RenewInv, DueIsFree, LiveRenewal
<1>5. CASE GatewayStep \/ UNCHANGED vars
  <2>1. UNCHANGED <<pc, loc>>
    BY <1>5 DEF GatewayStep, vars
  <2>. QED BY <1>1, <1>2, <2>1 DEF RenewInv, DueIsFree, LiveRenewal
<1>. QED BY <1>3, <1>4, <1>5

LEMMA RenewInit == Init => RenewInv
BY DEF Init, RenewInv, DueIsFree, OneLiveRenewal, Proc

LEMMA RenewStep == AccessInv /\ RenewInv /\ [Next]_vars => RenewInv'
<1> SUFFICES ASSUME AccessInv, RenewInv, [Next]_vars PROVE RenewInv'
  OBVIOUS
<1>1. ASSUME NEW p \in Proc, SharedStep(p) PROVE RenewInv'
  BY <1>1, ElsewhereRenews, ChargePendingRenews, ChargeFailedRenews DEF SharedStep
<1>2. ASSUME NEW h \in Handler, Arrive(h) \/ RequestStep(h) PROVE RenewInv'
  BY <1>2, ElsewhereRenews, CheckoutInvoiceRenews, ApplyInvoiceRenews
     DEF Arrive, RequestStep, Proc
<1>3. ASSUME Job PROVE RenewInv'
  BY <1>3, JobRenews, RenewalCheckRenews, RenewalCreateRenews, CleanupDeleteRenews DEF Job
<1>. QED BY <1>1, <1>2, <1>3, EnvironmentRenews DEF Next, Cycle, Proc

\* One due date is billed by one renewal at a time (processRenewalBilling), whatever
\* the gateway answers, reports or loses, and however requests, deliveries,
\* clean-ups and deaths cross the job's check and its create; but for a renewal
\* that had ended and that a report or a late answer brings back.
THEOREM RenewalsAreSingle == Spec => []OneLiveRenewal
<1>1. RenewInv => OneLiveRenewal
  BY DEF RenewInv
<1>. QED BY <1>1, AccessInvariant, RenewInit, RenewStep, PTL DEF Spec
-----------------------------------------------------------------------------
(* Billing implements Entitlement.                                         *)

LEMMA StartsEntitled == Init => Entitled!Init
BY DEF Init, Entitled!Init, DefaultSubscription, Heard, BoughtPlans, Bought, Reported, NoTx

\* What the gateway is heard of.
LEMMA HeardIsSeen ==
  ASSUME NEW i \in Invoice, NEW st \in TxStatus, Seen(i, st) PROVE st \in Heard
BY DEF Heard, Seen

LEMMA GatewayUnheard ==
  ASSUME UNCHANGED <<inv, order, notes>> PROVE UNCHANGED <<BoughtPlans, Heard>> /\ Grows
BY DEF BoughtPlans, Bought, Heard, Reported, Grows, Spent

LEMMA MoreIsHeard ==
  ASSUME TypeInv, GatewayOK, Grows
  PROVE  Heard \subseteq Heard' /\ BoughtPlans \subseteq BoughtPlans'
<1>1. Heard \subseteq Heard'
  BY DEF Heard, Reported, Grows
<1>2. BoughtPlans \subseteq BoughtPlans'
  BY BoughtStable DEF BoughtPlans, Bought, Reported
<1>. QED BY <1>1, <1>2

LEMMA GatewayIsHeard ==
  ASSUME TypeInv, GatewayOK, GatewayOK', TypeInv', Grows, UNCHANGED <<sub, snap>>
  PROVE  Entitled!Hear
<1>1. Heard \subseteq Heard' /\ BoughtPlans \subseteq BoughtPlans'
  BY MoreIsHeard
<1>2. ASSUME BoughtPlans' # BoughtPlans PROVE "settlement" \in Heard'
  <2>1. PICK p \in BoughtPlans' : p \notin BoughtPlans
    BY <1>1, <1>2
  <2>2. PICK i \in Invoice : Reported(i, "settlement")'
    BY <2>1 DEF BoughtPlans, Bought
  <2>3. order'[i] # NoTx
    BY <2>2 DEF GatewayOK, Reported
  <2>. QED BY <2>2, <2>3 DEF Heard, TxStatus
<1>. QED BY <1>1, <1>2 DEF Entitled!Hear

-----------------------------------------------------------------------------
(* The steps that write the subscription.                                  *)

LEMMA ReserveChooses ==
  ASSUME AccessInv, NEW h \in Handler, CheckoutReserve(h) PROVE Entitled!Choose
<1>1. UNCHANGED <<snap, BoughtPlans, Heard>>
  BY GatewayUnheard DEF CheckoutReserve, gateway
<1>2. loc[h].plan \in Plan
  BY Here DEF Proc, Local
<1>3. sub \in Subscription
  BY DEF AccessInv, TypeInv, TypeOK
<1>4. sub' = [sub EXCEPT !.plan = loc[h].plan,
                         !.status = IF loc[h].plan \in Paid THEN "PENDING_ACTIVATION" ELSE "ACTIVE",
                         !.autoRenew = loc[h].plan \in Paid, !.graceEnd = NoTime]
  BY DEF CheckoutReserve
<1>. QED BY <1>1, <1>2, <1>3, <1>4 DEF Entitled!Choose, Subscription

LEMMA ActivationStarts ==
  ASSUME AccessInv, TermInv, NEW h \in Handler, ActivateWrite(h) PROVE Entitled!Start
<1> DEFINE start == NextPeriodStart(Row(h).cycle, loc[h].sub.periodEnd, loc[h].at)
           end == start + Period[loc[h].plan]
           auto == loc[h].plan \in Paid /\ loc[h].sub.autoRenew
<1>1. h \in Proc /\ loc[h] \in Local /\ pc[h] = "activateWrite"
  BY Here DEF Proc, ActivateWrite, At
<1>2. loc[h].plan \in Paid => loc[h].plan \in BoughtPlans
  BY <1>1, Here DEF Carried, BoughtPlans, Local
<1>3. loc[h].at >= 0 /\ loc[h].at \in Int /\ loc[h].sub.periodEnd \in Int
  BY <1>1 DEF TermInv, TimedOK, Timed, TimedLabels, Local, Subscription, Time
<1>4. start \in Int /\ start >= 0
  BY <1>3 DEF NextPeriodStart
<1>5. Period[loc[h].plan] \in Nat
  BY <1>1, PeriodAssumption DEF Local
<1> HIDE DEF start
<1>6. end >= Period[loc[h].plan]
  BY <1>4, <1>5
<1>7. sub' = [plan |-> loc[h].plan, status |-> "ACTIVE", periodEnd |-> end,
              graceEnd |-> NoTime, autoRenew |-> auto]
  BY DEF ActivateWrite, start
<1>8. UNCHANGED <<snap, BoughtPlans, Heard>>
  BY GatewayUnheard DEF ActivateWrite, gateway
<1>9. auto => loc[h].plan \in Paid
  OBVIOUS
<1> HIDE DEF end, auto
<1>10. /\ sub'.periodEnd = end /\ sub'.autoRenew = auto
  BY <1>7
<1>. QED BY <1>1, <1>2, <1>6, <1>7, <1>8, <1>9, <1>10 DEF Entitled!Start, Local

\* A status that a report brings was caused by it.
LEMMA MappedIsCaused ==
  ASSUME NEW tst \in TxStatus \ {"settlement"}, NEW current
  PROVE  tst \in Entitled!Causes(mapSubscriptionStatusFromTransaction(tst, current))
BY DEF mapSubscriptionStatusFromTransaction, TxStatus, Entitled!Causes

LEMMA ReportSuspends ==
  ASSUME AccessInv, TermInv, NEW h \in Handler, ApplySubscription(h) PROVE Entitled!Suspend
<1> DEFINE st == mapSubscriptionStatusFromTransaction(loc[h].st, loc[h].sub.status)
           end == IF st = "GRACE_PERIOD" THEN loc[h].at + Grace ELSE NoTime
<1>1. h \in Proc /\ loc[h] \in Local /\ pc[h] = "applySub" /\ sub \in Subscription
  BY Here DEF Proc, ApplySubscription, At, AccessInv, TypeInv, TypeOK
<1>2. sub' = [sub EXCEPT !.status = st, !.graceEnd = end]
  BY DEF ApplySubscription
<1>3. /\ loc[h].st \in TxStatus \ {"settlement"} /\ loc[h].inv \in Invoice
      /\ Seen(loc[h].inv, loc[h].st)
  BY <1>1, Here DEF Carried, LocalTyped, Local, StatusLabels, RowLabels
<1>4. loc[h].st \in Heard /\ loc[h].st \in Entitled!Causes(st)
  BY <1>3, HeardIsSeen, MappedIsCaused
<1>5. loc[h].at >= 0 /\ loc[h].at \in Int /\ Grace \in Nat
  BY <1>1, TimeAssumption DEF TermInv, TimedOK, Timed, TimedLabels, Local, Time
<1> HIDE DEF st
<1>6. st = "GRACE_PERIOD" <=> end # NoTime
  BY <1>5 DEF NoTime
<1>7. UNCHANGED <<snap, BoughtPlans, Heard>>
  BY GatewayUnheard DEF ApplySubscription, gateway
<1> HIDE DEF end
<1>8. sub'.status = st /\ sub'.graceEnd = end
  BY <1>1, <1>2 DEF Subscription
<1>. QED BY <1>2, <1>4, <1>6, <1>7, <1>8 DEF Entitled!Suspend

LEMMA EndedHere ==
  ASSUME GatewayOK, Ended PROVE Entitled!Ended
BY DEF Ended, Entitled!Ended, Heard, Reported, GatewayOK, TxStatus

LEMMA LifecycleEnds ==
  ASSUME AccessInv, TermInv, LifecycleWrite PROVE Entitled!Lapse \/ Entitled!Expire
<1>1. BG \in Proc /\ loc[BG] \in Local /\ pc[BG] = "lifecycle" /\ sub \in Subscription
  BY Here DEF Proc, LifecycleWrite, At, AccessInv, TypeInv, TypeOK
<1>2. Timed("lifecycle", loc[BG])
  BY <1>1 DEF TermInv, TimedOK
<1>3. Entitled!Ended
  BY <1>2, EndedHere DEF AccessInv, Timed
<1>4. UNCHANGED <<snap, BoughtPlans, Heard>>
  BY GatewayUnheard DEF LifecycleWrite, gateway
<1>5. CASE loc[BG].sub.status = "GRACE_PERIOD"
  BY <1>3, <1>4, <1>5 DEF LifecycleWrite, Entitled!Expire
<1>6. CASE loc[BG].sub.status # "GRACE_PERIOD"
  <2> DEFINE end == loc[BG].sub.periodEnd + Grace
  <2>1. loc[BG].sub.periodEnd \in Int /\ loc[BG].sub.periodEnd >= 0 /\ Grace \in Nat
    BY <1>1, <1>2, <1>6, TimeAssumption DEF Timed, Local, Subscription, Time
  <2>2. end # NoTime
    BY <2>1 DEF NoTime
  <2>3. sub' = [sub EXCEPT !.status = "GRACE_PERIOD", !.graceEnd = end]
    BY <1>6 DEF LifecycleWrite
  <2> HIDE DEF end
  <2>4. sub'.graceEnd = end
    BY <1>1, <2>3 DEF Subscription
  <2>. QED BY <1>3, <1>4, <2>2, <2>3, <2>4 DEF Entitled!Lapse
<1>. QED BY <1>5, <1>6

-----------------------------------------------------------------------------
(* Every step lets the record of rows and reports grow.                    *)

LEMMA StatusGrows ==
  ASSUME TypeInv, NEW i \in Invoice, Spent(i), NEW st \in InvoiceStatus,
         inv' = [inv EXCEPT ![i].status = st], UNCHANGED <<order, notes>>
  PROVE  Grows
<1>1. inv \in [Invoice -> InvoiceRow]
  BY DEF TypeInv, TypeOK
<1>2. inv'[i] = [inv[i] EXCEPT !.status = st] /\ \A j \in Invoice \ {i} : inv'[j] = inv[j]
  BY <1>1
<1>3. inv'[i].status = st /\ inv'[i].plan = inv[i].plan
  BY <1>1, <1>2 DEF InvoiceRow
<1>4. st # "UNUSED"
  BY DEF InvoiceStatus
<1>. QED BY <1>2, <1>3, <1>4 DEF Grows, Spent

LEMMA RowGrows ==
  ASSUME TypeInv, NEW i \in Invoice, ~Spent(i), NEW r, inv' = [inv EXCEPT ![i] = r],
         UNCHANGED <<order, notes>>
  PROVE  Grows
<1>1. \A j \in Invoice \ {i} : inv'[j] = inv[j]
  BY DEF TypeInv, TypeOK
<1>. QED BY <1>1 DEF Grows, Spent

\* Steps that write a row.
LEMMA RowStepGrows ==
  ASSUME AccessInv, NEW p \in Proc,
         \/ CheckoutInvoice(p) \/ ChargePending(p) \/ ChargeFailed(p) \/ ApplyInvoice(p)
         \/ (p = BG /\ (RenewalCreate \/ CleanupDelete))
  PROVE  Grows
<1>1. TypeInv /\ LocalTyped(pc[p], loc[p]) /\ ReservedOK(p) /\ loc[p] \in Local
      /\ UNCHANGED <<order, notes>>
  BY Here DEF CheckoutInvoice, ChargePending, ChargeFailed, ApplyInvoice, RenewalCreate,
              CleanupDelete, gateway
<1>2. CASE CheckoutInvoice(p) \/ (p = BG /\ RenewalCreate)
  <2>1. loc[p].inv \in Invoice /\ ~Spent(loc[p].inv)
    BY <1>1, <1>2 DEF CheckoutInvoice, RenewalCreate, At, LocalTyped, RowLabels, ReservedOK,
                      Reserving
  <2>2. \E r : inv' = [inv EXCEPT ![loc[p].inv] = r]
    BY <1>2 DEF CheckoutInvoice, RenewalCreate
  <2>. QED BY <1>1, <2>1, <2>2, RowGrows
<1>3. CASE ChargePending(p) \/ ChargeFailed(p)
  <2>1. loc[p].inv \in Invoice /\ Spent(loc[p].inv)
    BY <1>1, <1>3, RowIsSpent
       DEF ChargePending, ChargeFailed, At, LocalTyped, RowLabels
  <2>2. PICK st \in InvoiceStatus : inv' = [inv EXCEPT ![loc[p].inv].status = st]
    BY <1>3 DEF ChargePending, ChargeFailed, InvoiceStatus
  <2>. QED BY <1>1, <2>1, <2>2, StatusGrows
<1>4. CASE ApplyInvoice(p)
  <2>1. /\ loc[p].inv \in Invoice /\ Spent(loc[p].inv) /\ loc[p].st \in TxStatus
    BY <1>1, <1>4, RowIsSpent
       DEF ApplyInvoice, At, LocalTyped, RowLabels, StatusLabels, Local
  <2>2. PICK st \in InvoiceStatus : st = mapInvoiceStatusFromTransaction(loc[p].st)
    BY <2>1, MappingsTyped
  <2>3. inv' = [inv EXCEPT ![loc[p].inv].status = st]
    BY <1>4, <2>2 DEF ApplyInvoice
  <2>. QED BY <1>1, <2>1, <2>3, StatusGrows
<1>5. CASE CleanupDelete
  <2>1. \A i \in Invoice : \/ inv'[i] = inv[i]
                           \/ inv'[i].status = "DELETED" /\ inv'[i].plan = inv[i].plan
    BY <1>1, <1>5 DEF CleanupDelete, TypeInv, TypeOK, InvoiceRow
  <2>. QED BY <1>1, <2>1 DEF Grows, Spent
<1>. QED BY <1>2, <1>3, <1>4, <1>5

\* Steps of the gateway.
LEMMA OrderGrows ==
  ASSUME AccessInv, GatewayStep \/ (\E p \in Proc : CreateCharge(p)) PROVE Grows
<1>1. UNCHANGED inv /\ notes \subseteq notes'
  BY DEF GatewayStep, CreateCharge, db
<1>2. ASSUME NEW i \in Invoice, NEW st \in TxStatus, order' = [order EXCEPT ![i] = st]
      PROVE  Grows
  BY <1>1, <1>2, NoTxIsNoStatus DEF AccessInv, TypeInv, TypeOK, Grows, Spent
<1>3. CASE GatewayStep
  <2>1. PICK i \in Invoice, st \in Outcomes : order' = [order EXCEPT ![i] = st]
    BY <1>3 DEF GatewayStep
  <2>. QED BY <1>2, <2>1, OutcomesAssumption
<1>4. ASSUME NEW p \in Proc, CreateCharge(p) PROVE Grows
  <2>1. loc[p].inv \in Invoice /\ "pending" \in TxStatus
    BY <1>4, Here DEF CreateCharge, At, LocalTyped, RowLabels, TxStatus
  <2>2. UNCHANGED order \/ order' = [order EXCEPT ![loc[p].inv] = "pending"]
    BY <1>4 DEF CreateCharge
  <2>. QED BY <1>1, <1>2, <2>1, <2>2 DEF Grows, Spent
<1>. QED BY <1>3, <1>4

-----------------------------------------------------------------------------
(* What each step is to Entitlement.                                       *)

\* One that writes the subscription or the snapshot, and no row or report.
Writes ==
  \/ \E h \in Handler : CheckoutReserve(h) \/ ActivateWrite(h) \/ ApplySubscription(h)
  \/ LifecycleWrite
  \/ \E p \in Proc : RefreshSnapshot(p)

LEMMA OtherStepsHear ==
  ASSUME AccessInv, [Next]_vars PROVE Writes \/ (Grows /\ UNCHANGED <<sub, snap>>)
<1>1. ASSUME NEW h \in Handler, Arrive(h) PROVE Grows /\ UNCHANGED <<sub, snap>>
  BY <1>1, GatewayUnheard
     DEF Arrive, CheckoutStart, CallbackStart, RefreshLookup, db, gateway
<1>2. ASSUME NEW h \in Handler, RequestStep(h), ~Writes PROVE Grows /\ UNCHANGED <<sub, snap>>
  <2>1. CASE CheckoutInvoice(h) \/ ApplyInvoice(h)
    BY <2>1, RowStepGrows DEF CheckoutInvoice, ApplyInvoice, Proc
  <2>2. CASE ~(CheckoutInvoice(h) \/ ApplyInvoice(h))
    <3>1. \/ CallbackRecord(h) \/ CallbackAck(h) \/ RefreshStore(h)
          \/ ApplyRead(h) \/ ApplyTx(h) \/ ActivateRead(h)
      BY <1>2, <2>2 DEF RequestStep, Writes
    <3>. QED BY <3>1, GatewayUnheard
             DEF CallbackRecord, CallbackAck, RefreshStore, ApplyRead, ApplyTx, ActivateRead,
                 db, gateway
  <2>. QED BY <2>1, <2>2
<1>3. ASSUME NEW p \in Proc, SharedStep(p), ~Writes PROVE Grows /\ UNCHANGED <<sub, snap>>
  <2>1. CASE CreateCharge(p)
    BY <2>1, OrderGrows DEF CreateCharge, db
  <2>2. CASE ChargePending(p) \/ ChargeFailed(p)
    BY <2>2, RowStepGrows DEF ChargePending, ChargeFailed
  <2>3. CASE ChargeStore(p) \/ Abort(p)
    BY <2>3, GatewayUnheard DEF ChargeStore, Abort, db, gateway
  <2>. QED BY <1>3, <2>1, <2>2, <2>3 DEF SharedStep, Writes
<1>4. ASSUME Job, ~Writes PROVE Grows /\ UNCHANGED <<sub, snap>>
  <2>1. CASE RenewalCreate \/ CleanupDelete
    BY <2>1, RowStepGrows DEF RenewalCreate, CleanupDelete, Proc
  <2>2. CASE LifecycleScan \/ RenewalScan \/ RenewalCheck \/ CleanupScan
    BY <2>2, GatewayUnheard
       DEF LifecycleScan, RenewalScan, RenewalCheck, CleanupScan, db, gateway
  <2>. QED BY <1>4, <2>1, <2>2 DEF Job, Writes
<1>5. CASE GatewayStep
  BY <1>5, OrderGrows DEF GatewayStep, db
<1>6. CASE Tick \/ Crash \/ UNCHANGED vars
  BY <1>6, GatewayUnheard DEF Tick, Crash, vars, db, gateway
<1>. QED BY <1>1, <1>2, <1>3, <1>4, <1>5, <1>6 DEF Next, Cycle, Proc

\* A step moves the subscription as Entitlement does, or writes the snapshot.
LEMMA SubscriptionMoves ==
  ASSUME AccessInv, TermInv, [Next]_vars, AccessInv'
  PROVE  \/ Entitled!Hear \/ Entitled!Choose \/ Entitled!Start \/ Entitled!Suspend
         \/ Entitled!Lapse \/ Entitled!Expire
         \/ \E p \in Proc : RefreshSnapshot(p)
<1>1. CASE Writes
  BY <1>1, ReserveChooses, ActivationStarts, ReportSuspends, LifecycleEnds DEF Writes
<1>2. CASE Grows /\ UNCHANGED <<sub, snap>>
  BY <1>2, GatewayIsHeard DEF AccessInv
<1>. QED BY <1>1, <1>2, OtherStepsHear
-----------------------------------------------------------------------------
(* What the snapshot will be written from.                                 *)

\* The record of a subscription that an organization may have had: an active
\* one was bought, any other has its cause.
Justified(s) ==
  \/ s.status = "ACTIVE" /\ (s.plan \in Paid => s.plan \in BoughtPlans)
  \/ Entitled!Causes(s.status) \cap Heard # {}
  \/ s.status \in {"GRACE_PERIOD", "EXPIRED"} /\ Entitled!Ended

JustifiedOK(p) == pc[p] = "snapshot" => Justified(loc[p].sub)
JustInv == \A p \in Proc : JustifiedOK(p)

\* A refresh of the snapshot grants what is justified.
LEMMA RefreshGrants ==
  ASSUME AccessInv, JustInv, NEW p \in Proc, RefreshSnapshot(p) PROVE Entitled!Grant
<1>1. pc[p] = "snapshot" /\ loc[p] \in Local /\ JustifiedOK(p)
  BY Here DEF RefreshSnapshot, At, JustInv
<1>2. snap'.plan = loc[p].sub.plan /\ snap'.status = loc[p].sub.status
  BY DEF RefreshSnapshot
<1>3. UNCHANGED <<sub, BoughtPlans, Heard>>
  BY GatewayUnheard DEF RefreshSnapshot, gateway
<1>4. loc[p].sub.plan \in Plan
  BY <1>1 DEF Local, Subscription
<1>. QED BY <1>1, <1>2, <1>3, <1>4 DEF JustifiedOK, Justified, Entitled!Grant

\* What was justified stays so: reports are never taken back, and a period end
\* is never erased.
LEMMA StaysJustified ==
  ASSUME TypeInv,
         \/ Entitled!Hear \/ Entitled!Choose \/ Entitled!Start \/ Entitled!Suspend
         \/ Entitled!Lapse \/ Entitled!Expire \/ Entitled!Grant,
         NEW s, Justified(s)
  PROVE  Justified(s)'
<1>1. sub \in Subscription
  BY DEF TypeInv, TypeOK
<1>2. Heard \subseteq Heard' /\ BoughtPlans \subseteq BoughtPlans'
  BY DEF Entitled!Hear, Entitled!Choose, Entitled!Start, Entitled!Suspend, Entitled!Lapse,
         Entitled!Expire, Entitled!Grant
<1>3. sub.periodEnd # NoTime => sub'.periodEnd # NoTime
  <2>1. CASE Entitled!Start
    <3>1. PICK p \in Plan : sub'.periodEnd >= Period[p]
      BY <2>1 DEF Entitled!Start
    <3>2. Period[p] \in Nat
      BY PeriodAssumption
    <3>3. ~(NoTime >= Period[p])
      BY <3>2 DEF NoTime
    <3>. QED BY <3>1, <3>3
  <2>2. CASE Entitled!Choose
    BY <1>1, <2>2 DEF Entitled!Choose, Subscription
  <2>3. CASE Entitled!Suspend
    BY <1>1, <2>3 DEF Entitled!Suspend, Subscription
  <2>4. CASE Entitled!Lapse \/ Entitled!Expire
    BY <1>1, <2>4 DEF Entitled!Lapse, Entitled!Expire, Subscription
  <2>5. CASE Entitled!Hear \/ Entitled!Grant
    BY <2>5 DEF Entitled!Hear, Entitled!Grant
  <2>. QED BY <2>1, <2>2, <2>3, <2>4, <2>5
<1>4. Entitled!Ended => (sub'.periodEnd # NoTime \/ "expired" \in Heard')
  BY <1>2, <1>3 DEF Entitled!Ended
<1>. QED BY <1>2, <1>4 DEF Justified, Entitled!Ended, Entitled!Causes

\* The subscription as a writer leaves it.
LEMMA WrittenIsJustified ==
  ASSUME TypeInv, Entitled!Start \/ Entitled!Suspend \/ Entitled!Lapse \/ Entitled!Expire
  PROVE  Justified(sub)'
<1>1. sub \in Subscription
  BY DEF TypeInv, TypeOK
<1>2. UNCHANGED <<BoughtPlans, Heard>>
  BY DEF Entitled!Start, Entitled!Suspend, Entitled!Lapse, Entitled!Expire
<1>3. CASE Entitled!Start
  <2>1. PICK p \in Plan :
          /\ p \in Paid => p \in BoughtPlans
          /\ sub' = [plan |-> p, status |-> "ACTIVE", periodEnd |-> sub'.periodEnd,
                     graceEnd |-> NoTime, autoRenew |-> sub'.autoRenew]
    BY <1>3 DEF Entitled!Start
  <2>2. sub'.plan = p /\ sub'.status = "ACTIVE"
    BY <2>1
  <2>. QED BY <1>2, <2>1, <2>2 DEF Justified
<1>4. CASE Entitled!Suspend
  BY <1>2, <1>4 DEF Entitled!Suspend, Justified, Entitled!Causes
<1>5. CASE Entitled!Lapse \/ Entitled!Expire
  <2>1. /\ sub'.status \in {"GRACE_PERIOD", "EXPIRED"} /\ sub'.periodEnd = sub.periodEnd
        /\ Entitled!Ended
    BY <1>1, <1>5 DEF Entitled!Lapse, Entitled!Expire, Subscription
  <2>. QED BY <1>2, <2>1 DEF Justified, Entitled!Ended
<1>. QED BY <1>3, <1>4, <1>5

-----------------------------------------------------------------------------
(* Only a writer of the subscription goes on to the snapshot.              *)

\* q may be about to write the snapshot only if it was, with the same record.
Arrived(q) ==
  pc'[q] = "snapshot" => pc[q] = "snapshot" /\ loc'[q].sub = loc[q].sub

LEMMA MoveArrives ==
  ASSUME NEW p \in Proc, OthersStay(p), pc'[p] # "snapshot" PROVE \A q \in Proc : Arrived(q)
BY DEF OthersStay, Arrived

LEMMA RequestArrives ==
  ASSUME TypeInv, NEW p \in Proc,
         \/ CheckoutStart(p) \/ CheckoutReserve(p) \/ CheckoutInvoice(p)
         \/ CallbackStart(p) \/ CallbackRecord(p) \/ CallbackAck(p)
         \/ RefreshLookup(p) \/ RefreshStore(p)
         \/ ApplyRead(p) \/ ApplyTx(p) \/ ApplyInvoice(p) \/ ActivateRead(p)
  PROVE  \A q \in Proc : Arrived(q)
<1>1. CASE CheckoutStart(p) \/ CheckoutReserve(p) \/ CheckoutInvoice(p)
  <2>1. OthersStay(p) /\ pc'[p] # "snapshot"
    BY <1>1 DEF CheckoutStart, CheckoutReserve, CheckoutInvoice, Go, OthersStay, TypeInv, TypeOK
  <2>. QED BY <2>1, MoveArrives
<1>2. CASE Finish(p)
  BY <1>2, FinishStays, MoveArrives
<1>3. CASE CallbackStart(p) \/ (CallbackRecord(p) /\ ~Finish(p))
  <2>1. OthersStay(p) /\ pc'[p] # "snapshot"
    BY <1>3 DEF CallbackStart, CallbackRecord, Go, OthersStay, TypeInv, TypeOK
  <2>. QED BY <2>1, MoveArrives
<1>4. CASE RefreshLookup(p) \/ RefreshStore(p)
  <2>1. OthersStay(p) /\ pc'[p] # "snapshot"
    BY <1>4 DEF RefreshLookup, RefreshStore, Go, OthersStay, TypeInv, TypeOK
  <2>. QED BY <2>1, MoveArrives
<1>5. CASE ApplyRead(p) \/ ApplyTx(p) \/ ApplyInvoice(p) \/ ActivateRead(p)
  <2>1. OthersStay(p) /\ pc'[p] # "snapshot"
    BY <1>5 DEF ApplyRead, ApplyTx, ApplyInvoice, ActivateRead, Go, OthersStay, TypeInv, TypeOK
  <2>. QED BY <2>1, MoveArrives
<1>. QED BY <1>1, <1>2, <1>3, <1>4, <1>5 DEF CallbackAck

LEMMA SharedArrives ==
  ASSUME TypeInv, NEW p \in Proc, SharedStep(p) PROVE \A q \in Proc : Arrived(q)
<1>1. CASE CreateCharge(p) \/ ChargePending(p)
  <2>1. PICK label \in {"pending", "chargeFailed", "store"} : Go(p, label)
    BY <1>1 DEF CreateCharge, ChargePending
  <2>2. OthersStay(p) /\ pc'[p] # "snapshot"
    BY <1>1, <2>1, GoStays DEF CreateCharge, ChargePending
  <2>. QED BY <2>2, MoveArrives
<1>2. CASE ChargeStore(p) \/ ChargeFailed(p)
  <2>1. OthersStay(p) /\ pc'[p] \in {"idle", "cleanupScan"}
    BY <1>2, ContinueStays DEF ChargeStore, ChargeFailed
  <2>. QED BY <2>1, MoveArrives
<1>3. CASE RefreshSnapshot(p)
  <2>1. CASE loc[p].att # 0
    <3>1. OthersStay(p) /\ pc'[p] = "ack"
      BY <1>3, <2>1, GoStays DEF RefreshSnapshot
    <3>. QED BY <3>1, MoveArrives
  <2>2. CASE loc[p].att = 0
    <3>1. OthersStay(p) /\ pc'[p] \in {"idle", "renewalScan"}
      BY <1>3, <2>2, ContinueStays DEF RefreshSnapshot
    <3>. QED BY <3>1, MoveArrives
  <2>. QED BY <2>1, <2>2
<1>4. CASE Abort(p)
  <2>1. OthersStay(p) /\ pc'[p] = "idle"
    BY <1>4, FinishStays DEF Abort
  <2>. QED BY <2>1, MoveArrives
<1>. QED BY <1>1, <1>2, <1>3, <1>4 DEF SharedStep

LEMMA JobArrives ==
  ASSUME TypeInv, Job, ~LifecycleWrite PROVE \A q \in Proc : Arrived(q)
<1>1. BG \in Proc
  BY DEF Proc
<1>2. CASE Finish(BG)
  BY <1>1, <1>2, FinishStays, MoveArrives
<1>3. CASE Continue(BG, "cleanupScan")
  <2>1. OthersStay(BG) /\ pc'[BG] \in {"idle", "cleanupScan"}
    BY <1>1, <1>3, ContinueStays
  <2>. QED BY <1>1, <2>1, MoveArrives
<1>4. CASE ~Finish(BG) /\ ~Continue(BG, "cleanupScan")
  <2>1. PICK label \in Label \ {"snapshot"} : Go(BG, label)
    BY <1>4 DEF Job, LifecycleScan, RenewalScan, RenewalCheck, RenewalCreate, CleanupScan,
                CleanupDelete, Label
  <2>2. UNCHANGED loc \/ \E l : loc' = [loc EXCEPT ![BG] = l]
    <3>1. CASE LifecycleScan \/ RenewalScan
      BY <1>4, <3>1 DEF LifecycleScan, RenewalScan
    <3>2. CASE RenewalCheck
      BY <1>4, <3>2 DEF RenewalCheck
    <3>3. CASE RenewalCreate
      BY <3>3 DEF RenewalCreate
    <3>4. CASE CleanupScan
      <4> DEFINE old == {i \in Invoice : IsCleanable(inv[i], clock, Retention)}
      <4>1. loc' = [loc EXCEPT ![BG].ids = old]
        BY <1>4, <3>4 DEF CleanupScan
      <4> HIDE DEF old
      <4>. QED BY <4>1
    <3>. QED BY <1>4, <3>1, <3>2, <3>3, <3>4 DEF Job, CleanupDelete
  <2>3. OthersStay(BG) /\ pc'[BG] = label
    BY <1>1, <2>1, <2>2, GoStays, StepStays
  <2>. QED BY <1>1, <2>3, MoveArrives
<1>. QED BY <1>2, <1>3, <1>4

LEMMA EnvironmentArrives ==
  ASSUME AccessInv, GatewayStep \/ Tick \/ Crash \/ UNCHANGED vars
  PROVE  \A q \in Proc : Arrived(q)
<1>1. SUFFICES ASSUME NEW q \in Proc PROVE Arrived(q)
  OBVIOUS
<1>2. pc \in [Proc -> Label] /\ loc \in [Proc -> Local] /\ loc[q] \in Local
  BY Here DEF AccessInv, TypeInv, TypeOK
<1>3. CASE GatewayStep \/ UNCHANGED vars
  BY <1>3 DEF GatewayStep, vars, Arrived
<1>4. CASE Tick
  <2> DEFINE late == ~At(q, "idle")
  <2>1. loc'[q] = [loc[q] EXCEPT !.late = late] /\ UNCHANGED pc
    BY <1>2, <1>4 DEF Tick
  <2> HIDE DEF late
  <2>2. loc'[q].sub = loc[q].sub
    BY <1>2, <2>1 DEF Local
  <2>. QED BY <2>1, <2>2 DEF Arrived
<1>5. CASE Crash
  BY <1>2, <1>5 DEF Crash, Arrived
<1>. QED BY <1>3, <1>4, <1>5

\* The writers take the subscription as they left it.
LEMMA WriterArrives ==
  ASSUME AccessInv, NEW p \in Proc,
         ApplySubscription(p) \/ ActivateWrite(p) \/ (p = BG /\ LifecycleWrite)
  PROVE  OthersStay(p) /\ loc'[p].sub = sub'
<1> DEFINE l == [loc[p] EXCEPT !.sub = sub']
<1>1. TypeInv /\ loc[p] \in Local
  BY Here
<1>2. Go(p, "snapshot") /\ loc' = [loc EXCEPT ![p] = l] /\ l.sub = sub'
  BY <1>1 DEF ApplySubscription, ActivateWrite, LifecycleWrite, TypeInv, TypeOK, Local
<1> HIDE DEF l
<1>. QED BY <1>1, <1>2, StepStays
-----------------------------------------------------------------------------
(* The refinement.                                                         *)

\* Every step is one of Entitlement, as long as what is about to be granted
\* is justified.
LEMMA StepsAreEntitled ==
  ASSUME AccessInv, TermInv, JustInv, AccessInv', [Next]_vars
  PROVE  \/ Entitled!Hear \/ Entitled!Choose \/ Entitled!Start \/ Entitled!Suspend
         \/ Entitled!Lapse \/ Entitled!Expire \/ Entitled!Grant
BY SubscriptionMoves, RefreshGrants

LEMMA JustInit == Init => JustInv
BY DEF Init, JustInv, JustifiedOK

LEMMA JustStep == AccessInv /\ TermInv /\ AccessInv' /\ JustInv /\ [Next]_vars => JustInv'
<1> SUFFICES ASSUME AccessInv, TermInv, AccessInv', JustInv, [Next]_vars PROVE JustInv'
  OBVIOUS
<1>1. TypeInv
  BY DEF AccessInv
<1>2. \A s : Justified(s) => Justified(s)'
  <2>1. SUFFICES ASSUME NEW s, Justified(s) PROVE Justified(s)'
    OBVIOUS
  <2>. QED BY <1>1, <2>1, StepsAreEntitled, StaysJustified
<1>3. ASSUME \A q \in Proc : Arrived(q) PROVE JustInv'
  <2> SUFFICES ASSUME NEW q \in Proc, pc'[q] = "snapshot" PROVE Justified(loc[q].sub)'
    BY DEF JustInv, JustifiedOK
  <2>1. pc[q] = "snapshot" /\ loc'[q].sub = loc[q].sub
    BY <1>3 DEF Arrived
  <2>2. Justified(loc[q].sub)
    BY <2>1 DEF JustInv, JustifiedOK
  <2>3. PICK s : s = loc[q].sub
    OBVIOUS
  <2>4. Justified(s)'
    BY <1>2, <2>2, <2>3
  <2>. QED BY <2>1, <2>3, <2>4
<1>4. ASSUME NEW p \in Proc,
             OthersStay(p), loc'[p].sub = sub', Justified(sub)'
      PROVE  JustInv'
  <2> SUFFICES ASSUME NEW q \in Proc PROVE JustifiedOK(q)'
    BY DEF JustInv
  <2>1. CASE q = p
    BY <1>4, <2>1 DEF JustifiedOK
  <2>2. CASE q # p
    <3>1. pc'[q] = pc[q] /\ loc'[q] = loc[q]
      BY <1>4, <2>2 DEF OthersStay
    <3>2. PICK s : s = loc[q].sub
      OBVIOUS
    <3>3. Justified(s) => Justified(s)'
      BY <1>2
    <3>. QED BY <3>1, <3>2, <3>3 DEF JustInv, JustifiedOK
  <2>. QED BY <2>1, <2>2
<1>5. ASSUME NEW h \in Handler, ApplySubscription(h) \/ ActivateWrite(h) PROVE JustInv'
  <2>1. Justified(sub)'
    BY <1>1, <1>5, ReportSuspends, ActivationStarts, WrittenIsJustified
  <2>. QED BY <1>4, <1>5, <2>1, WriterArrives DEF Proc
<1>6. ASSUME LifecycleWrite PROVE JustInv'
  <2>1. Justified(sub)'
    BY <1>1, <1>6, LifecycleEnds, WrittenIsJustified
  <2>. QED BY <1>4, <1>6, <2>1, WriterArrives DEF Proc
<1>7. ASSUME NEW h \in Handler, Arrive(h) \/ RequestStep(h) PROVE JustInv'
  BY <1>1, <1>3, <1>5, <1>7, RequestArrives DEF Arrive, RequestStep, Proc
<1>8. ASSUME NEW p \in Proc, SharedStep(p) PROVE JustInv'
  BY <1>1, <1>3, <1>8, SharedArrives
<1>9. ASSUME Job PROVE JustInv'
  BY <1>1, <1>3, <1>6, <1>9, JobArrives
<1>10. CASE GatewayStep \/ Tick \/ Crash \/ UNCHANGED vars
  BY <1>3, <1>10, EnvironmentArrives
<1>. QED BY <1>7, <1>8, <1>9, <1>10 DEF Next, Cycle, Proc

\* JustInv is invariant.
THEOREM JustInvariant == Spec => []JustInv
BY AccessInvariant, TermInvariant, JustInit, JustStep, PTL DEF Spec

\* The columns of the subscription and the snapshot change as Entitlement
\* allows: whatever requests, deliveries, jobs, clean-ups and deaths interleave,
\* each write is one it knows, made after what it must come after.
THEOREM BillingImplementsEntitlement == Spec => SubscriptionIsEntitlement
<1>1. AccessInv /\ TermInv /\ JustInv /\ AccessInv' /\ [Next]_vars => [Entitled!Next]_(Entitled!vars)
  BY StepsAreEntitled DEF Entitled!Next
<1>2. Spec => Entitled!Init /\ [][Entitled!Next]_(Entitled!vars)
  BY <1>1, StartsEntitled, AccessInvariant, TermInvariant, JustInvariant, PTL DEF Spec
<1>. QED BY <1>2, PTL DEF SubscriptionIsEntitlement, Entitled!Spec
=============================================================================
