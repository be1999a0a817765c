--------------------------- MODULE BillingProofs ---------------------------
(***************************************************************************)
(* Proofs about Billing, for every value of its constants.                 *)
(***************************************************************************)
EXTENDS Billing, TLAPS

\* Labels at which a process works on an invoice id, and those at which it
\* carries a transaction status.
RowLabels ==
  {"reserve", "invoice", "charge", "pending", "store", "chargeFailed", "record",
   "lookupStore", "applyRead", "applyTx", "applyInvoice", "applySub", "ack",
   "renewalCreate"}
StatusLabels ==
  {"record", "lookupStore", "applyRead", "applyTx", "applyInvoice", "applySub",
   "ack"}

\* A process has the locals its label needs.
LocalTyped(label, l) ==
  /\ label \in RowLabels => l.inv \in Invoice
  /\ label \in StatusLabels => l.st # NoTx
  /\ label \in {"record", "ack"} => l.att # 0
  /\ l.st # NoTx => l.inv \in Invoice
  /\ l.att # 0 => l.st # NoTx

LocalsTyped == \A p \in Proc : LocalTyped(pc[p], loc[p])

TypeInv == TypeOK /\ LocalsTyped

USE ProcAssumption, PlanAssumption, InvoiceAssumption, AttemptAssumption,
    OutcomesAssumption, PeriodAssumption, TimeAssumption

LEMMA NullTyped == NoTime \in Time
BY DEF NoTime, Time

LEMMA DefaultsTyped == DefaultSubscription \in Subscription /\ IdleLocal \in Local
BY NullTyped DEF DefaultSubscription, Subscription, SubscriptionStatus, IdleLocal,
                 Local

LEMMA NoTxIsNoStatus == NoTx \notin TxStatus
BY DEF NoTx, TxStatus

LEMMA TypeInit == Init => TypeInv
<1> SUFFICES ASSUME Init PROVE TypeInv
  OBVIOUS
<1>1. inv \in [Invoice -> InvoiceRow]
  BY DEF Init, InvoiceRow, NoTime, Time
<1>2. TypeOK
  BY <1>1, DefaultsTyped DEF Init, TypeOK, Label
<1>3. LocalsTyped
  BY DEF Init, LocalsTyped, LocalTyped, IdleLocal, RowLabels, StatusLabels
<1>. QED BY <1>2, <1>3 DEF TypeInv

LEMMA HereTyped ==
  ASSUME TypeInv, NEW p \in Proc
  PROVE  loc[p] \in Local /\ LocalTyped(pc[p], loc[p])
BY DEF TypeInv, TypeOK, LocalsTyped

-----------------------------------------------------------------------------
(* What one process does to pc and loc.                                    *)

LEMMA StepTyped ==
  ASSUME TypeInv, NEW p \in Proc, NEW label \in Label, NEW l \in Local,
         Go(p, label), loc' = [loc EXCEPT ![p] = l], LocalTyped(label, l)
  PROVE  pc' \in [Proc -> Label] /\ loc' \in [Proc -> Local] /\ LocalsTyped'
BY DEF TypeInv, TypeOK, LocalsTyped, LocalTyped, Go

LEMMA GoTyped ==
  ASSUME TypeInv, NEW p \in Proc, NEW label \in Label,
         Go(p, label), UNCHANGED loc, LocalTyped(label, loc[p])
  PROVE  pc' \in [Proc -> Label] /\ loc' \in [Proc -> Local] /\ LocalsTyped'
BY DEF TypeInv, TypeOK, LocalsTyped, LocalTyped, Go

LEMMA FinishTyped ==
  ASSUME TypeInv, NEW p \in Proc, Finish(p)
  PROVE  pc' \in [Proc -> Label] /\ loc' \in [Proc -> Local] /\ LocalsTyped'
<1>1. LocalTyped("idle", IdleLocal)
  BY DEF LocalTyped, IdleLocal, RowLabels, StatusLabels
<1>. QED BY <1>1, DefaultsTyped, StepTyped DEF Finish, Label

LEMMA ContinueTyped ==
  ASSUME TypeInv, NEW p \in Proc, NEW label \in {"renewalScan", "cleanupScan"},
         Continue(p, label)
  PROVE  pc' \in [Proc -> Label] /\ loc' \in [Proc -> Local] /\ LocalsTyped'
<1>1. CASE p # BG
  BY <1>1, FinishTyped DEF Continue
<1>2. CASE p = BG
  <2> DEFINE l == [IdleLocal EXCEPT !.late = loc[p].late]
  <2>1. l \in Local
    BY DefaultsTyped DEF TypeInv, TypeOK, Local
  <2>2. LocalTyped(label, l)
    BY DEF LocalTyped, IdleLocal, RowLabels, StatusLabels
  <2>3. Go(p, label) /\ loc' = [loc EXCEPT ![p] = l]
    BY <1>2 DEF Continue
  <2>4. label \in Label
    BY DEF Label
  <2>. QED BY <2>1, <2>2, <2>3, <2>4, StepTyped
<1>. QED BY <1>1, <1>2

-----------------------------------------------------------------------------
(* What a statement does to the invoice rows.                              *)

LEMMA RowTyped ==
  ASSUME TypeInv, NEW i \in Invoice, NEW r \in InvoiceRow,
         inv' = [inv EXCEPT ![i] = r]
  PROVE  inv' \in [Invoice -> InvoiceRow]
BY DEF TypeInv, TypeOK

LEMMA RowStatusTyped ==
  ASSUME TypeInv, NEW i \in Invoice, NEW s \in InvoiceStatus,
         inv' = [inv EXCEPT ![i].status = s]
  PROVE  inv' \in [Invoice -> InvoiceRow]
<1> DEFINE r == [inv[i] EXCEPT !.status = s]
<1>1. inv \in [Invoice -> InvoiceRow]
  BY DEF TypeInv, TypeOK
<1>2. r \in InvoiceRow
  BY <1>1 DEF InvoiceRow
<1>3. inv' = [inv EXCEPT ![i] = r]
  BY <1>1
<1>. QED BY <1>2, <1>3, RowTyped

-----------------------------------------------------------------------------
(* Every action keeps the types.                                           *)

LEMMA CheckoutStartTyped ==
  ASSUME TypeInv, NEW h \in Handler, CheckoutStart(h) PROVE TypeInv'
<1>1. PICK p \in Plan, i \in Invoice :
        loc' = [loc EXCEPT ![h].plan = p, ![h].inv = i]
  BY DEF CheckoutStart
<1> DEFINE l == [loc[h] EXCEPT !.plan = p, !.inv = i]
<1>2. h \in Proc /\ loc[h] \in Local /\ LocalTyped(pc[h], loc[h])
  BY HereTyped DEF Proc
<1>3. l \in Local /\ LocalTyped("reserve", l)
  BY <1>2 DEF Local, LocalTyped, RowLabels, StatusLabels
<1>4. Go(h, "reserve") /\ loc' = [loc EXCEPT ![h] = l]
  BY <1>1, <1>2 DEF CheckoutStart, TypeInv, TypeOK
<1>5. pc' \in [Proc -> Label] /\ loc' \in [Proc -> Local] /\ LocalsTyped'
  BY <1>2, <1>3, <1>4, StepTyped DEF Label
<1>. QED BY <1>5 DEF CheckoutStart, TypeInv, TypeOK, db, gateway

LEMMA CheckoutReserveTyped ==
  ASSUME TypeInv, NEW h \in Handler, CheckoutReserve(h) PROVE TypeInv'
<1> DEFINE l == [loc[h] EXCEPT !.at = clock]
           priced == loc[h].plan \in Paid
           status == IF priced THEN "PENDING_ACTIVATION" ELSE "ACTIVE"
<1>2. h \in Proc /\ loc[h] \in Local /\ LocalTyped("reserve", loc[h])
  BY HereTyped DEF Proc, CheckoutReserve, At
<1>3. l \in Local /\ LocalTyped("invoice", l)
  BY <1>2 DEF Local, LocalTyped, RowLabels, StatusLabels, TypeInv, TypeOK, Time
<1>4. Go(h, "invoice") /\ loc' = [loc EXCEPT ![h] = l]
  BY <1>2 DEF CheckoutReserve, TypeInv, TypeOK
<1>5. pc' \in [Proc -> Label] /\ loc' \in [Proc -> Local] /\ LocalsTyped'
  BY <1>2, <1>3, <1>4, StepTyped DEF Label
<1>6. sub' \in Subscription
  <2>1. sub \in Subscription /\ loc[h].plan \in Plan
    BY <1>2 DEF TypeInv, TypeOK, Local
  <2>2. priced \in BOOLEAN /\ status \in SubscriptionStatus
    BY DEF SubscriptionStatus
  <2>3. sub' = [sub EXCEPT !.plan = loc[h].plan, !.status = status,
                           !.autoRenew = priced, !.graceEnd = NoTime]
    BY Zenon DEF CheckoutReserve
  <2> HIDE DEF priced, status
  <2>. QED BY <2>1, <2>2, <2>3, NullTyped DEF Subscription
<1>. QED BY <1>5, <1>6 DEF CheckoutReserve, TypeInv, TypeOK, gateway

LEMMA CheckoutInvoiceTyped ==
  ASSUME TypeInv, NEW h \in Handler, CheckoutInvoice(h) PROVE TypeInv'
<1>2. h \in Proc /\ loc[h] \in Local /\ LocalTyped("invoice", loc[h])
  BY HereTyped DEF Proc, CheckoutInvoice, At
<1>3. pc' \in [Proc -> Label] /\ loc' \in [Proc -> Local] /\ LocalsTyped'
  BY <1>2, GoTyped DEF CheckoutInvoice, LocalTyped, Label, RowLabels, StatusLabels
<1>4. inv' \in [Invoice -> InvoiceRow]
  <2> DEFINE p == loc[h].plan
             status == IF p \in Paid THEN "DRAFT" ELSE "PAID"
             r == [status |-> status, plan |-> p, cycle |-> "checkout",
                   due |-> NoTime, created |-> clock]
  <2>1. p \in Plan /\ loc[h].inv \in Invoice /\ clock \in Time
    BY <1>2 DEF Local, LocalTyped, RowLabels, TypeInv, TypeOK, Time
  <2>2. status \in InvoiceStatus
    BY DEF InvoiceStatus
  <2>3. inv' = [inv EXCEPT ![loc[h].inv] = r]
    BY DEF CheckoutInvoice
  <2>4. r \in InvoiceRow
    <3> HIDE DEF status, p
    <3>. QED BY <2>1, <2>2, NullTyped DEF InvoiceRow
  <2> HIDE DEF r
  <2>. QED BY <2>1, <2>3, <2>4, RowTyped
<1>. QED BY <1>3, <1>4 DEF CheckoutInvoice, TypeInv, TypeOK, gateway

LEMMA CreateChargeTyped ==
  ASSUME TypeInv, NEW p \in Proc, CreateCharge(p) PROVE TypeInv'
<1>2. loc[p] \in Local /\ LocalTyped("charge", loc[p])
  BY HereTyped DEF CreateCharge, At
<1>3. pc' \in [Proc -> Label] /\ loc' \in [Proc -> Local] /\ LocalsTyped'
  BY <1>2, GoTyped DEF CreateCharge, LocalTyped, Label, RowLabels, StatusLabels
<1>4. loc[p].inv \in Invoice /\ clock \in Int
  BY <1>2 DEF LocalTyped, RowLabels, TypeInv, TypeOK
<1>5. order' \in [Invoice -> TxStatus \cup {NoTx}] /\ notes' \subseteq Note
  BY <1>4 DEF CreateCharge, TypeInv, TypeOK, Note, TxStatus, Time
<1>. QED BY <1>3, <1>5 DEF CreateCharge, TypeInv, TypeOK, db

LEMMA ChargePendingTyped ==
  ASSUME TypeInv, NEW p \in Proc, ChargePending(p) PROVE TypeInv'
<1>2. loc[p] \in Local /\ LocalTyped("pending", loc[p])
  BY HereTyped DEF ChargePending, At
<1>3. pc' \in [Proc -> Label] /\ loc' \in [Proc -> Local] /\ LocalsTyped'
  BY <1>2, GoTyped DEF ChargePending, LocalTyped, Label, RowLabels, StatusLabels
<1>4. inv' \in [Invoice -> InvoiceRow]
  BY <1>2, RowStatusTyped DEF ChargePending, LocalTyped, RowLabels, InvoiceStatus
<1>5. revived' \subseteq Invoice
  BY <1>2 DEF ChargePending, Revived, LocalTyped, RowLabels, TypeInv, TypeOK
<1>. QED BY <1>3, <1>4, <1>5 DEF ChargePending, TypeInv, TypeOK, gateway

LEMMA ChargeStoreTyped ==
  ASSUME TypeInv, NEW p \in Proc, ChargeStore(p) PROVE TypeInv'
<1>2. LocalTyped("store", loc[p])
  BY HereTyped DEF ChargeStore, At
<1>3. pc' \in [Proc -> Label] /\ loc' \in [Proc -> Local] /\ LocalsTyped'
  BY ContinueTyped DEF ChargeStore
<1>4. tx' \in [Invoice -> TxStatus \cup {NoTx}] /\ linked' \subseteq Invoice
  BY <1>2 DEF ChargeStore, TypeInv, TypeOK, TxStatus, LocalTyped, RowLabels
<1>. QED BY <1>3, <1>4 DEF ChargeStore, TypeInv, TypeOK

LEMMA ChargeFailedTyped ==
  ASSUME TypeInv, NEW p \in Proc, ChargeFailed(p) PROVE TypeInv'
<1>1. pc' \in [Proc -> Label] /\ loc' \in [Proc -> Local] /\ LocalsTyped'
  BY ContinueTyped DEF ChargeFailed
<1>2. LocalTyped("chargeFailed", loc[p])
  BY HereTyped DEF ChargeFailed, At
<1>3. inv' \in [Invoice -> InvoiceRow]
  BY <1>2, RowStatusTyped DEF ChargeFailed, LocalTyped, RowLabels, InvoiceStatus
<1>. QED BY <1>1, <1>3 DEF ChargeFailed, TypeInv, TypeOK, gateway

LEMMA CallbackStartTyped ==
  ASSUME TypeInv, NEW h \in Handler, CallbackStart(h) PROVE TypeInv'
<1>1. PICK n \in notes, a \in Attempt :
        loc' = [loc EXCEPT ![h].inv = n.inv, ![h].st = n.st,
                           ![h].at = n.at, ![h].att = a]
  BY DEF CallbackStart
<1> DEFINE l == [loc[h] EXCEPT !.inv = n.inv, !.st = n.st, !.at = n.at, !.att = a]
<1>2. h \in Proc /\ loc[h] \in Local /\ LocalTyped(pc[h], loc[h])
  BY HereTyped DEF Proc
<1>3. n.inv \in Invoice /\ n.st \in TxStatus /\ n.at \in Time
  BY DEF TypeInv, TypeOK, Note
<1>4. a # 0 /\ n.st # NoTx
  BY <1>3, NoTxIsNoStatus
<1>5. l \in Local
  BY <1>2, <1>3 DEF Local
<1>6. LocalTyped("record", l)
  BY <1>2, <1>3, <1>4 DEF Local, LocalTyped, RowLabels, StatusLabels
<1>7. Go(h, "record") /\ loc' = [loc EXCEPT ![h] = l]
  BY <1>1, <1>2 DEF CallbackStart, TypeInv, TypeOK
<1>8. pc' \in [Proc -> Label] /\ loc' \in [Proc -> Local] /\ LocalsTyped'
  BY <1>2, <1>5, <1>6, <1>7, StepTyped DEF Label
<1>. QED BY <1>8 DEF CallbackStart, TypeInv, TypeOK, db, gateway

LEMMA DeliveryTyped ==
  ASSUME TypeInv, NEW h \in Proc, pc[h] \in {"record", "ack"}
  PROVE  DeliveryOf(h) \in Delivery
<1>1. loc[h] \in Local /\ LocalTyped(pc[h], loc[h])
  BY HereTyped
<1>2. loc[h].inv \in Invoice /\ loc[h].st \in TxStatus /\ loc[h].att \in Attempt
  BY <1>1 DEF Local, LocalTyped, RowLabels, StatusLabels
<1>. QED BY <1>2 DEF DeliveryOf, Delivery

LEMMA CallbackRecordTyped ==
  ASSUME TypeInv, NEW h \in Handler, CallbackRecord(h) PROVE TypeInv'
<1>1. h \in Proc /\ loc[h] \in Local /\ LocalTyped("record", loc[h])
  BY HereTyped DEF Proc, CallbackRecord, At
<1>2. pc' \in [Proc -> Label] /\ loc' \in [Proc -> Local] /\ LocalsTyped'
  <2>1. CASE Finish(h)
    BY <1>1, <2>1, FinishTyped
  <2>2. CASE ~Finish(h)
    <3>1. PICK t \in {loc[h].at, clock} : loc' = [loc EXCEPT ![h].at = t]
      BY <2>2 DEF CallbackRecord
    <3> DEFINE l == [loc[h] EXCEPT !.at = t]
    <3>2. l \in Local /\ LocalTyped("applyRead", l)
      BY <1>1 DEF Local, LocalTyped, RowLabels, StatusLabels, TypeInv, TypeOK, Time
    <3>3. Go(h, "applyRead") /\ loc' = [loc EXCEPT ![h] = l]
      BY <1>1, <2>2, <3>1 DEF CallbackRecord, TypeInv, TypeOK
    <3>. QED BY <1>1, <3>2, <3>3, StepTyped DEF Label
  <2>. QED BY <2>1, <2>2
<1>3. processed' \subseteq Delivery
  BY DEF CallbackRecord, TypeInv, TypeOK
<1>. QED BY <1>2, <1>3 DEF CallbackRecord, TypeInv, TypeOK, gateway

LEMMA CallbackAckTyped ==
  ASSUME TypeInv, NEW h \in Handler, CallbackAck(h) PROVE TypeInv'
<1>1. h \in Proc /\ DeliveryOf(h) \in Delivery
  BY DeliveryTyped DEF Proc, CallbackAck, At
<1>2. pc' \in [Proc -> Label] /\ loc' \in [Proc -> Local] /\ LocalsTyped'
  BY <1>1, FinishTyped DEF CallbackAck
<1>. QED BY <1>1, <1>2 DEF CallbackAck, TypeInv, TypeOK, gateway

LEMMA RefreshLookupTyped ==
  ASSUME TypeInv, NEW h \in Handler, RefreshLookup(h) PROVE TypeInv'
<1>1. PICK i \in Invoice :
        order[i] # NoTx /\ loc' = [loc EXCEPT ![h].inv = i, ![h].st = order[i]]
  BY DEF RefreshLookup
<1> DEFINE l == [loc[h] EXCEPT !.inv = i, !.st = order[i]]
<1>2. h \in Proc /\ loc[h] \in Local /\ order[i] \in TxStatus
  BY <1>1, HereTyped DEF Proc, TypeInv, TypeOK
<1>3. l \in Local
  BY <1>2 DEF Local
<1>4. LocalTyped("lookupStore", l)
  BY <1>1, <1>2 DEF Local, LocalTyped, RowLabels, StatusLabels
<1>5. Go(h, "lookupStore") /\ loc' = [loc EXCEPT ![h] = l]
  BY <1>1, <1>2 DEF RefreshLookup, TypeInv, TypeOK
<1>6. pc' \in [Proc -> Label] /\ loc' \in [Proc -> Local] /\ LocalsTyped'
  BY <1>2, <1>3, <1>4, <1>5, StepTyped DEF Label
<1>. QED BY <1>6 DEF RefreshLookup, TypeInv, TypeOK, db, gateway

LEMMA RefreshStoreTyped ==
  ASSUME TypeInv, NEW h \in Handler, RefreshStore(h) PROVE TypeInv'
<1> DEFINE l == [loc[h] EXCEPT !.at = clock]
<1>1. h \in Proc /\ loc[h] \in Local /\ LocalTyped("lookupStore", loc[h])
  BY HereTyped DEF Proc, RefreshStore, At
<1>2. l \in Local /\ LocalTyped("applyRead", l)
  BY <1>1 DEF Local, LocalTyped, RowLabels, StatusLabels, TypeInv, TypeOK, Time
<1>3. Go(h, "applyRead") /\ loc' = [loc EXCEPT ![h] = l]
  BY <1>1 DEF RefreshStore, TypeInv, TypeOK
<1>4. pc' \in [Proc -> Label] /\ loc' \in [Proc -> Local] /\ LocalsTyped'
  BY <1>1, <1>2, <1>3, StepTyped DEF Label
<1>5. loc[h].inv \in Invoice /\ loc[h].st \in TxStatus
  BY <1>1 DEF Local, LocalTyped, RowLabels, StatusLabels
<1>6. tx' \in [Invoice -> TxStatus \cup {NoTx}] /\ linked' \subseteq Invoice
  BY <1>5 DEF RefreshStore, TypeInv, TypeOK
<1>. QED BY <1>4, <1>6 DEF RefreshStore, TypeInv, TypeOK

LEMMA ApplyReadTyped ==
  ASSUME TypeInv, NEW h \in Handler, ApplyRead(h) PROVE TypeInv'
<1> DEFINE l == [loc[h] EXCEPT !.sub = sub, !.plan = Row(h).plan]
<1>1. h \in Proc /\ loc[h] \in Local /\ LocalTyped("applyRead", loc[h])
  BY HereTyped DEF Proc, ApplyRead, At
<1>2. sub \in Subscription /\ Row(h).plan \in Plan
  BY <1>1 DEF TypeInv, TypeOK, LocalTyped, RowLabels, Row, InvoiceRow
<1>3. l \in Local /\ LocalTyped("applyTx", l)
  BY <1>1, <1>2 DEF Local, LocalTyped, RowLabels, StatusLabels
<1>4. Go(h, "applyTx") /\ loc' = [loc EXCEPT ![h] = l]
  BY <1>1 DEF ApplyRead, TypeInv, TypeOK
<1>5. pc' \in [Proc -> Label] /\ loc' \in [Proc -> Local] /\ LocalsTyped'
  BY <1>1, <1>3, <1>4, StepTyped DEF Label
<1>. QED BY <1>5 DEF ApplyRead, TypeInv, TypeOK, db, gateway

LEMMA ApplyTxTyped ==
  ASSUME TypeInv, NEW h \in Handler, ApplyTx(h) PROVE TypeInv'
<1>1. h \in Proc /\ loc[h] \in Local /\ LocalTyped("applyTx", loc[h])
  BY HereTyped DEF Proc, ApplyTx, At
<1>2. pc' \in [Proc -> Label] /\ loc' \in [Proc -> Local] /\ LocalsTyped'
  BY <1>1, GoTyped DEF ApplyTx, LocalTyped, Label, RowLabels, StatusLabels
<1>3. loc[h].inv \in Invoice /\ loc[h].st \in TxStatus
  BY <1>1 DEF Local, LocalTyped, RowLabels, StatusLabels
<1>4. tx' \in [Invoice -> TxStatus \cup {NoTx}]
  BY <1>3 DEF ApplyTx, TypeInv, TypeOK
<1>. QED BY <1>2, <1>4 DEF ApplyTx, TypeInv, TypeOK, gateway

LEMMA MappingsTyped ==
  ASSUME NEW st \in TxStatus, NEW current
  PROVE  /\ mapInvoiceStatusFromTransaction(st) \in InvoiceStatus
         /\ mapSubscriptionStatusFromTransaction(st, current) \in SubscriptionStatus
BY DEF TxStatus, mapInvoiceStatusFromTransaction, InvoiceStatus,
       mapSubscriptionStatusFromTransaction, SubscriptionStatus

LEMMA ApplyInvoiceTyped ==
  ASSUME TypeInv, NEW h \in Handler, ApplyInvoice(h) PROVE TypeInv'
<1>1. h \in Proc /\ loc[h] \in Local /\ LocalTyped("applyInvoice", loc[h])
  BY HereTyped DEF Proc, ApplyInvoice, At
<1>2. LocalTyped("activateRead", loc[h]) /\ LocalTyped("applySub", loc[h])
  BY <1>1 DEF LocalTyped, RowLabels, StatusLabels
<1>3. pc' \in [Proc -> Label] /\ loc' \in [Proc -> Local] /\ LocalsTyped'
  <2>1. CASE loc[h].st = "settlement"
    <3>1. Go(h, "activateRead") /\ UNCHANGED loc
      BY <2>1 DEF ApplyInvoice
    <3>. QED BY <1>1, <1>2, <3>1, GoTyped DEF Label
  <2>2. CASE loc[h].st # "settlement"
    <3>1. Go(h, "applySub") /\ UNCHANGED loc
      BY <2>2 DEF ApplyInvoice
    <3>. QED BY <1>1, <1>2, <3>1, GoTyped DEF Label
  <2>. QED BY <2>1, <2>2
<1>4. loc[h].inv \in Invoice /\ loc[h].st \in TxStatus
  BY <1>1 DEF Local, LocalTyped, RowLabels, StatusLabels
<1>5. inv' \in [Invoice -> InvoiceRow]
  BY <1>4, MappingsTyped, RowStatusTyped DEF ApplyInvoice
<1>6. revived' \subseteq Invoice
  BY <1>4 DEF ApplyInvoice, Revived, TypeInv, TypeOK
<1>. QED BY <1>3, <1>5, <1>6 DEF ApplyInvoice, TypeInv, TypeOK, gateway

LEMMA ApplySubscriptionTyped ==
  ASSUME TypeInv, NEW h \in Handler, ApplySubscription(h) PROVE TypeInv'
<1> DEFINE st == mapSubscriptionStatusFromTransaction(loc[h].st, loc[h].sub.status)
           g == IF st = "GRACE_PERIOD" THEN loc[h].at + Grace ELSE NoTime
           l == [loc[h] EXCEPT !.sub = sub']
<1>1. h \in Proc /\ loc[h] \in Local /\ LocalTyped("applySub", loc[h])
  BY HereTyped DEF Proc, ApplySubscription, At
<1>2. loc[h].inv \in Invoice /\ loc[h].st \in TxStatus /\ loc[h].at \in Time
  BY <1>1 DEF Local, LocalTyped, RowLabels, StatusLabels
<1>3. st \in SubscriptionStatus
  BY <1>2, MappingsTyped
<1>4. g \in Time
  <2>1. loc[h].at + Grace \in Time
    BY <1>2 DEF Time
  <2> HIDE DEF st
  <2>. QED BY <2>1, NullTyped
<1>5. sub' = [sub EXCEPT !.status = st, !.graceEnd = g]
  BY Zenon DEF ApplySubscription
<1>6. sub' \in Subscription
  <2>1. sub \in Subscription
    BY DEF TypeInv, TypeOK
  <2> HIDE DEF st, g
  <2>. QED BY <2>1, <1>3, <1>4, <1>5 DEF Subscription
<1>7. l \in Local /\ LocalTyped("snapshot", l)
  BY <1>1, <1>6 DEF Local, LocalTyped, RowLabels, StatusLabels
<1>8. Go(h, "snapshot") /\ loc' = [loc EXCEPT ![h] = l]
  BY <1>1 DEF ApplySubscription, TypeInv, TypeOK
<1>9. pc' \in [Proc -> Label] /\ loc' \in [Proc -> Local] /\ LocalsTyped'
  BY <1>1, <1>7, <1>8, StepTyped DEF Label
<1>10. applied' \subseteq [inv: Invoice, st: TxStatus]
  BY <1>2 DEF ApplySubscription, TypeInv, TypeOK
<1>. QED BY <1>6, <1>9, <1>10 DEF ApplySubscription, TypeInv, TypeOK, gateway

LEMMA ActivateReadTyped ==
  ASSUME TypeInv, NEW h \in Handler, ActivateRead(h) PROVE TypeInv'
<1> DEFINE l == [loc[h] EXCEPT !.sub = sub]
<1>1. h \in Proc /\ loc[h] \in Local /\ LocalTyped("activateRead", loc[h])
  BY HereTyped DEF Proc, ActivateRead, At
<1>2. l \in Local /\ LocalTyped("activateWrite", l)
  BY <1>1 DEF Local, LocalTyped, RowLabels, StatusLabels, TypeInv, TypeOK
<1>3. Go(h, "activateWrite") /\ loc' = [loc EXCEPT ![h] = l]
  BY <1>1 DEF ActivateRead, TypeInv, TypeOK
<1>4. pc' \in [Proc -> Label] /\ loc' \in [Proc -> Local] /\ LocalsTyped'
  BY <1>1, <1>2, <1>3, StepTyped DEF Label
<1>. QED BY <1>4 DEF ActivateRead, TypeInv, TypeOK, db, gateway

LEMMA ActivateWriteTyped ==
  ASSUME TypeInv, NEW h \in Handler, ActivateWrite(h) PROVE TypeInv'
<1> DEFINE start == NextPeriodStart(Row(h).cycle, loc[h].sub.periodEnd, loc[h].at)
           auto == loc[h].plan \in Paid /\ loc[h].sub.autoRenew
           end == start + Period[loc[h].plan]
           l == [loc[h] EXCEPT !.sub = sub']
<1>1. h \in Proc /\ loc[h] \in Local /\ LocalTyped("activateWrite", loc[h])
  BY HereTyped DEF Proc, ActivateWrite, At
<1>2. /\ loc[h].plan \in Plan /\ loc[h].at \in Int
      /\ loc[h].sub.periodEnd \in Int /\ loc[h].sub.autoRenew \in BOOLEAN
  BY <1>1 DEF Local, Subscription, Time
<1>3. end \in Time
  <2>1. start \in Int
    BY <1>2 DEF NextPeriodStart
  <2>2. Period[loc[h].plan] \in Int
    BY <1>2
  <2> HIDE DEF start
  <2>. QED BY <2>1, <2>2 DEF Time
<1>4. auto \in BOOLEAN
  BY <1>2
<1>5. sub' = [plan |-> loc[h].plan, status |-> "ACTIVE", periodEnd |-> end,
              graceEnd |-> NoTime, autoRenew |-> auto]
  BY Zenon DEF ActivateWrite
<1>6. sub' \in Subscription
  <2> HIDE DEF auto, end
  <2>. QED BY <1>2, <1>3, <1>4, <1>5, NullTyped DEF Subscription, SubscriptionStatus
<1>7. l \in Local /\ LocalTyped("snapshot", l)
  BY <1>1, <1>6 DEF Local, LocalTyped, RowLabels, StatusLabels
<1>8. Go(h, "snapshot") /\ loc' = [loc EXCEPT ![h] = l]
  BY <1>1 DEF ActivateWrite, TypeInv, TypeOK
<1>9. pc' \in [Proc -> Label] /\ loc' \in [Proc -> Local] /\ LocalsTyped'
  BY <1>1, <1>7, <1>8, StepTyped DEF Label
<1>10. applied' \subseteq [inv: Invoice, st: TxStatus]
  <2> DEFINE a == [inv |-> loc[h].inv, st |-> loc[h].st]
  <2>1. applied' = applied \cup {x \in {a} : x.st # NoTx}
    BY Zenon DEF ActivateWrite
  <2>2. a.st # NoTx => a \in [inv: Invoice, st: TxStatus]
    BY <1>1 DEF Local, LocalTyped
  <2> HIDE DEF a
  <2>. QED BY <2>1, <2>2 DEF TypeInv, TypeOK
<1>. QED BY <1>6, <1>9, <1>10 DEF ActivateWrite, TypeInv, TypeOK, gateway

LEMMA RefreshSnapshotTyped ==
  ASSUME TypeInv, NEW p \in Proc, RefreshSnapshot(p) PROVE TypeInv'
<1>1. loc[p] \in Local /\ LocalTyped("snapshot", loc[p])
  BY HereTyped DEF RefreshSnapshot, At
<1>2. pc' \in [Proc -> Label] /\ loc' \in [Proc -> Local] /\ LocalsTyped'
  <2>1. CASE loc[p].att # 0
    <3>1. Go(p, "ack") /\ UNCHANGED loc
      BY <2>1 DEF RefreshSnapshot
    <3>2. LocalTyped("ack", loc[p])
      BY <1>1, <2>1 DEF LocalTyped, RowLabels, StatusLabels
    <3>. QED BY <3>1, <3>2, GoTyped DEF Label
  <2>2. CASE loc[p].att = 0
    BY <2>2, ContinueTyped DEF RefreshSnapshot
  <2>. QED BY <2>1, <2>2
<1>3. snap' \in [plan: Plan, status: SubscriptionStatus \cup {"none"}]
  BY <1>1 DEF RefreshSnapshot, Local, Subscription
<1>. QED BY <1>2, <1>3 DEF RefreshSnapshot, TypeInv, TypeOK, gateway

LEMMA AbortTyped ==
  ASSUME TypeInv, NEW p \in Proc, Abort(p) PROVE TypeInv'
<1>1. pc' \in [Proc -> Label] /\ loc' \in [Proc -> Local] /\ LocalsTyped'
  BY FinishTyped DEF Abort
<1>. QED BY <1>1 DEF Abort, TypeInv, TypeOK, db, gateway

LEMMA LifecycleScanTyped ==
  ASSUME TypeInv, LifecycleScan PROVE TypeInv'
<1> DEFINE l == [loc[BG] EXCEPT !.sub = sub]
<1>1. BG \in Proc /\ loc[BG] \in Local /\ LocalTyped("idle", loc[BG])
  BY HereTyped DEF Proc, LifecycleScan, At
<1>2. l \in Local /\ LocalTyped("lifecycle", l) /\ LocalTyped("renewalScan", loc[BG])
  BY <1>1 DEF Local, LocalTyped, RowLabels, StatusLabels, TypeInv, TypeOK
<1>3. pc' \in [Proc -> Label] /\ loc' \in [Proc -> Local] /\ LocalsTyped'
  <2>1. CASE IsLifecycleDue(sub, clock)
    <3>1. Go(BG, "lifecycle") /\ loc' = [loc EXCEPT ![BG] = l]
      BY <1>1, <2>1 DEF LifecycleScan, TypeInv, TypeOK
    <3>. QED BY <1>1, <1>2, <3>1, StepTyped DEF Label
  <2>2. CASE ~IsLifecycleDue(sub, clock)
    <3>1. Go(BG, "renewalScan") /\ UNCHANGED loc
      BY <2>2 DEF LifecycleScan
    <3>. QED BY <1>1, <1>2, <3>1, GoTyped DEF Label
  <2>. QED BY <2>1, <2>2
<1>. QED BY <1>3 DEF LifecycleScan, TypeInv, TypeOK, db, gateway

LEMMA LifecycleWriteTyped ==
  ASSUME TypeInv, LifecycleWrite PROVE TypeInv'
<1> DEFINE l == [loc[BG] EXCEPT !.sub = sub']
           end == loc[BG].sub.periodEnd + Grace
<1>1. BG \in Proc /\ loc[BG] \in Local /\ LocalTyped("lifecycle", loc[BG])
  BY HereTyped DEF Proc, LifecycleWrite, At
<1>2. sub \in Subscription /\ end \in Time
  BY <1>1 DEF TypeInv, TypeOK, Local, Subscription, Time
<1>3. sub' = [sub EXCEPT !.status = "EXPIRED"]
      \/ sub' = [sub EXCEPT !.status = "GRACE_PERIOD", !.graceEnd = end]
  BY DEF LifecycleWrite
<1>4. sub' \in Subscription
  <2> HIDE DEF end
  <2>. QED BY <1>2, <1>3 DEF Subscription, SubscriptionStatus
<1>5. l \in Local /\ LocalTyped("snapshot", l)
  BY <1>1, <1>4 DEF Local, LocalTyped, RowLabels, StatusLabels
<1>6. Go(BG, "snapshot") /\ loc' = [loc EXCEPT ![BG] = l]
  BY <1>1 DEF LifecycleWrite, TypeInv, TypeOK
<1>7. pc' \in [Proc -> Label] /\ loc' \in [Proc -> Local] /\ LocalsTyped'
  BY <1>1, <1>5, <1>6, StepTyped DEF Label
<1>. QED BY <1>4, <1>7 DEF LifecycleWrite, TypeInv, TypeOK, gateway

LEMMA RenewalScanTyped ==
  ASSUME TypeInv, RenewalScan PROVE TypeInv'
<1> DEFINE l == [loc[BG] EXCEPT !.sub = sub]
<1>1. BG \in Proc /\ loc[BG] \in Local /\ LocalTyped("renewalScan", loc[BG])
  BY HereTyped DEF Proc, RenewalScan, At
<1>2. l \in Local /\ LocalTyped("renewalCheck", l) /\ LocalTyped("cleanupScan", loc[BG])
  BY <1>1 DEF Local, LocalTyped, RowLabels, StatusLabels, TypeInv, TypeOK
<1>3. \/ Go(BG, "renewalCheck") /\ loc' = [loc EXCEPT ![BG] = l]
      \/ Finish(BG)
      \/ Go(BG, "cleanupScan") /\ UNCHANGED loc
  BY <1>1 DEF RenewalScan, TypeInv, TypeOK
<1>4. pc' \in [Proc -> Label] /\ loc' \in [Proc -> Local] /\ LocalsTyped'
  <2>1. CASE Go(BG, "renewalCheck") /\ loc' = [loc EXCEPT ![BG] = l]
    BY <1>1, <1>2, <2>1, StepTyped DEF Label
  <2>2. CASE Finish(BG)
    BY <1>1, <2>2, FinishTyped
  <2>3. CASE Go(BG, "cleanupScan") /\ UNCHANGED loc
    BY <1>1, <1>2, <2>3, GoTyped DEF Label
  <2>. QED BY <1>3, <2>1, <2>2, <2>3
<1>. QED BY <1>4 DEF RenewalScan, TypeInv, TypeOK, db, gateway

LEMMA RenewalCheckTyped ==
  ASSUME TypeInv, RenewalCheck PROVE TypeInv'
<1>1. BG \in Proc /\ loc[BG] \in Local /\ LocalTyped("renewalCheck", loc[BG])
  BY HereTyped DEF Proc, RenewalCheck, At
<1>2. pc' \in [Proc -> Label] /\ loc' \in [Proc -> Local] /\ LocalsTyped'
  <2>1. CASE Continue(BG, "cleanupScan")
    BY <1>1, <2>1, ContinueTyped
  <2>2. CASE ~Continue(BG, "cleanupScan")
    <3>1. PICK i \in Invoice : loc' = [loc EXCEPT ![BG].inv = i]
      BY <2>2 DEF RenewalCheck
    <3> DEFINE l == [loc[BG] EXCEPT !.inv = i]
    <3>2. l \in Local /\ LocalTyped("renewalCreate", l)
      BY <1>1 DEF Local, LocalTyped, RowLabels, StatusLabels
    <3>3. Go(BG, "renewalCreate") /\ loc' = [loc EXCEPT ![BG] = l]
      BY <1>1, <2>2, <3>1 DEF RenewalCheck, TypeInv, TypeOK
    <3>. QED BY <1>1, <3>2, <3>3, StepTyped DEF Label
  <2>. QED BY <2>1, <2>2
<1>. QED BY <1>2 DEF RenewalCheck, TypeInv, TypeOK, db, gateway

LEMMA RenewalCreateTyped ==
  ASSUME TypeInv, RenewalCreate PROVE TypeInv'
<1> DEFINE r == [status |-> "DRAFT", plan |-> loc[BG].sub.plan, cycle |-> "renewal",
                 due |-> loc[BG].sub.periodEnd, created |-> clock]
<1>1. BG \in Proc /\ loc[BG] \in Local /\ LocalTyped("renewalCreate", loc[BG])
  BY HereTyped DEF Proc, RenewalCreate, At
<1>2. LocalTyped("charge", loc[BG]) /\ loc[BG].inv \in Invoice
  BY <1>1 DEF LocalTyped, RowLabels, StatusLabels
<1>3. pc' \in [Proc -> Label] /\ loc' \in [Proc -> Local] /\ LocalsTyped'
  BY <1>1, <1>2, GoTyped DEF RenewalCreate, Label
<1>4. r \in InvoiceRow
  BY <1>1 DEF InvoiceRow, InvoiceStatus, Local, Subscription, TypeInv, TypeOK, Time
<1>5. inv' \in [Invoice -> InvoiceRow]
  BY <1>2, <1>4, RowTyped DEF RenewalCreate
<1>. QED BY <1>3, <1>5 DEF RenewalCreate, TypeInv, TypeOK, gateway

LEMMA CleanupScanTyped ==
  ASSUME TypeInv, CleanupScan PROVE TypeInv'
<1> DEFINE old == {i \in Invoice : IsCleanable(inv[i], clock, Retention)}
           l == [loc[BG] EXCEPT !.ids = old]
<1>1. BG \in Proc /\ loc[BG] \in Local /\ LocalTyped("cleanupScan", loc[BG])
  BY HereTyped DEF Proc, CleanupScan, At
<1>2. l \in Local /\ LocalTyped("cleanup", l)
  <2>1. old \in SUBSET Invoice
    OBVIOUS
  <2> HIDE DEF old
  <2>. QED BY <1>1, <2>1 DEF Local, LocalTyped, RowLabels, StatusLabels
<1>3. Finish(BG) \/ (Go(BG, "cleanup") /\ loc' = [loc EXCEPT ![BG] = l])
  <2>1. Finish(BG) \/ (Go(BG, "cleanup") /\ loc' = [loc EXCEPT ![BG].ids = old])
    BY Zenon DEF CleanupScan
  <2> HIDE DEF old
  <2>. QED BY <1>1, <2>1 DEF TypeInv, TypeOK
<1>4. pc' \in [Proc -> Label] /\ loc' \in [Proc -> Local] /\ LocalsTyped'
  <2> HIDE DEF l
  <2>. QED BY <1>1, <1>2, <1>3, FinishTyped, StepTyped DEF Label
<1>. QED BY <1>4 DEF CleanupScan, TypeInv, TypeOK, db, gateway

LEMMA CleanupDeleteTyped ==
  ASSUME TypeInv, CleanupDelete PROVE TypeInv'
<1>1. pc' \in [Proc -> Label] /\ loc' \in [Proc -> Local] /\ LocalsTyped'
  BY FinishTyped DEF CleanupDelete, Proc
<1>2. inv' \in [Invoice -> InvoiceRow]
  <2>1. \A i \in Invoice : [inv[i] EXCEPT !.status = "DELETED"] \in InvoiceRow
    BY DEF TypeInv, TypeOK, InvoiceRow
  <2>. QED BY <2>1 DEF CleanupDelete, TypeInv, TypeOK
<1>3. tx' \in [Invoice -> TxStatus \cup {NoTx}] /\ processed' \subseteq Delivery
  BY DEF CleanupDelete, TypeInv, TypeOK
<1>. QED BY <1>1, <1>2, <1>3 DEF CleanupDelete, TypeInv, TypeOK, gateway

-----------------------------------------------------------------------------
(* The environment.                                                        *)

LEMMA GatewayStepTyped ==
  ASSUME TypeInv, GatewayStep PROVE TypeInv'
<1>1. PICK i \in Invoice, st \in TxStatus :
        /\ order' = [order EXCEPT ![i] = st]
        /\ notes' = notes \cup {[inv |-> i, st |-> st, at |-> clock]}
  BY OutcomesAssumption DEF GatewayStep
<1>2. order' \in [Invoice -> TxStatus \cup {NoTx}] /\ notes' \subseteq Note
  BY <1>1 DEF TypeInv, TypeOK, Note, Time
<1>. QED BY <1>2 DEF GatewayStep, TypeInv, TypeOK, LocalsTyped, db

\* Every process has a program counter and locals.
LEMMA Processes ==
  ASSUME TypeInv PROVE DOMAIN pc = Proc /\ DOMAIN loc = Proc
  BY DEF TypeInv, TypeOK

LEMMA TickTyped ==
  ASSUME TypeInv, Tick PROVE TypeInv'
<1>1. clock' \in 0..MaxTime
  BY DEF Tick, TypeInv, TypeOK
<1>2. ASSUME NEW p \in Proc
      PROVE  loc'[p] \in Local /\ LocalTyped(pc[p], loc'[p])
  <2> DEFINE late == ~At(p, "idle")
  <2>1. loc[p] \in Local /\ LocalTyped(pc[p], loc[p])
    BY HereTyped
  <2>2. loc'[p] = [loc[p] EXCEPT !.late = late] /\ late \in BOOLEAN
    BY Processes DEF Tick
  <2> HIDE DEF late
  <2>. QED BY <2>1, <2>2 DEF Local, LocalTyped
<1>3. loc' \in [Proc -> Local] /\ LocalsTyped'
  BY <1>2, Processes DEF Tick, LocalsTyped
<1>. QED BY <1>1, <1>3 DEF Tick, TypeInv, TypeOK, db, gateway

LEMMA CrashTyped ==
  ASSUME TypeInv, Crash PROVE TypeInv'
<1>1. LocalTyped("idle", IdleLocal)
  BY DEF LocalTyped, IdleLocal, RowLabels, StatusLabels
<1>2. pc' \in [Proc -> Label] /\ loc' \in [Proc -> Local] /\ LocalsTyped'
  BY <1>1, DefaultsTyped, Processes DEF Crash, LocalsTyped, Label
<1>3. crashes' \in 0..MaxCrashes
  BY DEF Crash, TypeInv, TypeOK
<1>. QED BY <1>2, <1>3 DEF Crash, TypeInv, TypeOK, db, gateway

LEMMA TypeStep == TypeInv /\ [Next]_vars => TypeInv'
<1> SUFFICES ASSUME TypeInv, [Next]_vars PROVE TypeInv'
  OBVIOUS
<1>1. ASSUME NEW h \in Handler, Arrive(h) PROVE TypeInv'
  BY <1>1, CheckoutStartTyped, CallbackStartTyped, RefreshLookupTyped DEF Arrive
<1>2. ASSUME NEW h \in Handler, RequestStep(h) PROVE TypeInv'
  BY <1>2, CheckoutReserveTyped, CheckoutInvoiceTyped, CallbackRecordTyped,
     CallbackAckTyped, RefreshStoreTyped, ApplyReadTyped, ApplyTxTyped,
     ApplyInvoiceTyped, ApplySubscriptionTyped, ActivateReadTyped,
     ActivateWriteTyped DEF RequestStep
<1>3. ASSUME NEW p \in Proc, SharedStep(p) PROVE TypeInv'
  BY <1>3, CreateChargeTyped, ChargePendingTyped, ChargeStoreTyped,
     ChargeFailedTyped, RefreshSnapshotTyped, AbortTyped DEF SharedStep
<1>4. ASSUME Cycle PROVE TypeInv'
  BY <1>3, <1>4, LifecycleScanTyped, LifecycleWriteTyped, RenewalScanTyped,
     RenewalCheckTyped, RenewalCreateTyped, CleanupScanTyped, CleanupDeleteTyped
     DEF Cycle, Job, Proc
<1>5. CASE UNCHANGED vars
  BY <1>5 DEF vars, db, gateway, TypeInv, TypeOK, LocalsTyped
<1>. QED
  BY <1>1, <1>2, <1>3, <1>4, <1>5, GatewayStepTyped, TickTyped, CrashTyped
     DEF Next, Proc

\* TypeInv, a strengthening of TypeOK, is invariant.
THEOREM TypeInvariant == Spec => []TypeInv
BY TypeInit, TypeStep, PTL DEF Spec

\* Whatever the number of requests, rows, plans and days, every column holds a
\* value of its type and every handler has the locals its next call needs.
THEOREM TypeCorrect == Spec => []TypeOK
<1>1. TypeInv => TypeOK
  BY DEF TypeInv
<1>. QED BY <1>1, TypeInvariant, PTL

-----------------------------------------------------------------------------
(* Who may use what: ActivePlanWasBought and InvoiceBackedByGateway.       *)

\* Labels of a handler that has reserved a row id and not created the row.
Reserving == {"reserve", "invoice", "renewalCreate"}

\* The gateway has an order for i, and reported st of it unless st is only
\* what createCharge answers.
Seen(i, st) == order[i] # NoTx /\ (st # "pending" => Reported(i, st))

\* The row exists or existed.
Spent(i) == inv[i].status # "UNUSED"

\* A subscription record that is active on a priced plan was paid for.
Granted(s) == s.status = "ACTIVE" /\ s.plan \in Paid => Bought(s.plan)

\* An order has its notifications and belongs to a row.
GatewayOK ==
  /\ \A n \in notes : order[n.inv] # NoTx
  /\ \A i \in Invoice : order[i] \notin {NoTx, "pending"} => Reported(i, order[i])
  /\ \A i \in Invoice : order[i] # NoTx => Spent(i)

\* Nobody else holds the row id that p has reserved.
ReservedOK(p) ==
  pc[p] \in Reserving =>
    ~Spent(loc[p].inv) /\ \A q \in Proc \ {p} : loc[q].inv # loc[p].inv

\* What a handler at label carries in its locals l is backed by the gateway.
Carried(label, l) ==
  /\ label = "charge" => Spent(l.inv)
  /\ label = "pending" => order[l.inv] # NoTx
  /\ label \in StatusLabels \ {"ack"} => Seen(l.inv, l.st)
  /\ label \in {"applyTx", "applyInvoice"} => l.plan = inv[l.inv].plan
  /\ label \in {"activateRead", "activateWrite"} /\ l.plan \in Paid => Bought(l.plan)
  /\ label = "applySub" => l.st # "settlement"
  /\ label = "snapshot" => Granted(l.sub)
  /\ label = "cleanup" => \A i \in l.ids : Spent(i)

CarriedOK(p) == Carried(pc[p], loc[p])

ProcessesOK == \A p \in Proc : ReservedOK(p) /\ CarriedOK(p)

AccessInv ==
  /\ TypeInv /\ GatewayOK /\ ProcessesOK
  /\ Granted(sub) /\ Granted(snap)
  /\ InvoiceBackedByGateway

-----------------------------------------------------------------------------
(* What no step takes back.                                                *)

Grows ==
  /\ notes \subseteq notes'
  /\ \A i \in Invoice : order[i] # NoTx => order'[i] # NoTx
  /\ \A i \in Invoice :
       Spent(i) => inv'[i].status # "UNUSED" /\ inv'[i].plan = inv[i].plan

LEMMA SeenStable ==
  ASSUME Grows, NEW i \in Invoice, NEW st, Seen(i, st)
  PROVE  order'[i] # NoTx /\ (st # "pending" => \E n \in notes' : n.inv = i /\ n.st = st)
BY DEF Grows, Seen, Reported

LEMMA BoughtStable ==
  ASSUME TypeInv, GatewayOK, Grows, NEW plan, Bought(plan)
  PROVE  \E i \in Invoice : /\ inv'[i].plan = plan
                            /\ \E n \in notes' : n.inv = i /\ n.st = "settlement"
<1>1. PICK i \in Invoice, n \in notes :
        inv[i].plan = plan /\ n.inv = i /\ n.st = "settlement"
  BY DEF Bought, Reported
<1>2. Spent(i)
  BY <1>1 DEF GatewayOK
<1>. QED BY <1>1, <1>2 DEF Grows

LEMMA CarriedStable ==
  ASSUME TypeInv, GatewayOK, Grows, NEW label, NEW l \in Local,
         LocalTyped(label, l), Carried(label, l)
  PROVE  Carried(label, l)'
<1>1. label \in RowLabels => l.inv \in Invoice
  BY DEF LocalTyped
<1>2. (label = "charge" => Spent(l.inv))'
  BY <1>1 DEF Carried, Grows, Spent, RowLabels
<1>3. (label = "pending" => order[l.inv] # NoTx)'
  BY <1>1 DEF Carried, Grows, RowLabels
<1>4. (label \in StatusLabels \ {"ack"} => Seen(l.inv, l.st))'
  BY <1>1, SeenStable DEF Carried, RowLabels, StatusLabels, Seen, Reported
<1>5. (label \in {"applyTx", "applyInvoice"} => l.plan = inv[l.inv].plan)'
  BY <1>1 DEF Carried, RowLabels, StatusLabels, Seen, GatewayOK, Grows
<1>6. (label \in {"activateRead", "activateWrite"} /\ l.plan \in Paid => Bought(l.plan))'
  BY BoughtStable DEF Carried, Bought, Reported
<1>7. (label = "snapshot" => Granted(l.sub))'
  BY BoughtStable DEF Carried, Granted, Bought, Reported
<1>8. (label = "cleanup" => \A i \in l.ids : Spent(i))'
  BY DEF Carried, Local, Grows, Spent
<1>9. label = "applySub" => l.st # "settlement"
  BY DEF Carried
<1>. QED BY <1>2, <1>3, <1>4, <1>5, <1>6, <1>7, <1>8, <1>9 DEF Carried

-----------------------------------------------------------------------------
(* One process moves, the others keep what they have.                      *)

Moves(p, label, l) == pc' = [pc EXCEPT ![p] = label] /\ loc' = [loc EXCEPT ![p] = l]

\* A row id nobody has reserved.
NotReserved(i) ==
  \A q \in Proc : pc[q] \in Reserving => loc[q].inv # i

LEMMA NotReservedHolds ==
  ASSUME TypeInv, ProcessesOK, NEW i, i = NoInvoice \/ Spent(i) \/ FreshId(i)
  PROVE  NotReserved(i)
<1> SUFFICES ASSUME NEW q \in Proc, pc[q] \in Reserving PROVE loc[q].inv # i
  BY DEF NotReserved
<1>1. loc[q].inv \in Invoice /\ ~Spent(loc[q].inv)
  BY HereTyped DEF LocalTyped, RowLabels, Reserving, ProcessesOK, ReservedOK
<1>. QED BY <1>1, InvoiceAssumption DEF FreshId

LEMMA MoveReserved ==
  ASSUME TypeInv, ProcessesOK, NEW p \in Proc, NEW label, NEW l, Moves(p, label, l),
         l.inv = loc[p].inv \/ NotReserved(l.inv),
         \A i \in Invoice : inv'[i].status # "UNUSED" => Spent(i) \/ i = loc[p].inv,
         NEW q \in Proc \ {p}
  PROVE  ReservedOK(q)'
<1>1. pc'[q] = pc[q] /\ loc'[q] = loc[q] /\ loc'[p] = l
  BY DEF Moves, TypeInv, TypeOK
<1> SUFFICES ASSUME pc[q] \in Reserving
             PROVE  /\ inv'[loc[q].inv].status = "UNUSED"
                    /\ \A r \in Proc \ {q} : loc'[r].inv # loc[q].inv
  BY <1>1 DEF ReservedOK, Spent
<1>2. /\ loc[q].inv \in Invoice /\ ~Spent(loc[q].inv)
      /\ \A r \in Proc \ {q} : loc[r].inv # loc[q].inv
  BY HereTyped DEF LocalTyped, RowLabels, Reserving, ProcessesOK, ReservedOK
<1>3. inv'[loc[q].inv].status = "UNUSED"
  BY <1>2
<1>4. loc'[p].inv # loc[q].inv
  BY <1>1, <1>2 DEF NotReserved
<1>5. ASSUME NEW r \in Proc \ {q} PROVE loc'[r].inv # loc[q].inv
  <2>1. CASE r = p
    BY <1>4, <2>1
  <2>2. CASE r # p
    <3>1. loc'[r] = loc[r]
      BY <2>2 DEF Moves, TypeInv, TypeOK
    <3>. QED BY <1>2, <3>1
  <2>. QED BY <2>1, <2>2
<1>. QED BY <1>3, <1>5

LEMMA MoveOK ==
  ASSUME TypeInv, GatewayOK, ProcessesOK, Grows,
         NEW p \in Proc, NEW label, NEW l, Moves(p, label, l),
         l.inv = loc[p].inv \/ NotReserved(l.inv),
         \A i \in Invoice : inv'[i].status # "UNUSED" => Spent(i) \/ i = loc[p].inv,
         ReservedOK(p)', CarriedOK(p)'
  PROVE  ProcessesOK'
<1> SUFFICES ASSUME NEW q \in Proc PROVE ReservedOK(q)' /\ CarriedOK(q)'
  BY DEF ProcessesOK
<1>1. CASE q = p
  BY <1>1
<1>2. CASE q # p
  <2>1. ReservedOK(q)'
    BY <1>2, MoveReserved
  <2>2. pc'[q] = pc[q] /\ loc'[q] = loc[q]
    BY <1>2 DEF Moves, TypeInv, TypeOK
  <2>3. loc[q] \in Local /\ LocalTyped(pc[q], loc[q]) /\ Carried(pc[q], loc[q])
    BY HereTyped DEF ProcessesOK, CarriedOK
  <2>4. \A there, has : has \in Local /\ LocalTyped(there, has) /\ Carried(there, has)
                            => Carried(there, has)'
    BY CarriedStable
  <2>5. CarriedOK(q)'
    BY <2>2, <2>3, <2>4 DEF CarriedOK, Carried, Granted, Seen, Reported, Bought, Spent
  <2>. QED BY <2>1, <2>5
<1>. QED BY <1>1, <1>2

\* A step that leaves rows, orders and notifications alone needs to say only
\* what the moving process carries on.
LEMMA QuietMove ==
  ASSUME AccessInv, TypeInv', UNCHANGED <<inv, order, notes>>,
         NEW p \in Proc, NEW label, NEW l, Moves(p, label, l),
         l.inv = loc[p].inv \/ NotReserved(l.inv),
         label \in Reserving =>
           ~Spent(l.inv) /\ \A q \in Proc \ {p} : loc[q].inv # l.inv,
         Carried(label, l),
         UNCHANGED sub \/ Granted(sub'), UNCHANGED snap \/ Granted(snap')
  PROVE  AccessInv'
<1>1. Grows
  BY DEF Grows, Spent
<1>2. pc'[p] = label /\ loc'[p] = l /\ \A q \in Proc \ {p} : loc'[q] = loc[q]
  BY DEF Moves, AccessInv, TypeInv, TypeOK
<1>3. ReservedOK(p)'
  BY <1>2 DEF ReservedOK, Spent
<1>4. CarriedOK(p)'
  BY <1>2 DEF CarriedOK, Carried, Granted, Seen, Reported, Bought, Spent
<1>5. ProcessesOK'
  BY <1>1, <1>3, <1>4, MoveOK DEF AccessInv, Spent
<1>6. GatewayOK'
  BY DEF AccessInv, GatewayOK, Reported, Spent
<1>7. InvoiceBackedByGateway'
  BY DEF AccessInv, InvoiceBackedByGateway, Reported
<1>8. Granted(sub)' /\ Granted(snap)'
  BY DEF AccessInv, Granted, Bought, Reported
<1>. QED BY <1>5, <1>6, <1>7, <1>8 DEF AccessInv

LEMMA QuietFinish ==
  ASSUME AccessInv, TypeInv', UNCHANGED <<inv, order, notes, sub, snap>>,
         NEW p \in Proc, Finish(p)
  PROVE  AccessInv'
<1>1. Moves(p, "idle", IdleLocal)
  BY DEF Finish, Go, Moves
<1>2. Carried("idle", IdleLocal)
  BY DEF Carried, StatusLabels
<1>3. NotReserved(IdleLocal.inv)
  BY NotReservedHolds DEF IdleLocal, AccessInv
<1>. QED BY <1>1, <1>2, <1>3, QuietMove DEF Reserving

LEMMA ContinueKeeps ==
  ASSUME AccessInv, TypeInv', UNCHANGED <<inv, order, notes, sub>>,
         NEW p \in Proc, NEW label \in {"renewalScan", "cleanupScan"},
         Continue(p, label), UNCHANGED snap \/ Granted(snap')
  PROVE  AccessInv'
<1> DEFINE l == IF p = BG THEN [IdleLocal EXCEPT !.late = loc[p].late] ELSE IdleLocal
           next == IF p = BG THEN label ELSE "idle"
<1>1. Moves(p, next, l)
  BY DEF Continue, Finish, Go, Moves
<1>2. l.inv = NoInvoice
  BY DEF IdleLocal
<1>3. NotReserved(l.inv)
  BY <1>2, NotReservedHolds DEF AccessInv
<1>4. next \notin Reserving /\ Carried(next, l)
  BY DEF Carried, StatusLabels, Reserving
<1> HIDE DEF l, next
<1>. QED BY <1>1, <1>3, <1>4, QuietMove

LEMMA MovesHere ==
  ASSUME TypeInv, NEW p, NEW label, Go(p, label), UNCHANGED loc
  PROVE  Moves(p, label, loc[p])
BY DEF Go, Moves, TypeInv, TypeOK

LEMMA Here ==
  ASSUME AccessInv, NEW p \in Proc
  PROVE  /\ TypeInv /\ GatewayOK /\ ProcessesOK
         /\ loc[p] \in Local /\ LocalTyped(pc[p], loc[p])
         /\ ReservedOK(p) /\ Carried(pc[p], loc[p])
BY HereTyped DEF AccessInv, ProcessesOK, CarriedOK

-----------------------------------------------------------------------------
(* Every action keeps AccessInv.                                           *)

LEMMA CheckoutStartKeeps ==
  ASSUME AccessInv, NEW h \in Handler, CheckoutStart(h) PROVE AccessInv'
<1>1. TypeInv' /\ h \in Proc
  BY CheckoutStartTyped DEF AccessInv, Proc
<1>2. PICK p \in Plan, i \in Invoice :
        FreshId(i) /\ loc' = [loc EXCEPT ![h].plan = p, ![h].inv = i]
  BY DEF CheckoutStart
<1> DEFINE l == [loc[h] EXCEPT !.plan = p, !.inv = i]
<1>3. Moves(h, "reserve", l) /\ l.inv = i
  BY <1>1, <1>2, Here DEF CheckoutStart, Go, Moves, TypeInv, TypeOK, Local
<1>4. NotReserved(i)
  BY <1>1, <1>2, Here, NotReservedHolds
<1>5. ~Spent(i) /\ \A q \in Proc : loc[q].inv # i
  BY <1>2 DEF FreshId, Spent
<1>6. Carried("reserve", l)
  BY DEF Carried, StatusLabels
<1>7. UNCHANGED <<inv, order, notes, sub, snap>>
  BY DEF CheckoutStart, db, gateway
<1> HIDE DEF l
<1>. QED BY <1>1, <1>3, <1>4, <1>5, <1>6, <1>7, QuietMove

LEMMA CheckoutReserveKeeps ==
  ASSUME AccessInv, NEW h \in Handler, CheckoutReserve(h) PROVE AccessInv'
<1> DEFINE l == [loc[h] EXCEPT !.at = clock]
<1>1. TypeInv' /\ h \in Proc
  BY CheckoutReserveTyped DEF AccessInv, Proc
<1>2. Moves(h, "invoice", l) /\ l.inv = loc[h].inv
  BY <1>1, Here DEF CheckoutReserve, Go, Moves, TypeInv, TypeOK, Local
<1>3. ~Spent(loc[h].inv) /\ \A q \in Proc \ {h} : loc[q].inv # loc[h].inv
  BY <1>1, Here DEF CheckoutReserve, At, ReservedOK, Reserving
<1>4. Carried("invoice", l)
  BY DEF Carried, StatusLabels
<1>5. sub'.status = "ACTIVE" => sub'.plan \notin Paid
  BY <1>1, Here DEF CheckoutReserve, TypeInv, TypeOK, Subscription, Local
<1>6. Granted(sub') /\ UNCHANGED <<inv, order, notes, snap>>
  BY <1>5 DEF Granted, CheckoutReserve, gateway
<1> HIDE DEF l
<1>. QED BY <1>1, <1>2, <1>3, <1>4, <1>6, QuietMove

LEMMA ChargeStoreKeeps ==
  ASSUME AccessInv, NEW p \in Proc, ChargeStore(p) PROVE AccessInv'
<1>1. TypeInv'
  BY ChargeStoreTyped DEF AccessInv
<1>2. UNCHANGED <<inv, order, notes, sub, snap>> /\ Continue(p, "cleanupScan")
  BY DEF ChargeStore
<1>. QED BY <1>1, <1>2, ContinueKeeps

LEMMA CallbackStartKeeps ==
  ASSUME AccessInv, NEW h \in Handler, CallbackStart(h) PROVE AccessInv'
<1>1. TypeInv' /\ h \in Proc
  BY CallbackStartTyped DEF AccessInv, Proc
<1>2. PICK n \in notes, a \in Attempt :
        loc' = [loc EXCEPT ![h].inv = n.inv, ![h].st = n.st,
                           ![h].at = n.at, ![h].att = a]
  BY DEF CallbackStart
<1> DEFINE l == [loc[h] EXCEPT !.inv = n.inv, !.st = n.st, !.at = n.at, !.att = a]
<1>3. Moves(h, "record", l) /\ l.inv = n.inv /\ l.st = n.st
  <2>1. TypeInv /\ loc[h] \in Local
    BY <1>1, Here
  <2>2. Go(h, "record")
    BY DEF CallbackStart
  <2>3. loc' = [loc EXCEPT ![h] = l]
    BY <1>2, <2>1 DEF TypeInv, TypeOK
  <2>4. l.inv = n.inv /\ l.st = n.st
    BY <2>1 DEF Local
  <2>. QED BY <2>2, <2>3, <2>4 DEF Go, Moves
<1>4. n.inv \in Invoice /\ order[n.inv] # NoTx /\ Spent(n.inv)
  BY DEF AccessInv, TypeInv, TypeOK, Note, GatewayOK
<1>5. NotReserved(n.inv)
  BY <1>1, <1>4, Here, NotReservedHolds
<1>6. Seen(n.inv, n.st)
  BY <1>4 DEF Seen, Reported
<1>7. Carried("record", l)
  BY <1>3, <1>6 DEF Carried
<1>8. UNCHANGED <<inv, order, notes, sub, snap>>
  BY DEF CallbackStart, db, gateway
<1> HIDE DEF l
<1>. QED BY <1>1, <1>3, <1>5, <1>7, <1>8, QuietMove DEF Reserving

LEMMA CallbackRecordKeeps ==
  ASSUME AccessInv, NEW h \in Handler, CallbackRecord(h) PROVE AccessInv'
<1>1. TypeInv' /\ h \in Proc
  BY CallbackRecordTyped DEF AccessInv, Proc
<1>2. UNCHANGED <<inv, order, notes, sub, snap>>
  BY DEF CallbackRecord, gateway
<1>3. CASE Finish(h)
  BY <1>1, <1>2, <1>3, QuietFinish
<1>4. CASE ~Finish(h)
  <2>1. PICK t \in {loc[h].at, clock} : loc' = [loc EXCEPT ![h].at = t]
    BY <1>4 DEF CallbackRecord
  <2> DEFINE l == [loc[h] EXCEPT !.at = t]
  <2>2. Moves(h, "applyRead", l) /\ l.inv = loc[h].inv /\ l.st = loc[h].st
    BY <1>1, <1>4, <2>1, Here DEF CallbackRecord, Go, Moves, TypeInv, TypeOK, Local
  <2>3. Seen(loc[h].inv, loc[h].st)
    BY <1>1, Here DEF CallbackRecord, At, Carried, StatusLabels
  <2>4. Carried("applyRead", l)
    BY <2>2, <2>3 DEF Carried
  <2> HIDE DEF l
  <2>. QED BY <1>1, <1>2, <2>2, <2>4, QuietMove DEF Reserving
<1>. QED BY <1>3, <1>4

LEMMA CallbackAckKeeps ==
  ASSUME AccessInv, NEW h \in Handler, CallbackAck(h) PROVE AccessInv'
<1>1. TypeInv' /\ h \in Proc
  BY CallbackAckTyped DEF AccessInv, Proc
<1>2. UNCHANGED <<inv, order, notes, sub, snap>> /\ Finish(h)
  BY DEF CallbackAck, gateway
<1>. QED BY <1>1, <1>2, QuietFinish

LEMMA RefreshLookupKeeps ==
  ASSUME AccessInv, NEW h \in Handler, RefreshLookup(h) PROVE AccessInv'
<1>1. TypeInv' /\ h \in Proc
  BY RefreshLookupTyped DEF AccessInv, Proc
<1>2. PICK i \in Invoice :
        order[i] # NoTx /\ loc' = [loc EXCEPT ![h].inv = i, ![h].st = order[i]]
  BY DEF RefreshLookup
<1> DEFINE l == [loc[h] EXCEPT !.inv = i, !.st = order[i]]
<1>3. Moves(h, "lookupStore", l) /\ l.inv = i /\ l.st = order[i]
  BY <1>1, <1>2, Here DEF RefreshLookup, Go, Moves, TypeInv, TypeOK, Local
<1>4. Seen(i, order[i]) /\ Spent(i)
  BY <1>2 DEF AccessInv, GatewayOK, Seen
<1>5. NotReserved(i)
  BY <1>1, <1>4, Here, NotReservedHolds
<1>6. Carried("lookupStore", l)
  BY <1>3, <1>4 DEF Carried
<1>7. UNCHANGED <<inv, order, notes, sub, snap>>
  BY DEF RefreshLookup, db, gateway
<1> HIDE DEF l
<1>. QED BY <1>1, <1>3, <1>5, <1>6, <1>7, QuietMove DEF Reserving

LEMMA RefreshStoreKeeps ==
  ASSUME AccessInv, NEW h \in Handler, RefreshStore(h) PROVE AccessInv'
<1> DEFINE l == [loc[h] EXCEPT !.at = clock]
<1>1. TypeInv' /\ h \in Proc
  BY RefreshStoreTyped DEF AccessInv, Proc
<1>2. Moves(h, "applyRead", l) /\ l.inv = loc[h].inv /\ l.st = loc[h].st
  BY <1>1, Here DEF RefreshStore, Go, Moves, TypeInv, TypeOK, Local
<1>3. Seen(loc[h].inv, loc[h].st)
  BY <1>1, Here DEF RefreshStore, At, Carried, StatusLabels
<1>4. Carried("applyRead", l)
  BY <1>2, <1>3 DEF Carried
<1>5. UNCHANGED <<inv, order, notes, sub, snap>>
  BY DEF RefreshStore
<1> HIDE DEF l
<1>. QED BY <1>1, <1>2, <1>4, <1>5, QuietMove DEF Reserving

LEMMA ApplyReadKeeps ==
  ASSUME AccessInv, NEW h \in Handler, ApplyRead(h) PROVE AccessInv'
<1> DEFINE l == [loc[h] EXCEPT !.sub = sub, !.plan = Row(h).plan]
<1>1. TypeInv' /\ h \in Proc
  BY ApplyReadTyped DEF AccessInv, Proc
<1>2. /\ Moves(h, "applyTx", l)
      /\ l.inv = loc[h].inv /\ l.st = loc[h].st /\ l.plan = inv[loc[h].inv].plan
  BY <1>1, Here DEF ApplyRead, Go, Moves, TypeInv, TypeOK, Local, Row
<1>3. Seen(loc[h].inv, loc[h].st)
  BY <1>1, Here DEF ApplyRead, At, Carried, StatusLabels
<1>4. Carried("applyTx", l)
  BY <1>2, <1>3 DEF Carried
<1>5. UNCHANGED <<inv, order, notes, sub, snap>>
  BY DEF ApplyRead, db, gateway
<1> HIDE DEF l
<1>. QED BY <1>1, <1>2, <1>4, <1>5, QuietMove DEF Reserving

LEMMA ApplyTxKeeps ==
  ASSUME AccessInv, NEW h \in Handler, ApplyTx(h) PROVE AccessInv'
<1>1. TypeInv' /\ h \in Proc
  BY ApplyTxTyped DEF AccessInv, Proc
<1>2. Moves(h, "applyInvoice", loc[h])
  BY <1>1, Here, MovesHere DEF ApplyTx
<1>3. Carried("applyInvoice", loc[h])
  BY <1>1, Here DEF ApplyTx, At, Carried, StatusLabels
<1>4. UNCHANGED <<inv, order, notes, sub, snap>>
  BY DEF ApplyTx, gateway
<1>. QED BY <1>1, <1>2, <1>3, <1>4, QuietMove DEF Reserving

LEMMA ApplySubscriptionKeeps ==
  ASSUME AccessInv, NEW h \in Handler, ApplySubscription(h) PROVE AccessInv'
<1> DEFINE st == mapSubscriptionStatusFromTransaction(loc[h].st, loc[h].sub.status)
           l == [loc[h] EXCEPT !.sub = sub']
<1>1. TypeInv' /\ h \in Proc
  BY ApplySubscriptionTyped DEF AccessInv, Proc
<1>2. Moves(h, "snapshot", l) /\ l.inv = loc[h].inv /\ l.sub = sub'
  BY <1>1, Here DEF ApplySubscription, Go, Moves, TypeInv, TypeOK, Local
<1>3. loc[h].st \in TxStatus /\ loc[h].st # "settlement"
  BY <1>1, Here DEF ApplySubscription, At, Carried, LocalTyped, StatusLabels, Local
<1>4. st # "ACTIVE"
  BY <1>3 DEF mapSubscriptionStatusFromTransaction, TxStatus
<1>5. sub'.status = st
  <2>1. sub' = [sub EXCEPT !.status = st, !.graceEnd = sub'.graceEnd]
    <3> DEFINE g == IF st = "GRACE_PERIOD" THEN loc[h].at + Grace ELSE NoTime
    <3>1. sub' = [sub EXCEPT !.status = st, !.graceEnd = g]
      BY Zenon DEF ApplySubscription
    <3>2. sub \in Subscription
      BY DEF AccessInv, TypeInv, TypeOK
    <3> HIDE DEF st, g
    <3>. QED BY <3>1, <3>2 DEF Subscription
  <2>2. sub \in Subscription
    BY DEF AccessInv, TypeInv, TypeOK
  <2> HIDE DEF st
  <2>. QED BY <2>1, <2>2 DEF Subscription
<1>6. Granted(sub')
  BY <1>4, <1>5 DEF Granted
<1>7. Carried("snapshot", l)
  BY <1>2, <1>6 DEF Carried, StatusLabels
<1>8. UNCHANGED <<inv, order, notes, snap>>
  BY DEF ApplySubscription, gateway
<1> HIDE DEF l
<1>. QED BY <1>1, <1>2, <1>6, <1>7, <1>8, QuietMove DEF Reserving

LEMMA ActivateReadKeeps ==
  ASSUME AccessInv, NEW h \in Handler, ActivateRead(h) PROVE AccessInv'
<1> DEFINE l == [loc[h] EXCEPT !.sub = sub]
<1>1. TypeInv' /\ h \in Proc
  BY ActivateReadTyped DEF AccessInv, Proc
<1>2. Moves(h, "activateWrite", l) /\ l.inv = loc[h].inv /\ l.plan = loc[h].plan
  BY <1>1, Here DEF ActivateRead, Go, Moves, TypeInv, TypeOK, Local
<1>3. loc[h].plan \in Paid => Bought(loc[h].plan)
  BY <1>1, Here DEF ActivateRead, At, Carried
<1>4. Carried("activateWrite", l)
  BY <1>2, <1>3 DEF Carried, StatusLabels
<1>5. UNCHANGED <<inv, order, notes, sub, snap>>
  BY DEF ActivateRead, db, gateway
<1> HIDE DEF l
<1>. QED BY <1>1, <1>2, <1>4, <1>5, QuietMove DEF Reserving

LEMMA ActivateWriteKeeps ==
  ASSUME AccessInv, NEW h \in Handler, ActivateWrite(h) PROVE AccessInv'
<1> DEFINE l == [loc[h] EXCEPT !.sub = sub']
<1>1. TypeInv' /\ h \in Proc
  BY ActivateWriteTyped DEF AccessInv, Proc
<1>2. Moves(h, "snapshot", l) /\ l.inv = loc[h].inv /\ l.sub = sub'
  BY <1>1, Here DEF ActivateWrite, Go, Moves, TypeInv, TypeOK, Local
<1>3. loc[h].plan \in Paid => Bought(loc[h].plan)
  BY <1>1, Here DEF ActivateWrite, At, Carried
<1>4. sub'.plan = loc[h].plan
  <2> DEFINE end == NextPeriodStart(Row(h).cycle, loc[h].sub.periodEnd, loc[h].at)
                      + Period[loc[h].plan]
             auto == loc[h].plan \in Paid /\ loc[h].sub.autoRenew
  <2>1. sub' = [plan |-> loc[h].plan, status |-> "ACTIVE", periodEnd |-> end,
                graceEnd |-> NoTime, autoRenew |-> auto]
    BY Zenon DEF ActivateWrite
  <2> HIDE DEF end, auto
  <2>. QED BY <2>1
<1>5. Granted(sub')
  BY <1>3, <1>4 DEF Granted
<1>6. Carried("snapshot", l)
  BY <1>2, <1>5 DEF Carried, StatusLabels
<1>7. UNCHANGED <<inv, order, notes, snap>>
  BY DEF ActivateWrite, gateway
<1> HIDE DEF l
<1>. QED BY <1>1, <1>2, <1>5, <1>6, <1>7, QuietMove DEF Reserving

LEMMA RefreshSnapshotKeeps ==
  ASSUME AccessInv, NEW p \in Proc, RefreshSnapshot(p) PROVE AccessInv'
<1>1. TypeInv'
  BY RefreshSnapshotTyped DEF AccessInv
<1>2. Granted(loc[p].sub)
  BY Here DEF RefreshSnapshot, At, Carried
<1>3. Granted(snap') /\ UNCHANGED <<inv, order, notes, sub>>
  BY <1>2 DEF RefreshSnapshot, Granted, gateway
<1>4. CASE loc[p].att # 0
  <2>1. Moves(p, "ack", loc[p])
    BY <1>4, Here, MovesHere DEF RefreshSnapshot
  <2>2. Carried("ack", loc[p])
    BY DEF Carried
  <2>. QED BY <1>1, <1>3, <2>1, <2>2, QuietMove DEF Reserving
<1>5. CASE loc[p].att = 0
  BY <1>1, <1>3, <1>5, ContinueKeeps DEF RefreshSnapshot
<1>. QED BY <1>4, <1>5

LEMMA AbortKeeps ==
  ASSUME AccessInv, NEW p \in Proc, Abort(p) PROVE AccessInv'
<1>1. TypeInv'
  BY AbortTyped DEF AccessInv
<1>2. UNCHANGED <<inv, order, notes, sub, snap>> /\ Finish(p)
  BY DEF Abort, db, gateway
<1>. QED BY <1>1, <1>2, QuietFinish

LEMMA LifecycleScanKeeps ==
  ASSUME AccessInv, LifecycleScan PROVE AccessInv'
<1> DEFINE l == [loc[BG] EXCEPT !.sub = sub]
<1>1. TypeInv' /\ BG \in Proc
  BY LifecycleScanTyped DEF AccessInv, Proc
<1>2. UNCHANGED <<inv, order, notes, sub, snap>>
  BY DEF LifecycleScan, db, gateway
<1>3. \/ Moves(BG, "lifecycle", l) /\ l.inv = loc[BG].inv
      \/ Moves(BG, "renewalScan", loc[BG])
  BY <1>1, Here, MovesHere DEF LifecycleScan, Go, Moves, TypeInv, TypeOK, Local
<1>4. Carried("lifecycle", l) /\ Carried("renewalScan", loc[BG])
  BY DEF Carried, StatusLabels
<1> HIDE DEF l
<1>. QED BY <1>1, <1>2, <1>3, <1>4, QuietMove DEF Reserving

LEMMA LifecycleWriteKeeps ==
  ASSUME AccessInv, LifecycleWrite PROVE AccessInv'
<1> DEFINE l == [loc[BG] EXCEPT !.sub = sub']
<1>1. TypeInv' /\ BG \in Proc
  BY LifecycleWriteTyped DEF AccessInv, Proc
<1>2. UNCHANGED <<inv, order, notes, snap>>
  BY DEF LifecycleWrite, gateway
<1>3. Moves(BG, "snapshot", l) /\ l.inv = loc[BG].inv /\ l.sub = sub'
  BY <1>1, Here DEF LifecycleWrite, Go, Moves, TypeInv, TypeOK, Local
<1>4. sub'.status \in {"EXPIRED", "GRACE_PERIOD"}
  BY DEF LifecycleWrite, AccessInv, TypeInv, TypeOK, Subscription
<1>5. Granted(sub')
  BY <1>4 DEF Granted
<1>6. Carried("snapshot", l)
  BY <1>3, <1>5 DEF Carried, StatusLabels
<1> HIDE DEF l
<1>. QED BY <1>1, <1>2, <1>3, <1>5, <1>6, QuietMove DEF Reserving

LEMMA RenewalScanKeeps ==
  ASSUME AccessInv, RenewalScan PROVE AccessInv'
<1> DEFINE l == [loc[BG] EXCEPT !.sub = sub]
<1>1. TypeInv' /\ BG \in Proc
  BY RenewalScanTyped DEF AccessInv, Proc
<1>2. UNCHANGED <<inv, order, notes, sub, snap>>
  BY DEF RenewalScan, db, gateway
<1>3. \/ Moves(BG, "renewalCheck", l) /\ l.inv = loc[BG].inv
      \/ Finish(BG)
      \/ Moves(BG, "cleanupScan", loc[BG])
  BY <1>1, Here, MovesHere DEF RenewalScan, Go, Moves, TypeInv, TypeOK, Local
<1>4. Carried("renewalCheck", l) /\ Carried("cleanupScan", loc[BG])
  BY DEF Carried, StatusLabels
<1> HIDE DEF l
<1>. QED BY <1>1, <1>2, <1>3, <1>4, QuietMove, QuietFinish DEF Reserving

LEMMA RenewalCheckKeeps ==
  ASSUME AccessInv, RenewalCheck PROVE AccessInv'
<1>1. TypeInv' /\ BG \in Proc
  BY RenewalCheckTyped DEF AccessInv, Proc
<1>2. UNCHANGED <<inv, order, notes, sub, snap>>
  BY DEF RenewalCheck, db, gateway
<1>3. CASE Continue(BG, "cleanupScan")
  BY <1>1, <1>2, <1>3, ContinueKeeps
<1>4. CASE ~Continue(BG, "cleanupScan")
  <2>1. PICK i \in Invoice : FreshId(i) /\ loc' = [loc EXCEPT ![BG].inv = i]
    BY <1>4 DEF RenewalCheck
  <2> DEFINE l == [loc[BG] EXCEPT !.inv = i]
  <2>2. Moves(BG, "renewalCreate", l) /\ l.inv = i
    BY <1>1, <1>4, <2>1, Here DEF RenewalCheck, Go, Moves, TypeInv, TypeOK, Local
  <2>3. NotReserved(i)
    BY <1>1, <2>1, Here, NotReservedHolds
  <2>4. ~Spent(i) /\ \A q \in Proc : loc[q].inv # i
    BY <2>1 DEF FreshId, Spent
  <2>5. Carried("renewalCreate", l)
    BY DEF Carried, StatusLabels
  <2> HIDE DEF l
  <2>. QED BY <1>1, <1>2, <2>2, <2>3, <2>4, <2>5, QuietMove
<1>. QED BY <1>3, <1>4

LEMMA CleanupScanKeeps ==
  ASSUME AccessInv, CleanupScan PROVE AccessInv'
<1> DEFINE old == {i \in Invoice : IsCleanable(inv[i], clock, Retention)}
           l == [loc[BG] EXCEPT !.ids = old]
<1>1. TypeInv' /\ BG \in Proc
  BY CleanupScanTyped DEF AccessInv, Proc
<1>2. UNCHANGED <<inv, order, notes, sub, snap>>
  BY DEF CleanupScan, db, gateway
<1>3. \A i \in old : Spent(i)
  BY DEF IsCleanable, Spent
<1>4. Finish(BG) \/ (Moves(BG, "cleanup", l) /\ l.inv = loc[BG].inv /\ l.ids = old)
  <2>1. Finish(BG) \/ (Go(BG, "cleanup") /\ loc' = [loc EXCEPT ![BG].ids = old])
    BY Zenon DEF CleanupScan
  <2> HIDE DEF old
  <2>. QED BY <1>1, <2>1, Here DEF Go, Moves, TypeInv, TypeOK, Local
<1>5. l.ids = old => Carried("cleanup", l)
  <2> HIDE DEF old
  <2>. QED BY <1>3 DEF Carried, StatusLabels
<1> HIDE DEF l, old
<1>. QED BY <1>1, <1>2, <1>4, <1>5, QuietMove, QuietFinish DEF Reserving

-----------------------------------------------------------------------------
(* Actions that change rows or the gateway.                                *)

\* What InvoiceBackedByGateway says of a row for i that holds r.
Backed(i, r) ==
  r.plan \in Paid =>
    /\ r.status = "PENDING_PAYMENT" => order[i] # NoTx
    /\ r.status = "PAID" => Reported(i, "settlement")
    /\ r.status = "EXPIRED" => Reported(i, "expired")
    /\ r.status = "VOID" => Reported(i, "cancelled")
    /\ r.status = "REFUNDED" => Reported(i, "refunded")

LEMMA GrantsStable ==
  ASSUME AccessInv, Grows, UNCHANGED <<sub, snap>>
  PROVE  Granted(sub)' /\ Granted(snap)'
BY BoughtStable DEF AccessInv, Granted, Bought, Reported

\* One process writes the row it works on.
LEMMA RowMove ==
  ASSUME AccessInv, TypeInv', UNCHANGED <<order, notes, sub, snap>>,
         NEW p \in Proc, NEW label, NEW l, Moves(p, label, l), label \notin Reserving,
         l.inv = loc[p].inv \/ NotReserved(l.inv), CarriedOK(p)',
         NEW i \in Invoice, i = loc[p].inv,
         NEW r, inv' = [inv EXCEPT ![i] = r], r.status # "UNUSED",
         Spent(i) => r.plan = inv[i].plan, Backed(i, r)
  PROVE  AccessInv'
<1>1. inv'[i] = r /\ \A j \in Invoice \ {i} : inv'[j] = inv[j]
  BY DEF AccessInv, TypeInv, TypeOK
<1>2. Grows
  BY <1>1 DEF Grows, Spent
<1>3. ReservedOK(p)'
  BY DEF Moves, ReservedOK, AccessInv, TypeInv, TypeOK
<1>4. \A j \in Invoice : inv'[j].status # "UNUSED" => Spent(j) \/ j = loc[p].inv
  BY <1>1 DEF Spent
<1>5. ProcessesOK'
  BY <1>2, <1>3, <1>4, MoveOK DEF AccessInv
<1>6. GatewayOK'
  BY <1>1 DEF AccessInv, GatewayOK, Reported, Spent
<1>7. InvoiceBackedByGateway'
  BY <1>1 DEF AccessInv, InvoiceBackedByGateway, Backed, Reported
<1>. QED BY <1>2, <1>5, <1>6, <1>7, GrantsStable DEF AccessInv

\* The same for a statement that writes a status and leaves the locals.
LEMMA StatusMove ==
  ASSUME AccessInv, TypeInv', UNCHANGED <<order, notes, sub, snap>>,
         NEW p \in Proc, NEW label, NEW l, Moves(p, label, l), label \notin Reserving,
         l.inv = loc[p].inv \/ NotReserved(l.inv), CarriedOK(p)',
         NEW i \in Invoice, i = loc[p].inv, Spent(i),
         NEW s \in InvoiceStatus, inv' = [inv EXCEPT ![i].status = s],
         Backed(i, [plan |-> inv[i].plan, status |-> s])
  PROVE  AccessInv'
<1> DEFINE r == [inv[i] EXCEPT !.status = s]
<1>1. inv \in [Invoice -> InvoiceRow]
  BY DEF AccessInv, TypeInv, TypeOK
<1>2. inv' = [inv EXCEPT ![i] = r] /\ r.status = s /\ r.plan = inv[i].plan
  BY <1>1 DEF InvoiceRow
<1>3. Backed(i, r)
  BY <1>2 DEF Backed
<1>4. s # "UNUSED"
  BY DEF InvoiceStatus
<1> HIDE DEF r
<1>. QED BY <1>2, <1>3, <1>4, RowMove

LEMMA CheckoutInvoiceKeeps ==
  ASSUME AccessInv, NEW h \in Handler, CheckoutInvoice(h) PROVE AccessInv'
<1> DEFINE status == IF loc[h].plan \in Paid THEN "DRAFT" ELSE "PAID"
           next == IF loc[h].plan \in Paid THEN "charge" ELSE "activateRead"
           r == [status |-> status, plan |-> loc[h].plan, cycle |-> "checkout",
                 due |-> NoTime, created |-> clock]
<1>1. TypeInv' /\ h \in Proc
  BY CheckoutInvoiceTyped DEF AccessInv, Proc
<1>2. loc[h].inv \in Invoice /\ ~Spent(loc[h].inv)
  BY <1>1, Here DEF CheckoutInvoice, At, LocalTyped, RowLabels, ReservedOK, Reserving
<1>3. inv' = [inv EXCEPT ![loc[h].inv] = r] /\ UNCHANGED <<order, notes, sub, snap>>
  BY DEF CheckoutInvoice, gateway
<1>4. Moves(h, next, loc[h])
  BY <1>1, Here, MovesHere DEF CheckoutInvoice
<1>5. r.status # "UNUSED" /\ Backed(loc[h].inv, r)
  BY DEF Backed
<1>6. CarriedOK(h)'
  <2>1. pc'[h] = next /\ loc'[h] = loc[h]
    BY <1>1, <1>4, Here DEF Moves, TypeInv, TypeOK
  <2>2. inv'[loc[h].inv].status # "UNUSED"
    BY <1>2, <1>3, Here, <1>1 DEF TypeInv, TypeOK
  <2>. QED BY <2>1, <2>2 DEF CarriedOK, Carried, Spent, StatusLabels
<1>7. next \notin Reserving
  BY DEF Reserving
<1> HIDE DEF next, r
<1>. QED BY <1>1, <1>2, <1>3, <1>4, <1>5, <1>6, <1>7, RowMove

LEMMA RenewalCreateKeeps ==
  ASSUME AccessInv, RenewalCreate PROVE AccessInv'
<1> DEFINE r == [status |-> "DRAFT", plan |-> loc[BG].sub.plan, cycle |-> "renewal",
                 due |-> loc[BG].sub.periodEnd, created |-> clock]
<1>1. TypeInv' /\ BG \in Proc
  BY RenewalCreateTyped DEF AccessInv, Proc
<1>2. loc[BG].inv \in Invoice /\ ~Spent(loc[BG].inv)
  BY <1>1, Here DEF RenewalCreate, At, LocalTyped, RowLabels, ReservedOK, Reserving
<1>3. inv' = [inv EXCEPT ![loc[BG].inv] = r] /\ UNCHANGED <<order, notes, sub, snap>>
  BY DEF RenewalCreate, gateway
<1>4. Moves(BG, "charge", loc[BG])
  BY <1>1, Here, MovesHere DEF RenewalCreate
<1>5. r.status # "UNUSED" /\ Backed(loc[BG].inv, r)
  BY DEF Backed
<1>6. CarriedOK(BG)'
  <2>1. pc'[BG] = "charge" /\ loc'[BG] = loc[BG]
    BY <1>1, <1>4, Here DEF Moves, TypeInv, TypeOK
  <2>2. inv'[loc[BG].inv].status # "UNUSED"
    BY <1>2, <1>3, Here, <1>1 DEF TypeInv, TypeOK
  <2>. QED BY <2>1, <2>2 DEF CarriedOK, Carried, Spent, StatusLabels
<1> HIDE DEF r
<1>. QED BY <1>1, <1>2, <1>3, <1>4, <1>5, <1>6, RowMove DEF Reserving

LEMMA RowIsSpent ==
  ASSUME NEW i, HasRow(i) PROVE Spent(i)
BY DEF HasRow, Spent, InvoiceStatus

LEMMA ChargePendingKeeps ==
  ASSUME AccessInv, NEW p \in Proc, ChargePending(p) PROVE AccessInv'
<1>1. TypeInv'
  BY ChargePendingTyped DEF AccessInv
<1>2. loc[p].inv \in Invoice /\ order[loc[p].inv] # NoTx /\ Spent(loc[p].inv)
  BY Here, RowIsSpent DEF ChargePending, At, LocalTyped, RowLabels, Carried
<1>3. Moves(p, "store", loc[p])
  BY Here, MovesHere DEF ChargePending
<1>4. Backed(loc[p].inv, [plan |-> inv[loc[p].inv].plan, status |-> "PENDING_PAYMENT"])
  BY <1>2 DEF Backed
<1>5. CarriedOK(p)'
  BY <1>3, Here DEF Moves, TypeInv, TypeOK, CarriedOK, Carried, StatusLabels
<1>6. /\ inv' = [inv EXCEPT ![loc[p].inv].status = "PENDING_PAYMENT"]
      /\ UNCHANGED <<order, notes, sub, snap>>
  BY DEF ChargePending, gateway
<1>. QED BY <1>1, <1>2, <1>3, <1>4, <1>5, <1>6, StatusMove DEF Reserving, InvoiceStatus

LEMMA ChargeFailedKeeps ==
  ASSUME AccessInv, NEW p \in Proc, ChargeFailed(p) PROVE AccessInv'
<1> DEFINE l == IF p = BG THEN [IdleLocal EXCEPT !.late = loc[p].late] ELSE IdleLocal
           next == IF p = BG THEN "cleanupScan" ELSE "idle"
<1>1. TypeInv'
  BY ChargeFailedTyped DEF AccessInv
<1>2. loc[p].inv \in Invoice /\ Spent(loc[p].inv)
  BY Here, RowIsSpent DEF ChargeFailed, At, LocalTyped, RowLabels
<1>3. Moves(p, next, l)
  BY DEF ChargeFailed, Continue, Finish, Go, Moves
<1>4. l.inv = NoInvoice /\ NotReserved(NoInvoice)
  BY NotReservedHolds DEF IdleLocal, AccessInv
<1>5. Backed(loc[p].inv, [plan |-> inv[loc[p].inv].plan, status |-> "FAILED"])
  BY DEF Backed
<1>6. CarriedOK(p)'
  BY <1>3, Here DEF Moves, TypeInv, TypeOK, CarriedOK, Carried, StatusLabels
<1>7. /\ inv' = [inv EXCEPT ![loc[p].inv].status = "FAILED"]
      /\ UNCHANGED <<order, notes, sub, snap>>
  BY DEF ChargeFailed, gateway
<1>8. next \notin Reserving /\ "FAILED" \in InvoiceStatus
  BY DEF Reserving, InvoiceStatus
<1> HIDE DEF l, next
<1>. QED BY <1>1, <1>2, <1>3, <1>4, <1>5, <1>6, <1>7, <1>8, StatusMove

LEMMA ApplyInvoiceKeeps ==
  ASSUME AccessInv, NEW h \in Handler, ApplyInvoice(h) PROVE AccessInv'
<1> DEFINE s == mapInvoiceStatusFromTransaction(loc[h].st)
           next == IF loc[h].st = "settlement" THEN "activateRead" ELSE "applySub"
           i == loc[h].inv
<1>1. TypeInv' /\ h \in Proc
  BY ApplyInvoiceTyped DEF AccessInv, Proc
<1>2. i \in Invoice /\ Spent(i) /\ loc[h].st \in TxStatus
  BY <1>1, Here, RowIsSpent
     DEF ApplyInvoice, At, LocalTyped, RowLabels, StatusLabels, Local
<1>3. Seen(i, loc[h].st) /\ loc[h].plan = inv[i].plan
  BY <1>1, Here DEF ApplyInvoice, At, Carried, StatusLabels
<1>4. Moves(h, next, loc[h])
  BY <1>1, Here, MovesHere DEF ApplyInvoice
<1>5. s \in InvoiceStatus /\ Backed(i, [plan |-> inv[i].plan, status |-> s])
  BY <1>2, <1>3 DEF Backed, mapInvoiceStatusFromTransaction, TxStatus, Seen, InvoiceStatus
<1>6. inv' = [inv EXCEPT ![i].status = s] /\ UNCHANGED <<order, notes, sub, snap>>
  BY DEF ApplyInvoice, gateway
<1>7. CarriedOK(h)'
  <2>1. pc'[h] = next /\ loc'[h] = loc[h]
    BY <1>1, <1>4, Here DEF Moves, TypeInv, TypeOK
  <2>2. inv'[i].plan = inv[i].plan
    BY <1>1, <1>2, <1>6, Here DEF TypeInv, TypeOK, InvoiceRow
  <2>3. next = "activateRead" => Bought(loc[h].plan)'
    <3>1. next = "activateRead" => \E n \in notes : n.inv = i /\ n.st = "settlement"
      BY <1>3 DEF Seen, Reported
    <3>. QED BY <1>2, <1>3, <1>6, <2>1, <2>2, <3>1 DEF Bought, Reported
  <2>4. next = "applySub" => Seen(i, loc[h].st)'
    BY <1>3, <1>6, <2>1 DEF Seen, Reported
  <2>. QED BY <2>1, <2>3, <2>4 DEF CarriedOK, Carried, StatusLabels
<1>8. next \notin Reserving
  BY DEF Reserving
<1> HIDE DEF s, next, i
<1>9. i = loc[h].inv
  BY DEF i
<1>. QED BY <1>1, <1>2, <1>4, <1>5, <1>6, <1>7, <1>8, <1>9, StatusMove

LEMMA CleanupDeleteKeeps ==
  ASSUME AccessInv, CleanupDelete PROVE AccessInv'
<1> DEFINE old == loc[BG].ids
<1>1. TypeInv' /\ BG \in Proc
  BY CleanupDeleteTyped DEF AccessInv, Proc
<1>2. \A i \in old : Spent(i)
  BY <1>1, Here DEF CleanupDelete, At, Carried
<1>3. UNCHANGED <<order, notes, sub, snap>>
  BY DEF CleanupDelete, gateway
<1>4. \A i \in Invoice :
        \/ inv'[i] = inv[i]
        \/ Spent(i) /\ inv'[i].status = "DELETED" /\ inv'[i].plan = inv[i].plan
  BY <1>2 DEF CleanupDelete, AccessInv, TypeInv, TypeOK, InvoiceRow
<1>5. Grows
  BY <1>3, <1>4 DEF Grows, Spent
<1>6. Moves(BG, "idle", IdleLocal) /\ NotReserved(IdleLocal.inv)
  BY NotReservedHolds DEF CleanupDelete, Finish, Go, Moves, IdleLocal, AccessInv
<1>7. ReservedOK(BG)' /\ CarriedOK(BG)'
  BY <1>1, <1>6, Here
     DEF Moves, TypeInv, TypeOK, ReservedOK, CarriedOK, Carried, StatusLabels, Reserving
<1>8. ProcessesOK'
  BY <1>1, <1>4, <1>5, <1>6, <1>7, MoveOK DEF AccessInv, Spent
<1>9. GatewayOK'
  BY <1>3, <1>4 DEF AccessInv, GatewayOK, Reported, Spent
<1>10. InvoiceBackedByGateway'
  BY <1>3, <1>4 DEF AccessInv, InvoiceBackedByGateway, Reported
<1>. QED BY <1>1, <1>3, <1>5, <1>8, <1>9, <1>10, GrantsStable DEF AccessInv

\* A step of the gateway moves one order to a status it then reports, or
\* registers it.
LEMMA OrderKeeps ==
  ASSUME AccessInv, NEW i \in Invoice, NEW st \in TxStatus, Spent(i),
         UNCHANGED inv, order' = [order EXCEPT ![i] = st],
         notes \subseteq notes', \A n \in notes' \ notes : n.inv = i,
         st # "pending" => \E n \in notes' : n.inv = i /\ n.st = st
  PROVE  Grows /\ GatewayOK' /\ InvoiceBackedByGateway'
<1>1. order'[i] = st /\ \A j \in Invoice \ {i} : order'[j] = order[j]
  BY DEF AccessInv, TypeInv, TypeOK
<1>2. st # NoTx
  BY NoTxIsNoStatus
<1>3. Grows
  BY <1>1, <1>2 DEF Grows, Spent
<1>4. \A n \in notes : n.inv \in Invoice /\ order[n.inv] # NoTx
  BY DEF AccessInv, TypeInv, TypeOK, Note, GatewayOK
<1>5. (\A n \in notes : order[n.inv] # NoTx)'
  BY <1>1, <1>2, <1>4
<1>6. (\A j \in Invoice : order[j] \notin {NoTx, "pending"} => Reported(j, order[j]))'
  BY <1>1 DEF AccessInv, GatewayOK, Reported
<1>7. (\A j \in Invoice : order[j] # NoTx => Spent(j))'
  BY <1>1 DEF AccessInv, GatewayOK, Spent
<1>8. InvoiceBackedByGateway'
  BY <1>1, <1>2 DEF AccessInv, InvoiceBackedByGateway, Reported
<1>. QED BY <1>3, <1>5, <1>6, <1>7, <1>8 DEF GatewayOK

LEMMA CreateChargeKeeps ==
  ASSUME AccessInv, NEW p \in Proc, CreateCharge(p) PROVE AccessInv'
<1> DEFINE i == loc[p].inv
<1>1. TypeInv'
  BY CreateChargeTyped DEF AccessInv
<1>2. i \in Invoice /\ Spent(i)
  BY Here DEF CreateCharge, At, LocalTyped, RowLabels, Carried
<1>3. UNCHANGED <<inv, sub, snap>>
  BY DEF CreateCharge, db
<1>4. Moves(p, "pending", loc[p]) \/ Moves(p, "chargeFailed", loc[p])
  BY Here, MovesHere DEF CreateCharge
<1>5. CASE UNCHANGED <<order, notes>>
  <2>1. PICK outcome \in ChargeOutcomes :
          /\ Go(p, IF outcome = "ok" THEN "pending" ELSE "chargeFailed")
          /\ outcome # "refused" => order' = [order EXCEPT ![i] = "pending"]
    BY DEF CreateCharge
  <2>2. CASE outcome = "ok"
    <3>1. order[i] # NoTx
      BY <1>2, <1>5, <2>1, <2>2, Here DEF TypeInv, TypeOK, NoTx
    <3>2. Carried("pending", loc[p])
      BY <3>1 DEF Carried, StatusLabels
    <3>3. Moves(p, "pending", loc[p])
      BY <2>1, <2>2, Here, MovesHere DEF CreateCharge
    <3>. QED BY <1>1, <1>3, <1>5, <3>2, <3>3, QuietMove DEF Reserving
  <2>3. CASE outcome # "ok"
    <3>1. Carried("chargeFailed", loc[p])
      BY DEF Carried, StatusLabels
    <3>2. Moves(p, "chargeFailed", loc[p])
      BY <2>1, <2>3, Here, MovesHere DEF CreateCharge
    <3>. QED BY <1>1, <1>3, <1>5, <3>1, <3>2, QuietMove DEF Reserving
  <2>. QED BY <2>2, <2>3
<1>6. CASE ~UNCHANGED <<order, notes>>
  <2>1. /\ order' = [order EXCEPT ![i] = "pending"]
        /\ notes \subseteq notes' /\ \A n \in notes' \ notes : n.inv = i
    BY <1>6 DEF CreateCharge
  <2>2. Grows /\ GatewayOK' /\ InvoiceBackedByGateway'
    BY <1>2, <1>3, <2>1, OrderKeeps DEF TxStatus
  <2>3. PICK label \in {"pending", "chargeFailed"} : Moves(p, label, loc[p])
    BY <1>4
  <2>4. pc'[p] = label /\ loc'[p] = loc[p] /\ order'[i] # NoTx
    BY <1>2, <2>1, <2>3, Here DEF Moves, TypeInv, TypeOK, NoTx
  <2>5. ReservedOK(p)' /\ CarriedOK(p)'
    BY <2>4 DEF ReservedOK, CarriedOK, Carried, StatusLabels, Reserving
  <2>6. ProcessesOK'
    BY <1>3, <2>2, <2>3, <2>5, Here, MoveOK DEF Spent
  <2>. QED BY <1>1, <1>3, <2>2, <2>6, GrantsStable DEF AccessInv
<1>. QED BY <1>5, <1>6

-----------------------------------------------------------------------------
(* Steps that concern every process.                                       *)

LEMMA GatewayStepKeeps ==
  ASSUME AccessInv, GatewayStep PROVE AccessInv'
<1>1. TypeInv'
  BY GatewayStepTyped DEF AccessInv
<1>2. PICK i \in Invoice, st \in Outcomes :
        /\ st \in GatewayNext(order[i])
        /\ order' = [order EXCEPT ![i] = st]
        /\ notes' = notes \cup {[inv |-> i, st |-> st, at |-> clock]}
  BY DEF GatewayStep
<1>3. UNCHANGED <<inv, sub, snap, pc, loc>>
  BY DEF GatewayStep, db
<1>4. order[i] # NoTx /\ st \in TxStatus
  BY <1>2, OutcomesAssumption DEF GatewayNext, NoTx
<1>5. Spent(i)
  BY <1>4 DEF AccessInv, GatewayOK
<1>6. Grows /\ GatewayOK' /\ InvoiceBackedByGateway'
  <2>1. notes \subseteq notes' /\ \A n \in notes' \ notes : n.inv = i
    BY <1>2
  <2>2. \E n \in notes' : n.inv = i /\ n.st = st
    <3>1. [inv |-> i, st |-> st, at |-> clock] \in notes'
      BY <1>2
    <3>. QED BY <3>1
  <2>3. UNCHANGED inv /\ order' = [order EXCEPT ![i] = st]
    BY <1>2, <1>3
  <2>. QED BY <1>4, <1>5, <2>1, <2>2, <2>3, OrderKeeps
<1>7. ASSUME NEW p \in Proc PROVE ReservedOK(p)' /\ CarriedOK(p)'
  <2>1. ReservedOK(p)'
    BY <1>3, Here DEF ReservedOK, Spent
  <2>2. \A there, has : has \in Local /\ LocalTyped(there, has) /\ Carried(there, has)
                          => Carried(there, has)'
    BY <1>6, CarriedStable DEF AccessInv
  <2>3. CarriedOK(p)'
    BY <1>3, <2>2, Here DEF CarriedOK, Carried, Granted, Seen, Reported, Bought, Spent
  <2>. QED BY <2>1, <2>3
<1>. QED BY <1>1, <1>3, <1>6, <1>7, GrantsStable DEF AccessInv, ProcessesOK

LEMMA TickKeeps ==
  ASSUME AccessInv, Tick PROVE AccessInv'
<1>1. TypeInv'
  BY TickTyped DEF AccessInv
<1>2. UNCHANGED <<inv, order, notes, sub, snap, pc>>
  BY DEF Tick, db, gateway
<1>3. ASSUME NEW p \in Proc
      PROVE  /\ loc'[p].inv = loc[p].inv /\ loc'[p].plan = loc[p].plan
             /\ loc'[p].st = loc[p].st /\ loc'[p].sub = loc[p].sub
             /\ loc'[p].ids = loc[p].ids
  <2> DEFINE late == ~At(p, "idle")
  <2>1. loc'[p] = [loc[p] EXCEPT !.late = late] /\ loc[p] \in Local
    BY Here, Processes DEF Tick, AccessInv
  <2> HIDE DEF late
  <2>. QED BY <2>1 DEF Local
<1>4. ASSUME NEW p \in Proc PROVE ReservedOK(p)' /\ CarriedOK(p)'
  <2>1. ReservedOK(p) /\ Carried(pc[p], loc[p])
    BY Here
  <2>2. ReservedOK(p)'
    BY <1>2, <1>3, <2>1 DEF ReservedOK, Spent
  <2>3. CarriedOK(p)'
    BY <1>2, <1>3, <2>1 DEF CarriedOK, Carried, Granted, Seen, Reported, Bought, Spent
  <2>. QED BY <2>2, <2>3
<1>. QED BY <1>1, <1>2, <1>4
  DEF AccessInv, ProcessesOK, GatewayOK, InvoiceBackedByGateway, Granted, Bought,
      Reported, Spent

LEMMA CrashKeeps ==
  ASSUME AccessInv, Crash PROVE AccessInv'
<1>1. TypeInv'
  BY CrashTyped DEF AccessInv
<1>2. UNCHANGED <<inv, order, notes, sub, snap>>
  BY DEF Crash, db, gateway
<1>3. ProcessesOK'
  BY Processes DEF Crash, AccessInv, ProcessesOK, ReservedOK, CarriedOK, Carried, Reserving,
      StatusLabels
<1>. QED BY <1>1, <1>2, <1>3
  DEF AccessInv, GatewayOK, InvoiceBackedByGateway, Granted, Bought, Reported, Spent

LEMMA AccessInit == Init => AccessInv
<1> SUFFICES ASSUME Init PROVE AccessInv
  OBVIOUS
<1>1. GatewayOK /\ InvoiceBackedByGateway
  BY DEF Init, GatewayOK, InvoiceBackedByGateway, NoTx
<1>2. ProcessesOK
  BY DEF Init, ProcessesOK, ReservedOK, CarriedOK, Carried, Reserving, StatusLabels
<1>3. Granted(sub) /\ Granted(snap)
  BY DEF Init, Granted, DefaultSubscription
<1>. QED BY <1>1, <1>2, <1>3, TypeInit DEF AccessInv

LEMMA AccessStep == AccessInv /\ [Next]_vars => AccessInv'
<1> SUFFICES ASSUME AccessInv, [Next]_vars PROVE AccessInv'
  OBVIOUS
<1>1. ASSUME NEW h \in Handler, Arrive(h) PROVE AccessInv'
  BY <1>1, CheckoutStartKeeps, CallbackStartKeeps, RefreshLookupKeeps DEF Arrive
<1>2. ASSUME NEW h \in Handler, RequestStep(h) PROVE AccessInv'
  BY <1>2, CheckoutReserveKeeps, CheckoutInvoiceKeeps, CallbackRecordKeeps,
     CallbackAckKeeps, RefreshStoreKeeps, ApplyReadKeeps, ApplyTxKeeps,
     ApplyInvoiceKeeps, ApplySubscriptionKeeps, ActivateReadKeeps,
     ActivateWriteKeeps DEF RequestStep
<1>3. ASSUME NEW p \in Proc, SharedStep(p) PROVE AccessInv'
  BY <1>3, CreateChargeKeeps, ChargePendingKeeps, ChargeStoreKeeps,
     ChargeFailedKeeps, RefreshSnapshotKeeps, AbortKeeps DEF SharedStep
<1>4. ASSUME Cycle PROVE AccessInv'
  BY <1>3, <1>4, LifecycleScanKeeps, LifecycleWriteKeeps, RenewalScanKeeps,
     RenewalCheckKeeps, RenewalCreateKeeps, CleanupScanKeeps, CleanupDeleteKeeps
     DEF Cycle, Job, Proc
<1>5. CASE UNCHANGED vars
  <2>1. TypeInv'
    BY <1>5, TypeStep DEF AccessInv
  <2>2. ProcessesOK'
    BY <1>5 DEF vars, db, gateway, AccessInv, ProcessesOK, ReservedOK, CarriedOK,
                Carried, Granted, Seen, Reported, Bought, Spent
  <2>. QED BY <1>5, <2>1, <2>2
    DEF vars, db, gateway, AccessInv, GatewayOK, InvoiceBackedByGateway, Granted,
        Bought, Reported, Spent
<1>. QED
  BY <1>1, <1>2, <1>3, <1>4, <1>5, GatewayStepKeeps, TickKeeps, CrashKeeps
     DEF Next, Proc

\* AccessInv is invariant.
THEOREM AccessInvariant == Spec => []AccessInv
BY AccessInit, AccessStep, PTL DEF Spec

\* However many checkouts, callbacks, refreshes and jobs interleave, a priced
\* plan is active, in the subscription or in the snapshot, only if an invoice
\* for that plan was settled.
THEOREM AccessWasBought == Spec => []ActivePlanWasBought
<1>1. AccessInv => ActivePlanWasBought
  BY DEF AccessInv, Granted, ActivePlanWasBought
<1>. QED BY <1>1, AccessInvariant, PTL

\* What an invoice for a priced plan says of its payment, the gateway said.
THEOREM InvoicesAreBacked == Spec => []InvoiceBackedByGateway
<1>1. AccessInv => InvoiceBackedByGateway
  BY DEF AccessInv
<1>. QED BY <1>1, AccessInvariant, PTL
=============================================================================
