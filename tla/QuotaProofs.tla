---------------------------- MODULE QuotaProofs ----------------------------
(***************************************************************************)
(* Proofs about Quota, for every number of requests, people, shops, plans  *)
(* and limits: the types, the owner, the limits, and what a change of a    *)
(* shop's defaults keeps.                                                  *)
(***************************************************************************)
EXTENDS Quota, FiniteSetTheorems, TLAPS

USE OwnerAssumption, PlanAssumption, LimitAssumption

-----------------------------------------------------------------------------
(* Types.                                                                  *)

\* A request that subscribes has found its plan, and a request is at the labels
\* of its kind.
Fits(label, l) ==
  /\ label = "subscribe" => l.plan \in Plans
  /\ label \in {"subscription", "default", "subscribe", "count"} => l.kind \in Limited
  /\ label \in {"find", "commit"} => l.kind = "invite"
  /\ label = "create" => l.kind = "shop"
  /\ label \in {"shopRead", "shopWrite"} => l.kind = "defaults" /\ l.shop \in Shops
  /\ label = "shopWrite" => l.meta \in Metadata
RequestsFit == \A h \in Handler : Fits(pc[h], loc[h])

TypeInv == TypeOK /\ RequestsFit

LEMMA NoRowIsNoRow == NoRow \notin PlanRow
BY DEF NoRow, PlanRow

LEMMA NoShopIsNoShop == NoShop \notin Metadata
BY DEF NoShop, Metadata, Setting

LEMMA IdleTyped == IdleLocal \in Local
<1>1. (CHOOSE s \in Shop : TRUE) \in Shop
  BY FiniteAssumption
<1>. QED BY <1>1 DEF IdleLocal, Local, Role, Setting, Keep, Metadata, NoShop

LEMMA PlansTyped ==
  ASSUME TypeOK, NEW p \in Plans
  PROVE  /\ p \in Plan
         /\ plan[p] \in PlanRow
         /\ plan[p].members \in Nat
         /\ plan[p].shops \in Nat
BY NoRowIsNoRow DEF TypeOK, Plans, PlanRow

LEMMA LimitTyped ==
  ASSUME TypeOK, NEW p \in Plans, NEW kind
  PROVE  LimitOf(p, kind) \in Nat
BY PlansTyped DEF LimitOf

LEMMA HereTyped ==
  ASSUME TypeInv, NEW h \in Handler
  PROVE  loc[h] \in Local /\ Fits(pc[h], loc[h])
BY DEF TypeInv, TypeOK, RequestsFit

LEMMA TypeInit == Init => TypeInv
<1> SUFFICES ASSUME Init PROVE TypeInv
  OBVIOUS
<1>1. member \in [User -> MemberRow]
  BY DEF Init, MemberRow, Role
<1>2. plan \in [Plan -> PlanRow \cup {NoRow}]
  BY DEF Init, PlanRow
<1>3. loc \in [Handler -> Local] /\ pc \in [Handler -> Label]
  BY IdleTyped DEF Init, Label
<1>4. RequestsFit
  BY DEF Init, RequestsFit, Fits
<1>5. peak \in [Limited -> Nat] /\ changes \in 0..MaxPlanChanges
  BY DEF Init
<1>6. /\ account \subseteq User
      /\ shop \in [Shop -> Metadata \cup {NoShop}]
      /\ sub \in Plans \cup {NoPlan}
      /\ room \in [Handler -> BOOLEAN]
      /\ lone \in [Handler -> Metadata \cup {NoShop}]
  BY DEF Init
<1>. QED
  BY <1>1, <1>2, <1>3, <1>4, <1>5, <1>6 DEF TypeInv, TypeOK

\* Where a request goes on, it has the locals its label needs.
LEMMA GotoTyped ==
  ASSUME TypeInv, NEW h \in Handler, NEW l \in Label, NEW r \in Local,
         Goto(h, l, r), Plans \subseteq Plans', Shops \subseteq Shops', Fits(l, r)
  PROVE  /\ pc' \in [Handler -> Label]
         /\ loc' \in [Handler -> Local]
         /\ RequestsFit'
<1>1. pc' \in [Handler -> Label] /\ loc' \in [Handler -> Local]
  BY DEF TypeInv, TypeOK, Goto
<1>2. ASSUME NEW g \in Handler PROVE Fits(pc[g], loc[g])'
  <2>1. CASE g = h
    BY <2>1 DEF TypeInv, TypeOK, Goto, Fits
  <2>2. CASE g # h
    BY <2>2 DEF TypeInv, TypeOK, RequestsFit, Goto, Fits
  <2>. QED BY <2>1, <2>2
<1>. QED BY <1>1, <1>2 DEF RequestsFit

LEMMA EndTyped ==
  ASSUME TypeInv, NEW h \in Handler, End(h), Plans \subseteq Plans', Shops \subseteq Shops'
  PROVE  /\ pc' \in [Handler -> Label]
         /\ loc' \in [Handler -> Local]
         /\ RequestsFit'
<1>1. "idle" \in Label /\ Fits("idle", IdleLocal)
  BY DEF Label, Fits
<1>. QED BY <1>1, IdleTyped, GotoTyped DEF End

\* What every step keeps typed.
Kept ==
  /\ member' \in [User -> MemberRow]
  /\ account' \subseteq User
  /\ shop' \in [Shop -> Metadata \cup {NoShop}]
  /\ plan' \in [Plan -> PlanRow \cup {NoRow}]
  /\ sub' \in Plans' \cup {NoPlan}
  /\ pc' \in [Handler -> Label]
  /\ loc' \in [Handler -> Local]
  /\ RequestsFit'
  /\ peak' \in [Limited -> Nat]
  /\ lone' \in [Handler -> Metadata \cup {NoShop}]
  /\ changes' \in 0..MaxPlanChanges

LEMMA TypeStep ==
  ASSUME TypeInv, NEW h \in Handler, Step(h)
  PROVE  Kept
<1>. USE HereTyped DEF TypeInv
<1>1. CASE InviteStart(h)
  <2>1. PICK a \in User, u \in User, r \in Role \ {"OWNER"}, n \in BOOLEAN :
          Goto(h, "subscription",
               [IdleLocal EXCEPT !.kind = "invite", !.actor = a, !.user = u,
                                 !.role = r, !.named = n])
    BY <1>1 DEF InviteStart
  <2> DEFINE l == [IdleLocal EXCEPT !.kind = "invite", !.actor = a, !.user = u,
                                    !.role = r, !.named = n]
  <2>2. l \in Local /\ l.kind = "invite"
    BY IdleTyped DEF Local
  <2>3. "subscription" \in Label /\ Fits("subscription", l)
    BY <2>2 DEF Label, Fits, Limited
  <2>4. Plans' = Plans /\ Shops' = Shops
    BY <1>1 DEF InviteStart, tables, Plans, Shops
  <2>. QED BY <1>1, <2>1, <2>2, <2>3, <2>4, GotoTyped
           DEF InviteStart, tables, TypeOK, Kept
<1>2. CASE ShopStart(h)
  <2>1. PICK s \in Shop :
          Goto(h, "subscription", [IdleLocal EXCEPT !.kind = "shop", !.shop = s])
    BY <1>2 DEF ShopStart
  <2> DEFINE l == [IdleLocal EXCEPT !.kind = "shop", !.shop = s]
  <2>2. l \in Local /\ l.kind = "shop"
    BY IdleTyped DEF Local
  <2>3. "subscription" \in Label /\ Fits("subscription", l)
    BY <2>2 DEF Label, Fits, Limited
  <2>4. Plans' = Plans /\ Shops' = Shops
    BY <1>2 DEF ShopStart, tables, Plans, Shops
  <2>. QED BY <1>2, <2>1, <2>2, <2>3, <2>4, GotoTyped
           DEF ShopStart, tables, TypeOK, Kept
<1>3. CASE SubscriptionRead(h)
  <2>1. Plans' = Plans /\ Shops' = Shops
    BY <1>3 DEF SubscriptionRead, tables, Plans, Shops
  <2>2. pc[h] = "subscription" /\ loc[h].kind \in Limited
    BY <1>3 DEF SubscriptionRead, Fits
  <2>3. CASE sub # NoPlan
    <3> DEFINE l == [loc[h] EXCEPT !.limit = LimitOf(sub, loc[h].kind)]
    <3>1. LimitOf(sub, loc[h].kind) \in Nat
      BY <2>3, LimitTyped DEF TypeOK
    <3>2. l \in Local /\ l.kind = loc[h].kind
      BY <3>1 DEF Local
    <3>3. "count" \in Label /\ Fits("count", l)
      BY <2>2, <3>2 DEF Label, Fits
    <3>4. Goto(h, "count", l)
      BY <1>3, <2>3 DEF SubscriptionRead
    <3>. QED BY <1>3, <2>1, <3>2, <3>3, <3>4, GotoTyped
             DEF SubscriptionRead, tables, TypeOK, Kept
  <2>4. CASE sub = NoPlan
    <3>1. "default" \in Label /\ Fits("default", loc[h])
      BY <2>2 DEF Label, Fits
    <3>2. Goto(h, "default", loc[h])
      BY <1>3, <2>4 DEF SubscriptionRead
    <3>. QED BY <1>3, <2>1, <3>1, <3>2, GotoTyped
             DEF SubscriptionRead, tables, TypeOK, Kept
  <2>. QED BY <2>3, <2>4
<1>4. CASE DefaultPlanRead(h)
  <2>1. Plans' = Plans /\ Shops' = Shops
    BY <1>4 DEF DefaultPlanRead, tables, Plans, Shops
  <2>2. pc[h] = "default" /\ loc[h].kind \in Limited
    BY <1>4 DEF DefaultPlanRead, Fits
  <2>3. ASSUME NEW p \in DefaultPlans, Goto(h, "subscribe", [loc[h] EXCEPT !.plan = p])
        PROVE  Kept
    <3> DEFINE l == [loc[h] EXCEPT !.plan = p]
    <3>1. p \in Plans /\ p \in Plan
      BY DEF DefaultPlans, Plans
    <3>2. l \in Local /\ l.plan = p /\ l.kind = loc[h].kind
      BY <3>1 DEF Local
    <3>3. "subscribe" \in Label /\ Fits("subscribe", l)
      BY <2>2, <3>1, <3>2 DEF Label, Fits
    <3>. QED BY <1>4, <2>1, <2>3, <3>2, <3>3, GotoTyped
             DEF DefaultPlanRead, tables, TypeOK, Kept
  <2>4. CASE End(h)
    BY <1>4, <2>1, <2>4, EndTyped DEF DefaultPlanRead, tables, TypeOK, Kept
  <2>. QED BY <1>4, <2>3, <2>4 DEF DefaultPlanRead
<1>5. CASE Subscribe(h)
  <2>1. Plans' = Plans /\ Shops' = Shops
    BY <1>5 DEF Subscribe, Plans, Shops
  <2>2. CASE sub = NoPlan
    <3> DEFINE l == [loc[h] EXCEPT !.limit = LimitOf(loc[h].plan, loc[h].kind)]
    <3>1. loc[h].plan \in Plans /\ loc[h].kind \in Limited
      BY <1>5 DEF Subscribe, Fits
    <3>2. LimitOf(loc[h].plan, loc[h].kind) \in Nat
      BY <3>1, LimitTyped
    <3>3. l \in Local /\ l.kind = loc[h].kind
      BY <3>2 DEF Local
    <3>4. "count" \in Label /\ Fits("count", l)
      BY <3>1, <3>3 DEF Label, Fits
    <3>5. sub' = loc[h].plan /\ Goto(h, "count", l)
      BY <1>5, <2>2 DEF Subscribe
    <3>. QED BY <1>5, <2>1, <3>1, <3>3, <3>4, <3>5, GotoTyped DEF Subscribe, TypeOK, Kept
  <2>3. CASE sub # NoPlan
    BY <1>5, <2>1, <2>3, EndTyped DEF Subscribe, TypeOK, Kept
  <2>. QED BY <2>2, <2>3
<1>6. CASE Count(h)
  <2>1. Plans' = Plans /\ Shops' = Shops
    BY <1>6 DEF Count, tables, Plans, Shops
  <2>2. loc[h].kind \in Limited /\ loc[h].limit \in Nat
    BY <1>6 DEF Count, Fits, Local
  <2>3. CASE Used(loc[h].kind) >= loc[h].limit
    BY <1>6, <2>1, <2>3, EndTyped DEF Count, tables, TypeOK, Kept
  <2>4. CASE ~(Used(loc[h].kind) >= loc[h].limit)
    <3> DEFINE next == IF loc[h].kind = "invite" THEN "find" ELSE "create"
    <3>1. next \in Label /\ Fits(next, loc[h])
      BY <2>2 DEF Label, Fits, Limited
    <3>2. Goto(h, next, loc[h])
      BY <1>6, <2>4 DEF Count
    <3>3. peak' \in [Limited -> Nat]
      <4>1. peak \in [Limited -> Nat]
        BY DEF TypeOK
      <4>2. peak' = [peak EXCEPT ![loc[h].kind] =
                       IF loc[h].limit > @ THEN loc[h].limit ELSE @]
        BY <1>6, <2>4 DEF Count
      <4>. QED BY <2>2, <4>1, <4>2
    <3>. QED BY <1>6, <2>1, <3>1, <3>2, <3>3, GotoTyped DEF Count, tables, TypeOK, Kept
  <2>. QED BY <2>3, <2>4
<1>7. CASE FindUser(h)
  <2>1. Plans' = Plans /\ Shops' = Shops
    BY <1>7 DEF FindUser, tables, Plans, Shops
  <2>2. CASE End(h)
    BY <1>7, <2>1, <2>2, EndTyped DEF FindUser, tables, TypeOK, Kept
  <2> DEFINE l == [loc[h] EXCEPT !.known = loc[h].user \in account,
                                 !.row = member[loc[h].user].status]
  <2>3. CASE Goto(h, "commit", l)
    <3>1. member[loc[h].user].status \in {"none", "ACTIVE", "REMOVED"}
      BY DEF Local, TypeOK, MemberRow
    <3>2. l \in Local /\ l.kind = loc[h].kind
      <4>0. (loc[h].user \in account) \in BOOLEAN
        OBVIOUS
      <4>1. PICK b \in BOOLEAN : b = (loc[h].user \in account)
        BY <4>0, Zenon
      <4> DEFINE r == [loc[h] EXCEPT !.known = b, !.row = member[loc[h].user].status]
      <4>2. r \in Local /\ r.kind = loc[h].kind
        BY <3>1 DEF Local
      <4>3. l = r
        BY <4>1
      <4>. QED BY <4>2, <4>3
    <3>3. "commit" \in Label /\ Fits("commit", l)
      BY <1>7, <3>2 DEF FindUser, Label, Fits
    <3>. QED BY <1>7, <2>1, <2>3, <3>2, <3>3, GotoTyped
             DEF FindUser, tables, TypeOK, Kept
  <2>. QED BY <1>7, <2>2, <2>3 DEF FindUser
<1>8. CASE CommitMember(h)
  <2>1. Plans' = Plans /\ Shops' = Shops
    BY <1>8 DEF CommitMember, Plans, Shops
  <2>2. loc[h].user \in User /\ loc[h].role \in Role
    BY DEF Local
  <2>3. member' \in [User -> MemberRow] /\ account' \subseteq User
    BY <1>8, <2>2 DEF CommitMember, TypeOK, MemberRow
  <2>. QED BY <1>8, <2>1, <2>3, EndTyped DEF CommitMember, TypeOK, Kept
<1>9. CASE ShopCreate(h)
  <2>1. Plans' = Plans
    BY <1>9 DEF ShopCreate, Plans
  <2>2. NewShop \in Metadata
    BY DEF NewShop, Metadata, Setting
  <2>3. shop' \in [Shop -> Metadata \cup {NoShop}]
    BY <1>9, <2>2 DEF ShopCreate, TypeOK
  <2>4. Shops \subseteq Shops'
    BY <1>9, <2>2, NoShopIsNoShop DEF ShopCreate, TypeOK, Shops
  <2>. QED BY <1>9, <2>1, <2>3, <2>4, EndTyped DEF ShopCreate, TypeOK, Kept
<1>10. CASE MemberStart(h)
  <2>1. PICK k \in {"role", "remove"}, a \in User, u \in User, r \in Role \ {"OWNER"} :
          Goto(h, "read", [IdleLocal EXCEPT !.kind = k, !.actor = a,
                                            !.user = u, !.role = r])
    BY <1>10 DEF MemberStart
  <2> DEFINE l == [IdleLocal EXCEPT !.kind = k, !.actor = a, !.user = u, !.role = r]
  <2>2. l \in Local
    BY IdleTyped DEF Local
  <2>3. "read" \in Label /\ Fits("read", l)
    BY DEF Label, Fits
  <2>4. Plans' = Plans /\ Shops' = Shops
    BY <1>10 DEF MemberStart, tables, Plans, Shops
  <2>. QED BY <1>10, <2>1, <2>2, <2>3, <2>4, GotoTyped
           DEF MemberStart, tables, TypeOK, Kept
<1>11. CASE MemberRead(h)
  <2>1. Plans' = Plans /\ Shops' = Shops
    BY <1>11 DEF MemberRead, tables, Plans, Shops
  <2>2. CASE End(h)
    BY <1>11, <2>1, <2>2, EndTyped DEF MemberRead, tables, TypeOK, Kept
  <2>3. CASE Goto(h, "write", loc[h])
    <3>1. "write" \in Label /\ Fits("write", loc[h])
      BY DEF Label, Fits
    <3>. QED BY <1>11, <2>1, <2>3, <3>1, GotoTyped DEF MemberRead, tables, TypeOK, Kept
  <2>. QED BY <1>11, <2>2, <2>3 DEF MemberRead
<1>12. CASE MemberWrite(h)
  <2>1. Plans' = Plans /\ Shops' = Shops
    BY <1>12 DEF MemberWrite, Plans, Shops
  <2>2. loc[h].user \in User /\ loc[h].role \in Role
    BY DEF Local
  <2>3. member' \in [User -> MemberRow]
    BY <1>12, <2>2 DEF MemberWrite, TypeOK, MemberRow
  <2>. QED BY <1>12, <2>1, <2>3, EndTyped DEF MemberWrite, TypeOK, Kept
<1>13. CASE DefaultsStart(h)
  <2>1. PICK s \in Shops, t \in Setting \cup {Keep}, x \in Setting \cup {Keep} :
          /\ Goto(h, "shopRead", [IdleLocal EXCEPT !.kind = "defaults", !.shop = s,
                                                   !.storeType = t, !.promoXtra = x])
          /\ lone' = [lone EXCEPT ![h] = shop[s]]
    BY <1>13 DEF DefaultsStart
  <2> DEFINE l == [IdleLocal EXCEPT !.kind = "defaults", !.shop = s,
                                    !.storeType = t, !.promoXtra = x]
  <2>2. s \in Shop
    BY DEF Shops
  <2>3. l \in Local /\ l.kind = "defaults"
    BY <2>2, IdleTyped DEF Local
  <2>4. "shopRead" \in Label /\ Fits("shopRead", l)
    BY <2>2, <2>3, IdleTyped DEF Label, Fits, Local
  <2>5. Plans' = Plans /\ Shops' = Shops
    BY <1>13 DEF DefaultsStart, tables, Plans, Shops
  <2>6. lone' \in [Handler -> Metadata \cup {NoShop}]
    BY <2>1, <2>2 DEF TypeOK
  <2>. QED BY <1>13, <2>1, <2>3, <2>4, <2>5, <2>6, GotoTyped
           DEF DefaultsStart, tables, TypeOK, Kept
<1>14. CASE ShopRead(h)
  <2> DEFINE l == [loc[h] EXCEPT !.meta = shop[loc[h].shop]]
  <2>1. Plans' = Plans /\ Shops' = Shops
    BY <1>14 DEF ShopRead, tables, Plans, Shops
  <2>2. shop[loc[h].shop] \in Metadata \cup {NoShop}
    BY DEF TypeOK, Local
  <2>3. /\ l \in Local /\ l.kind = loc[h].kind
        /\ l.shop = loc[h].shop /\ l.meta = shop[loc[h].shop]
    BY <2>2 DEF Local
  <2>4. "shopWrite" \in Label /\ Fits("shopWrite", l)
    BY <1>14, <2>2, <2>3 DEF ShopRead, Label, Fits, Shops
  <2>. QED BY <1>14, <2>1, <2>3, <2>4, GotoTyped DEF ShopRead, tables, TypeOK, Kept
<1>15. CASE ShopWrite(h)
  <2>1. Plans' = Plans
    BY <1>15 DEF ShopWrite, Plans
  <2>2. Merged(loc[h]) \in Metadata /\ loc[h].shop \in Shop
    <3>1. loc[h].meta \in Metadata
      BY <1>15 DEF ShopWrite, Fits
    <3>2. /\ loc[h].storeType \in Setting \cup {Keep}
          /\ loc[h].promoXtra \in Setting \cup {Keep}
          /\ loc[h].shop \in Shop
      BY DEF Local
    <3>. QED BY <3>1, <3>2 DEF Merged, Pick, Metadata
  <2>4. shop' \in [Shop -> Metadata \cup {NoShop}]
    BY <1>15, <2>2 DEF ShopWrite, TypeOK
  <2>5. Shops \subseteq Shops'
    BY <1>15, <2>2, NoShopIsNoShop DEF ShopWrite, TypeOK, Shops
  <2>3. lone' \in [Handler -> Metadata \cup {NoShop}]
    BY <1>15 DEF ShopWrite, TypeOK
  <2>. QED BY <1>15, <2>1, <2>3, <2>4, <2>5, EndTyped DEF ShopWrite, TypeOK, Kept
<1>. QED
  BY <1>1, <1>2, <1>3, <1>4, <1>5, <1>6, <1>7, <1>8, <1>9, <1>10, <1>11, <1>12,
     <1>13, <1>14, <1>15 DEF Step

LEMMA ChangeTyped ==
  ASSUME TypeInv, Environment
  PROVE  Kept
<1>1. ASSUME Plans \subseteq Plans', UNCHANGED <<shop, pc, loc>>
      PROVE  RequestsFit'
  BY <1>1 DEF TypeInv, RequestsFit, Fits, Shops
<1>2. CASE SignUp
  <2>1. Plans' = Plans
    BY <1>2 DEF SignUp, Plans
  <2>. QED BY <1>1, <1>2, <2>1 DEF SignUp, TypeInv, TypeOK, Kept
<1>3. CASE ChangePlan
  <2>1. Plans' = Plans
    BY <1>3 DEF ChangePlan, Plans
  <2>2. changes' \in 0..MaxPlanChanges
    BY <1>3 DEF ChangePlan, PlanChange, TypeInv, TypeOK
  <2>. QED BY <1>1, <1>3, <2>1, <2>2 DEF ChangePlan, TypeInv, TypeOK, Kept
<1>4. CASE CreatePlan
  <2>1. PICK p \in Plan \ Plans, c \in Code, l \in Limit, m \in Limit, a \in BOOLEAN :
          plan' = [plan EXCEPT ![p] =
                     [code |-> c, active |-> a, shops |-> l, members |-> m]]
    BY <1>4 DEF CreatePlan
  <2>2. [code |-> c, active |-> a, shops |-> l, members |-> m] \in PlanRow
    BY DEF PlanRow
  <2>3. plan' \in [Plan -> PlanRow \cup {NoRow}] /\ Plans \subseteq Plans'
    BY <2>1, <2>2 DEF TypeInv, TypeOK, Plans
  <2>4. changes' \in 0..MaxPlanChanges
    BY <1>4 DEF CreatePlan, PlanChange, TypeInv, TypeOK
  <2>. QED BY <1>1, <1>4, <2>3, <2>4 DEF CreatePlan, TypeInv, TypeOK, Kept
<1>5. CASE UpdatePlan
  <2>1. PICK p \in Plans, c \in Code, l \in Limit, m \in Limit, a \in BOOLEAN :
          plan' = [plan EXCEPT ![p] =
                     [code |-> c, active |-> a, shops |-> l, members |-> m]]
    BY <1>5 DEF UpdatePlan
  <2>3. [code |-> c, active |-> a, shops |-> l, members |-> m] \in PlanRow
    BY DEF PlanRow
  <2>4. plan' \in [Plan -> PlanRow \cup {NoRow}] /\ Plans \subseteq Plans'
    BY <2>1, <2>3, NoRowIsNoRow DEF TypeInv, TypeOK, Plans
  <2>5. changes' \in 0..MaxPlanChanges
    BY <1>5 DEF UpdatePlan, PlanChange, TypeInv, TypeOK
  <2>. QED BY <1>1, <1>5, <2>4, <2>5 DEF UpdatePlan, TypeInv, TypeOK, Kept
<1>6. CASE DeactivatePlan
  <2>1. PICK p \in Plans : plan' = [plan EXCEPT ![p].active = FALSE]
    BY <1>6 DEF DeactivatePlan
  <2>2. plan[p] \in PlanRow
    BY PlansTyped DEF TypeInv
  <2>3. [plan[p] EXCEPT !.active = FALSE] \in PlanRow
    BY <2>2 DEF PlanRow
  <2>4. plan' \in [Plan -> PlanRow \cup {NoRow}] /\ Plans \subseteq Plans'
    BY <2>1, <2>3, NoRowIsNoRow DEF TypeInv, TypeOK, Plans
  <2>5. changes' \in 0..MaxPlanChanges
    BY <1>6 DEF DeactivatePlan, PlanChange, TypeInv, TypeOK
  <2>. QED BY <1>1, <1>6, <2>4, <2>5 DEF DeactivatePlan, TypeInv, TypeOK, Kept
<1>. QED BY <1>2, <1>3, <1>4, <1>5, <1>6 DEF Environment

LEMMA RoomTyped == NoteRoom => room' \in [Handler -> BOOLEAN]
BY DEF NoteRoom

LEMMA TypeNext == TypeInv /\ [Next]_vars => TypeInv'
<1> SUFFICES ASSUME TypeInv, [Next]_vars PROVE TypeInv'
  OBVIOUS
<1>1. CASE Next
  <2>1. Kept /\ room' \in [Handler -> BOOLEAN]
    BY <1>1, TypeStep, ChangeTyped, RoomTyped DEF Next
  <2>. QED BY <2>1 DEF Kept, TypeInv, TypeOK
<1>2. CASE UNCHANGED vars
  <2>1. Plans' = Plans /\ Shops' = Shops
    BY <1>2 DEF vars, tables, Plans, Shops
  <2>. QED BY <1>2, <2>1 DEF vars, tables, TypeInv, TypeOK, RequestsFit, Fits
<1>. QED BY <1>1, <1>2

LEMMA TypesHold == Spec => []TypeInv
BY TypeInit, TypeNext, PTL DEF Spec

\* Every row, request and counter keeps its type, and a request is at the labels
\* of its kind.
THEOREM TypeCorrect == Spec => []TypeOK
BY TypesHold, PTL DEF TypeInv

-----------------------------------------------------------------------------
(* The owner.  A request about to change or create a membership is not     *)
(* about the owner: the read before it found the owner's row.              *)

NotTheOwner ==
  \A h \in Handler : pc[h] \in {"commit", "write"} => loc[h].user # Owner

OwnerInv == OwnerStays /\ NotTheOwner

LEMMA OwnerInit == Init => OwnerInv
BY DEF Init, OwnerInv, OwnerStays, NotTheOwner

\* A step that leaves the members alone and goes on elsewhere.
LEMMA OwnerGoto ==
  ASSUME TypeInv, OwnerInv, NEW h \in Handler, NEW l, NEW r, Goto(h, l, r),
         l \in {"commit", "write"} => r.user # Owner,
         member'[Owner] = member[Owner]
  PROVE  OwnerInv'
BY DEF TypeInv, TypeOK, OwnerInv, OwnerStays, NotTheOwner, Goto

LEMMA OwnerStep ==
  ASSUME TypeInv, OwnerInv, NEW h \in Handler, Step(h)
  PROVE  OwnerInv'
<1>1. CASE InviteStart(h) \/ ShopStart(h)
  BY <1>1, OwnerGoto DEF InviteStart, ShopStart, tables
<1>2. CASE SubscriptionRead(h) \/ DefaultPlanRead(h)
  BY <1>2, OwnerGoto DEF SubscriptionRead, DefaultPlanRead, End, tables
<1>3. CASE Subscribe(h)
  BY <1>3, OwnerGoto DEF Subscribe, End
<1>4. CASE Count(h)
  BY <1>4, OwnerGoto DEF Count, End, tables
<1>5. CASE FindUser(h)
  <2>1. CASE End(h)
    BY <1>5, <2>1, OwnerGoto DEF FindUser, End, tables
  <2> DEFINE r == [loc[h] EXCEPT !.known = loc[h].user \in account,
                                 !.row = member[loc[h].user].status]
  <2>2. CASE member[loc[h].user].status # "ACTIVE" /\ Goto(h, "commit", r)
    <3>1. loc[h].user # Owner
      BY <2>2 DEF OwnerInv, OwnerStays
    <3>2. r.user = loc[h].user
      BY HereTyped DEF Local
    <3>. QED BY <1>5, <2>2, <3>1, <3>2, OwnerGoto DEF FindUser, tables
  <2>. QED BY <1>5, <2>1, <2>2 DEF FindUser
<1>6. CASE CommitMember(h)
  <2>1. loc[h].user # Owner /\ Owner \in User
    BY <1>6 DEF CommitMember, OwnerInv, NotTheOwner
  <2>2. member'[Owner] = member[Owner]
    BY <1>6, <2>1 DEF CommitMember, TypeInv, TypeOK
  <2>. QED BY <1>6, <2>2, OwnerGoto DEF CommitMember, End
<1>7. CASE ShopCreate(h) \/ ShopWrite(h)
  BY <1>7, OwnerGoto DEF ShopCreate, ShopWrite, End
<1>8. CASE MemberStart(h)
  BY <1>8, OwnerGoto DEF MemberStart, tables
<1>9. CASE MemberRead(h)
  BY <1>9, OwnerGoto DEF MemberRead, End, OwnerInv, OwnerStays, tables
<1>10. CASE MemberWrite(h)
  <2>1. loc[h].user # Owner /\ Owner \in User
    BY <1>10 DEF MemberWrite, OwnerInv, NotTheOwner
  <2>2. member'[Owner] = member[Owner]
    BY <1>10, <2>1 DEF MemberWrite, TypeInv, TypeOK
  <2>. QED BY <1>10, <2>2, OwnerGoto DEF MemberWrite, End
<1>11. CASE DefaultsStart(h) \/ ShopRead(h)
  BY <1>11, OwnerGoto DEF DefaultsStart, ShopRead, tables
<1>. QED
  BY <1>1, <1>2, <1>3, <1>4, <1>5, <1>6, <1>7, <1>8, <1>9, <1>10, <1>11 DEF Step

LEMMA OwnerNext == TypeInv /\ OwnerInv /\ [Next]_vars => OwnerInv'
<1> SUFFICES ASSUME TypeInv, OwnerInv, [Next]_vars PROVE OwnerInv'
  OBVIOUS
<1>1. CASE Environment
  BY <1>1 DEF Environment, SignUp, ChangePlan, CreatePlan, UpdatePlan, DeactivatePlan,
              OwnerInv, OwnerStays, NotTheOwner
<1>2. CASE UNCHANGED vars
  BY <1>2 DEF vars, tables, OwnerInv, OwnerStays, NotTheOwner
<1>. QED BY <1>1, <1>2, OwnerStep DEF Next

\* The owner keeps the role and the membership (updateMember, removeMember,
\* createMember), with any number of requests in flight.
THEOREM OwnerIsKept == Spec => []OwnerStays
<1>1. Spec => []OwnerInv
  BY TypesHold, OwnerInit, OwnerNext, PTL DEF Spec
<1>. QED BY <1>1, PTL DEF OwnerInv

-----------------------------------------------------------------------------
(* The limits.  The requests that have passed the check count as if their  *)
(* row were there already: the last of them that passed read fewer rows    *)
(* than the limit, and all of them are at most every request.              *)

Bounded(kind) ==
  Used(kind) + Cardinality(Passed(kind)) <= peak[kind] + Cardinality(Handler) - 1
BoundInv == \A kind \in Limited : Bounded(kind)

\* The rows a kind of request creates.
Rows(kind) == IF kind = "invite" THEN ActiveMembers ELSE Shops

LEMMA UsedTyped ==
  ASSUME TypeInv, NEW kind \in Limited
  PROVE  /\ IsFiniteSet(Rows(kind)) /\ Used(kind) = Cardinality(Rows(kind))
         /\ Used(kind) \in Nat
<1>1. ActiveMembers \subseteq User /\ Shops \subseteq Shop
  BY DEF ActiveMembers, Shops
<1>2. IsFiniteSet(Rows(kind))
  BY <1>1, FiniteAssumption, FS_Subset DEF Rows
<1>. QED BY <1>2, FS_CardinalityType DEF Rows, Used

LEMMA PassedTyped ==
  ASSUME NEW kind
  PROVE  /\ IsFiniteSet(Passed(kind))
         /\ Cardinality(Passed(kind)) \in Nat
         /\ Cardinality(Passed(kind)) <= Cardinality(Handler)
         /\ Cardinality(Handler) \in Nat /\ Cardinality(Handler) >= 1
<1>1. Passed(kind) \in SUBSET Handler
  BY DEF Passed
<1>2. Cardinality(Handler) \in Nat /\ Cardinality(Handler) # 0
  BY HandlerAssumption, FS_CardinalityType, FS_EmptySet
<1>. QED BY <1>1, <1>2, HandlerAssumption, FS_Subset, FS_CardinalityType

LEMMA BoundInit == Init => BoundInv
<1> SUFFICES ASSUME Init, NEW kind \in Limited PROVE Bounded(kind)
  BY DEF BoundInv
<1>1. Passed(kind) = {}
  BY DEF Init, Passed
<1>2. Cardinality(Passed(kind)) = 0
  BY <1>1, FS_EmptySet
<1>3. CASE kind = "invite"
  <2>1. ActiveMembers = {Owner}
    BY DEF Init, ActiveMembers
  <2>2. Used(kind) = 1
    BY <1>3, <2>1, FS_Singleton DEF Used
  <2>3. peak[kind] = 1
    BY <1>3 DEF Init
  <2>. QED BY <1>2, <2>2, <2>3, PassedTyped DEF Bounded
<1>4. CASE kind # "invite"
  <2>1. Shops = {}
    BY DEF Init, Shops
  <2>2. Used(kind) = 0
    BY <1>4, <2>1, FS_EmptySet DEF Used
  <2>3. peak[kind] = 0
    BY <1>4 DEF Init
  <2>. QED BY <1>2, <2>2, <2>3, PassedTyped DEF Bounded
<1>. QED BY <1>3, <1>4

LEMMA UsedNext ==
  ASSUME NEW kind
  PROVE  Used(kind)' = Cardinality(Rows(kind)')
BY DEF Rows, Used

\* A step under which no rows and no passed requests appear.
LEMMA BoundKept ==
  ASSUME TypeInv, TypeInv', BoundInv,
         \A kind \in Limited : Rows(kind)' \subseteq Rows(kind),
         \A kind \in Limited : Passed(kind)' \subseteq Passed(kind),
         UNCHANGED peak
  PROVE  BoundInv'
<1> SUFFICES ASSUME NEW kind \in Limited PROVE Bounded(kind)'
  BY DEF BoundInv
<1>1. Used(kind)' <= Used(kind) /\ Used(kind)' \in Nat /\ Used(kind) \in Nat
  BY UsedTyped, UsedNext, FS_Subset, FS_CardinalityType
<1>2. /\ Cardinality(Passed(kind)') <= Cardinality(Passed(kind))
      /\ Cardinality(Passed(kind)') \in Nat
  BY PassedTyped, FS_Subset, FS_CardinalityType
<1>. QED BY <1>1, <1>2, PassedTyped DEF Bounded, BoundInv, TypeInv, TypeOK

\* A passed request creates its row.
LEMMA BoundCreated ==
  ASSUME TypeInv, TypeInv', BoundInv, NEW kind \in Limited, NEW h \in Passed(kind),
         NEW x, Rows(kind)' \subseteq Rows(kind) \cup {x},
         \A k \in Limited \ {kind} : Rows(k)' \subseteq Rows(k),
         \A k \in Limited : Passed(k)' \subseteq Passed(k),
         h \notin Passed(kind)',
         UNCHANGED peak
  PROVE  BoundInv'
<1> SUFFICES ASSUME NEW k \in Limited PROVE Bounded(k)'
  BY DEF BoundInv
<1>1. CASE k = kind
  <2>1. Used(k)' <= Used(k) + 1 /\ Used(k)' \in Nat /\ Used(k) \in Nat
    <3>1. IsFiniteSet(Rows(k) \cup {x}) /\ Cardinality(Rows(k) \cup {x}) <= Used(k) + 1
      BY <1>1, UsedTyped, FS_AddElement
    <3>2. Rows(k)' \in SUBSET (Rows(k) \cup {x})
      BY <1>1
    <3>. QED BY <3>1, <3>2, UsedTyped, UsedNext, FS_Subset, FS_CardinalityType
  <2>2. /\ Cardinality(Passed(k)') <= Cardinality(Passed(k)) - 1
        /\ Cardinality(Passed(k)') \in Nat
    <3>1. /\ IsFiniteSet(Passed(k) \ {h})
          /\ Cardinality(Passed(k) \ {h}) = Cardinality(Passed(k)) - 1
      BY <1>1, PassedTyped, FS_RemoveElement
    <3>2. Passed(k)' \in SUBSET (Passed(k) \ {h})
      BY <1>1
    <3>. QED BY <3>1, <3>2, FS_Subset, FS_CardinalityType
  <2>. QED BY <2>1, <2>2, PassedTyped DEF Bounded, BoundInv, TypeInv, TypeOK
<1>2. CASE k # kind
  <2>1. Used(k)' <= Used(k) /\ Used(k)' \in Nat /\ Used(k) \in Nat
    BY <1>2, UsedTyped, UsedNext, FS_Subset, FS_CardinalityType
  <2>2. /\ Cardinality(Passed(k)') <= Cardinality(Passed(k))
        /\ Cardinality(Passed(k)') \in Nat
    BY PassedTyped, FS_Subset, FS_CardinalityType
  <2>. QED BY <2>1, <2>2, PassedTyped DEF Bounded, BoundInv, TypeInv, TypeOK
<1>. QED BY <1>1, <1>2

\* A request passes the check: all requests together fill the room it read, and
\* no more.
LEMMA BoundChecked ==
  ASSUME TypeInv, TypeInv', BoundInv, NEW h \in Handler, Count(h),
         ~(Used(loc[h].kind) >= loc[h].limit)
  PROVE  BoundInv'
<1> DEFINE kind == loc[h].kind
<1> SUFFICES ASSUME NEW k \in Limited PROVE Bounded(k)'
  BY DEF BoundInv
<1>1. kind \in Limited /\ loc[h].limit \in Nat
  BY HereTyped DEF Count, Fits, Local
<1>2. Used(k)' = Used(k) /\ Used(k) \in Nat
  BY UsedTyped DEF Count, tables, Used, ActiveMembers, Shops
<1>3. peak[k] \in Nat /\ peak'[k] \in Nat
  BY DEF TypeInv, TypeOK
<1>4. CASE k = kind
  <2>1. Used(k) < loc[h].limit
    BY <1>1, <1>2, <1>4
  <2>2. peak'[k] >= loc[h].limit
    BY <1>1, <1>3, <1>4 DEF Count, TypeInv, TypeOK
  <2>3. Passed(k)' \in SUBSET Handler
    BY DEF Passed
  <2>4. /\ Cardinality(Passed(k)') <= Cardinality(Handler)
        /\ Cardinality(Passed(k)') \in Nat
    BY <2>3, HandlerAssumption, FS_Subset, FS_CardinalityType
  <2>. QED BY <1>1, <1>2, <1>3, <2>1, <2>2, <2>4, PassedTyped DEF Bounded
<1>5. CASE k # kind
  <2>1. peak'[k] = peak[k]
    BY <1>1, <1>5 DEF Count, TypeInv, TypeOK
  <2>2. Passed(k)' = Passed(k)
    <3>1. loc' = loc /\ \A g \in Handler \ {h} : pc'[g] = pc[g]
      BY DEF Count, Goto, TypeInv, TypeOK
    <3>. QED BY <1>5, <3>1 DEF Passed
  <2>. QED BY <1>2, <2>1, <2>2 DEF Bounded, BoundInv
<1>. QED BY <1>4, <1>5

\* A request that goes on elsewhere, or stays among the passed of its kind.
LEMMA PassedGoto ==
  ASSUME TypeInv, NEW h \in Handler, NEW l, NEW r, Goto(h, l, r), NEW kind,
         l \in {"find", "commit", "create"}
           => r.kind = loc[h].kind /\ pc[h] \in {"find", "commit", "create"}
  PROVE  Passed(kind)' \subseteq Passed(kind)
BY DEF TypeInv, TypeOK, Goto, Passed

\* A step that creates no row and passes no check.
LEMMA BoundGoto ==
  ASSUME TypeInv, TypeInv', BoundInv, NEW h \in Handler, NEW l, NEW r, Goto(h, l, r),
         l \notin {"find", "commit", "create"},
         UNCHANGED <<member, shop, peak>>
  PROVE  BoundInv'
<1>1. \A kind \in Limited : Passed(kind)' \subseteq Passed(kind)
  BY PassedGoto
<1>2. \A kind \in Limited : Rows(kind)' = Rows(kind)
  BY DEF Rows, ActiveMembers, Shops
<1>. QED BY <1>1, <1>2, BoundKept

LEMMA BoundStep ==
  ASSUME TypeInv, TypeInv', BoundInv, NEW h \in Handler, Step(h)
  PROVE  BoundInv'
<1>1. CASE InviteStart(h) \/ ShopStart(h)
  <2>1. PICK r : Goto(h, "subscription", r)
    BY <1>1 DEF InviteStart, ShopStart
  <2>. QED BY <1>1, <2>1, BoundGoto DEF InviteStart, ShopStart, tables
<1>2. CASE SubscriptionRead(h) \/ DefaultPlanRead(h)
  <2>1. PICK l \in {"count", "default", "subscribe", "idle"} : \E r : Goto(h, l, r)
    BY <1>2 DEF SubscriptionRead, DefaultPlanRead, End
  <2>. QED BY <1>2, <2>1, BoundGoto DEF SubscriptionRead, DefaultPlanRead, tables
<1>3. CASE Subscribe(h)
  BY <1>3, BoundGoto DEF Subscribe, End
<1>4. CASE Count(h)
  <2>1. CASE Used(loc[h].kind) >= loc[h].limit
    BY <1>4, <2>1, BoundGoto DEF Count, End, tables
  <2>. QED BY <1>4, <2>1, BoundChecked
<1>5. CASE FindUser(h)
  <2>1. CASE End(h)
    BY <1>5, <2>1, BoundGoto DEF FindUser, End, tables
  <2> DEFINE r == [loc[h] EXCEPT !.known = loc[h].user \in account,
                                 !.row = member[loc[h].user].status]
  <2>2. CASE Goto(h, "commit", r)
    <3>1. r.kind = loc[h].kind
      BY HereTyped DEF Local
    <3>2. \A kind \in Limited : Passed(kind)' \subseteq Passed(kind)
      BY <1>5, <2>2, <3>1, PassedGoto DEF FindUser
    <3>3. \A kind \in Limited : Rows(kind)' = Rows(kind)
      BY <1>5 DEF FindUser, tables, Rows, ActiveMembers, Shops
    <3>. QED BY <1>5, <3>2, <3>3, BoundKept DEF FindUser
  <2>. QED BY <1>5, <2>1, <2>2 DEF FindUser
<1>6. CASE CommitMember(h)
  <2>1. h \in Passed("invite") /\ "invite" \in Limited
    BY <1>6, HereTyped DEF CommitMember, Fits, Passed, Limited
  <2>2. \A kind \in Limited : Passed(kind)' \subseteq Passed(kind)
    BY <1>6, PassedGoto DEF CommitMember, End
  <2>3. h \notin Passed("invite")'
    BY <1>6 DEF CommitMember, End, Goto, Passed, TypeInv, TypeOK
  <2>4. Rows("invite")' \subseteq Rows("invite") \cup {loc[h].user}
    BY <1>6 DEF CommitMember, Rows, ActiveMembers, TypeInv, TypeOK
  <2>5. \A k \in Limited \ {"invite"} : Rows(k)' \subseteq Rows(k)
    BY <1>6 DEF CommitMember, Rows, Shops
  <2>6. UNCHANGED peak
    BY <1>6 DEF CommitMember
  <2>. QED BY <2>1, <2>2, <2>3, <2>4, <2>5, <2>6, BoundCreated
<1>7. CASE ShopCreate(h)
  <2>1. h \in Passed("shop") /\ "shop" \in Limited
    BY <1>7, HereTyped DEF ShopCreate, Fits, Passed, Limited
  <2>2. \A kind \in Limited : Passed(kind)' \subseteq Passed(kind)
    BY <1>7, PassedGoto DEF ShopCreate, End
  <2>3. h \notin Passed("shop")'
    BY <1>7 DEF ShopCreate, End, Goto, Passed, TypeInv, TypeOK
  <2>4. Rows("shop")' \subseteq Rows("shop") \cup {loc[h].shop}
    BY <1>7 DEF ShopCreate, Rows, Shops, TypeInv, TypeOK
  <2>5. \A k \in Limited \ {"shop"} : Rows(k)' \subseteq Rows(k)
    BY <1>7 DEF ShopCreate, Rows, ActiveMembers, Limited
  <2>6. UNCHANGED peak
    BY <1>7 DEF ShopCreate
  <2>. QED BY <2>1, <2>2, <2>3, <2>4, <2>5, <2>6, BoundCreated
<1>8. CASE MemberStart(h)
  BY <1>8, BoundGoto DEF MemberStart, tables
<1>9. CASE MemberRead(h)
  BY <1>9, BoundGoto DEF MemberRead, End, tables
<1>10. CASE MemberWrite(h)
  <2>1. \A kind \in Limited : Passed(kind)' \subseteq Passed(kind)
    BY <1>10, PassedGoto DEF MemberWrite, End
  <2>2. \A u \in User : member'[u].status = "ACTIVE" => member[u].status = "ACTIVE"
    BY <1>10 DEF MemberWrite, TypeInv, TypeOK, MemberRow
  <2>3. \A kind \in Limited : Rows(kind)' \subseteq Rows(kind)
    BY <1>10, <2>2 DEF MemberWrite, Rows, ActiveMembers, Shops
  <2>. QED BY <1>10, <2>1, <2>3, BoundKept DEF MemberWrite
<1>11. CASE DefaultsStart(h) \/ ShopRead(h)
  <2>1. PICK l \in {"shopRead", "shopWrite"} : \E r : Goto(h, l, r)
    BY <1>11 DEF DefaultsStart, ShopRead
  <2>. QED BY <1>11, <2>1, BoundGoto DEF DefaultsStart, ShopRead, tables
<1>12. CASE ShopWrite(h)
  <2>1. \A kind \in Limited : Passed(kind)' \subseteq Passed(kind)
    BY <1>12, PassedGoto DEF ShopWrite, End
  <2>2. loc[h].shop \in Shops
    BY <1>12, HereTyped DEF ShopWrite, Fits
  <2>3. \A kind \in Limited : Rows(kind)' \subseteq Rows(kind)
    BY <1>12, <2>2 DEF ShopWrite, Rows, ActiveMembers, Shops, TypeInv, TypeOK
  <2>. QED BY <1>12, <2>1, <2>3, BoundKept DEF ShopWrite
<1>. QED
  BY <1>1, <1>2, <1>3, <1>4, <1>5, <1>6, <1>7, <1>8, <1>9, <1>10, <1>11, <1>12
     DEF Step

LEMMA BoundNext == TypeInv /\ TypeInv' /\ BoundInv /\ [Next]_vars => BoundInv'
<1> SUFFICES ASSUME TypeInv, TypeInv', BoundInv, [Next]_vars PROVE BoundInv'
  OBVIOUS
<1>1. CASE Environment \/ UNCHANGED vars
  <2>1. UNCHANGED <<member, shop, pc, loc, peak>>
    BY <1>1 DEF Environment, SignUp, ChangePlan, CreatePlan, UpdatePlan,
                DeactivatePlan, vars, tables
  <2>. QED BY <2>1, BoundKept DEF Rows, ActiveMembers, Shops, Passed
<1>. QED BY <1>1, BoundStep DEF Next

\* However many requests overtake each other, the members and the shops exceed
\* the highest limit a check has read by fewer than the requests in flight
\* (assertWithinMemberLimit, assertWithinShopLimit).
THEOREM ExcessIsBounded == Spec => []ExcessIsInFlight
<1>1. BoundInv /\ TypeInv => ExcessIsInFlight
  <2> SUFFICES ASSUME BoundInv, TypeInv, NEW kind \in Limited
               PROVE  Used(kind) <= peak[kind] + Cardinality(Handler) - 1
    BY DEF ExcessIsInFlight
  <2>. QED BY UsedTyped, PassedTyped DEF BoundInv, Bounded, TypeInv, TypeOK
<1>2. Spec => []BoundInv
  BY TypesHold, TypeNext, BoundInit, BoundNext, PTL DEF Spec
<1>. QED BY <1>1, <1>2, TypesHold, PTL

-----------------------------------------------------------------------------
(* Room.  A shop request has seen room when its plan's limit, read before, *)
(* exceeds the shops there are: shops are never removed, so it had room    *)
(* when it read the limit.                                                 *)

SeenRoom(h) ==
  /\ pc[h] = "count" /\ loc[h].kind = "shop" /\ Cardinality(Shops) < loc[h].limit
       => room[h]
  /\ pc[h] = "create" => room[h]
RoomInv == \A h \in Handler : SeenRoom(h)

LEMMA ShopsTyped ==
  IsFiniteSet(Shops) /\ Cardinality(Shops) \in Nat
<1>1. Shops \in SUBSET Shop
  BY DEF Shops
<1>. QED BY <1>1, FiniteAssumption, FS_Subset, FS_CardinalityType

\* Shops are only added.
LEMMA ShopsGrow ==
  ASSUME TypeInv, [Next]_vars
  PROVE  Shops \subseteq Shops' /\ Cardinality(Shops) <= Cardinality(Shops')
<1>1. Shops \subseteq Shops'
  <2>1. CASE UNCHANGED shop
    BY <2>1 DEF Shops
  <2>2. ASSUME NEW h \in Handler, ShopCreate(h) PROVE Shops \subseteq Shops'
    <3>1. NewShop # NoShop
      BY DEF NewShop, NoShop
    <3>. QED BY <2>2, <3>1 DEF ShopCreate, Shops, TypeInv, TypeOK
  <2>3. ASSUME NEW h \in Handler, ShopWrite(h) PROVE Shops \subseteq Shops'
    <3>1. loc[h].shop \in Shop /\ Merged(loc[h]) # NoShop
      <4>1. loc[h] \in Local /\ loc[h].meta \in Metadata
        BY <2>3, HereTyped DEF ShopWrite, Fits
      <4>. QED BY <4>1 DEF Local, Merged, Pick, Metadata, Setting, Keep, NoShop
    <3>. QED BY <2>3, <3>1 DEF ShopWrite, Shops, TypeInv, TypeOK
  <2>4. CASE Environment
    BY <2>1, <2>4 DEF Environment, SignUp, ChangePlan, CreatePlan, UpdatePlan,
                      DeactivatePlan
  <2>5. ASSUME NEW h \in Handler, Step(h), ~ShopCreate(h), ~ShopWrite(h)
        PROVE  UNCHANGED shop
    BY <2>5 DEF Step, InviteStart, ShopStart, SubscriptionRead, DefaultPlanRead,
                Subscribe, Count, FindUser, CommitMember, MemberStart, MemberRead,
                MemberWrite, DefaultsStart, ShopRead, tables
  <2>. QED BY <2>1, <2>2, <2>3, <2>4, <2>5 DEF Next, vars, tables
<1>2. Shops' \in SUBSET Shop
  BY DEF Shops
<1>3. IsFiniteSet(Shops')
  BY <1>2, FiniteAssumption, FS_Subset
<1>. QED BY <1>1, <1>3, FS_Subset

LEMMA RoomInit == Init => RoomInv
BY DEF Init, RoomInv, SeenRoom

LEMMA RoomNext == TypeInv /\ TypeInv' /\ RoomInv /\ [Next]_vars => RoomInv'
<1> SUFFICES ASSUME TypeInv, TypeInv', RoomInv, [Next]_vars, NEW h \in Handler
             PROVE  SeenRoom(h)'
  BY DEF RoomInv
<1>1. Cardinality(Shops) \in Nat /\ Cardinality(Shops') \in Nat
  <2>1. IsFiniteSet(Shops')
    <3>1. Shops' \in SUBSET Shop
      BY DEF Shops
    <3>. QED BY <3>1, FiniteAssumption, FS_Subset
  <2>. QED BY <2>1, ShopsTyped, FS_CardinalityType
\* A request that does not move keeps what it has seen.
<1>2. CASE pc'[h] = pc[h] /\ loc'[h] = loc[h] /\ pc[h] \in {"count", "create"}
  <2>1. room[h] => room'[h]
    BY <1>2 DEF NoteRoom, Next, vars
  <2>2. loc[h].limit \in Nat
    BY HereTyped DEF Local
  <2>3. Cardinality(Shops') < loc[h].limit => Cardinality(Shops) < loc[h].limit
    BY <1>1, <2>2, ShopsGrow
  <2>. QED BY <1>2, <2>1, <2>3 DEF RoomInv, SeenRoom
<1>3. CASE pc'[h] \notin {"count", "create"}
  BY <1>3 DEF SeenRoom
<1>4. CASE Step(h) /\ NoteRoom
  <2>1. CASE Count(h)
    <3>1. CASE pc'[h] = "create"
      <4>1. ~(Used(loc[h].kind) >= loc[h].limit)
        BY <2>1, <3>1 DEF Count, End, Goto, TypeInv, TypeOK
      <4>2. loc[h].kind = "shop"
        BY <2>1, <3>1, <4>1, HereTyped
           DEF Count, Goto, TypeInv, TypeOK, Fits, Limited
      <4>3. loc[h].limit \in Nat
        BY HereTyped DEF Local
      <4>4. Cardinality(Shops) < loc[h].limit
        BY <1>1, <4>1, <4>2, <4>3 DEF Used
      <4>5. room[h]
        BY <2>1, <4>2, <4>4 DEF RoomInv, SeenRoom, Count
      <4>6. room'[h]
        BY <1>4, <3>1, <4>5 DEF NoteRoom
      <4>. QED BY <3>1, <4>6 DEF SeenRoom
    <3>2. pc'[h] # "count"
      BY <2>1 DEF Count, End, Goto, TypeInv, TypeOK
    <3>. QED BY <3>1, <3>2 DEF SeenRoom
  <2>2. CASE SubscriptionRead(h) \/ Subscribe(h)
    <3>1. CASE pc'[h] = "count" /\ loc'[h].kind = "shop"
      <4>1. /\ sub' # NoPlan
            /\ loc'[h].limit = LimitOf(sub', loc[h].kind)
            /\ loc'[h].kind = loc[h].kind
            /\ plan' = plan
        <5>1. loc[h] \in Local
          BY HereTyped
        <5>2. CASE SubscriptionRead(h)
          <6>1. sub # NoPlan
            BY <3>1, <5>2 DEF SubscriptionRead, Goto, TypeInv, TypeOK
          <6>. QED BY <5>1, <5>2, <6>1
                   DEF SubscriptionRead, Goto, tables, TypeInv, TypeOK, Local
        <5>3. CASE Subscribe(h)
          <6>1. sub = NoPlan
            BY <3>1, <5>3 DEF Subscribe, End, Goto, TypeInv, TypeOK
          <6>2. loc[h].plan \in Plan
            BY <5>3, HereTyped DEF Subscribe, Fits, Plans
          <6>. QED BY <5>1, <5>3, <6>1, <6>2
                   DEF Subscribe, Goto, TypeInv, TypeOK, Local
        <5>. QED BY <2>2, <5>2, <5>3
      <4>2. LimitOf(sub', loc[h].kind) = LimitOf(sub, loc[h].kind)'
        BY <3>1, <4>1 DEF LimitOf
      <4>3. sub' \in Plan
        BY <4>1 DEF TypeInv, TypeOK, Plans
      <4>4. Cardinality(Shops') < loc'[h].limit => Room(h)'
        BY <3>1, <4>1, <4>3 DEF Room, Used, LimitOf
      <4>5. Room(h)' => room'[h]
        BY <1>4, <3>1 DEF NoteRoom
      <4>. QED BY <3>1, <4>4, <4>5 DEF SeenRoom
    <3>2. pc'[h] # "create"
      BY <2>2 DEF SubscriptionRead, Subscribe, End, Goto, TypeInv, TypeOK
    <3>. QED BY <3>1, <3>2 DEF SeenRoom
  <2>3. CASE ~(Count(h) \/ SubscriptionRead(h) \/ Subscribe(h))
    <3>1. pc'[h] \notin {"count", "create"}
      BY <1>4, <2>3
         DEF Step, InviteStart, ShopStart, DefaultPlanRead, FindUser, CommitMember,
             ShopCreate, MemberStart, MemberRead, MemberWrite, DefaultsStart,
             ShopRead, ShopWrite, End, Goto, TypeInv, TypeOK
    <3>. QED BY <1>3, <3>1
  <2>. QED BY <2>1, <2>2, <2>3
<1>5. ASSUME NEW g \in Handler \ {h}, Step(g) PROVE pc'[h] = pc[h] /\ loc'[h] = loc[h]
  BY <1>5 DEF Step, InviteStart, ShopStart, SubscriptionRead, DefaultPlanRead,
              Subscribe, Count, FindUser, CommitMember, ShopCreate, MemberStart,
              MemberRead, MemberWrite, DefaultsStart, ShopRead, ShopWrite, End, Goto,
              TypeInv, TypeOK
<1>6. CASE Environment \/ UNCHANGED vars
  <2>1. pc'[h] = pc[h] /\ loc'[h] = loc[h]
    BY <1>6 DEF Environment, SignUp, ChangePlan, CreatePlan, UpdatePlan,
                DeactivatePlan, vars
  <2>. QED BY <1>2, <1>3, <2>1
<1>. QED BY <1>2, <1>3, <1>4, <1>5, <1>6 DEF Next

\* No step adds a shop for a request that had no room from its start to its end,
\* however plans change between the limit it read and its count
\* (assertWithinShopLimit).
THEOREM NoRoomNothingAdded == Spec => NothingAddedWithoutRoom
<1>1. TypeInv /\ RoomInv /\ [Next]_vars => [NoRoomNoShop]_vars
  <2> SUFFICES ASSUME RoomInv, NEW h \in Handler, pc[h] = "create", ~room[h]
               PROVE  FALSE
    BY DEF NoRoomNoShop
  <2>. QED BY DEF RoomInv, SeenRoom
<1>2. Spec => []RoomInv
  BY TypesHold, TypeNext, RoomInit, RoomNext, PTL DEF Spec
<1>. QED BY <1>1, <1>2, TypesHold, PTL DEF Spec, NothingAddedWithoutRoom

-----------------------------------------------------------------------------
(* Lone changes.  Until a change of the same shop is written, the row of a *)
(* change that nothing overlapped is the one it started from.              *)

Alone(h) ==
  lone[h] # NoShop /\ pc[h] \in {"shopRead", "shopWrite"}
  => /\ shop[loc[h].shop] = lone[h]
     /\ pc[h] = "shopWrite" => loc[h].meta = lone[h]
AloneInv == \A h \in Handler : Alone(h)

LEMMA AloneInit == Init => AloneInv
BY DEF Init, AloneInv, Alone

\* A step of another request moves neither the labels nor the locals of this one.
LEMMA OthersStay ==
  ASSUME TypeInv, NEW h \in Handler, NEW g \in Handler \ {h}, Step(g)
  PROVE  pc'[h] = pc[h] /\ loc'[h] = loc[h]
BY DEF Step, InviteStart, ShopStart, SubscriptionRead, DefaultPlanRead, Subscribe,
       Count, FindUser, CommitMember, ShopCreate, MemberStart, MemberRead, MemberWrite,
       DefaultsStart, ShopRead, ShopWrite, End, Goto, TypeInv, TypeOK

LEMMA AloneNext == TypeInv /\ AloneInv /\ [Next]_vars => AloneInv'
<1> SUFFICES ASSUME TypeInv, AloneInv, [Next]_vars, NEW h \in Handler
             PROVE  Alone(h)'
  BY DEF AloneInv
<1>1. loc[h] \in Local /\ loc[h].shop \in Shop
  BY HereTyped DEF Local
<1>2. CASE pc'[h] = pc[h] /\ loc'[h] = loc[h] /\ lone'[h] = lone[h] /\ shop' = shop
  BY <1>2 DEF AloneInv, Alone
<1>3. CASE pc'[h] \notin {"shopRead", "shopWrite"} \/ lone'[h] = NoShop
  BY <1>3 DEF Alone
<1>4. CASE Step(h)
  <2>1. CASE DefaultsStart(h)
    <3>1. PICK s \in Shops, t \in Setting \cup {Keep}, x \in Setting \cup {Keep} :
            /\ Goto(h, "shopRead", [IdleLocal EXCEPT !.kind = "defaults", !.shop = s,
                                                     !.storeType = t, !.promoXtra = x])
            /\ lone' = [lone EXCEPT ![h] = shop[s]]
      BY <2>1 DEF DefaultsStart
    <3>2. pc'[h] = "shopRead" /\ loc'[h].shop = s /\ lone'[h] = shop[s]
      BY <3>1, IdleTyped DEF Goto, TypeInv, TypeOK, Local
    <3>. QED BY <2>1, <3>2 DEF Alone, DefaultsStart, tables
  <2>2. CASE ShopRead(h)
    <3>1. /\ loc'[h].shop = loc[h].shop
          /\ loc'[h].meta = shop[loc[h].shop]
          /\ pc[h] = "shopRead"
      BY <1>1, <2>2 DEF ShopRead, Goto, TypeInv, TypeOK, Local
    <3>. QED BY <2>2, <3>1 DEF ShopRead, AloneInv, Alone, tables
  <2>3. CASE ~(DefaultsStart(h) \/ ShopRead(h))
    <3>1. pc'[h] \notin {"shopRead", "shopWrite"}
      BY <1>4, <2>3
         DEF Step, InviteStart, ShopStart, SubscriptionRead, DefaultPlanRead, Subscribe,
             Count, FindUser, CommitMember, ShopCreate, MemberStart, MemberRead,
             MemberWrite, ShopWrite, End, Goto, TypeInv, TypeOK
    <3>. QED BY <1>3, <3>1
  <2>. QED BY <2>1, <2>2, <2>3
<1>5. ASSUME NEW g \in Handler \ {h}, Step(g) PROVE Alone(h)'
  <2>1. pc'[h] = pc[h] /\ loc'[h] = loc[h]
    BY <1>5, OthersStay
  <2>2. CASE ShopCreate(g)
    <3>1. shop[loc[h].shop] # NoShop => shop'[loc[h].shop] = shop[loc[h].shop]
      BY <1>1, <2>2 DEF ShopCreate, TypeInv, TypeOK
    <3>. QED BY <2>1, <2>2, <3>1 DEF ShopCreate, AloneInv, Alone
  <2>3. CASE ShopWrite(g)
    <3>1. CASE loc[h].shop = loc[g].shop
      BY <1>3, <2>3, <3>1 DEF ShopWrite
    <3>2. CASE loc[h].shop # loc[g].shop
      <4>1. shop'[loc[h].shop] = shop[loc[h].shop] /\ lone'[h] = lone[h]
        BY <1>1, <2>3, <3>2 DEF ShopWrite, TypeInv, TypeOK
      <4>. QED BY <2>1, <4>1 DEF AloneInv, Alone
    <3>. QED BY <3>1, <3>2
  <2>4. CASE ~(ShopCreate(g) \/ ShopWrite(g))
    <3>1. shop' = shop /\ lone'[h] = lone[h]
      BY <1>5, <2>4
         DEF Step, InviteStart, ShopStart, SubscriptionRead, DefaultPlanRead, Subscribe,
             Count, FindUser, CommitMember, MemberStart, MemberRead, MemberWrite,
             DefaultsStart, ShopRead, tables, TypeInv, TypeOK
    <3>. QED BY <1>2, <2>1, <3>1
  <2>. QED BY <2>2, <2>3, <2>4
<1>6. CASE Environment \/ UNCHANGED vars
  BY <1>2, <1>6 DEF Environment, SignUp, ChangePlan, CreatePlan, UpdatePlan,
                    DeactivatePlan, vars, tables
<1>. QED BY <1>4, <1>5, <1>6 DEF Next

\* A change of a shop's defaults that nothing overlapped keeps every field it did
\* not name, although it writes the whole column (updateForOrganization).
THEOREM LoneChangesMerge == Spec => DefaultsKeepTheRest
<1>1. TypeInv /\ AloneInv /\ [Next]_vars => [LoneChangeKeepsTheRest]_vars
  <2> SUFFICES ASSUME TypeInv, AloneInv, Next, NEW h \in Handler,
                      pc[h] = "shopWrite", pc'[h] = "idle", lone[h] # NoShop
               PROVE  LET l == loc[h] IN
                      shop'[l.shop] =
                        [storeType |-> Pick(l.storeType, lone[h].storeType),
                         promoXtra |-> Pick(l.promoXtra, lone[h].promoXtra)]
    BY DEF LoneChangeKeepsTheRest
  <2>1. Step(h)
    <3>1. ASSUME NEW g \in Handler \ {h}, Step(g) PROVE FALSE
      BY <3>1, OthersStay
    <3>2. CASE Environment
      BY <3>2 DEF Environment, SignUp, ChangePlan, CreatePlan, UpdatePlan,
                  DeactivatePlan
    <3>. QED BY <3>1, <3>2 DEF Next
  <2>2. ShopWrite(h)
    BY <2>1 DEF Step, InviteStart, ShopStart, SubscriptionRead, DefaultPlanRead,
                Subscribe, Count, FindUser, CommitMember, ShopCreate, MemberStart,
                MemberRead, MemberWrite, DefaultsStart, ShopRead
  <2>3. loc[h].shop \in Shop /\ loc[h].meta = lone[h]
    BY HereTyped DEF Local, AloneInv, Alone
  <2>. QED BY <2>2, <2>3 DEF ShopWrite, Merged, TypeInv, TypeOK
<1>2. Spec => []AloneInv
  BY TypesHold, AloneInit, AloneNext, PTL DEF Spec
<1>. QED BY <1>1, <1>2, TypesHold, PTL DEF Spec, DefaultsKeepTheRest
=============================================================================
