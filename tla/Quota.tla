------------------------------- MODULE Quota -------------------------------
(***************************************************************************)
(* What one organization may hold: its members                             *)
(* (OrganizationsMembersService) and its shops (ShopsService), limited by  *)
(* the plan its subscription names, and the plans themselves               *)
(* (InternalPlansService).                                                 *)
(*                                                                         *)
(* A request is a process that stops at every awaited query.  The limit is *)
(* checked by separate reads before the row is created, so requests        *)
(* overtake each other between the check and the create.  createMember     *)
(* alone opens a transaction, at PostgreSQL's READ COMMITTED level: its    *)
(* reads are one step (user and membership row of one person), its writes  *)
(* take effect together when it commits.                                   *)
(*                                                                         *)
(* User accounts have no status here: nothing in the program ever sets one *)
(* to anything but ACTIVE, so the reactivation in createMember is the      *)
(* identity.                                                               *)
(*                                                                         *)
(* Bounds: Limit (limits an administrator enters), MaxPlanChanges (plan    *)
(* edits and subscription changes), Requests (kinds of request that come). *)
(***************************************************************************)
EXTENDS Integers, FiniteSets, Functions

CONSTANTS
  Handler,          \* requests in flight together
  User, Owner,      \* people; the one who signed the organization up
  Shop,             \* external identifiers a shop can be registered under
  Plan, NoPlan,     \* rows of the plan table; no row
  Code, FreeCode,   \* plan codes; "free-monthly"
  Limit,            \* limits a plan can have
  Requests,         \* which of "invite", "role", "remove", "shop", "defaults" come
  MaxPlanChanges

ASSUME OwnerAssumption == Owner \in User
ASSUME PlanAssumption == NoPlan \notin Plan /\ FreeCode \in Code
ASSUME LimitAssumption == Limit \subseteq Nat /\ MaxPlanChanges \in Nat
ASSUME HandlerAssumption == IsFiniteSet(Handler) /\ Handler # {}
ASSUME FiniteAssumption == IsFiniteSet(User) /\ IsFiniteSet(Shop) /\ Shop # {}

VARIABLES
  member,       \* membership row of every user
  account,      \* users that have an account
  shop,         \* shop rows, with the defaults kept in their metadata
  plan,         \* plan rows
  sub,          \* plan of the organization's subscription, NoPlan without one
  pc, loc,      \* control and locals of every request
  peak,         \* history: the highest limits any check has read
  room,         \* history: requests that met the organization below its limit
  lone,         \* history: the shop row a defaults request started from
  changes       \* plan changes so far

tables == <<member, account, shop, plan, sub>>
vars == <<tables, pc, loc, peak, room, lone, changes>>

-----------------------------------------------------------------------------
Managing == {"OWNER", "MANAGER", "AGENCY_ADMIN"}
\* The role a manager can give; STAFF and MANAGER stand for all of them.
Role == {"OWNER", "MANAGER", "STAFF"}
MemberRow == [role: Role, status: {"none", "ACTIVE", "REMOVED"}]

\* A shop's metadata: two fields a request may set separately.
Setting == {"default", "other"}
Keep == "keep"
Metadata == [storeType: Setting, promoXtra: Setting]
NoShop == [storeType |-> "none", promoXtra |-> "none"]
NewShop == [storeType |-> "default", promoXtra |-> "default"]

PlanRow == [code: Code, active: BOOLEAN, shops: Limit, members: Limit]
NoRow == [code |-> FreeCode, active |-> FALSE, shops |-> -1, members |-> -1]

Label == {"idle", "subscription", "default", "subscribe", "count", "find",
          "commit", "create", "read", "write", "shopRead", "shopWrite"}

\* What a request remembers: who it is about, the role or settings it sets,
\* the plan it found, the limit it read, and the row it read.
Local ==
  [kind: {"none", "invite", "role", "remove", "shop", "defaults"},
   actor: User, user: User, role: Role, named: BOOLEAN,
   shop: Shop, storeType: Setting \cup {Keep}, promoXtra: Setting \cup {Keep},
   plan: Plan \cup {NoPlan}, limit: Nat, known: BOOLEAN,
   row: {"none", "ACTIVE", "REMOVED"},
   meta: Metadata \cup {NoShop}]

IdleLocal ==
  [kind |-> "none", actor |-> Owner, user |-> Owner, role |-> "STAFF",
   named |-> TRUE, shop |-> CHOOSE s \in Shop : TRUE, storeType |-> Keep,
   promoXtra |-> Keep, plan |-> NoPlan, limit |-> 0, known |-> TRUE,
   row |-> "none", meta |-> NoShop]

\* The kinds of request that a limit of the plan bounds.
Limited == {"invite", "shop"}

ActiveMembers == {u \in User : member[u].status = "ACTIVE"}
Shops == {s \in Shop : shop[s] # NoShop}
Used(kind) == Cardinality(IF kind = "invite" THEN ActiveMembers ELSE Shops)
LimitOf(p, kind) == IF kind = "invite" THEN plan[p].members ELSE plan[p].shops
Plans == {p \in Plan : plan[p] # NoRow}

\* The organization after signup: its owner, and a subscription to the default
\* plan when there was one.
Init ==
  /\ member = [u \in User |-> IF u = Owner
                              THEN [role |-> "OWNER", status |-> "ACTIVE"]
                              ELSE [role |-> "STAFF", status |-> "none"]]
  /\ account = {Owner}
  /\ shop = [s \in Shop |-> NoShop]
  /\ \E p \in Plan, l \in Limit, m \in Limit :
       plan = [q \in Plan |->
                 IF q = p THEN [code |-> FreeCode, active |-> TRUE,
                                shops |-> l, members |-> m]
                          ELSE NoRow]
  /\ sub \in Plans \cup {NoPlan}
  /\ pc = [h \in Handler |-> "idle"]
  /\ loc = [h \in Handler |-> IdleLocal]
  /\ peak = [kind \in Limited |-> IF kind = "invite" THEN 1 ELSE 0]
  /\ room = [h \in Handler |-> FALSE]
  /\ lone = [h \in Handler |-> NoShop]
  /\ changes = 0

-----------------------------------------------------------------------------
\* A creating request has met room in the organization when its use was below
\* the limit of its plan in some state since the request came.
Room(h) == sub \in Plan /\ Used(loc[h].kind) < LimitOf(sub, loc[h].kind)
NoteRoom ==
  room' = [h \in Handler |-> pc'[h] # "idle" /\ (room[h] \/ Room(h)')]

\* The request goes on at label l with locals r.
Goto(h, l, r) == pc' = [pc EXCEPT ![h] = l] /\ loc' = [loc EXCEPT ![h] = r]

\* It returns or throws.
End(h) == Goto(h, "idle", IdleLocal)

\* The session guard has read an active membership with this role.
MayManage(u) == member[u].status = "ACTIVE" /\ member[u].role \in Managing

InviteStart(h) ==
  /\ pc[h] = "idle" /\ "invite" \in Requests
  /\ \E a \in User, u \in User, r \in Role \ {"OWNER"}, n \in BOOLEAN :
       /\ MayManage(a)
       /\ Goto(h, "subscription",
               [IdleLocal EXCEPT !.kind = "invite", !.actor = a, !.user = u,
                                 !.role = r, !.named = n])
  /\ UNCHANGED <<tables, peak, lone, changes>>

\* Any member may register a shop; the marketplace exists.
ShopStart(h) ==
  /\ pc[h] = "idle" /\ "shop" \in Requests
  /\ \E s \in Shop :
       Goto(h, "subscription", [IdleLocal EXCEPT !.kind = "shop", !.shop = s])
  /\ UNCHANGED <<tables, peak, lone, changes>>

\* ensureSubscriptionWithPlan: the subscription with its plan, or else a
\* default plan and a subscription to it.
SubscriptionRead(h) ==
  /\ pc[h] = "subscription"
  /\ IF sub # NoPlan
     THEN Goto(h, "count", [loc[h] EXCEPT !.limit = LimitOf(sub, loc[h].kind)])
     ELSE Goto(h, "default", loc[h])
  /\ UNCHANGED <<tables, peak, lone, changes>>

\* The plan with code free-monthly, whatever its status; else an active one,
\* the oldest, which is any of them here.
DefaultPlans ==
  LET free == {p \in Plans : plan[p].code = FreeCode}
  IN  IF free # {} THEN free ELSE {p \in Plans : plan[p].active}

DefaultPlanRead(h) ==
  /\ pc[h] = "default"
  /\ \/ \E p \in DefaultPlans : Goto(h, "subscribe", [loc[h] EXCEPT !.plan = p])
     \/ DefaultPlans = {} /\ End(h)
  /\ UNCHANGED <<tables, peak, lone, changes>>

\* A second subscription of the organization violates its unique key.
Subscribe(h) ==
  /\ pc[h] = "subscribe"
  /\ IF sub = NoPlan
     THEN /\ sub' = loc[h].plan
          /\ Goto(h, "count",
                  [loc[h] EXCEPT !.limit = LimitOf(loc[h].plan, loc[h].kind)])
     ELSE End(h) /\ UNCHANGED sub
  /\ UNCHANGED <<member, account, shop, plan, peak, lone, changes>>

\* Variant: the limit itself is still room for one more.
CountAllowsLimit(h) ==
  /\ pc[h] = "count"
  /\ IF Used(loc[h].kind) > loc[h].limit
     THEN End(h) /\ UNCHANGED peak
     ELSE /\ Goto(h, IF loc[h].kind = "invite" THEN "find" ELSE "create", loc[h])
          /\ peak' = [peak EXCEPT ![loc[h].kind] =
                        IF loc[h].limit > @ THEN loc[h].limit ELSE @]
  /\ UNCHANGED <<tables, lone, changes>>

Count(h) ==
  /\ pc[h] = "count"
  /\ IF Used(loc[h].kind) >= loc[h].limit
     THEN End(h) /\ UNCHANGED peak
     ELSE /\ Goto(h, IF loc[h].kind = "invite" THEN "find" ELSE "create", loc[h])
          /\ peak' = [peak EXCEPT ![loc[h].kind] =
                        IF loc[h].limit > @ THEN loc[h].limit ELSE @]
  /\ UNCHANGED <<tables, lone, changes>>

\* createMember's transaction reads the user and the membership.  Somebody
\* without an account needs a name and a password.
FindUser(h) ==
  LET u == loc[h].user
  IN  /\ pc[h] = "find"
      /\ IF \/ u \notin account /\ ~loc[h].named
            \/ member[u].status = "ACTIVE"
         THEN End(h)
         ELSE Goto(h, "commit", [loc[h] EXCEPT !.known = u \in account,
                                               !.row = member[u].status])
      /\ UNCHANGED <<tables, peak, lone, changes>>

\* It creates the user if there was none, and creates or restores the
\* membership; a row that appeared meanwhile violates a unique key.  The
\* restoring update is by id.
CommitMember(h) ==
  LET u == loc[h].user
      duplicate == \/ ~loc[h].known /\ u \in account
                   \/ loc[h].row = "none" /\ member[u].status # "none"
  IN  /\ pc[h] = "commit"
      /\ IF duplicate
         THEN UNCHANGED <<account, member>>
         ELSE /\ account' = account \cup {u}
              /\ member' = [member EXCEPT ![u] =
                              [role |-> loc[h].role, status |-> "ACTIVE"]]
      /\ End(h)
      /\ UNCHANGED <<shop, plan, sub, peak, lone, changes>>

\* updateMember, removeMember.
MemberStart(h) ==
  /\ pc[h] = "idle"
  /\ \E k \in Requests \cap {"role", "remove"}, a \in User, u \in User,
        r \in Role \ {"OWNER"} :
       /\ MayManage(a)
       /\ member[u].status # "none"
       /\ Goto(h, "read", [IdleLocal EXCEPT !.kind = k, !.actor = a,
                                            !.user = u, !.role = r])
  /\ UNCHANGED <<tables, peak, lone, changes>>

\* Variant: the owner is not told apart.
ReadAnyMember(h) ==
  /\ pc[h] = "read"
  /\ IF loc[h].user = loc[h].actor THEN End(h) ELSE Goto(h, "write", loc[h])
  /\ UNCHANGED <<tables, peak, lone, changes>>

MemberRead(h) ==
  /\ pc[h] = "read"
  /\ IF member[loc[h].user].role = "OWNER" \/ loc[h].user = loc[h].actor
     THEN End(h)
     ELSE Goto(h, "write", loc[h])
  /\ UNCHANGED <<tables, peak, lone, changes>>

\* Both write one column of the row, whatever has become of it.
MemberWrite(h) ==
  /\ pc[h] = "write"
  /\ member' = [member EXCEPT ![loc[h].user] =
                  IF loc[h].kind = "role" THEN [@ EXCEPT !.role = loc[h].role]
                  ELSE [@ EXCEPT !.status = "REMOVED"]]
  /\ End(h)
  /\ UNCHANGED <<account, shop, plan, sub, peak, lone, changes>>

\* A duplicate external identifier is refused by the database.
ShopCreate(h) ==
  /\ pc[h] = "create"
  /\ shop' = IF shop[loc[h].shop] = NoShop
             THEN [shop EXCEPT ![loc[h].shop] = NewShop] ELSE shop
  /\ End(h)
  /\ UNCHANGED <<member, account, plan, sub, peak, lone, changes>>

DefaultsStart(h) ==
  /\ pc[h] = "idle" /\ "defaults" \in Requests
  /\ \E s \in Shops, t \in Setting \cup {Keep}, x \in Setting \cup {Keep} :
       /\ Goto(h, "shopRead", [IdleLocal EXCEPT !.kind = "defaults", !.shop = s,
                                                !.storeType = t, !.promoXtra = x])
       /\ lone' = [lone EXCEPT ![h] = shop[s]]
  /\ UNCHANGED <<tables, peak, changes>>

ShopRead(h) ==
  /\ pc[h] = "shopRead"
  /\ Goto(h, "shopWrite", [loc[h] EXCEPT !.meta = shop[loc[h].shop]])
  /\ UNCHANGED <<tables, peak, lone, changes>>

\* What a request leaves a field at: its own value, or the one it read.
Pick(asked, read) == IF asked # Keep THEN asked ELSE read

\* Variant: a field that was not sent is reset to its default.
MergeResets(l) ==
  [storeType |-> Pick(l.storeType, "default"),
   promoXtra |-> Pick(l.promoXtra, "default")]

\* Variant: what was sent is stored, a field that was not sent too.
MergeRaw(l) == [storeType |-> l.storeType, promoXtra |-> l.promoXtra]

Merged(l) ==
  [storeType |-> Pick(l.storeType, l.meta.storeType),
   promoXtra |-> Pick(l.promoXtra, l.meta.promoXtra)]

\* The whole metadata column is written back, with what was read of it.  The
\* other requests on this shop did not run alone.
ShopWrite(h) ==
  /\ pc[h] = "shopWrite"
  /\ shop' = [shop EXCEPT ![loc[h].shop] = Merged(loc[h])]
  /\ lone' = [g \in Handler |->
                IF g = h \/ loc[g].shop = loc[h].shop THEN NoShop ELSE lone[g]]
  /\ End(h)
  /\ UNCHANGED <<member, account, plan, sub, peak, changes>>

-----------------------------------------------------------------------------
\* Outside these requests: somebody signs up on their own, a payment changes
\* the plan of the subscription, an administrator edits the plans.
SignUp ==
  /\ "invite" \in Requests
  /\ \E u \in User \ account : account' = account \cup {u}
  /\ UNCHANGED <<member, shop, plan, sub, pc, loc, peak, lone, changes>>

PlanChange == changes < MaxPlanChanges /\ changes' = changes + 1

ChangePlan ==
  /\ PlanChange
  /\ sub # NoPlan
  /\ sub' \in {p \in Plans : plan[p].active} \ {sub}
  /\ UNCHANGED <<member, account, shop, plan, pc, loc, peak, lone>>

\* InternalPlansService.create; a code is given once.
CodeIsFree(c, p) == \A q \in Plans \ {p} : plan[q].code # c

CreatePlan ==
  /\ PlanChange
  /\ \E p \in Plan \ Plans, c \in Code, l \in Limit, m \in Limit, a \in BOOLEAN :
       /\ CodeIsFree(c, p)
       /\ plan' = [plan EXCEPT ![p] =
                     [code |-> c, active |-> a, shops |-> l, members |-> m]]
  /\ UNCHANGED <<member, account, shop, sub, pc, loc, peak, lone>>

\* update: any fields, its status too, of a plan in use as well.
UpdatePlan ==
  /\ PlanChange
  /\ \E p \in Plans, c \in Code, l \in Limit, m \in Limit, a \in BOOLEAN :
       /\ CodeIsFree(c, p)
       /\ plan' = [plan EXCEPT ![p] =
                     [code |-> c, active |-> a, shops |-> l, members |-> m]]
  /\ plan' # plan
  /\ UNCHANGED <<member, account, shop, sub, pc, loc, peak, lone>>

\* deactivate: subscriptions to the plan go on.
DeactivatePlan ==
  /\ PlanChange
  /\ \E p \in Plans : plan[p].active /\ plan' = [plan EXCEPT ![p].active = FALSE]
  /\ UNCHANGED <<member, account, shop, sub, pc, loc, peak, lone>>

Step(h) ==
  \/ InviteStart(h) \/ ShopStart(h)
  \/ SubscriptionRead(h) \/ DefaultPlanRead(h) \/ Subscribe(h) \/ Count(h)
  \/ FindUser(h) \/ CommitMember(h) \/ ShopCreate(h)
  \/ MemberStart(h) \/ MemberRead(h) \/ MemberWrite(h)
  \/ DefaultsStart(h) \/ ShopRead(h) \/ ShopWrite(h)

Environment == SignUp \/ ChangePlan \/ CreatePlan \/ UpdatePlan \/ DeactivatePlan

Next == ((\E h \in Handler : Step(h)) \/ Environment) /\ NoteRoom

Spec == Init /\ [][Next]_vars

-----------------------------------------------------------------------------
\* The rows and the locals have their types; an owner's row is never absent.
TypeOK ==
  /\ member \in [User -> MemberRow]
  /\ account \subseteq User
  /\ shop \in [Shop -> Metadata \cup {NoShop}]
  /\ plan \in [Plan -> PlanRow \cup {NoRow}]
  /\ sub \in Plans \cup {NoPlan}
  /\ pc \in [Handler -> Label]
  /\ loc \in [Handler -> Local]
  /\ peak \in [Limited -> Nat]
  /\ room \in [Handler -> BOOLEAN]
  /\ lone \in [Handler -> Metadata \cup {NoShop}]
  /\ changes \in 0..MaxPlanChanges

\* Requests that have passed the limit check and not yet created their row.
Passed(kind) ==
  {h \in Handler : loc[h].kind = kind /\ pc[h] \in {"find", "commit", "create"}}

\* The check is not atomic with the create, so a limit can be exceeded, but
\* only by the requests that were in flight together: whatever the order of
\* invitations, removals and plan changes, the organization holds fewer than
\* Cardinality(Handler) members and shops more than the highest limit a check
\* has read (assertWithinMemberLimit, assertWithinShopLimit).
ExcessIsInFlight ==
  \A kind \in Limited :
    Used(kind) <= peak[kind] + Cardinality(Handler) - 1

\* The owner is neither removed nor demoted, however the roles change between
\* the read that checks them and the write (updateMember, removeMember), nor by
\* an invitation of the owner's own address.
OwnerStays == member[Owner] = [role |-> "OWNER", status |-> "ACTIVE"]

\* After a downgrade nothing is added until there is room again: a request
\* that met the organization at or over its limit from its start to its end
\* creates no shop (docs 28, section 17).
NoRoomNoShop ==
  \A h \in Handler : pc[h] = "create" /\ pc'[h] = "idle" /\ ~room[h]
    => shop' = shop

\* No step of a behaviour does so (assertWithinShopLimit).
NothingAddedWithoutRoom == [][NoRoomNoShop]_vars

\* A change of a shop's defaults that no other change of that shop overlapped
\* leaves the fields it did not name at what they were when it came, although
\* it writes the whole metadata column (updateForOrganization).
LoneChangeKeepsTheRest ==
  \A h \in Handler :
    pc[h] = "shopWrite" /\ pc'[h] = "idle" /\ lone[h] # NoShop
    => LET l == loc[h] IN
       shop'[l.shop] = [storeType |-> Pick(l.storeType, lone[h].storeType),
                        promoXtra |-> Pick(l.promoXtra, lone[h].promoXtra)]

\* Every step of a behaviour keeps to that (updateForOrganization).
DefaultsKeepTheRest == [][LoneChangeKeepsTheRest]_vars

\* While the plans stay as they are, the organization never has more shops
\* than its plan allows.
ShopLimitEnforced ==
  changes = 0 /\ sub \in Plan => Cardinality(Shops) <= plan[sub].shops
=============================================================================
