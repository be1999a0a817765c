------------------------------ MODULE Catalog ------------------------------
(***************************************************************************)
(* The marketplace's category fees: what internal admins change through    *)
(* the API (marketplace-category-fees.service) while a deploy seeds them   *)
(* (prisma/seed.js, run by infra/vps/deploy.sh after every migration).     *)
(* The seeding writes row by row from what it read at its beginning, and   *)
(* may die after any write.  The plans, which it writes over before it     *)
(* reads the fees, are left out.                                           *)
(*                                                                         *)
(* A fee row is identified by its key; Bucket(key) is its store type and   *)
(* categories without the name, Folded(key) the key in lower case, which   *)
(* is how the seeding compares.  Every fee has a secondary category, as    *)
(* the seeded ones do (the unique index does not bind the others).  Of a   *)
(* row's contents only who wrote them last is kept.  Bounds: Id, Slot,     *)
(* MaxDeploys.                                                             *)
(***************************************************************************)
EXTENDS Naturals, Sequences, SequencesExt

CONSTANTS
  Key, Bucket(_), Folded(_),
  Entries,              \* what Shopee's articles yield: <<[key, gratis]>>
  Id, Slot, NoId, MaxDeploys

VARIABLES
  fees,                 \* the table
  request,              \* of each slot, after its findUnique
  seed,                 \* the process that seeds: [at, i, read]
  deploys,              \* bound
  touched               \* history: fees that admins wrote since the seeding read them

vars == <<fees, request, seed, deploys, touched>>

None == [key |-> NoId]
Waiting == [op |-> "none", id |-> NoId]
Dead == [at |-> "dead", i |-> 1, read |-> <<>>]
Rows(f) == {i \in Id : f[i] # None}

Init ==
  /\ fees = [i \in Id |-> None]
  /\ request = [t \in Slot |-> Waiting]
  /\ seed = Dead /\ deploys = 0 /\ touched = {}

\* The unique index, and P2002 when a write breaks it.
Collides(key, i) == \E j \in Rows(fees) \ {i} : fees[j].key = key

-----------------------------------------------------------------------------
\* The admins.

AdminUnchanged == UNCHANGED <<seed, deploys>>
Touch(i) ==
  touched' = IF seed.at \in {"gratis", "entry", "update"} THEN touched \cup {i} ELSE touched

\* createGlobal
CreateFee(i) ==
  /\ fees[i] = None
  /\ \E key \in Key, gratis \in {"zero", "admin"} :
       /\ ~Collides(key, i)
       /\ fees' = [fees EXCEPT ![i] = [key |-> key, fee |-> "admin", gratis |-> gratis]]
  /\ Touch(i)
  /\ UNCHANGED request /\ AdminUnchanged

\* updateGlobal and removeGlobal first look the row up.
FindFee(t) ==
  /\ request[t] = Waiting
  /\ \E op \in {"update", "remove"}, i \in Rows(fees) :
       request' = [request EXCEPT ![t] = [op |-> op, id |-> i]]
  /\ UNCHANGED <<fees, touched>> /\ AdminUnchanged

Respond(t) == request' = [request EXCEPT ![t] = Waiting]

\* The row may be gone by then (P2025), or the key be taken (P2002).
UpdateFee(t) ==
  LET i == request[t].id IN
  /\ request[t].op = "update" /\ Respond(t) /\ AdminUnchanged
  /\ \/ /\ fees[i] # None /\ Touch(i)
        /\ \E key \in Key, gratis \in {fees[i].gratis, "zero", "admin"},
              fee \in {fees[i].fee, "admin"} :
             /\ ~Collides(key, i)
             /\ fees' = [fees EXCEPT ![i] = [key |-> key, fee |-> fee, gratis |-> gratis]]
     \/ /\ fees[i] = None \/ \E key \in Key : Collides(key, i)
        /\ UNCHANGED <<fees, touched>>

RemoveFee(t) ==
  /\ request[t].op = "remove" /\ Respond(t) /\ AdminUnchanged
  /\ fees' = [fees EXCEPT ![request[t].id] = None]
  /\ touched' = touched \ {request[t].id}

-----------------------------------------------------------------------------
\* A deploy.

SeedUnchanged == UNCHANGED <<request, deploys>>
SeedGoes == SeedUnchanged /\ touched' = IF seed' = Dead THEN {} ELSE touched
Deploy ==
  /\ seed = Dead /\ deploys < MaxDeploys
  /\ deploys' = deploys + 1 /\ seed' = [Dead EXCEPT !.at = "plans"]
  /\ UNCHANGED <<fees, request, touched>>

\* Both articles have arrived (buildShopeeCategoryFeeSeedEntries) and the fees
\* are read.
ReadFees ==
  /\ seed.at = "plans"
  /\ seed' = [at |-> "gratis", i |-> 1, read |-> fees] /\ touched' = {}
  /\ UNCHANGED fees /\ SeedUnchanged

Entry == Entries[seed.i]
\* The row that the entry's folded key names in existingFeeMap, built in the
\* order of the query.
Existing == {i \in Rows(seed.read) : Folded(seed.read[i].key) = Folded(Entry.key)}

\* The surcharges of free delivery, where a fee has none yet; if the row is gone
\* the process ends.
SeedGratis ==
  /\ seed.at = "gratis" /\ seed.i <= Len(Entries)
  /\ \/ /\ Existing = {} /\ UNCHANGED fees /\ seed' = [seed EXCEPT !.at = "entry"]
     \/ \E i \in Existing :
          IF seed.read[i].gratis # "zero" \/ ~Entry.gratis
          THEN UNCHANGED fees /\ seed' = [seed EXCEPT !.at = "entry"]
          ELSE IF fees[i] = None THEN UNCHANGED fees /\ seed' = Dead
          ELSE /\ fees' = [fees EXCEPT ![i].gratis = "seed"]
               /\ seed' = [seed EXCEPT !.at = "entry"]
  /\ SeedGoes

\* Variant: every entry is upserted.
BucketIsNew == FALSE
\* A bucket with rows is left alone.
BucketExists == \E i \in Rows(seed.read) : Bucket(seed.read[i].key) = Bucket(Entry.key)

\* The row of the entry, and what both statements of
\* upsertMarketplaceCategoryFee make of it.
Holds(i) == fees[i] # None /\ fees[i].key = Entry.key
Upserted ==
  [key |-> Entry.key, fee |-> "seed", gratis |-> IF Entry.gratis THEN "seed" ELSE "zero"]
SeedOn ==
  seed' = IF seed.i = Len(Entries) THEN Dead
          ELSE [seed EXCEPT !.at = "gratis", !.i = @ + 1]

\* The create, which throws P2002 if the row has appeared meanwhile.
SeedFee ==
  /\ seed.at = "entry"
  /\ \/ BucketExists /\ UNCHANGED fees /\ SeedOn
     \/ /\ ~BucketExists /\ \A i \in Id : ~Holds(i)
        /\ \E i \in Id : fees[i] = None /\ fees' = [fees EXCEPT ![i] = Upserted]
        /\ SeedOn
     \/ /\ ~BucketExists /\ \E i \in Id : Holds(i)
        /\ UNCHANGED fees /\ seed' = [seed EXCEPT !.at = "update"]
  /\ SeedGoes

\* The updateMany after P2002 writes over the row, if it is still there.
SeedUpdate ==
  /\ seed.at = "update"
  /\ \/ \E i \in Id : Holds(i) /\ fees' = [fees EXCEPT ![i] = Upserted]
     \/ (\A i \in Id : ~Holds(i)) /\ UNCHANGED fees
  /\ SeedOn /\ SeedGoes

\* An article that cannot be read, or the process dies.
SeedDies ==
  /\ seed # Dead /\ seed' = Dead
  /\ UNCHANGED fees /\ SeedGoes

Next ==
  \/ \E i \in Id : CreateFee(i)
  \/ \E t \in Slot : FindFee(t) \/ UpdateFee(t) \/ RemoveFee(t)
  \/ Deploy \/ ReadFees \/ SeedGratis \/ SeedFee \/ SeedUpdate
  \/ SeedDies
Spec == Init /\ [][Next]_vars

-----------------------------------------------------------------------------
\* A deploy changes a fee that is in the table only to give it surcharges where
\* it has none, however it crosses the admins' requests and earlier deploys
\* that died; unless an admin wrote the fee after the deploy had read the table.
DeploysKeepEdits ==
  [][\A i \in Rows(fees) :
       seed' # seed /\ fees'[i] # fees[i] /\ i \notin touched =>
         fees[i].gratis = "zero" /\ fees'[i] = [fees[i] EXCEPT !.gratis = "seed"]]_vars
=============================================================================
