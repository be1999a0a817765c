---------------------------- MODULE RoasCategory ----------------------------
(***************************************************************************)
(* The fee category of the ROAS calculator (content.ts), for one product:  *)
(* it is suggested from the product's breadcrumb, picked from the catalog, *)
(* looked up again when the user changes the type of the store, cleared    *)
(* when another shop's defaults change it, or typed.  The catalog is       *)
(* loaded once and shared by all who wait for it (loadRoasCategoryCatalog, *)
(* whose promise is remembered); only the picker's retry asks anew.        *)
(*                                                                         *)
(* A promise's waiters go on in the order they came, before the next event *)
(* of the user or of the background script; whoever needs a catalog that   *)
(* is ready goes on at once.  While the picker is shown it covers the      *)
(* calculator.  Bounds: Slot (answers of the background script awaited),   *)
(* Load (requests for the catalog in flight), MaxWaiting (who waits for    *)
(* one), one picker at a time.                                             *)
(* Labels are numbers in the order of their names; the catalog's fees do   *)
(* not change between loads.                                               *)
(***************************************************************************)
EXTENDS Naturals, Sequences

CONSTANTS
  Type,         \* types of stores
  Fees,         \* active fees: [type, primary, secondary, name]
  Paths,        \* breadcrumbs a page may have
  Slot, Load,
  MaxWaiting,   \* bound on who waits for a request
  None, Typed   \* no fee; a fee the user has typed

VARIABLES
  storeType, category, labelled,        \* roasCalculatorState, the row its fee is of
  chosen,       \* lastSelectedRoasCategory
  source,       \* lastRoasCategorySelectionSource
  suggestion,   \* lastRoasCategorySuggestion, None if it has no fee
  lastKey,      \* lastRoasCategorySuggestionKey: the type in it
  persisted,    \* hasPersistedRoasStateForCurrentKey
  path,         \* the breadcrumb
  status, promise, load,                \* roasCategoryCatalogState
  task, modal,
  stale         \* history: the type has changed under a row about to be applied,
                \* or two loads were in flight at once

calculator == <<storeType, category, labelled, chosen, source>>
suggested == <<suggestion, lastKey>>
catalog == <<status, promise, load>>
vars == <<calculator, suggested, persisted, path, catalog, task, modal, stale>>

Free == [at |-> "free", queue |-> <<>>]
Idle == [op |-> "idle", type |-> None, row |-> None]
Closed == [at |-> "closed", type |-> None]
Waiter(op, type) == [op |-> op, type |-> type]
Line(state, queue) == [at |-> state, queue |-> queue]

Init ==
  /\ storeType \in Type /\ path \in Paths
  /\ persisted \in BOOLEAN
  /\ category \in {f \in Fees : f.type = storeType /\ persisted} \cup {None}
  /\ labelled = (category # None)
  /\ chosen = None /\ source = None /\ suggestion = None /\ lastKey = None
  /\ status = "idle" /\ promise = None /\ load = [l \in Load |-> Free]
  /\ task = [t \in Slot |-> Idle] /\ modal = Closed /\ stale = FALSE

-----------------------------------------------------------------------------
\* The catalog, and what is looked up in it.

\* buildCategoryPickerCatalog
Rows(type) == {f \in Fees : f.type = type}
Least(S) == CHOOSE x \in S : \A y \in S : x <= y

\* findBestRoasCatalogMatch takes a label of the breadcrumb at each level, or
\* else the first one that occurs anywhere in it; a level without a label ends
\* the search.
Parts(labels) == {labels[i] : i \in DOMAIN labels}
Level(labels, S, i) ==
  IF i \notin DOMAIN labels THEN None
  ELSE IF labels[i] \in S THEN labels[i]
  ELSE IF S \cap Parts(labels) = {} THEN None ELSE Least(S \cap Parts(labels))

BestMatch(labels, type) ==
  LET p == Level(labels, {f.primary : f \in Rows(type)}, 1)
      group == {f \in Rows(type) : f.primary = p}
      s == Level(labels, {f.secondary : f \in group}, 2)
      sub == {f \in group : f.secondary = s}
      n == Level(labels, {f.name : f \in sub}, 3)
  IN IF \E f \in sub : f.name = n THEN CHOOSE f \in sub : f.name = n ELSE None

\* findMatchingRoasCategoryForStoreType: the same category, or else the first
\* one beside it.
Matching(type, f) ==
  LET near == {g \in Rows(type) : f # None /\ g.primary = f.primary
                                            /\ g.secondary = f.secondary}
      name == IF \E g \in near : g.name = f.name THEN f.name
              ELSE Least({g.name : g \in near})
  IN IF near = {} THEN None ELSE CHOOSE g \in near : g.name = name

\* applyRoasCategorySelection
Apply(f, s) == category' = f /\ labelled' = TRUE /\ chosen' = f /\ source' = s
\* clearRoasCategorySelection
Clear == category' = None /\ labelled' = FALSE /\ chosen' = None /\ source' = None

-----------------------------------------------------------------------------
\* What follows when the catalog is there, or has failed to load (ok).

\* maybeAutoSuggestRoasCategory: the match is of the type of the store by now,
\* the key of the type it began with.
Suggest(type, ok) ==
  LET f == BestMatch(path, storeType) IN
  IF ~ok THEN UNCHANGED <<calculator, suggested>>
  ELSE /\ lastKey' = type /\ suggestion' = f /\ UNCHANGED storeType
       /\ IF f # None /\ ~labelled /\ category = None THEN Apply(f, "auto")
          ELSE UNCHANGED <<category, labelled, chosen, source>>

\* Variant: the category of the type before is kept if the new one has none.
RecategorizedKeeps(type, ok) ==
  LET f == Matching(type, chosen) IN
  /\ UNCHANGED <<storeType, suggested>>
  /\ IF ok /\ f # None THEN Apply(f, "manual")
     ELSE UNCHANGED <<category, labelled, chosen, source>>

\* The handler of the store types.
Recategorized(type, ok) ==
  LET f == Matching(type, chosen) IN
  /\ UNCHANGED <<storeType, suggested>>
  /\ IF ok /\ f # None THEN Apply(f, "manual") ELSE Clear

\* The picker renders the rows of the type of the store by now.
Rendered(ok) == [at |-> IF ok THEN "list" ELSE "error", type |-> storeType]

Proceed(w, ok) ==
  \/ w.op = "suggest" /\ Suggest(w.type, ok) /\ UNCHANGED modal
  \/ w.op = "type" /\ Recategorized(w.type, ok) /\ UNCHANGED modal
  \/ /\ w.op = "modal" /\ UNCHANGED <<calculator, suggested>>
     /\ modal' = IF modal = Closed THEN Closed ELSE Rendered(ok)
  \/ w.op = "gone" /\ UNCHANGED <<calculator, suggested, modal>>

\* loadRoasCategoryCatalog
Flying == {l \in Load : load[l].at = "sent"}
Fetch(w) ==
  /\ \E l \in Load :
       /\ load[l] = Free /\ promise' = l
       /\ load' = [load EXCEPT ![l] = Line("sent", <<w>>)]
  /\ status' = "loading"
  /\ stale' = (stale \/ Flying # {})
Wait(w) ==
  \/ /\ status # "ready" /\ promise # None
     /\ Len(load[promise].queue) < MaxWaiting
     /\ load' = [load EXCEPT ![promise] = Line(@.at, Append(@.queue, w))]
     /\ UNCHANGED <<status, promise, stale>>
  \/ status # "ready" /\ promise = None /\ Fetch(w)

\* The request is settled: its state first, then those who wait.
Answer(l) ==
  /\ l \in Flying
  /\ \E ok \in BOOLEAN :
       /\ load' = [load EXCEPT ![l] = Line(IF ok THEN "ok" ELSE "failed", @.queue)]
       /\ status' = IF ok THEN "ready" ELSE "error"
  /\ promise' = None
  /\ UNCHANGED <<calculator, suggested, persisted, path, task, modal, stale>>

Resume(l) ==
  /\ load[l].at \in {"ok", "failed"}
  /\ Proceed(Head(load[l].queue), load[l].at = "ok")
  /\ load' = [load EXCEPT ![l] = IF Tail(@.queue) = <<>> THEN Free
                                 ELSE Line(@.at, Tail(@.queue))]
  /\ UNCHANGED <<persisted, path, status, promise, task, stale>>

-----------------------------------------------------------------------------
Begin(t, op, row) ==
  /\ task[t] = Idle
  /\ task' = [task EXCEPT ![t] = [op |-> op, type |-> storeType, row |-> row]]
End(t) == task' = [task EXCEPT ![t] = Idle]

\* maybeAutoSuggestRoasCategory, whenever the calculator is rendered: not twice
\* running for a key.
AskSuggestion(t) ==
  /\ path # <<>> /\ storeType # lastKey /\ Begin(t, "suggest", None)
  /\ UNCHANGED <<calculator, suggested, persisted, path, catalog, modal, stale>>

\* openRoasCategoryPicker
OpenPicker(t) ==
  /\ modal = Closed /\ \A s \in Slot : task[s].op # "picker"
  /\ Begin(t, "picker", None)
  /\ UNCHANGED <<calculator, suggested, persisted, path, catalog, modal, stale>>

\* GET_STATE without a login: no suggestion, or the gate instead of the picker.
NoLogin(t) ==
  /\ task[t].op \in {"suggest", "picker"} /\ End(t)
  /\ UNCHANGED <<calculator, suggested, persisted, path, catalog, modal, stale>>

StateKnown(t) ==
  /\ task[t].op = "suggest" /\ End(t) /\ UNCHANGED <<persisted, path>>
  /\ \/ status = "ready" /\ Suggest(task[t].type, TRUE) /\ UNCHANGED <<catalog, modal, stale>>
     \/ Wait(Waiter("suggest", task[t].type)) /\ UNCHANGED <<calculator, suggested, modal>>

ShowPicker(t) ==
  /\ task[t].op = "picker" /\ End(t)
  /\ \/ status = "ready" /\ modal' = Rendered(TRUE) /\ UNCHANGED <<catalog, stale>>
     \/ Wait(Waiter("modal", None)) /\ modal' = [at |-> "loading", type |-> storeType]
  /\ UNCHANGED <<calculator, suggested, persisted, path>>

\* "Coba Lagi" loads again whatever is in flight.
Retry ==
  /\ modal.at = "error" /\ Fetch(Waiter("modal", None))
  /\ modal' = [at |-> "loading", type |-> modal.type]
  /\ UNCHANGED <<calculator, suggested, persisted, path, task>>

\* A group, a sub category or a search renders the picker again.
Browse ==
  /\ modal.at = "list" /\ modal' = Rendered(TRUE)
  /\ UNCHANGED <<calculator, suggested, persisted, path, catalog, task, stale>>

Left == [l \in Load |-> Line(load[l].at, [i \in DOMAIN load[l].queue |->
           IF load[l].queue[i].op = "modal" THEN Waiter("gone", None) ELSE load[l].queue[i]])]

ClosePicker ==
  /\ modal # Closed /\ modal' = Closed /\ load' = Left
  /\ UNCHANGED <<calculator, suggested, persisted, path, status, promise, task, stale>>

\* "Pilih": the picker goes at once, the row is applied by a timer.
Pick(t) ==
  /\ modal.at = "list" /\ modal' = Closed
  /\ \E f \in Rows(modal.type) : Begin(t, "pick", f)
  /\ stale' = (stale \/ modal.type # storeType)
  /\ UNCHANGED <<calculator, suggested, persisted, path, catalog>>

Picked(t) ==
  /\ task[t].op = "pick" /\ End(t) /\ Apply(task[t].row, "manual")
  /\ UNCHANGED <<storeType, suggested, persisted, path, catalog, modal, stale>>

-----------------------------------------------------------------------------
Picking == \E t \in Slot : task[t].op = "pick"
\* A row is about to be applied for the type by now.
Underway == Picking \/ \E l \in Load : \E i \in DOMAIN load[l].queue :
                         load[l].queue[i].op = "type"

\* The user changes the type.
StoreTypeByHand ==
  /\ modal = Closed /\ UNCHANGED <<persisted, path, task, modal>>
  /\ \E type \in Type \ {storeType} :
       /\ storeType' = type
       /\ \/ /\ status = "ready" /\ UNCHANGED <<suggested, catalog>>
             /\ LET f == Matching(type, chosen) IN
                IF f # None THEN Apply(f, "manual") ELSE Clear
             /\ stale' = (stale \/ Picking)
          \/ /\ Wait(Waiter("type", type))
             /\ UNCHANGED <<category, labelled, chosen, source, suggested>>

\* Another shop has been selected and its defaults are applied to a calculator
\* that was not saved (openRoasCalculator, renderShopeeAdsProductDetailOverlay).
Defaults ==
  /\ ~persisted /\ \E type \in Type \ {storeType} : storeType' = type
  /\ Clear /\ suggestion' = None /\ lastKey' = None
  /\ stale' = (stale \/ Underway)
  /\ UNCHANGED <<persisted, path, catalog, task, modal>>

\* resetRoasCalculatorState; the entry is cleared, too (RoasCalculator says when).
Reset ==
  /\ modal = Closed /\ storeType' \in Type /\ Clear /\ persisted' = FALSE
  /\ stale' = (stale \/ (Underway /\ storeType' # storeType))
  /\ UNCHANGED <<suggested, path, catalog, task, modal>>

Save ==
  /\ modal = Closed /\ persisted' = TRUE
  /\ UNCHANGED <<calculator, suggested, path, catalog, task, modal, stale>>

\* The field of the fee.
TypeFee ==
  /\ modal = Closed
  /\ \/ category' = Typed /\ source' = "manual"
     \/ category' = None /\ source' = None
  /\ UNCHANGED <<storeType, labelled, chosen, suggested, persisted, path, catalog, task,
                 modal, stale>>

\* Promises go on before anything else happens.
Event ==
  \/ \E l \in Load : Answer(l)
  \/ \E t \in Slot : AskSuggestion(t) \/ OpenPicker(t) \/ NoLogin(t) \/ StateKnown(t)
                     \/ ShowPicker(t) \/ Pick(t) \/ Picked(t)
  \/ Retry \/ Browse \/ ClosePicker \/ StoreTypeByHand \/ Defaults \/ Reset \/ Save
  \/ TypeFee

Next ==
  \/ \E l \in Load : Resume(l)
  \/ (\A l \in Load : load[l].at \in {"free", "sent"}) /\ Event

Spec == Init /\ [][Next]_vars

-----------------------------------------------------------------------------
Calm == (\A t \in Slot : task[t] = Idle) /\ (\A l \in Load : load[l] = Free)

\* Once nothing is under way, the fee in the calculator is one of its type of
\* store; the text under it names the category it was taken from; and a picker
\* that is loading has a load that will tell it.  Excepted is a calculator whose
\* type changed under a row about to be applied, or for which two loads of the
\* catalog were in flight at once.
CategoryFits ==
  /\ (Calm /\ ~stale /\ category \in Fees) => category.type = storeType
  /\ (Calm /\ ~stale /\ source = "auto" /\ suggestion \in Rows(storeType)) =>
       category = suggestion
  /\ (modal.at = "loading") =>
       \E l \in Load : \E i \in DOMAIN load[l].queue : load[l].queue[i].op = "modal"
=============================================================================
