--------------------------- MODULE RoasCalculator ---------------------------
(***************************************************************************)
(* The ROAS calculator of the content script (content.ts): one state of    *)
(* inputs per tab, saved per ad in chrome.storage, which all tabs share,   *)
(* and put back when the page of that ad is published again.               *)
(*                                                                         *)
(* An input is known by the ad it was entered for; Public stands for the   *)
(* pages without an ad (Shopee's public product pages), which share the    *)
(* calculator unsaved.  Tasks (Slot) are the asynchronous functions under  *)
(* way; each reads storage, or the background script, and goes on with     *)
(* what the tab has by then.  Bounds: Tab, Ad, Slot (each starts a task    *)
(* again and again).                                                       *)
(***************************************************************************)
EXTENDS FiniteSets

CONSTANTS Tab, Ad, Slot, Public, Blank

VARIABLES
  calc,         \* roasCalculatorState: whose inputs, whose category
  active,       \* activeRoasPersistenceKey, Blank without one
  persisted,    \* hasPersistedRoasStateForCurrentKey
  last,         \* the ad of lastSnapshot, whose overlay the user sees
  entries,      \* the entries in chrome.storage.local, Blank without one
  task,
  crossed       \* history: the ad has changed under a task or under the user

vars == <<calc, active, persisted, last, entries, task, crossed>>

Page == Ad \cup {Public}
Calc == [input: Page \cup {Blank}, category: Page \cup {Blank}]
Empty == [input |-> Blank, category |-> Blank]
NoEntries == [a \in Ad |-> Blank]
Done == [op |-> "idle", tab |-> Blank, page |-> Blank, read |-> NoEntries]

Init ==
  /\ calc = [w \in Tab |-> Empty]
  /\ active = [w \in Tab |-> Blank]
  /\ persisted = [w \in Tab |-> FALSE]
  /\ last = [w \in Tab |-> Public]
  /\ entries = NoEntries
  /\ task = [t \in Slot |-> Done]
  /\ crossed = FALSE

-----------------------------------------------------------------------------
At(t, op) == task[t].op = op
Begin(t, op, w, p) ==
  /\ At(t, "idle")
  /\ task' = [task EXCEPT ![t] = [Done EXCEPT !.op = op, !.tab = w, !.page = p]]
Goto(t, op) == task' = [task EXCEPT ![t].op = op]
Read(t, op, found) == task' = [task EXCEPT ![t] = [task[t] EXCEPT !.op = op, !.read = found]]
End(t) == task' = [task EXCEPT ![t] = Done]

Set(f, w, x) == [f EXCEPT ![w] = x]

\* getRoasPersistenceKey
Key(p) == IF p \in Ad THEN p ELSE Blank

\* The tab is at the ad whose page a task, or the user, has before him.
Stays(w, p) == active[w] = Key(p)
Cross(w, p) == crossed' = (crossed \/ ~Stays(w, p))

\* Variant: the inputs of the ad before are kept until others are found.
HydrateKeepsInputs(t, w, p) ==
  /\ \/ /\ Key(p) = Blank
        /\ active' = Set(active, w, Blank) /\ persisted' = Set(persisted, w, FALSE)
        /\ last' = Set(last, w, p) /\ UNCHANGED <<calc, task>>
     \/ /\ Key(p) # Blank /\ active[w] = p
        /\ last' = Set(last, w, p) /\ UNCHANGED <<calc, active, persisted, task>>
     \/ /\ Key(p) # Blank /\ active[w] # p
        /\ active' = Set(active, w, p)
        /\ Begin(t, "hydrate", w, p) /\ UNCHANGED <<calc, persisted, last>>
  /\ UNCHANGED <<entries, crossed>>

\* publishSnapshot begins with hydrateRoasCalculatorStateForSnapshot: the
\* calculator is reset at once for another ad, its entry is read then, and the
\* snapshot is the last one only afterwards.
Hydrate(t, w, p) ==
  /\ \/ /\ Key(p) = Blank
        /\ active' = Set(active, w, Blank) /\ persisted' = Set(persisted, w, FALSE)
        /\ last' = Set(last, w, p) /\ UNCHANGED <<calc, task>>
     \/ /\ Key(p) # Blank /\ active[w] = p
        /\ last' = Set(last, w, p) /\ UNCHANGED <<calc, active, persisted, task>>
     \/ /\ Key(p) # Blank /\ active[w] # p
        /\ calc' = Set(calc, w, Empty) /\ active' = Set(active, w, p)
        /\ Begin(t, "hydrate", w, p) /\ UNCHANGED <<persisted, last>>
  /\ UNCHANGED <<entries, crossed>>

StorageRead(t) ==
  /\ \/ /\ At(t, "hydrate")
        /\ LET p == task[t].page IN Read(t, "hydrated", [NoEntries EXCEPT ![p] = entries[p]])
     \/ At(t, "save") /\ Read(t, "saving", entries)
     \/ At(t, "clear") /\ Read(t, "clearing", entries)
  /\ UNCHANGED <<calc, active, persisted, last, entries, crossed>>

Hydrated(t) ==
  LET w == task[t].tab p == task[t].page e == task[t].read[p] IN
  /\ At(t, "hydrated") /\ End(t)
  /\ persisted' = Set(persisted, w, e # Blank)
  /\ calc' = IF e = Blank THEN calc ELSE Set(calc, w, e)
  /\ last' = Set(last, w, p)
  /\ Cross(w, p)
  /\ UNCHANGED <<active, entries>>

-----------------------------------------------------------------------------
\* The user enters something in the overlay he sees.
Enter(w) ==
  /\ calc' = [calc EXCEPT ![w].input = last[w]]
  /\ Cross(w, last[w])
  /\ UNCHANGED <<active, persisted, last, entries, task>>

\* A category picked by hand.
PickCategory(w) ==
  /\ calc' = [calc EXCEPT ![w].category = last[w]]
  /\ Cross(w, last[w])
  /\ UNCHANGED <<active, persisted, last, entries, task>>

\* The reset button: the calculator at once, the entry some time later.
Reset(t, w) ==
  /\ calc' = Set(calc, w, Empty)
  /\ IF Key(last[w]) = Blank THEN UNCHANGED task ELSE Begin(t, "clear", w, last[w])
  /\ Cross(w, last[w])
  /\ UNCHANGED <<active, persisted, last, entries>>

Cleared(t) ==
  LET w == task[t].tab p == task[t].page IN
  /\ At(t, "clearing") /\ End(t)
  /\ entries' = IF task[t].read[p] = Blank THEN entries
                ELSE [task[t].read EXCEPT ![p] = Blank]
  /\ persisted' = Set(persisted, w, FALSE)
  /\ Cross(w, p)
  /\ UNCHANGED <<calc, active, last>>

\* saveRoasCalculatorStateForSnapshot: all entries are written back, with what
\* the calculator holds once they have been read.
Save(t, w) ==
  /\ Key(last[w]) # Blank /\ ~\E s \in Slot : task[s].tab = w /\ task[s].op \in
                                                    {"save", "saving", "saved"}
  /\ Begin(t, "save", w, last[w])
  /\ UNCHANGED <<calc, active, persisted, last, entries, crossed>>

SaveWrite(t) ==
  LET w == task[t].tab p == task[t].page IN
  /\ At(t, "saving") /\ Goto(t, "saved")
  /\ entries' = [task[t].read EXCEPT ![p] = calc[w]]
  /\ Cross(w, p)
  /\ UNCHANGED <<calc, active, persisted, last>>

Saved(t) ==
  LET w == task[t].tab p == task[t].page IN
  /\ At(t, "saved") /\ End(t)
  /\ active' = Set(active, w, p) /\ persisted' = Set(persisted, w, TRUE)
  /\ Cross(w, p)
  /\ UNCHANGED <<calc, last, entries>>

-----------------------------------------------------------------------------
\* maybeAutoSuggestRoasCategory, whenever the overlay is rendered or the
\* calculator opened, and only into a calculator without a category.  That one
\* product is not matched twice running is left out: it only stops suggestions.
Suggest(t, w) ==
  /\ Begin(t, "suggest", w, last[w])
  /\ UNCHANGED <<calc, active, persisted, last, entries, crossed>>

\* No login, no catalog ...
NoSuggestion(t) ==
  /\ At(t, "suggest") /\ End(t)
  /\ UNCHANGED <<calc, active, persisted, last, entries, crossed>>

\* ... or no match; the ad is not compared again before the match is applied.
Suggested(t) ==
  LET w == task[t].tab p == task[t].page IN
  /\ At(t, "suggest") /\ End(t)
  /\ calc[w].category = Blank /\ calc' = [calc EXCEPT ![w].category = p]
  /\ Cross(w, p)
  /\ UNCHANGED <<active, persisted, last, entries>>

\* The type of the store is changed: by the user, whose category is looked up
\* again in the catalog, or by the defaults of another shop.
StoreType(w) ==
  /\ Key(last[w]) = Blank \/ ~persisted[w]
  /\ calc' = [calc EXCEPT ![w].category = Blank]
  /\ UNCHANGED <<active, persisted, last, entries, task, crossed>>

StoreTypeByHand(t, w) ==
  /\ Begin(t, "category", w, last[w])
  /\ UNCHANGED <<calc, active, persisted, last, entries, crossed>>

Recategorized(t) ==
  LET w == task[t].tab IN
  /\ At(t, "category") /\ End(t)
  /\ \/ UNCHANGED calc
     \/ calc' = [calc EXCEPT ![w].category = Blank]
  /\ Cross(w, task[t].page)
  /\ UNCHANGED <<active, persisted, last, entries>>

-----------------------------------------------------------------------------
Step(t) ==
  \/ StorageRead(t) \/ Hydrated(t) \/ Cleared(t) \/ SaveWrite(t) \/ Saved(t)
  \/ NoSuggestion(t) \/ Suggested(t) \/ Recategorized(t)
  \/ \E w \in Tab : Reset(t, w) \/ Save(t, w) \/ Suggest(t, w) \/ StoreTypeByHand(t, w)
  \/ \E w \in Tab, p \in Page : Hydrate(t, w, p)

Quiet == UNCHANGED vars

\* Of a calculator that has been crossed nothing is asked, so nothing follows.
Next ==
  \/ ~crossed /\ \E t \in Slot : Step(t)
  \/ ~crossed /\ \E w \in Tab : Enter(w) \/ PickCategory(w) \/ StoreType(w)
  \/ Quiet

Spec == Init /\ [][Next]_vars

-----------------------------------------------------------------------------
Own(c, a) == {c.input, c.category} \subseteq {a, Blank}

\* Whatever saves, resets, suggestions and other tabs' writes cross: unless the
\* ad changed under a task or under the user, the calculator of an ad and its
\* entry hold what was entered for that ad and nothing of the ad or the product
\* looked at before.
CalculatorIsOwn ==
  ~crossed =>
    /\ \A w \in Tab : active[w] # Blank => Own(calc[w], active[w])
    /\ \A a \in Ad : entries[a] # Blank => Own(entries[a], a)
=============================================================================
