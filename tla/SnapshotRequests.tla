-------------------------- MODULE SnapshotRequests --------------------------
(***************************************************************************)
(* Snapshots the background script asks tabs for (background.ts): one      *)
(* pending entry per tab, a timer and a promise per request.  The popup    *)
(* refreshes the active tab; a product sync opens a tab of its own, waits  *)
(* until it has loaded, asks it and closes it whatever happened.           *)
(*                                                                         *)
(* Tabs other than Active are opened by product syncs.  The user may look  *)
(* at such a tab, so a refresh may ask any open tab.  Bounds: Request, Tab *)
(* (each request is made once, each tab opened once).                      *)
(***************************************************************************)
EXTENDS FiniteSets

CONSTANTS Request, Tab, Active, NoTab, NoRequest

VARIABLES
  at,           \* where the handler of a request is
  on,           \* the tab a request is about
  tabState,     \* "closed" (not opened yet, or again), "loading", "complete"
  pending,      \* pendingSnapshotResolvers
  armed,        \* requests whose timer runs
  promise,      \* snapshotPromise: "none", "open", "resolved", "rejected"
  cut           \* history: what another request took from a waiting one: "no",
                \* "entry" (its timer still runs) or "timer" (both)

vars == <<at, on, tabState, pending, armed, promise, cut>>

Init ==
  /\ at = [r \in Request |-> "idle"]
  /\ on = [r \in Request |-> NoTab]
  /\ tabState = [t \in Tab |-> IF t = Active THEN "complete" ELSE "closed"]
  /\ pending = [t \in Tab |-> NoRequest]
  /\ armed = {}
  /\ promise = [r \in Request |-> "none"]
  /\ cut = [r \in Request |-> "no"]

Goto(r, l) == at' = [at EXCEPT ![r] = l]

Forget(t) == pending' = [pending EXCEPT ![t] = NoRequest]
CutOff(rs, what) == cut' = [q \in Request |-> IF q \in rs THEN what ELSE cut[q]]

-----------------------------------------------------------------------------
\* refreshActiveTabSnapshot
Refresh(r) ==
  /\ at[r] = "idle"
  /\ \E t \in Tab : tabState[t] # "closed" /\ on' = [on EXCEPT ![r] = t]
  /\ Goto(r, "request")
  /\ UNCHANGED <<tabState, pending, armed, promise, cut>>

\* handleSyncProductUrl opens a tab ...
OpenTab(r) ==
  /\ at[r] = "idle"
  /\ \E t \in Tab \ {Active} :
       /\ \A q \in Request : on[q] # t
       /\ on' = [on EXCEPT ![r] = t]
       /\ tabState' = [tabState EXCEPT ![t] = "loading"]
  /\ Goto(r, "opened")
  /\ UNCHANGED <<pending, armed, promise, cut>>

\* ... and waitForTabComplete asks how far it is: a tab that has loaded needs no
\* waiting, one that is gone is an error.
WaitForTab(r) ==
  /\ at[r] = "opened"
  /\ Goto(r, CASE tabState[on[r]] = "complete" -> "own"
                [] tabState[on[r]] = "closed" -> "cleanup"
                [] OTHER -> "seen")
  /\ UNCHANGED <<on, tabState, pending, armed, promise, cut>>

\* The listener is added once that answer is here; a tab that completed in the
\* meantime is not heard of any more and leaves only the timeout.
Listen(r) ==
  /\ at[r] = "seen" /\ Goto(r, "listening")
  /\ UNCHANGED <<on, tabState, pending, armed, promise, cut>>

TabCompletes(t) ==
  /\ tabState[t] = "loading"
  /\ tabState' = [tabState EXCEPT ![t] = "complete"]
  /\ at' = [r \in Request |-> IF at[r] = "listening" /\ on[r] = t THEN "own" ELSE at[r]]
  /\ UNCHANGED <<on, pending, armed, promise, cut>>

TabTimeout(r) ==
  /\ at[r] = "listening" /\ Goto(r, "cleanup")
  /\ UNCHANGED <<on, tabState, pending, armed, promise, cut>>

-----------------------------------------------------------------------------
Asks(r) == at[r] \in {"request", "own"}

\* Variant: the request before is replaced, its timer left running.
SupersedeKeepsTimer(r) ==
  LET t == on[r] IN
  /\ Asks(r)
  /\ armed' = armed \cup {r}
  /\ pending' = [pending EXCEPT ![t] = r]
  /\ promise' = [q \in Request |-> IF q = r THEN "open"
                                   ELSE IF q = pending[t] THEN "rejected" ELSE promise[q]]
  /\ at' = [at EXCEPT ![r] = IF at[r] = "own" THEN "sendOwn" ELSE "send"]
  /\ UNCHANGED <<on, tabState, cut>>

\* requestSnapshotFromTab cancels the request before it and makes its own.
RequestSnapshot(r) ==
  LET t == on[r] old == pending[t] IN
  /\ Asks(r)
  /\ armed' = (armed \ {old}) \cup {r}
  /\ pending' = [pending EXCEPT ![t] = r]
  /\ promise' = [q \in Request |-> IF q = r THEN "open"
                                   ELSE IF q = old THEN "rejected" ELSE promise[q]]
  /\ at' = [at EXCEPT ![r] = IF at[r] = "own" THEN "sendOwn" ELSE "send"]
  /\ UNCHANGED <<on, tabState, cut>>

After(r, own, other) == IF at[r] = "sendOwn" \/ at[r] = "awaitOwn" THEN own ELSE other

Sent(r) ==
  /\ at[r] \in {"send", "sendOwn"} /\ tabState[on[r]] # "closed"
  /\ Goto(r, After(r, "awaitOwn", "await"))
  /\ UNCHANGED <<on, tabState, pending, armed, promise, cut>>

\* A message that cannot be delivered removes the tab's entry, whose ever it
\* is by then, without rejecting its promise.
SendFails(r) ==
  LET p == pending[on[r]] IN
  /\ at[r] \in {"send", "sendOwn"}
  /\ Forget(on[r]) /\ armed' = armed \ {p} /\ CutOff({p} \ {r}, "timer")
  /\ Goto(r, After(r, "cleanup", "end"))
  /\ UNCHANGED <<on, tabState, promise>>

\* The listener of PAGE_SNAPSHOT_UPDATED: a tab reports when it likes.
Snapshot(t) ==
  LET p == pending[t] IN
  /\ tabState[t] # "closed" /\ p # NoRequest
  /\ Forget(t) /\ armed' = armed \ {p}
  /\ promise' = [promise EXCEPT ![p] = "resolved"]
  /\ UNCHANGED <<at, on, tabState, cut>>

\* A request's own timer removes the entry of the tab, whose ever it is.
Timer(r) ==
  LET p == pending[on[r]] IN
  /\ r \in armed
  /\ armed' = armed \ {r}
  /\ Forget(on[r]) /\ CutOff(IF cut[r] = "no" THEN {} ELSE {p} \ {r}, "entry")
  /\ promise' = [promise EXCEPT ![r] = IF @ = "open" THEN "rejected" ELSE @]
  /\ UNCHANGED <<at, on, tabState>>

Settled(r) ==
  /\ at[r] \in {"await", "awaitOwn"} /\ promise[r] # "open"
  /\ Goto(r, After(r, "cleanup", "end"))
  /\ UNCHANGED <<on, tabState, pending, armed, promise, cut>>

\* The finally of handleSyncProductUrl.
Cleanup(r) ==
  /\ at[r] = "cleanup"
  /\ Forget(on[r]) /\ CutOff({pending[on[r]]}, "entry")
  /\ Goto(r, "remove")
  /\ UNCHANGED <<on, tabState, armed, promise>>

RemoveTab(r) ==
  /\ at[r] = "remove" /\ Goto(r, "end")
  /\ tabState' = [tabState EXCEPT ![on[r]] = "closed"]
  /\ UNCHANGED <<on, pending, armed, promise, cut>>

\* The user closes a tab.
CloseTab(t) ==
  /\ tabState[t] # "closed" /\ tabState' = [tabState EXCEPT ![t] = "closed"]
  /\ UNCHANGED <<at, on, pending, armed, promise, cut>>

Step(r) ==
  \/ Refresh(r) \/ OpenTab(r) \/ WaitForTab(r) \/ Listen(r) \/ TabTimeout(r)
  \/ RequestSnapshot(r) \/ Sent(r) \/ SendFails(r) \/ Timer(r) \/ Settled(r)
  \/ Cleanup(r) \/ RemoveTab(r)

Quiet == UNCHANGED vars

Next ==
  \/ \E r \in Request : Step(r)
  \/ \E t \in Tab : TabCompletes(t) \/ Snapshot(t) \/ CloseTab(t)
  \/ Quiet

Spec == Init /\ [][Next]_vars

-----------------------------------------------------------------------------
Waits(r) == promise[r] = "open" /\ at[r] \in {"send", "sendOwn", "await", "awaitOwn"}

\* However requests, timers and clean-ups of one tab cross: a request that
\* waits is the tab's pending one and its timer will end it, unless another
\* one took its entry, a product sync by cleaning up (or, in turn, the timer of
\* a request that lost its entry so), and then the timer is still left; only a
\* message of another request that cannot be delivered leaves it with neither.
\* And only a request that still waits is pending.
OpenIsTimed ==
  /\ \A r \in Request : Waits(r) =>
       /\ cut[r] # "timer" => r \in armed
       /\ cut[r] = "no" => pending[on[r]] = r
  /\ \A t \in Tab : pending[t] # NoRequest =>
       /\ pending[t] \in armed /\ promise[pending[t]] = "open"
       /\ on[pending[t]] = t
=============================================================================
