---------------------------- MODULE ClientsProofs ----------------------------
(***************************************************************************)
(* Proofs about the suite MCClients, for any number of tasks, tabs,        *)
(* logins, workspaces and rows: the record of the background script        *)
(* (ExtensionState), the payloads it sends (SyncPayload), the session of   *)
(* the web application (WebSession) and its pages of rows (WebRows).       *)
(***************************************************************************)
EXTENDS MCClients, FiniteSets, FiniteSetTheorems, Integers, TLAPS

LEMMA PartStays == [ClientsNext]_clientVars => part' = part
BY DEF ClientsNext, Rest, Quiet, clientVars


-----------------------------------------------------------------------------
(* A record of one login is one whose session and shops, if there is a     *)
(* session, are those of the login in it.                                  *)

Consistent(s) ==
  /\ s = [auth |-> s.auth, ext |-> s.ext, shops |-> s.shops]
  /\ s.ext = [login |-> s.ext.login, exp |-> s.ext.exp]
  /\ s.ext # Ext!NoExt => s.ext.login = s.auth /\ s.shops = s.auth

PatchKind == {"bundle", "clear", "noExt", "beat", "touch"}

\* A task that works with such records.
Proper(r) ==
  /\ r = [goal |-> r.goal, at |-> r.at, mine |-> r.mine, cur |-> r.cur,
          patch |-> r.patch, then |-> r.then]
  /\ Consistent(r.mine) /\ Consistent(r.cur) /\ r.patch.kind \in PatchKind

LoginsInv ==
  /\ Consistent(store)
  /\ task = [t \in Slot |-> task[t]]
  /\ \A t \in Slot : Proper(task[t])

LEMMA StartsConsistent == Consistent(Ext!INITIAL_STATE)
BY DEF Consistent, Ext!INITIAL_STATE, Ext!NoExt

LEMMA IdleProper == Proper(Ext!Idle)
BY StartsConsistent DEF Proper, Ext!Idle, Ext!Touch, Ext!PatchOf, PatchKind

\* A patch makes such a record of one.
LEMMA MergedConsistent ==
  ASSUME NEW s, NEW p, p.kind \in PatchKind, Consistent(s)
  PROVE  Consistent(Ext!Merged(s, p))
<1>1. CASE p.kind = "bundle"
  BY <1>1 DEF Ext!Merged, Consistent
<1>2. CASE p.kind = "clear"
  BY <1>2, StartsConsistent DEF Ext!Merged
<1>3. CASE p.kind = "noExt"
  BY <1>3 DEF Ext!Merged, Consistent, Ext!NoExt
<1>4. CASE p.kind = "beat"
  BY <1>4 DEF Ext!Merged, Consistent
<1>5. CASE p.kind = "touch"
  BY <1>5 DEF Ext!Merged
<1>. QED BY <1>1, <1>2, <1>3, <1>4, <1>5 DEF PatchKind

LEMMA GoesProper ==
  ASSUME NEW r, Proper(r), NEW l
  PROVE  /\ Proper(Ext!Moved(r, l))
         /\ \A s : Consistent(s) => Proper(Ext!MovedWith(r, l, s))
         /\ \A p : p.kind \in PatchKind => Proper(Ext!Patching(r, p, l))
<1>1. Proper(Ext!Moved(r, l))
  BY DEF Proper, Ext!Moved
<1>2. ASSUME NEW s, Consistent(s) PROVE Proper(Ext!MovedWith(r, l, s))
  <2>1. PICK q : q = [r EXCEPT !.at = l, !.mine = s]
    OBVIOUS
  <2>2. Proper(q)
    BY <1>2, <2>1 DEF Proper
  <2>. QED BY <2>1, <2>2 DEF Ext!MovedWith
<1>3. ASSUME NEW p, p.kind \in PatchKind PROVE Proper(Ext!Patching(r, p, l))
  <2>1. PICK q : q = [r EXCEPT !.at = "patchRead", !.patch = p, !.then = l,
                               !.mine = Ext!INITIAL_STATE]
    OBVIOUS
  <2>2. Proper(q)
    BY <1>3, <2>1, StartsConsistent DEF Proper
  <2>. QED BY <2>1, <2>2 DEF Ext!Patching
<1>. QED BY <1>1, <1>2, <1>3

LEMMA BecomesProper ==
  ASSUME LoginsInv, NEW t \in Slot, NEW r, Ext!Become(t, r), Proper(r), Consistent(store')
  PROVE  LoginsInv'
BY DEF LoginsInv, Ext!Become, Proper, Consistent

LEMMA StepProper ==
  ASSUME LoginsInv, NEW t \in Slot, Ext!Step(t)
  PROVE  LoginsInv'
<1>1. PICK r : r = task[t]
  OBVIOUS
<1>2. Proper(r) /\ Proper(Ext!Idle) /\ Consistent(store)
  BY <1>1, IdleProper DEF LoginsInv
<1>3. /\ Ext!PatchOf("clear").kind \in PatchKind /\ Ext!PatchOf("noExt").kind \in PatchKind
      /\ Ext!Touch.kind \in PatchKind
  BY DEF PatchKind, Ext!Touch, Ext!PatchOf
<1>4. ASSUME NEW q, Ext!Become(t, q), Proper(q), UNCHANGED store
      PROVE  LoginsInv'
  BY <1>2, <1>4, BecomesProper
<1>. USE <1>1, <1>2, GoesProper DEF Ext!Become
<1>5. CASE Ext!Start(t)
  <2>1. PICK goal, l :
          task' = [task EXCEPT ![t] = [[Ext!Idle EXCEPT !.goal = goal] EXCEPT !.at = l]]
    BY <1>5 DEF Ext!Start
  <2>2. PICK q : q = [Ext!Idle EXCEPT !.goal = goal]
    OBVIOUS
  <2>3. Proper(q)
    BY <2>2 DEF Proper
  <2>4. PICK q2 : q2 = [q EXCEPT !.at = l]
    OBVIOUS
  <2>5. Proper(q2)
    BY <2>3, <2>4 DEF Proper
  <2>. QED BY <1>4, <1>5, <2>1, <2>2, <2>4, <2>5 DEF Ext!Start
<1>6. CASE Ext!LoginCall(t)
  <2>1. PICK s : s = [Ext!INITIAL_STATE EXCEPT !.auth = logins']
    OBVIOUS
  <2>2. Consistent(s)
    BY <2>1 DEF Consistent, Ext!INITIAL_STATE, Ext!NoExt
  <2>. QED BY <1>3, <1>4, <1>6, <2>1, <2>2 DEF Ext!Fail, Ext!LoginCall, Ext!Patch, Ext!GoWith
<1>7. CASE Ext!Bundle(t)
  <2>1. PICK p : p = [kind |-> "bundle", n |-> Ext!Mine(t).auth, exp |-> now + TTL]
    OBVIOUS
  <2>2. p.kind \in PatchKind
    BY <2>1 DEF PatchKind
  <2>3. \E q \in {p, Ext!PatchOf("clear"), Ext!PatchOf("noExt"), Ext!Touch} : \E then :
          task' = [task EXCEPT ![t] = Ext!Patching(r, q, then)]
    BY <1>7, <2>1 DEF Ext!Bundle, Ext!Fail, Ext!Patch
  <2>. QED BY <1>3, <1>4, <1>7, <2>2, <2>3 DEF Ext!Bundle
<1>8. CASE Ext!Recover(t) \/ Ext!Reread(t) \/ Ext!Overview(t) \/ Ext!Beat(t)
  BY <1>4, <1>8 DEF Ext!Recover, Ext!Reread, Ext!Overview, Ext!Beat, Ext!End, Ext!Goto,
     Ext!GoWith
<1>9. CASE Ext!Recovered(t) \/ Ext!Sync(t) \/ Ext!OverviewCall(t) \/ Ext!BeatEnds(t)
  BY <1>3, <1>4, <1>9 DEF Ext!Recovered, Ext!Sync, Ext!OverviewCall, Ext!BeatEnds, Ext!End,
     Ext!Patch
<1>10. CASE Ext!Ensure(t)
  BY <1>3, <1>4, <1>10 DEF Ext!Ensure, Ext!Goto, Ext!GoWith, Ext!Patch
<1>11. CASE Ext!BeatCall(t)
  <2>1. PICK p : p = [kind |-> "beat", n |-> Ext!Mine(t).ext.login, exp |-> now + TTL]
    OBVIOUS
  <2>2. p.kind \in PatchKind
    BY <2>1 DEF PatchKind
  <2>3. PICK q : q = [r EXCEPT !.at = "recover", !.goal = "lost"]
    OBVIOUS
  <2>4. Proper(q)
    BY <2>3 DEF Proper
  <2>5. \/ Ext!Become(t, q)
        \/ \E s \in {p, Ext!PatchOf("noExt")} : Ext!Become(t, Ext!Patching(r, s, "idle"))
    BY <1>11, <2>1, <2>3 DEF Ext!BeatCall, Ext!Patch
  <2>. QED BY <1>3, <1>4, <1>11, <2>2, <2>4, <2>5 DEF Ext!BeatCall
<1>12. CASE Ext!PatchRead(t)
  <2>1. PICK q : q = [r EXCEPT !.at = "patchWrite", !.cur = store]
    OBVIOUS
  <2>2. Proper(q)
    BY <2>1 DEF Proper
  <2>. QED BY <1>4, <1>12, <2>1, <2>2 DEF Ext!PatchRead
<1>13. CASE Ext!PatchWrite(t)
  <2>1. PICK next : next = Ext!Merged(r.cur, r.patch)
    OBVIOUS
  <2>2. Consistent(next)
    BY <2>1, MergedConsistent DEF Proper
  <2>3. PICK q : q = [r EXCEPT !.at = r.then, !.mine = next, !.cur = Ext!INITIAL_STATE,
                               !.patch = Ext!Touch, !.then = "idle"]
    OBVIOUS
  <2>4. Proper(q)
    BY <1>3, <2>2, <2>3, StartsConsistent DEF Proper
  <2>5. store' = next /\ (Ext!Become(t, Ext!Idle) \/ Ext!Become(t, q))
    BY <1>13, <2>1, <2>3 DEF Ext!PatchWrite, Ext!End
  <2>. QED BY <2>2, <2>4, <2>5, BecomesProper
<1>. QED
  BY <1>5, <1>6, <1>7, <1>8, <1>9, <1>10, <1>11, <1>12, <1>13 DEF Ext!Step

LEMMA LoginsStart == Ext!Init => LoginsInv
BY StartsConsistent, IdleProper DEF Ext!Init, LoginsInv

LEMMA LoginsNext == LoginsInv /\ [Ext!Next]_backgroundVars => LoginsInv'
<1>. SUFFICES ASSUME LoginsInv, [Ext!Next]_backgroundVars PROVE LoginsInv'
  OBVIOUS
<1>1. CASE Ext!Logout
  BY <1>1, StartsConsistent DEF Ext!Logout, LoginsInv
<1>2. CASE Ext!Dies \/ Ext!Tick \/ UNCHANGED backgroundVars
  BY <1>2 DEF Ext!Dies, Ext!Tick, backgroundVars, LoginsInv
<1>3. CASE Ext!Stopped
  BY <1>3, IdleProper DEF Ext!Stopped, LoginsInv
<1>. QED BY <1>1, <1>2, <1>3, StepProper DEF Ext!Next

LEMMA BackgroundMove ==
  part = "background" /\ [ClientsNext]_clientVars => [Ext!Next]_backgroundVars
BY DEF ClientsNext, Rest, Quiet, clientVars

\* Neither the record nor the state a handler works with combines two logins,
\* whatever patches overwrite each other (patchExtensionState).
THEOREM LoginsAreNotMixed == ClientsSpec => []OneLogin
<1> DEFINE Inv == part = "background" => LoginsInv
<1>1. ClientsInit => Inv
  BY LoginsStart DEF ClientsInit
<1>2. Inv /\ [ClientsNext]_clientVars => Inv'
  BY PartStays, BackgroundMove, LoginsNext
<1>3. Inv => OneLogin
  <2>1. ASSUME LoginsInv, NEW s \in {store} \cup {task[t].mine : t \in Slot} PROVE Consistent(s)
    BY <2>1 DEF LoginsInv, Proper
  <2>2. LoginsInv => Ext!OneLogin
    BY <2>1 DEF Consistent, Ext!OneLogin
  <2>. QED BY <2>2 DEF OneLogin
<1>. QED BY <1>1, <1>2, <1>3, PTL DEF ClientsSpec

-----------------------------------------------------------------------------
(* After a logout that met no task in flight the record is empty, and so   *)
(* is what a task works with: it is nothing, or before its first answer,   *)
(* or about to touch the record.                                           *)

OutAt == {"idle", "ensure", "ensured", "beat", "patchRead", "patchWrite"}
OutPatch == {"touch", "noExt"}
OutOf(r) ==
  /\ r.at \in OutAt /\ r.goal # "login" /\ r.then = "idle"
  /\ r.mine = Ext!INITIAL_STATE /\ r.cur = Ext!INITIAL_STATE /\ r.patch.kind \in OutPatch

OutInv ==
  /\ \A t \in Slot : task[t].at = "idle" => task[t] = Ext!Idle
  /\ out => store = Ext!INITIAL_STATE /\ \A t \in Slot : OutOf(task[t])

LEMMA IdleOut == OutOf(Ext!Idle) /\ Ext!Idle.at = "idle"
BY DEF OutOf, OutAt, OutPatch, Ext!Idle, Ext!Touch, Ext!PatchOf

LEMMA GoesAt ==
  ASSUME NEW r, Proper(r), NEW l
  PROVE  /\ Ext!Moved(r, l).at = l
         /\ \A s : Ext!MovedWith(r, l, s).at = l
         /\ \A p : Ext!Patching(r, p, l).at = "patchRead"
BY DEF Proper, Ext!Moved, Ext!MovedWith, Ext!Patching

LEMMA GoesOut ==
  ASSUME NEW r, Proper(r), OutOf(r)
  PROVE  /\ Ext!MovedWith(r, "ensured", Ext!INITIAL_STATE).at = "ensured"
         /\ OutOf(Ext!MovedWith(r, "ensured", Ext!INITIAL_STATE))
         /\ \A p : p.kind \in OutPatch => OutOf(Ext!Patching(r, p, "idle"))
<1>1. PICK q : q = [r EXCEPT !.at = "ensured", !.mine = Ext!INITIAL_STATE]
  OBVIOUS
<1>2. q.at = "ensured" /\ OutOf(q)
  BY <1>1 DEF Proper, OutOf, OutAt
<1>3. ASSUME NEW p, p.kind \in OutPatch PROVE OutOf(Ext!Patching(r, p, "idle"))
  <2>1. PICK s : s = [r EXCEPT !.at = "patchRead", !.patch = p, !.then = "idle",
                               !.mine = Ext!INITIAL_STATE]
    OBVIOUS
  <2>2. OutOf(s)
    BY <1>3, <2>1 DEF Proper, OutOf, OutAt
  <2>. QED BY <2>1, <2>2 DEF Ext!Patching
<1>. QED BY <1>1, <1>2, <1>3 DEF Ext!MovedWith

\* A step that leaves its task calm, if it was, and the record empty.
LEMMA BecomesOut ==
  ASSUME LoginsInv, OutInv, NEW t \in Slot, NEW q, Ext!Become(t, q),
         q.at = "idle" => q = Ext!Idle,
         out' => out /\ OutOf(q) /\ store' = Ext!INITIAL_STATE
  PROVE  OutInv'
BY DEF LoginsInv, OutInv, Ext!Become

LEMMA StepOut ==
  ASSUME LoginsInv, OutInv, NEW t \in Slot, Ext!Step(t)
  PROVE  OutInv'
<1>1. PICK r : r = task[t]
  OBVIOUS
<1>2. Proper(r) /\ (out => OutOf(r) /\ store = Ext!INITIAL_STATE)
  BY <1>1 DEF LoginsInv, OutInv
<1>3. /\ Ext!PatchOf("noExt").kind \in OutPatch /\ Ext!Touch.kind \in OutPatch
      /\ Ext!INITIAL_STATE.auth = 0 /\ Ext!INITIAL_STATE.ext = Ext!NoExt
  BY DEF OutPatch, Ext!Touch, Ext!PatchOf, Ext!INITIAL_STATE
<1>4. ASSUME NEW q, Ext!Become(t, q), q.at = "idle" => q = Ext!Idle,
             out' => out, out => OutOf(q), store' = store
      PROVE  OutInv'
  BY <1>2, <1>4, BecomesOut
<1>. USE <1>1, <1>2, GoesAt DEF Ext!Become
<1>5. CASE Ext!Start(t)
  <2>1. PICK goal :
          LET new == [Ext!Idle EXCEPT !.goal = goal]
              Goes(l) == task' = [task EXCEPT ![t] = [new EXCEPT !.at = l]]
          IN  \/ goal = "login" /\ Goes("login")
              \/ goal # "login" /\ (Goes("ensure") \/ Goes("beat") \/ Goes("patchRead"))
    BY <1>5 DEF Ext!Start
  <2>2. PICK l \in {"login", "ensure", "beat", "patchRead"} :
          /\ task' = [task EXCEPT ![t] = [[Ext!Idle EXCEPT !.goal = goal] EXCEPT !.at = l]]
          /\ (goal = "login" => l = "login") /\ (l = "login" => goal = "login")
    BY <2>1
  <2>3. PICK q : q = [Ext!Idle EXCEPT !.goal = goal]
    OBVIOUS
  <2>4. PICK q2 : q2 = [q EXCEPT !.at = l]
    OBVIOUS
  <2>5. /\ q2.at = l /\ q2.goal = goal /\ q2.then = "idle" /\ q2.mine = Ext!INITIAL_STATE
        /\ q2.cur = Ext!INITIAL_STATE /\ q2.patch = Ext!Touch
    BY <2>3, <2>4 DEF Ext!Idle
  <2>6. task'[t] = q2
    BY <2>2, <2>3, <2>4 DEF LoginsInv
  <2>7. out' => out /\ goal # "login"
    BY <1>5, <2>5, <2>6 DEF Ext!Start
  <2>8. out' => OutOf(q2)
    BY <1>3, <2>2, <2>5, <2>7 DEF OutOf, OutAt
  <2>. QED BY <1>5, <2>2, <2>3, <2>4, <2>5, <2>7, <2>8, BecomesOut DEF Ext!Start
<1>6. ASSUME ~OutOf(r), out' = out,
             \/ \E p, l : Ext!Become(t, Ext!Patching(r, p, l))
             \/ \E s, l : Ext!Become(t, Ext!MovedWith(r, l, s)) /\ l # "idle"
      PROVE  OutInv'
  <2>1. CASE \E p, l : Ext!Become(t, Ext!Patching(r, p, l))
    <3>1. PICK q, p, l : q = Ext!Patching(r, p, l) /\ Ext!Become(t, q)
      BY <2>1
    <3>2. q.at = "patchRead"
      BY <3>1
    <3>. QED BY <1>6, <3>1, <3>2, BecomesOut
  <2>2. CASE \E s, l : Ext!Become(t, Ext!MovedWith(r, l, s)) /\ l # "idle"
    <3>1. PICK q, s, l : q = Ext!MovedWith(r, l, s) /\ Ext!Become(t, q) /\ l # "idle"
      BY <2>2
    <3>2. Ext!MovedWith(r, l, s).at = l
      BY GoesAt
    <3>3. q.at # "idle"
      BY <3>1, <3>2
    <3>. QED BY <1>6, <3>1, <3>3, BecomesOut
  <2>. QED BY <1>6, <2>1, <2>2
<1>7. CASE Ext!LoginCall(t) \/ Ext!Recover(t) \/ Ext!Recovered(t)
         \/ Ext!Reread(t) \/ Ext!OverviewCall(t)
  <2>1. ~OutOf(r)
    BY <1>7 DEF Ext!LoginCall, Ext!Recover, Ext!Recovered, Ext!Reread, Ext!OverviewCall,
       Ext!At, OutOf, OutAt
  <2>2. CASE Ext!LoginCall(t)
    BY <1>6, <2>1, <2>2 DEF Ext!LoginCall, Ext!Fail, Ext!Patch, Ext!GoWith
  <2>3. CASE Ext!Recover(t) \/ Ext!Reread(t)
    BY <1>6, <2>1, <2>3 DEF Ext!Recover, Ext!Reread, Ext!GoWith
  <2>4. CASE Ext!Recovered(t) \/ Ext!OverviewCall(t)
    BY <1>6, <2>1, <2>4 DEF Ext!Recovered, Ext!OverviewCall, Ext!Patch
  <2>. QED BY <1>7, <2>2, <2>3, <2>4
<1>8. CASE Ext!Bundle(t)
  <2>1. ~OutOf(r)
    BY <1>8 DEF Ext!Bundle, Ext!At, OutOf, OutAt
  <2>. QED BY <1>6, <1>8, <2>1 DEF Ext!Bundle, Ext!Fail, Ext!Patch
<1>9. CASE Ext!BeatCall(t)
  <2>1. ~OutOf(r)
    BY <1>9 DEF Ext!BeatCall, Ext!At, OutOf, OutAt
  <2>2. PICK q : q = [r EXCEPT !.at = "recover", !.goal = "lost"]
    OBVIOUS
  <2>3. q.at = "recover"
    BY <2>2 DEF Proper
  <2>4. CASE Ext!Become(t, q)
    BY <1>9, <2>1, <2>3, <2>4, BecomesOut DEF Ext!BeatCall
  <2>5. CASE \E p, l : Ext!Become(t, Ext!Patching(r, p, l))
    BY <1>6, <1>9, <2>1, <2>5 DEF Ext!BeatCall
  <2>. QED BY <1>9, <2>2, <2>4, <2>5 DEF Ext!BeatCall, Ext!Patch
<1>10. CASE Ext!Ensure(t)
  <2>1. UNCHANGED <<store, out>>
    BY <1>10 DEF Ext!Ensure
  <2>2. CASE Ext!Become(t, Ext!MovedWith(r, "ensured", store))
    <3>1. PICK q : q = Ext!MovedWith(r, "ensured", store)
      OBVIOUS
    <3>2. q.at = "ensured" /\ (out => OutOf(q))
      BY <3>1, GoesOut
    <3>. QED BY <1>4, <2>1, <2>2, <3>1, <3>2
  <2>3. CASE ~out /\ (\/ Ext!Become(t, Ext!Moved(r, "recover"))
                      \/ Ext!Become(t, Ext!Patching(r, Ext!PatchOf("clear"), "reread")))
    <3>1. PICK q \in {Ext!Moved(r, "recover"), Ext!Patching(r, Ext!PatchOf("clear"), "reread")} :
            Ext!Become(t, q)
      BY <2>3
    <3>2. q.at # "idle"
      BY <3>1
    <3>. QED BY <1>4, <2>1, <2>3, <3>1, <3>2
  <2>4. store = Ext!INITIAL_STATE => store.auth = 0 /\ store.ext = Ext!NoExt
    BY <1>3
  <2>. QED BY <1>10, <2>2, <2>3, <2>4 DEF Ext!Ensure, Ext!Goto, Ext!GoWith, Ext!Patch
<1>11. CASE Ext!Overview(t)
  BY <1>3, <1>4, <1>11, IdleOut DEF Ext!Overview, Ext!End, Ext!GoWith
<1>12. CASE Ext!Sync(t) \/ Ext!BeatEnds(t)
  BY <1>3, <1>4, <1>12, IdleOut, GoesOut DEF Ext!Sync, Ext!BeatEnds, Ext!End, Ext!Patch
<1>13. CASE Ext!Beat(t)
  BY <1>3, <1>4, <1>13, IdleOut DEF Ext!Beat, Ext!End, Ext!Goto, Ext!GoWith
<1>14. CASE Ext!PatchRead(t)
  <2>1. PICK q : q = [r EXCEPT !.at = "patchWrite", !.cur = store]
    OBVIOUS
  <2>2. q.at = "patchWrite" /\ (out => OutOf(q))
    BY <2>1 DEF Proper, OutOf, OutAt
  <2>. QED BY <1>4, <1>14, <2>1, <2>2 DEF Ext!PatchRead
<1>15. CASE Ext!PatchWrite(t)
  <2>1. PICK next : next = Ext!Merged(r.cur, r.patch)
    OBVIOUS
  <2>2. out => next = Ext!INITIAL_STATE
    BY <2>1 DEF OutOf, OutPatch, Ext!Merged, Ext!INITIAL_STATE
  <2>3. PICK q : q = [r EXCEPT !.at = r.then, !.mine = next, !.cur = Ext!INITIAL_STATE,
                               !.patch = Ext!Touch, !.then = "idle"]
    OBVIOUS
  <2>4. q.at = r.then
    BY <2>3 DEF Proper
  <2>5. /\ store' = next /\ out' = out
        /\ \/ Ext!Become(t, Ext!Idle)
           \/ r.then # "idle" /\ Ext!Become(t, q)
    BY <1>15, <2>1, <2>3 DEF Ext!PatchWrite, Ext!End
  <2>6. r.then # "idle" => ~out
    BY DEF OutOf
  <2>. QED BY <2>2, <2>4, <2>5, <2>6, IdleOut, BecomesOut
<1>. QED
  BY <1>5, <1>7, <1>8, <1>9, <1>10, <1>11, <1>12, <1>13, <1>14, <1>15 DEF Ext!Step

LEMMA OutNext == LoginsInv /\ OutInv /\ [Ext!Next]_backgroundVars => OutInv'
<1>. SUFFICES ASSUME LoginsInv, OutInv, [Ext!Next]_backgroundVars PROVE OutInv'
  OBVIOUS
<1>1. CASE Ext!Logout
  BY <1>1, IdleOut DEF Ext!Logout, OutInv, Ext!At
<1>2. CASE Ext!Dies \/ Ext!Tick \/ UNCHANGED backgroundVars
  BY <1>2 DEF Ext!Dies, Ext!Tick, backgroundVars, OutInv
<1>3. CASE Ext!Stopped
  BY <1>3, IdleOut DEF Ext!Stopped, OutInv
<1>. QED BY <1>1, <1>2, <1>3, StepOut DEF Ext!Next

LEMMA OutStart == Ext!Init => OutInv
BY IdleOut DEF Ext!Init, OutInv

LEMMA LogoutHolds == ClientsSpec => [](part = "background" => Ext!LogoutIsFinal)
<1> DEFINE Inv == part = "background" => LoginsInv /\ OutInv
<1>1. ClientsInit => Inv
  BY LoginsStart, OutStart DEF ClientsInit
<1>2. Inv /\ [ClientsNext]_clientVars => Inv'
  BY PartStays, BackgroundMove, LoginsNext, OutNext
<1>3. Inv => (part = "background" => Ext!LogoutIsFinal)
  BY DEF OutInv, Ext!LogoutIsFinal, Ext!INITIAL_STATE
<1>. QED BY <1>1, <1>2, <1>3, PTL DEF ClientsSpec

-----------------------------------------------------------------------------
(* Payloads.                                                               *)

LEMMA PayloadMove ==
  part = "payloads" /\ [ClientsNext]_clientVars => [Payloads!Next]_payloadVars
BY DEF ClientsNext, Rest, Quiet, clientVars

\* What is detected of a page, and in which mode it is sent.
LEMMA DetectedTypes ==
  ASSUME NEW p \in Payloads!Page, NEW type, type = Payloads!DetectedType(p), type # "unknown"
  PROVE  /\ type \in Payloads!AllowedPageTypes \cup {"shopee_ads_product_detail"}
         /\ Payloads!Mode(type) \in {"owned", "public"}
BY DEF Payloads!Page, Payloads!Host, Payloads!Path, Payloads!DetectedType, Payloads!PageType,
       Payloads!Shopee, Payloads!Mode, Payloads!Owned, Payloads!AllowedPageTypes

LEMMA TakenOrNamed ==
  ASSUME NEW p \in Payloads!Page, NEW load, load = Payloads!Payload(p),
         load.type # "unknown", load.mode = "owned" => selected # None
  PROVE  \/ Payloads!Refusal(load) = "none"
         \/ load.type = "shopee_ads_product_detail"
         \/ session.version # version
         \/ load.mode = "owned" /\ session.shop \notin {None, selected}
<1>1. PICK type : type = Payloads!DetectedType(p)
  OBVIOUS
<1>2. /\ load.type = type /\ load.mode = Payloads!Mode(type) /\ load.version = version
      /\ load.shop = IF load.mode = "owned" THEN selected ELSE None
  BY <1>1 DEF Payloads!Payload
<1>3. /\ type \in Payloads!AllowedPageTypes \cup {"shopee_ads_product_detail"}
      /\ load.mode \in {"owned", "public"}
  BY <1>1, <1>2, DetectedTypes
<1>. QED BY <1>2, <1>3 DEF Payloads!Refusal, Payloads!Validated

\* What the extension is ready to send of a page, the API takes, but for the causes
\* named (buildSyncPayload, CreateIngestionBatchDto, assertSessionMatchesRequest).
THEOREM PayloadsFitTheApi == ClientsSpec => []PayloadsAreTaken
<1> DEFINE Inv == part = "payloads" => page \in Payloads!Page /\ Payloads!PayloadsAreTaken
<1>1. ClientsInit => Inv
  <2>1. Payloads!Start \in Payloads!Page
    BY DEF Payloads!Start, Payloads!Page, Payloads!Host, Payloads!Path
  <2>2. part = "payloads" /\ ClientsInit => page = Payloads!Start /\ ~answer.sent
    BY DEF ClientsInit, Payloads!Init
  <2>. QED BY <2>1, <2>2 DEF Payloads!PayloadsAreTaken
<1>2. ASSUME page \in Payloads!Page, Payloads!PayloadsAreTaken, [Payloads!Next]_payloadVars
      PROVE  (page \in Payloads!Page /\ Payloads!PayloadsAreTaken)'
  <2>1. CASE \/ Payloads!Navigate \/ Payloads!SelectShop \/ Payloads!CreateSession
             \/ Payloads!Update
    BY <1>2, <2>1 DEF Payloads!Navigate, Payloads!SelectShop, Payloads!CreateSession,
       Payloads!Update, Payloads!PayloadsAreTaken
  <2>2. CASE Payloads!SyncNow
    <3>1. PICK load : load = Payloads!Built
      OBVIOUS
    <3>2. /\ answer' = IF load.ok THEN [sent |-> TRUE, payload |-> load,
                                        refusal |-> Payloads!Refusal(load)]
                       ELSE [sent |-> FALSE]
          /\ UNCHANGED <<page, version, selected, session>>
      BY <2>2, <3>1 DEF Payloads!SyncNow
    <3>3. load.ok => /\ load = Payloads!Payload(page) /\ load.type # "unknown"
                     /\ load.mode = "owned" => selected # None
      BY <3>1 DEF Payloads!Built, Payloads!Complaint, Payloads!Payload
    <3>4. load.ok => \/ Payloads!Refusal(load) = "none"
                     \/ load.type = "shopee_ads_product_detail"
                     \/ session.version # version
                     \/ load.mode = "owned" /\ session.shop \notin {None, selected}
      BY <1>2, <3>3, TakenOrNamed
    <3>. QED BY <1>2, <3>2, <3>4 DEF Payloads!PayloadsAreTaken
  <2>3. CASE Payloads!SyncProductPreview
    <3>1. PICK load : load = Payloads!Payload(Payloads!Preview)
      OBVIOUS
    <3>2. /\ answer' = [sent |-> TRUE, payload |-> load, refusal |-> Payloads!Refusal(load)]
          /\ UNCHANGED <<page, version, selected, session>>
      BY <2>3, <3>1 DEF Payloads!SyncProductPreview
    <3>3. Payloads!Preview \in Payloads!Page
      BY DEF Payloads!Preview, Payloads!Page, Payloads!Host, Payloads!Path
    <3>4. load.type = "shopee_public_product" /\ load.mode = "public"
      BY <3>1 DEF Payloads!Payload, Payloads!DetectedType, Payloads!PageType, Payloads!Shopee,
         Payloads!Mode, Payloads!Owned, Payloads!Preview
    <3>5. \/ Payloads!Refusal(load) = "none" \/ session.version # version
      BY <3>1, <3>3, <3>4, TakenOrNamed
    <3>. QED BY <1>2, <3>2, <3>5 DEF Payloads!PayloadsAreTaken
  <2>4. CASE UNCHANGED payloadVars
    BY <1>2, <2>4 DEF payloadVars, Payloads!PayloadsAreTaken
  <2>. QED BY <1>2, <2>1, <2>2, <2>3, <2>4 DEF Payloads!Next
<1>3. Inv /\ [ClientsNext]_clientVars => Inv'
  BY <1>2, PartStays, PayloadMove
<1>4. Inv => PayloadsAreTaken
  BY DEF PayloadsAreTaken
<1>. QED BY <1>1, <1>3, <1>4, PTL DEF ClientsSpec

-----------------------------------------------------------------------------
(* The session of the web application.                                     *)

LEMMA WebMove == part = "web" /\ [ClientsNext]_clientVars => [Web!Next]_sessionVars
BY DEF ClientsNext, Rest, Quiet, clientVars

WebRequest ==
  [op : {"idle", "login", "refresh", "switch", "switched"}, tab : Tab \cup {None},
   login : Web!Login \cup {None}, me : Org \cup {None}, current : Org \cup {None},
   clean : BOOLEAN]
Profile == [token : Web!Login, org : Org] \cup {None}

WebTypes ==
  /\ org \in [Web!Login -> Org] /\ stored \in Web!Session /\ webLogins \in 0..MaxLogins
  /\ ready \in [Tab -> BOOLEAN] /\ tabSession \in [Tab -> Web!Session]
  /\ profile \in [Tab -> Profile] /\ current \in [Tab -> Profile]
  /\ call \in [Slot -> WebRequest] /\ fresh \in [Tab -> BOOLEAN]

\* A request is a login's and a loaded tab's, and a tab that is not loaded has no
\* session.
RequestFits(k) ==
  /\ k.op # "idle" => k.tab \in Tab /\ k.login \in Web!Login /\ ready[k.tab]
  /\ k.op \in {"switch", "switched"} => k.me \in Org
  /\ k.op = "refresh" /\ k.clean => {k.me, k.current} \subseteq {None, org[k.login]}
RequestsFit == \A t \in Slot : RequestFits(call[t])
SessionsFit == \A b \in Tab : ~ready[b] => tabSession[b] = None

\* A tab whose last answer was the API's has the session, profile and workspace of one
\* login, or asks for them.
OfOneLogin(b) ==
  LET s == tabSession[b] IN
  /\ s.user = s.token
  /\ profile[b] = [token |-> s.token, org |-> org[s.token]]
  /\ current[b] = profile[b]
  /\ s.org = org[s.token]
Asking(t, b) == call[t].tab = b /\ call[t].op \in {"switched", "refresh"}
FreshFits(b) ==
  fresh[b] => tabSession[b] # None /\ (OfOneLogin(b) \/ \E t \in Slot : Asking(t, b))

WebInv == WebTypes /\ RequestsFit /\ SessionsFit /\ \A b \in Tab : FreshFits(b)

LEMMA NoRequest ==
  /\ Web!Idle \in WebRequest /\ Web!Idle.op = "idle" /\ Web!Idle.tab = None
BY DEF Web!Idle, Web!Request, WebRequest

LEMMA WebStart == Web!Init => WebInv
<1> SUFFICES ASSUME Web!Init PROVE WebInv
  OBVIOUS
<1>1. WebTypes
  BY NoRequest, BoundsAssumption DEF Web!Init, WebTypes, Web!Session, Profile
<1>2. RequestsFit
  BY NoRequest DEF Web!Init, RequestsFit, RequestFits
<1>3. SessionsFit /\ \A b \in Tab : FreshFits(b)
  BY DEF Web!Init, SessionsFit, FreshFits
<1>. QED BY <1>1, <1>2, <1>3 DEF WebInv

\* What a step leaves alone stays as it was.
LEMMA FreshStays ==
  ASSUME WebInv, NEW b \in Tab, fresh'[b] => fresh[b],
         tabSession'[b] = tabSession[b], profile'[b] = profile[b], current'[b] = current[b],
         tabSession[b] # None => org'[tabSession[b].token] = org[tabSession[b].token],
         \A t \in Slot : Asking(t, b) => Asking(t, b)'
  PROVE  FreshFits(b)'
BY DEF WebInv, FreshFits, OfOneLogin

LEMMA OneRequest ==
  ASSUME WebInv, NEW t \in Slot, NEW k \in WebRequest, call' = [call EXCEPT ![t] = k],
         RequestFits(k), UNCHANGED <<org, ready>>
  PROVE  call' \in [Slot -> WebRequest] /\ RequestsFit'
<1>1. /\ call' \in [Slot -> WebRequest] /\ call'[t] = k
      /\ \A u \in Slot \ {t} : call'[u] = call[u]
  BY DEF WebInv, WebTypes
<1>. QED BY <1>1 DEF WebInv, RequestsFit, RequestFits

\* Steps of a tab.
LEMMA MountFits == ASSUME WebInv, NEW b \in Tab, Web!Mount(b) PROVE WebInv'
<1>1. /\ ~ready[b] /\ ready' = [ready EXCEPT ![b] = TRUE]
      /\ UNCHANGED <<org, profile, current, call, webLogins, fresh>>
      /\ stored' \in {stored, None}
      /\ tabSession' = tabSession \/ tabSession' = [tabSession EXCEPT ![b] = stored]
  BY DEF Web!Mount, Web!Take
<1>2. WebTypes'
  BY <1>1 DEF WebInv, WebTypes, Web!Session
<1>3. RequestsFit' /\ SessionsFit'
  BY <1>1 DEF WebInv, WebTypes, RequestsFit, RequestFits, SessionsFit
<1>4. ~fresh'[b]
  BY <1>1 DEF WebInv, SessionsFit, FreshFits
<1>5. ASSUME NEW c \in Tab, c # b PROVE FreshFits(c)'
  <2>1. tabSession'[c] = tabSession[c]
    BY <1>1, <1>5 DEF WebInv, WebTypes
  <2>2. \A t \in Slot : Asking(t, c) => Asking(t, c)'
    BY <1>1 DEF Asking
  <2>. QED BY <1>1, <2>1, <2>2, FreshStays
<1>6. FreshFits(b)'
  BY <1>4 DEF FreshFits
<1>. QED BY <1>2, <1>3, <1>5, <1>6 DEF WebInv

\* A tab that forgets, whatever session it takes; its requests may be dropped.
LEMMA ForgetFits ==
  ASSUME WebInv, NEW b \in Tab, Web!Forget(b), ready'[b] => ready[b],
         NEW s \in Web!Session, tabSession' = [tabSession EXCEPT ![b] = s],
         stored' \in Web!Session, ~ready'[b] => s = None,
         call' \in [Slot -> WebRequest], RequestsFit',
         \A t \in Slot : call'[t] = call[t] \/ call[t].tab = b,
         ready' \in [Tab -> BOOLEAN], \A c \in Tab \ {b} : ready'[c] = ready[c],
         UNCHANGED <<org, webLogins>>
  PROVE  WebInv'
<1>1. /\ profile' = [profile EXCEPT ![b] = None] /\ current' = [current EXCEPT ![b] = None]
      /\ fresh' = [fresh EXCEPT ![b] = FALSE]
  BY DEF Web!Forget
<1>2. WebTypes'
  BY <1>1 DEF WebInv, WebTypes, Profile
<1>3. SessionsFit'
  BY DEF WebInv, WebTypes, SessionsFit
<1>4. ASSUME NEW c \in Tab, c # b PROVE FreshFits(c)'
  <2>1. /\ tabSession'[c] = tabSession[c] /\ profile'[c] = profile[c]
        /\ current'[c] = current[c] /\ fresh'[c] = fresh[c]
    BY <1>1, <1>4 DEF WebInv, WebTypes
  <2>2. \A t \in Slot : Asking(t, c) => Asking(t, c)'
    BY <1>4 DEF Asking
  <2>. QED BY <2>1, <2>2, FreshStays
<1>5. FreshFits(b)'
  BY <1>1 DEF FreshFits, WebInv, WebTypes
<1>. QED BY <1>2, <1>3, <1>4, <1>5 DEF WebInv

LEMMA ReloadFits == ASSUME WebInv, NEW b \in Tab, Web!Reload(b) PROVE WebInv'
<1>1. /\ Web!Forget(b) /\ ready' = [ready EXCEPT ![b] = FALSE]
      /\ tabSession' = [tabSession EXCEPT ![b] = None]
      /\ call' = [t \in Slot |-> IF call[t].tab = b THEN Web!Idle ELSE call[t]]
      /\ UNCHANGED <<org, stored, webLogins>>
  BY DEF Web!Reload
<1>2. call' \in [Slot -> WebRequest]
  BY <1>1, NoRequest DEF WebInv, WebTypes
<1>3. RequestsFit'
  BY <1>1, NoRequest DEF WebInv, WebTypes, RequestsFit, RequestFits
<1>4. None \in Web!Session /\ stored' \in Web!Session
  BY <1>1 DEF Web!Session, WebInv, WebTypes
<1>5. ready' \in [Tab -> BOOLEAN] /\ ~ready'[b] /\ \A c \in Tab \ {b} : ready'[c] = ready[c]
  BY <1>1 DEF WebInv, WebTypes
<1>. QED BY <1>1, <1>2, <1>3, <1>4, <1>5, ForgetFits

LEMMA LogOutFits == ASSUME WebInv, NEW b \in Tab, Web!LogOut(b) PROVE WebInv'
<1>1. /\ Web!Forget(b) /\ stored' = None /\ tabSession' = [tabSession EXCEPT ![b] = None]
      /\ tabSession[b] # None
      /\ UNCHANGED <<org, ready, call, webLogins>>
  BY DEF Web!LogOut, Web!ClearSession, Web!Take
<1>2. None \in Web!Session /\ ready[b]
  BY <1>1 DEF Web!Session, WebInv, SessionsFit
<1>3. call' \in [Slot -> WebRequest] /\ ready' \in [Tab -> BOOLEAN]
  BY <1>1 DEF WebInv, WebTypes
<1>4. RequestsFit'
  BY <1>1 DEF WebInv, RequestsFit, RequestFits
<1>. QED BY <1>1, <1>2, <1>3, <1>4, ForgetFits

LEMMA LoggedInFits == ASSUME WebInv, NEW t \in Slot, Web!LoggedIn(t) PROVE WebInv'
<1>1. PICK b, l : b = call[t].tab /\ l = call[t].login
  OBVIOUS
<1>2. b \in Tab /\ l \in Web!Login /\ ready[b]
  BY <1>1 DEF Web!LoggedIn, WebInv, RequestsFit, RequestFits
<1>3. PICK s : s = [token |-> l, user |-> l, org |-> org[l]]
  OBVIOUS
<1>4. s \in Web!Session
  BY <1>2, <1>3 DEF Web!Session, WebInv, WebTypes
<1>5. /\ Web!Forget(b) /\ stored' = s /\ tabSession' = [tabSession EXCEPT ![b] = s]
      /\ call' = [call EXCEPT ![t] = Web!Idle] /\ UNCHANGED <<org, ready, webLogins>>
  BY <1>1, <1>3 DEF Web!LoggedIn, Web!SaveSession, Web!Take
<1>6. RequestFits(Web!Idle)
  BY NoRequest DEF RequestFits
<1>7. call' \in [Slot -> WebRequest] /\ RequestsFit'
  BY <1>5, <1>6, NoRequest, OneRequest
<1>8. \A u \in Slot : call'[u] = call[u] \/ call[u].tab = b
  BY <1>1, <1>5 DEF WebInv, WebTypes
<1>9. ready' \in [Tab -> BOOLEAN] /\ ready'[b] /\ \A c \in Tab : ready'[c] = ready[c]
  BY <1>2, <1>5 DEF WebInv, WebTypes
<1>. QED BY <1>2, <1>4, <1>5, <1>7, <1>8, <1>9, ForgetFits

LEMMA LogInFits == ASSUME WebInv, NEW b \in Tab, NEW t \in Slot, Web!LogIn(b, t) PROVE WebInv'
<1>1. PICK k : k = Web!Request("login", b, webLogins', None, FALSE)
  OBVIOUS
<1>2. /\ ready[b] /\ call[t] = Web!Idle /\ webLogins < MaxLogins /\ webLogins' = webLogins + 1
      /\ call' = [call EXCEPT ![t] = k]
      /\ UNCHANGED <<org, stored, ready, tabSession, profile, current, fresh>>
  BY <1>1 DEF Web!LogIn, Web!tabVars
<1>3. webLogins' \in Web!Login /\ webLogins' \in 0..MaxLogins
  BY <1>2, BoundsAssumption DEF WebInv, WebTypes, Web!Login
<1>4. k \in WebRequest /\ RequestFits(k)
  BY <1>1, <1>2, <1>3 DEF Web!Request, WebRequest, RequestFits
<1>5. call' \in [Slot -> WebRequest] /\ RequestsFit'
  BY <1>2, <1>4, OneRequest
<1>6. WebTypes' /\ SessionsFit'
  BY <1>2, <1>3, <1>5 DEF WebInv, WebTypes, SessionsFit
<1>7. ASSUME NEW c \in Tab PROVE FreshFits(c)'
  <2>1. \A u \in Slot : Asking(u, c) => Asking(u, c)'
    BY <1>2, NoRequest DEF Asking, WebInv, WebTypes
  <2>. QED BY <1>2, <2>1, FreshStays
<1>. QED BY <1>5, <1>6, <1>7 DEF WebInv

\* A request that is begun, or goes on; it asks for its tab if it did.
LEMMA RequestMoves ==
  ASSUME WebInv, NEW t \in Slot, NEW k \in WebRequest, call' = [call EXCEPT ![t] = k],
         RequestFits(k), k.tab = call[t].tab \/ call[t].op \notin {"refresh", "switched"},
         call[t].op \in {"refresh", "switched"} => k.op \in {"refresh", "switched"},
         UNCHANGED <<org, stored, ready, tabSession, profile, current, webLogins, fresh>>
  PROVE  WebInv'
<1>1. call' \in [Slot -> WebRequest] /\ RequestsFit'
  BY OneRequest
<1>2. WebTypes' /\ SessionsFit'
  BY <1>1 DEF WebInv, WebTypes, SessionsFit
<1>3. ASSUME NEW c \in Tab PROVE FreshFits(c)'
  <2>1. \A u \in Slot : Asking(u, c) => Asking(u, c)'
    BY DEF Asking, WebInv, WebTypes
  <2>. QED BY <2>1, FreshStays
<1>. QED BY <1>1, <1>2, <1>3 DEF WebInv

LEMMA TokenOf ==
  ASSUME NEW s \in Web!Session, s # None
  PROVE  Web!Who(s) = s.token /\ s.token \in Web!Login
BY DEF Web!Session, Web!Who

LEMMA RefreshFits ==
  ASSUME WebInv, NEW b \in Tab, NEW t \in Slot, Web!Refresh(b, t) PROVE WebInv'
<1>1. PICK k : k = Web!Refreshing(b, Web!Who(tabSession[b]))
  OBVIOUS
<1>2. /\ tabSession[b] # None /\ call[t] = Web!Idle /\ call' = [call EXCEPT ![t] = k]
      /\ UNCHANGED <<org, stored, ready, tabSession, profile, current, webLogins, fresh>>
  BY <1>1 DEF Web!Refresh
<1>3. tabSession[b] \in Web!Session /\ ready[b]
  BY <1>2 DEF WebInv, WebTypes, SessionsFit
<1>4. k \in WebRequest /\ RequestFits(k)
  BY <1>1, <1>2, <1>3, TokenOf DEF Web!Refreshing, Web!Request, WebRequest, RequestFits
<1>. QED BY <1>2, <1>4, NoRequest, RequestMoves

LEMMA ReadFits ==
  ASSUME WebInv, NEW t \in Slot, Web!ReadMe(t) \/ Web!ReadCurrent(t) PROVE WebInv'
<1>1. PICK l : l = call[t].login
  OBVIOUS
<1>2. call[t] \in WebRequest /\ RequestFits(call[t]) /\ call[t].op = "refresh"
  BY DEF WebInv, WebTypes, RequestsFit, Web!ReadMe, Web!ReadCurrent
<1>3. l \in Web!Login /\ org[l] \in Org
  BY <1>1, <1>2 DEF RequestFits, WebInv, WebTypes
<1>4. PICK k : k \in {[call[t] EXCEPT !.me = org[l]], [call[t] EXCEPT !.current = org[l]]}
               /\ call' = [call EXCEPT ![t] = k]
  BY <1>1 DEF Web!ReadMe, Web!ReadCurrent, WebInv, WebTypes
<1>5. k \in WebRequest
  BY <1>2, <1>3, <1>4 DEF WebRequest
<1>6. /\ k.op = call[t].op /\ k.tab = call[t].tab /\ k.login = l /\ k.clean = call[t].clean
      /\ k.me \in {call[t].me, org[l]} /\ k.current \in {call[t].current, org[l]}
  BY <1>1, <1>2, <1>4 DEF WebRequest
<1>7. RequestFits(k)
  BY <1>1, <1>2, <1>6 DEF RequestFits
<1>8. UNCHANGED <<org, stored, ready, tabSession, profile, current, webLogins, fresh>>
  BY DEF Web!ReadMe, Web!ReadCurrent, Web!tabVars
<1>. QED BY <1>2, <1>4, <1>5, <1>6, <1>7, <1>8, RequestMoves

\* A request that is answered.
LEMMA RequestEnds ==
  ASSUME WebInv, NEW t \in Slot, call' = [call EXCEPT ![t] = Web!Idle], UNCHANGED <<org, ready>>
  PROVE  /\ call' \in [Slot -> WebRequest] /\ RequestsFit'
         /\ \A u \in Slot : call'[u] = call[u] \/ u = t
<1>1. RequestFits(Web!Idle)
  BY NoRequest DEF RequestFits
<1>. QED BY <1>1, NoRequest, OneRequest DEF WebInv, WebTypes

LEMMA SyncKeeps ==
  ASSUME WebInv, NEW b \in Tab, NEW me, me.token \in Web!Login, me.org \in Org,
         Web!SyncSession(b, me)
  PROVE  /\ stored' \in Web!Session /\ tabSession' \in [Tab -> Web!Session]
         /\ \A c \in Tab \ {b} : tabSession'[c] = tabSession[c]
         /\ tabSession[b] = None => tabSession'[b] = None
         /\ tabSession[b] # None =>
              /\ tabSession'[b] # None /\ tabSession'[b].token = tabSession[b].token
              /\ tabSession'[b].user = me.token /\ tabSession'[b].org = me.org
<1>1. CASE tabSession[b] = None
  BY <1>1 DEF Web!SyncSession, WebInv, WebTypes
<1>2. CASE tabSession[b] # None
  <2>1. PICK s : s = Web!Synced(tabSession[b], me)
    OBVIOUS
  <2>2. tabSession[b].token \in Web!Login
    BY <1>2, TokenOf DEF WebInv, WebTypes
  <2>3. /\ s \in Web!Session /\ s.token = tabSession[b].token /\ s.user = me.token
        /\ s.org = me.org
    BY <2>1, <2>2 DEF Web!Synced, Web!Session
  <2>4. s # None
    <3>1. s \in [token : Web!Login, user : Web!Login, org : Org]
      BY <2>1, <2>2 DEF Web!Synced
    <3>. QED BY <3>1, NoneAssumption DEF Web!Login
  <2>5. \/ tabSession[b] = s /\ UNCHANGED <<tabSession, stored>>
        \/ tabSession' = [tabSession EXCEPT ![b] = s] /\ stored' = s
    BY <1>2, <2>1 DEF Web!SyncSession
  <2>. QED BY <1>2, <2>3, <2>4, <2>5 DEF WebInv, WebTypes
<1>. QED BY <1>1, <1>2

LEMMA RefreshedFits == ASSUME WebInv, NEW t \in Slot, Web!Refreshed(t) PROVE WebInv'
<1>1. PICK b, l, m, q : /\ b = call[t].tab /\ l = call[t].login
                        /\ m = call[t].me /\ q = call[t].current
  OBVIOUS
<1>2. PICK me, at : me = [token |-> l, org |-> m] /\ at = [token |-> l, org |-> q]
  OBVIOUS
<1>3. /\ call[t].op = "refresh" /\ m # None /\ q # None
      /\ Web!SyncSession(b, me)
      /\ profile' = [profile EXCEPT ![b] = me] /\ current' = [current EXCEPT ![b] = at]
      /\ fresh' = [fresh EXCEPT ![b] = newest[b] # None /\ call[t].clean
                                         /\ me.token = Web!Who(tabSession[b])]
      /\ call' = [call EXCEPT ![t] = Web!Idle] /\ UNCHANGED <<org, ready, webLogins>>
  BY <1>1, <1>2 DEF Web!Refreshed, Web!EndRefresh
<1>4. call[t] \in WebRequest /\ RequestFits(call[t])
  BY DEF WebInv, WebTypes, RequestsFit
<1>5. b \in Tab /\ l \in Web!Login /\ m \in Org /\ q \in Org /\ ready[b]
  BY <1>1, <1>3, <1>4 DEF RequestFits, WebRequest
<1>6. me.token = l /\ me.org = m /\ me \in Profile /\ at \in Profile
  BY <1>2, <1>5 DEF Profile
<1>7. /\ stored' \in Web!Session /\ tabSession' \in [Tab -> Web!Session]
      /\ \A c \in Tab \ {b} : tabSession'[c] = tabSession[c]
      /\ tabSession[b] = None => tabSession'[b] = None
      /\ tabSession[b] # None =>
           /\ tabSession'[b] # None /\ tabSession'[b].token = tabSession[b].token
           /\ tabSession'[b].user = l /\ tabSession'[b].org = m
  BY <1>3, <1>5, <1>6, SyncKeeps
<1>8. /\ call' \in [Slot -> WebRequest] /\ RequestsFit'
      /\ \A u \in Slot : call'[u] = call[u] \/ u = t
  BY <1>3, RequestEnds
<1>9. /\ profile' \in [Tab -> Profile] /\ current' \in [Tab -> Profile]
      /\ fresh' \in [Tab -> BOOLEAN]
  BY <1>3, <1>5, <1>6 DEF WebInv, WebTypes
<1>10. WebTypes'
  BY <1>3, <1>7, <1>8, <1>9 DEF WebInv, WebTypes
<1>11. SessionsFit'
  BY <1>3, <1>5, <1>7 DEF WebInv, SessionsFit
<1>12. ASSUME NEW c \in Tab, c # b PROVE FreshFits(c)'
  <2>1. /\ profile'[c] = profile[c] /\ current'[c] = current[c] /\ fresh'[c] = fresh[c]
        /\ tabSession'[c] = tabSession[c]
    BY <1>3, <1>7, <1>12 DEF WebInv, WebTypes
  <2>2. \A u \in Slot : Asking(u, c) => Asking(u, c)'
    BY <1>1, <1>8, <1>12 DEF Asking
  <2>. QED BY <1>3, <2>1, <2>2, FreshStays
<1>13. FreshFits(b)'
  <2> SUFFICES ASSUME fresh'[b] PROVE tabSession'[b] # None /\ OfOneLogin(b)'
    BY DEF FreshFits
  <2>1. call[t].clean /\ l = Web!Who(tabSession[b])
    BY <1>3, <1>5, <1>6 DEF WebInv, WebTypes
  <2>2. tabSession[b] # None
    BY <1>5, <2>1, NoneAssumption DEF Web!Who, Web!Login
  <2>3. tabSession[b].token = l
    BY <1>5, <2>1, <2>2 DEF Web!Who
  <2>4. m = org[l] /\ q = org[l]
    BY <1>1, <1>3, <1>4, <2>1 DEF RequestFits
  <2>5. profile'[b] = me /\ current'[b] = at /\ org' = org
    BY <1>3, <1>5 DEF WebInv, WebTypes
  <2>6. /\ tabSession'[b] # None /\ tabSession'[b].token = l /\ tabSession'[b].user = l
        /\ tabSession'[b].org = org'[l]
    BY <1>7, <2>2, <2>3, <2>4, <2>5
  <2>7. profile'[b] = [token |-> l, org |-> org'[l]] /\ current'[b] = profile'[b]
    BY <1>2, <2>4, <2>5
  <2>. QED BY <2>6, <2>7 DEF OfOneLogin
<1>. QED BY <1>8, <1>10, <1>11, <1>12, <1>13 DEF WebInv

LEMMA DeniedFits == ASSUME WebInv, NEW t \in Slot, Web!RefreshDenied(t) PROVE WebInv'
<1>1. PICK b : b = call[t].tab
  OBVIOUS
<1>2. /\ Web!Forget(b) /\ stored' = None /\ tabSession' = [tabSession EXCEPT ![b] = None]
      /\ call[t].op = "refresh" /\ call' = [call EXCEPT ![t] = Web!Idle]
      /\ UNCHANGED <<org, ready, webLogins>>
  BY <1>1 DEF Web!RefreshDenied, Web!ClearSession, Web!Take, Web!EndRefresh
<1>3. b \in Tab /\ ready[b] /\ None \in Web!Session /\ ready \in [Tab -> BOOLEAN]
  BY <1>1, <1>2 DEF WebInv, WebTypes, RequestsFit, RequestFits, Web!Session
<1>4. /\ call' \in [Slot -> WebRequest] /\ RequestsFit'
      /\ \A u \in Slot : call'[u] = call[u] \/ u = t
  BY <1>2, RequestEnds
<1>. QED BY <1>1, <1>2, <1>3, <1>4, ForgetFits

\* A request that ends and leaves its tab's last answer out of date.
LEMMA FailureFits ==
  ASSUME WebInv, NEW t \in Slot, call' = [call EXCEPT ![t] = Web!Idle],
         \/ fresh' = [fresh EXCEPT ![call[t].tab] = FALSE]
         \/ call[t].op \notin {"refresh", "switched"} /\ fresh' = fresh,
         call[t].op # "idle",
         UNCHANGED <<org, stored, ready, tabSession, profile, current, webLogins>>
  PROVE  WebInv'
<1>1. PICK b : b = call[t].tab
  OBVIOUS
<1>2. b \in Tab
  BY <1>1 DEF WebInv, RequestsFit, RequestFits
<1>3. /\ call' \in [Slot -> WebRequest] /\ RequestsFit'
      /\ \A u \in Slot : call'[u] = call[u] \/ u = t
  BY RequestEnds
<1>4. fresh' \in [Tab -> BOOLEAN] /\ \A c \in Tab : fresh'[c] => fresh[c]
  BY <1>1, <1>2 DEF WebInv, WebTypes
<1>5. WebTypes' /\ SessionsFit'
  BY <1>3, <1>4 DEF WebInv, WebTypes, SessionsFit
<1>6. ASSUME NEW c \in Tab PROVE FreshFits(c)'
  <2>1. CASE fresh'[c]
    <3>1. \A u \in Slot : Asking(u, c) => Asking(u, c)'
      BY <1>1, <1>2, <1>3, <2>1 DEF Asking, WebInv, WebTypes
    <3>. QED BY <1>4, <3>1, FreshStays
  <2>2. CASE ~fresh'[c]
    BY <2>2 DEF FreshFits
  <2>. QED BY <2>1, <2>2
<1>. QED BY <1>3, <1>5, <1>6 DEF WebInv

LEMMA SwitchFits ==
  ASSUME WebInv, NEW b \in Tab, NEW t \in Slot, Web!Switch(b, t) PROVE WebInv'
<1>1. PICK o \in Org : call' = [call EXCEPT ![t] =
                          Web!Request("switch", b, Web!Who(tabSession[b]), o, FALSE)]
  BY DEF Web!Switch
<1>2. PICK k : k = Web!Request("switch", b, Web!Who(tabSession[b]), o, FALSE)
  OBVIOUS
<1>3. /\ tabSession[b] # None /\ call[t] = Web!Idle /\ call' = [call EXCEPT ![t] = k]
      /\ UNCHANGED <<org, stored, ready, tabSession, profile, current, webLogins, fresh>>
  BY <1>1, <1>2 DEF Web!Switch
<1>4. tabSession[b] \in Web!Session /\ ready[b]
  BY <1>3 DEF WebInv, WebTypes, SessionsFit
<1>5. k \in WebRequest /\ RequestFits(k)
  BY <1>2, <1>3, <1>4, TokenOf DEF Web!Request, WebRequest, RequestFits
<1>. QED BY <1>3, <1>5, NoRequest, RequestMoves

LEMMA SwitchedFits == ASSUME WebInv, NEW t \in Slot, Web!Switched(t) PROVE WebInv'
<1>1. PICK k : k = Web!Refreshing(call[t].tab, call[t].login)
  OBVIOUS
<1>2. /\ call[t].op = "switched" /\ call' = [call EXCEPT ![t] = k]
      /\ UNCHANGED <<org, stored, ready, tabSession, profile, current, webLogins, fresh>>
  BY <1>1 DEF Web!Switched, Web!tabVars
<1>3. RequestFits(call[t])
  BY DEF WebInv, RequestsFit
<1>4. k \in WebRequest /\ RequestFits(k) /\ k.tab = call[t].tab /\ k.op = "refresh"
  BY <1>1, <1>2, <1>3 DEF Web!Refreshing, Web!Request, WebRequest, RequestFits
<1>. QED BY <1>2, <1>4, RequestMoves

LEMMA ServedFits == ASSUME WebInv, NEW t \in Slot, Web!SwitchServed(t) PROVE WebInv'
<1>1. PICK b, l, o : b = call[t].tab /\ l = call[t].login /\ o = call[t].me
  OBVIOUS
<1>2. /\ call[t].op = "switch" /\ org' = [org EXCEPT ![l] = o]
      /\ call' = [Web!Moved(t) EXCEPT ![t].op = "switched"] /\ fresh' = Web!Outdated(t)
      /\ UNCHANGED <<stored, ready, tabSession, profile, current, webLogins>>
  BY <1>1 DEF Web!SwitchServed, Web!tabVars
<1>3. call[t] \in WebRequest /\ b \in Tab /\ l \in Web!Login /\ o \in Org /\ ready[b]
  BY <1>1, <1>2 DEF WebInv, WebTypes, RequestsFit, RequestFits
<1>4. /\ org' \in [Web!Login -> Org] /\ org'[l] = o
      /\ \A k \in Web!Login \ {l} : org'[k] = org[k]
  BY <1>2, <1>3 DEF WebInv, WebTypes
<1>5. fresh' \in [Tab -> BOOLEAN] /\ \A c \in Tab : fresh'[c] <=>
                    fresh[c] /\ (c = b \/ Web!Who(tabSession[c]) # l)
  BY <1>1, <1>2 DEF Web!Outdated, WebInv, WebTypes
<1>6. PICK r : r = [call[t] EXCEPT !.op = "switched"]
  OBVIOUS
<1>7. /\ r \in WebRequest /\ r.op = "switched" /\ r.tab = b /\ r.login = l /\ r.me = o
      /\ call'[t] = r
  BY <1>1, <1>2, <1>3, <1>6 DEF Web!Moved, WebRequest
<1>8. ASSUME NEW u \in Slot, u # t
      PROVE  /\ call'[u] \in WebRequest
             /\ \/ call'[u] = call[u] /\ ~( /\ call[u].op = "refresh" /\ call[u].login = l
                                            /\ ~(call[u].me = None /\ call[u].current = None))
                \/ /\ call'[u].op = call[u].op /\ call'[u].tab = call[u].tab
                   /\ call'[u].login = call[u].login /\ call[u].op = "refresh"
                   /\ ~call'[u].clean
  <2>1. call[u] \in WebRequest /\ call'[u] = Web!Moved(t)[u]
    BY <1>2, <1>8 DEF WebInv, WebTypes, Web!Moved
  <2>2. CASE /\ call[u].op = "refresh" /\ call[u].login = l
             /\ ~(call[u].me = None /\ call[u].current = None)
    <3>1. call'[u] = [call[u] EXCEPT !.clean = FALSE]
      BY <1>1, <2>1, <2>2 DEF Web!Moved
    <3>2. PICK k : k = [call[u] EXCEPT !.clean = FALSE]
      OBVIOUS
    <3>3. k \in WebRequest /\ k.op = call[u].op /\ k.tab = call[u].tab
          /\ k.login = call[u].login /\ ~k.clean
      BY <2>1, <3>2 DEF WebRequest
    <3>. QED BY <2>2, <3>1, <3>2, <3>3
  <2>3. CASE ~( /\ call[u].op = "refresh" /\ call[u].login = l
                /\ ~(call[u].me = None /\ call[u].current = None))
    BY <1>1, <2>1, <2>3 DEF Web!Moved
  <2>. QED BY <2>2, <2>3
<1>9. DOMAIN call' = Slot /\ call' = [u \in Slot |-> call'[u]]
  BY <1>2 DEF Web!Moved
<1>10. call' \in [Slot -> WebRequest]
  BY <1>7, <1>8, <1>9
<1>11. ASSUME NEW u \in Slot PROVE RequestFits(call[u])
  BY DEF WebInv, RequestsFit
<1>12. ASSUME NEW u \in Slot PROVE RequestFits(call[u])'
  <2>1. CASE u = t
    BY <1>2, <1>3, <1>7, <2>1 DEF RequestFits
  <2>2. CASE u # t
    BY <1>2, <1>4, <1>8, <1>11, <2>2 DEF RequestFits
  <2>. QED BY <2>1, <2>2
<1>13. RequestsFit'
  BY <1>12 DEF RequestsFit
<1>14. WebTypes' /\ SessionsFit'
  BY <1>2, <1>4, <1>5, <1>10 DEF WebInv, WebTypes, SessionsFit
<1>15. ASSUME NEW c \in Tab PROVE FreshFits(c)'
  <2>1. CASE c = b
    <3>1. Asking(t, b)'
      BY <1>7 DEF Asking
    <3>. QED BY <1>2, <1>5, <2>1, <3>1 DEF FreshFits, WebInv
  <2>2. CASE c # b /\ fresh'[c]
    <3>1. \A u \in Slot : Asking(u, c) => Asking(u, c)'
      BY <1>1, <1>8, <2>2 DEF Asking
    <3>2. tabSession[c] \in Web!Session
      BY DEF WebInv, WebTypes
    <3>3. tabSession[c] # None => org'[tabSession[c].token] = org[tabSession[c].token]
      BY <1>4, <1>5, <2>2, <3>2, TokenOf
    <3>. QED BY <1>2, <1>5, <3>1, <3>3, FreshStays
  <2>3. CASE ~fresh'[c]
    BY <2>3 DEF FreshFits
  <2>. QED BY <2>1, <2>2, <2>3
<1>. QED BY <1>13, <1>14, <1>15 DEF WebInv

LEMMA WebNext == WebInv /\ Web!Next => WebInv'
<1> SUFFICES ASSUME WebInv, Web!Next PROVE WebInv'
  OBVIOUS
<1>1. ASSUME NEW b \in Tab, Web!Mount(b) \/ Web!Reload(b) \/ Web!LogOut(b) PROVE WebInv'
  BY <1>1, MountFits, ReloadFits, LogOutFits
<1>2. ASSUME NEW b \in Tab, NEW t \in Slot,
             Web!LogIn(b, t) \/ Web!Refresh(b, t) \/ Web!Switch(b, t) PROVE WebInv'
  BY <1>2, LogInFits, RefreshFits, SwitchFits
<1>3. ASSUME NEW t \in Slot, Web!LoggedIn(t) \/ Web!ReadMe(t) \/ Web!ReadCurrent(t)
               \/ Web!Refreshed(t) \/ Web!RefreshDenied(t) \/ Web!SwitchServed(t)
               \/ Web!Switched(t) PROVE WebInv'
  BY <1>3, LoggedInFits, ReadFits, RefreshedFits, DeniedFits, ServedFits, SwitchedFits
<1>4. ASSUME NEW t \in Slot, Web!RefreshFails(t) \/ Web!SwitchFails(t) PROVE WebInv'
  <2>1. CASE Web!RefreshFails(t)
    <3>1. /\ fresh' = [fresh EXCEPT ![call[t].tab] = FALSE] /\ call[t].op # "idle"
          /\ call' = [call EXCEPT ![t] = Web!Idle]
          /\ UNCHANGED <<org, stored, ready, tabSession, profile, current, webLogins>>
      BY <2>1 DEF Web!RefreshFails, Web!EndRefresh
    <3>. QED BY <1>4, <3>1, FailureFits
  <2>2. CASE Web!SwitchFails(t) /\ call[t].op = "switched"
    <3>1. fresh' = [fresh EXCEPT ![call[t].tab] = FALSE]
      BY <2>2 DEF Web!SwitchFails
    <3>2. /\ call[t].op # "idle" /\ call' = [call EXCEPT ![t] = Web!Idle]
          /\ UNCHANGED <<org, stored, ready, tabSession, profile, current, webLogins>>
      BY <2>2 DEF Web!SwitchFails
    <3>. QED BY <2>2, <1>4, <3>1, <3>2, FailureFits
  <2>3. CASE Web!SwitchFails(t) /\ call[t].op = "switch"
    <3>1. fresh' = fresh
      BY <2>3 DEF Web!SwitchFails, WebInv, WebTypes
    <3>2. /\ call[t].op # "idle" /\ call' = [call EXCEPT ![t] = Web!Idle]
          /\ UNCHANGED <<org, stored, ready, tabSession, profile, current, webLogins>>
      BY <2>3 DEF Web!SwitchFails
    <3>. QED BY <2>3, <1>4, <3>1, <3>2, FailureFits
  <2>. QED BY <1>4, <2>1, <2>2, <2>3 DEF Web!SwitchFails
<1>5. ASSUME NEW l \in Web!Login, Web!Revoke(l) PROVE WebInv'
  <2>1. UNCHANGED <<org, stored, ready, tabSession, profile, current, call, webLogins, fresh>>
    BY <1>5 DEF Web!Revoke, Web!tabVars
  <2>2. WebTypes' /\ RequestsFit' /\ SessionsFit'
    BY <2>1 DEF WebInv, WebTypes, RequestsFit, RequestFits, SessionsFit
  <2>3. ASSUME NEW c \in Tab PROVE FreshFits(c)'
    <3>1. \A u \in Slot : Asking(u, c) => Asking(u, c)'
      BY <2>1 DEF Asking
    <3>. QED BY <2>1, <3>1, FreshStays
  <2>. QED BY <2>2, <2>3 DEF WebInv
<1>. QED BY <1>1, <1>2, <1>3, <1>4, <1>5 DEF Web!Next

LEMMA WebInvariant == ClientsSpec => [](part = "web" => WebInv)
<1> DEFINE Inv == part = "web" => WebInv
<1>1. ClientsInit => Inv
  BY WebStart DEF ClientsInit
<1>2. ASSUME part = "web", WebInv, UNCHANGED clientVars PROVE WebInv'
  <2>1. UNCHANGED <<org, stored, ready, tabSession, profile, current, call, webLogins, fresh>>
    BY <1>2 DEF clientVars, sessionVars
  <2>. QED BY <1>2, <2>1 DEF WebInv, WebTypes, RequestsFit, RequestFits, SessionsFit, FreshFits,
                             OfOneLogin, Asking
<1>3. ASSUME part = "web", WebInv, UNCHANGED sessionVars PROVE WebInv'
  <2>1. UNCHANGED <<org, stored, ready, tabSession, profile, current, call, webLogins, fresh>>
    BY <1>3 DEF sessionVars
  <2>. QED BY <1>3, <2>1 DEF WebInv, WebTypes, RequestsFit, RequestFits, SessionsFit, FreshFits,
                             OfOneLogin, Asking
<1>4. Inv /\ [ClientsNext]_clientVars => Inv'
  BY <1>3, PartStays, WebMove, WebNext
<1>. QED BY <1>1, <1>4, PTL DEF ClientsSpec

\* A tab whose last answer was its own refresh's and is still what the API says, and that
\* has nothing under way, shows the session, profile and workspace of one login
\* (refreshProfile, switchOrganization), however many tabs and requests there are.
THEOREM TabsAgree == ClientsSpec => []TabAgrees
<1>1. (part = "web" => WebInv) => TabAgrees
  BY DEF TabAgrees, Web!TabAgrees, WebInv, FreshFits, OfOneLogin, Asking
<1>. QED BY <1>1, WebInvariant, PTL

LEMMA OnlyLoginsStore ==
  ASSUME WebInv, Web!Next, stored = None, \A b \in Tab : tabSession[b] = None, stored' # None
  PROVE  \E t \in Slot : call[t].op = "login" /\ call'[t] = Web!Idle
<1>1. ASSUME NEW t \in Slot PROVE ~Web!Refreshed(t)
  <2>1. SUFFICES ASSUME Web!Refreshed(t) PROVE FALSE
    OBVIOUS
  <2>2. call[t].tab \in Tab
    BY <2>1 DEF Web!Refreshed, WebInv, RequestsFit, RequestFits
  <2>. QED BY <2>1, <2>2 DEF Web!Refreshed, Web!SyncSession
<1>2. ASSUME NEW t \in Slot, Web!LoggedIn(t)
      PROVE  call[t].op = "login" /\ call'[t] = Web!Idle
  BY <1>2 DEF Web!LoggedIn, WebInv, WebTypes
<1>3. PICK t \in Slot : Web!LoggedIn(t)
  BY <1>1 DEF Web!Next, Web!Mount, Web!Reload, Web!LogOut, Web!ClearSession, Web!LogIn,
              Web!Refresh, Web!Switch, Web!ReadMe, Web!ReadCurrent, Web!RefreshDenied,
              Web!RefreshFails, Web!SwitchServed, Web!Switched, Web!SwitchFails, Web!Revoke,
              Web!Take
<1>. QED BY <1>2, <1>3

\* A logout is final: in the extension, nothing that answers late brings the session back
\* (handleLogout, patchExtensionState), and once no tab of the web application has a session
\* and none is stored, only the answer to a login stores one, whatever refreshes and
\* switches were in flight (saveSession, syncSessionFromProfile).
THEOREM LogoutsAreFinal == ClientsSpec => LogoutIsFinal
<1>1. (part = "web" => WebInv) /\ [ClientsNext]_clientVars =>
      [stored = None /\ (\A b \in Tab : tabSession[b] = None) /\ stored' # None =>
         \E t \in Slot : call[t].op = "login" /\ call'[t] = Web!Idle]_Web!vars
  <2> SUFFICES ASSUME part = "web" => WebInv, [ClientsNext]_clientVars,
                      stored = None, \A b \in Tab : tabSession[b] = None, stored' # None
               PROVE  \E t \in Slot : call[t].op = "login" /\ call'[t] = Web!Idle
    OBVIOUS
  <2>1. part = "web" /\ Web!Next
    BY DEF ClientsNext, Rest, Quiet, clientVars, sessionVars
  <2>. QED BY <2>1, OnlyLoginsStore
<1>2. ClientsSpec => Web!LogoutStays
  BY <1>1, WebInvariant, PTL DEF ClientsSpec, Web!LogoutStays
<1>. QED BY <1>2, LogoutHolds, PTL DEF LogoutIsFinal

-----------------------------------------------------------------------------
(* The pages of rows.                                                      *)

\* The instance counts as FiniteSets does.
LEMMA RowsCount == ASSUME NEW S PROVE Rows!Cardinality(S) = Cardinality(S)
BY DEF Cardinality, Rows!Cardinality

LEMMA RowsMove == part = "rows" /\ [ClientsNext]_clientVars => [Rows!Next]_rowsVars
BY DEF ClientsNext, Rest, Quiet, clientVars

Ops == {"idle", "list", "detail", "add", "change", "remove", "removeEdited", "toggle",
        "checkout", "status", "close", "open"}
RowsRequest ==
  [op : Ops, at : {"idle", "sent", "read", "served", "close", "open"}, row : Row \cup {None},
   read : [Row -> Nat], clean : BOOLEAN]

RowsTypes ==
  /\ view \in Pages /\ workspace \in Org
  /\ items \in [Org -> [Row -> Int]]
  /\ rows \in [Row -> Nat] /\ count \in Nat
  /\ detail \in {Rows!NoDetail} \cup [row : Row, version : Nat]
  /\ request \in [Slot -> RowsRequest]
  /\ newestLoad \in [Rows!Loads -> Slot \cup {None}]
  /\ freshLoad \in [Rows!Loads -> BOOLEAN]

\* What a request can be, by the page it is of.
TaskFits(k) ==
  /\ k.at = "read" => k.op \in Rows!Loads
  /\ k.at = "served" => k.op \notin Rows!Loads \cup {"idle"} /\ k.row \in Row
  /\ k.op \in {"close", "open"} => k.at = k.op
  /\ k.op \notin Rows!Adds \cup {"idle", "list", "close"} => k.row \in Row
  /\ view \in Rows!Patching => /\ k.op \in {"idle", "list", "add", "change", "remove"}
                               /\ k.op = "list" => k.row = None
  /\ view = "invoices" => k.op \notin {"toggle", "remove", "close"}
TasksFit == \A t \in Slot : TaskFits(request[t])
NewestFit == \A k \in Rows!Loads : newestLoad[k] # None => request[newestLoad[k]].op = k
SelectionFits ==
  row \in Row \cup {None} /\ (dueDetail => row \in Row /\ view = "invoices")

Reads == Rows!View(items[Rows!Table])
Served(t) == request[t].at = "served"

\* The rows of a page that patches.  No clean load crosses a change, no clean change
\* another of its row; a clean change that was served is what the rows still lack.
LoadsCross == \A t \in Slot : request[t].op = "list" /\ request[t].clean =>
                 /\ \A u \in Slot : ~Rows!Mutates(u)
                 /\ request[t].at = "read" => request[t].read = Reads
ChangesCross == \A t, u \in Slot :
  Rows!Mutates(t) /\ request[t].clean /\ request[t].row # None /\ u # t /\ Rows!Mutates(u)
    => request[u].row # request[t].row
Patches(k) ==
  LET T == items[Rows!Table] IN
  CASE k.op = "add"    -> rows[k.row] = 0 /\ T[k.row] = k.read[k.row] /\ T[k.row] > 0
    [] k.op = "change" -> rows[k.row] > 0 /\ T[k.row] = k.read[k.row] /\ T[k.row] > 0
    [] k.op = "remove" -> rows[k.row] > 0 /\ T[k.row] <= 0
Lacks ==
  /\ \A t \in Slot : Served(t) /\ request[t].clean => Patches(request[t])
  /\ \A t \in Slot : Rows!Mutates(t) /\ request[t].clean /\ request[t].op # "add"
                       => rows[request[t].row] > 0
  /\ \A r \in Row : rows[r] = Reads[r] \/ \E t \in Slot : Served(t) /\ request[t].row = r
  /\ count = Cardinality(Rows!Present(rows))
PatchedInv ==
  view \in Rows!Patching =>
    LoadsCross /\ ChangesCross /\ (freshLoad["list"] => Lacks)

\* The rows of a page that loads anew after a change.
ListFits ==
  LET n == newestLoad["list"] IN
  /\ n # None /\ request[n].at = "read" /\ request[n].clean
       => request[n].read = Reads \/ \E t \in Slot : Served(t)
  /\ freshLoad["list"] => rows = Reads \/ n # None \/ \E t \in Slot : Served(t)
ReloadedInv == view \notin Rows!Patching => ListFits

\* The detail of an invoice, which follows the load.
Leads(t) == \/ Served(t)
            \/ request[t].op = "list" /\ request[t].row # None
            \/ request[t].op = "open"
DetailFits ==
  LET n == newestLoad["detail"] IN
  /\ n # None /\ request[n].at = "read" /\ request[n].clean
       => \/ request[n].read[request[n].row] = Reads[request[n].row]
          \/ \E t \in Slot : Leads(t)
  /\ freshLoad["detail"] /\ detail # Rows!NoDetail =>
       \/ detail.version = items[Rows!Table][detail.row]
       \/ n # None \/ \E t \in Slot : Leads(t)
DetailInv == view = "invoices" => DetailFits

RowsInv == RowsTypes /\ TasksFit /\ NewestFit /\ PatchedInv /\ ReloadedInv /\ DetailInv

\* A request that goes on as it was, or soiled.
Kept(u) ==
  /\ request'[u].op = request[u].op /\ request'[u].at = request[u].at
  /\ request'[u].row = request[u].row /\ request'[u].read = request[u].read
  /\ request'[u].clean => request[u].clean

LEMMA DoneIs ==
  /\ Rows!Done \in RowsRequest /\ Rows!Done.op = "idle" /\ Rows!Done.at = "idle"
  /\ Rows!Done.row = None /\ Rows!Done.read = Rows!Nothing /\ ~Rows!Done.clean
  /\ Rows!Nothing \in [Row -> Nat] /\ \A r \in Row : Rows!Nothing[r] = 0
BY DEF Rows!Done, Rows!Request, RowsRequest, Ops, Rows!Nothing

LEMMA SoiledIs ==
  ASSUME NEW k \in RowsRequest
  PROVE  LET j == Rows!Soiled(k) IN
         /\ j \in RowsRequest /\ j.op = k.op /\ j.at = k.at /\ j.row = k.row /\ j.read = k.read
         /\ ~j.clean
<1>1. PICK j : j = [k EXCEPT !.clean = FALSE]
  OBVIOUS
<1>2. /\ j \in RowsRequest /\ j.op = k.op /\ j.at = k.at /\ j.row = k.row /\ j.read = k.read
      /\ ~j.clean
  BY <1>1 DEF RowsRequest
<1>. QED BY <1>1, <1>2 DEF Rows!Soiled

LEMMA RequestIs ==
  ASSUME NEW op, NEW at, NEW r, NEW read, NEW c
  PROVE  LET k == Rows!Request(op, at, r, read, c) IN
         k.op = op /\ k.at = at /\ k.row = r /\ k.read = read /\ k.clean = c
BY DEF Rows!Request

LEMMA WithIs ==
  ASSUME RowsTypes, NEW t \in Slot, NEW op \in Ops, NEW r \in Row \cup {None},
         request' = Rows!With(t, op, r)
  PROVE  /\ request' \in [Slot -> RowsRequest]
         /\ request'[t].op = op /\ request'[t].at = "sent" /\ request'[t].row = r
         /\ request'[t].read = Rows!Nothing
         /\ request'[t].clean => \A u \in Slot \ {t} : ~Rows!Crosses(op, r, u)
         /\ \A u \in Slot \ {t} : Kept(u) /\ (request'[u].clean => ~Rows!Crosses(op, r, u))
<1>1. PICK c \in BOOLEAN : c = \A u \in Slot \ {t} : ~Rows!Crosses(op, r, u)
  OBVIOUS
<1>2. PICK k : k = Rows!Request(op, "sent", r, Rows!Nothing, c)
  OBVIOUS
<1>3. /\ k \in RowsRequest /\ k.op = op /\ k.at = "sent" /\ k.row = r /\ k.read = Rows!Nothing
      /\ k.clean = c
  BY <1>2, DoneIs DEF Rows!Request, RowsRequest
<1>4. request' = [s \in Slot |->
         IF s = t THEN k ELSE IF Rows!Crosses(op, r, s) THEN Rows!Soiled(request[s])
                              ELSE request[s]]
  BY <1>1, <1>2 DEF Rows!With
<1>5. ASSUME NEW u \in Slot, u # t
      PROVE  /\ request'[u] \in RowsRequest /\ Kept(u)
             /\ request'[u].clean => ~Rows!Crosses(op, r, u)
  <2>1. request[u] \in RowsRequest
    BY DEF RowsTypes
  <2>2. CASE Rows!Crosses(op, r, u)
    <3>1. request'[u] = Rows!Soiled(request[u])
      BY <1>4, <1>5, <2>2
    <3>. QED BY <2>1, <3>1, SoiledIs DEF Kept
  <2>3. CASE ~Rows!Crosses(op, r, u)
    <3>1. request'[u] = request[u]
      BY <1>4, <1>5, <2>3
    <3>. QED BY <2>1, <2>3, <3>1 DEF Kept
  <2>. QED BY <2>2, <2>3
<1>6. request'[t] = k
  BY <1>4
<1>7. request' \in [Slot -> RowsRequest]
  <2>1. \A s \in Slot : request'[s] \in RowsRequest
    BY <1>3, <1>5, <1>6
  <2>. QED BY <1>4, <2>1
<1>. QED BY <1>1, <1>3, <1>5, <1>6, <1>7

LEMMA OutdatedIs ==
  ASSUME RowsTypes
  PROVE  LET old == Rows!Outdated IN
         /\ old \in [Slot -> RowsRequest]
         /\ \A u \in Slot :
              /\ old[u].op = request[u].op /\ old[u].at = request[u].at
              /\ old[u].row = request[u].row /\ old[u].read = request[u].read
              /\ old[u].clean => request[u].clean /\ request[u].at # "read"
<1>1. PICK old : old = Rows!Outdated
  OBVIOUS
<1>2. ASSUME NEW u \in Slot
      PROVE  /\ old[u] \in RowsRequest
             /\ old[u].op = request[u].op /\ old[u].at = request[u].at
             /\ old[u].row = request[u].row /\ old[u].read = request[u].read
             /\ old[u].clean => request[u].clean /\ request[u].at # "read"
  <2>1. /\ request[u] \in RowsRequest
        /\ old[u] = IF request[u].at = "read" THEN Rows!Soiled(request[u]) ELSE request[u]
    BY <1>1 DEF RowsTypes, Rows!Outdated
  <2>. QED BY <2>1, SoiledIs
<1>3. old = [u \in Slot |-> old[u]]
  BY <1>1 DEF Rows!Outdated
<1>4. old \in [Slot -> RowsRequest]
  BY <1>2, <1>3
<1>. QED BY <1>1, <1>2, <1>4

\* A request is sent, by a slot that is free or goes on with a load.
LEMMA Sent ==
  ASSUME RowsInv, NEW t \in Slot, NEW op \in Ops, NEW r \in Row \cup {None},
         request' = Rows!With(t, op, r), op \notin {"idle", "close", "open"},
         UNCHANGED <<view, workspace, items, rows, count, detail, freshLoad>>,
         request[t].op \notin Rows!Loads,
         \/ op \in Rows!Loads /\ newestLoad' = [newestLoad EXCEPT ![op] = t]
         \/ op \notin Rows!Loads /\ newestLoad' = newestLoad,
         op \notin Rows!Adds \cup {"list"} => r \in Row,
         view \in Rows!Patching =>
           /\ op \in {"list", "add", "change", "remove"} /\ request[t].op = "idle"
           /\ op \in {"list", "add"} => r = None
           /\ op \in {"change", "remove"} => r \in Row /\ rows[r] > 0,
         view \notin Rows!Patching /\ Served(t) => op = "list",
         view = "invoices" => /\ op \notin {"toggle", "remove"}
                              /\ Leads(t) => op = "detail" \/ (op = "list" /\ r # None)
  PROVE  RowsInv'
<1>1. /\ request' \in [Slot -> RowsRequest]
      /\ request'[t].op = op /\ request'[t].at = "sent" /\ request'[t].row = r
      /\ request'[t].read = Rows!Nothing
      /\ request'[t].clean => \A u \in Slot \ {t} : ~Rows!Crosses(op, r, u)
      /\ \A u \in Slot \ {t} : Kept(u) /\ (request'[u].clean => ~Rows!Crosses(op, r, u))
  BY WithIs DEF RowsInv
<1>2. newestLoad' \in [Rows!Loads -> Slot \cup {None}]
  BY DEF RowsInv, RowsTypes
<1>3. RowsTypes'
  BY <1>1, <1>2 DEF RowsInv, RowsTypes, Rows!NoDetail
<1>4. TasksFit'
  <2>1. TaskFits(request[t])'
    BY <1>1 DEF TaskFits, Rows!Loads, Rows!Adds
  <2>2. ASSUME NEW u \in Slot, u # t PROVE TaskFits(request[u])'
    BY <1>1, <2>2 DEF RowsInv, TasksFit, TaskFits, Kept
  <2>. QED BY <2>1, <2>2 DEF TasksFit
<1>5. NewestFit'
  <2> SUFFICES ASSUME NEW k \in Rows!Loads, newestLoad'[k] # None
               PROVE  request'[newestLoad'[k]].op = k
    BY DEF NewestFit
  <2>1. CASE k = op
    BY <1>1, <2>1 DEF RowsInv, RowsTypes
  <2>2. CASE k # op
    <3>1. newestLoad'[k] = newestLoad[k] /\ newestLoad[k] \in Slot
      BY <2>2, <1>2, NoneAssumption DEF RowsInv, RowsTypes
    <3>2. request[newestLoad[k]].op = k
      BY <3>1 DEF RowsInv, NewestFit
    <3>3. newestLoad[k] # t
      BY <3>2
    <3>. QED BY <1>1, <3>1, <3>2, <3>3 DEF Kept
  <2>. QED BY <2>1, <2>2
<1>6. \A u \in Slot \ {t} : Served(u)' <=> Served(u)
  BY <1>1 DEF Kept, Served
<1>7. UNCHANGED Reads /\ UNCHANGED Rows!Table
  BY DEF Reads, Rows!View, Rows!Table
<1>8. PatchedInv'
  <2> SUFFICES ASSUME view \in Rows!Patching
               PROVE  (LoadsCross /\ ChangesCross /\ (freshLoad["list"] => Lacks))'
    BY DEF PatchedInv
  <2>1. LoadsCross /\ ChangesCross /\ (freshLoad["list"] => Lacks)
    BY DEF RowsInv, PatchedInv
  <2>2. \A u \in Slot \ {t} : Rows!Mutates(u)' <=> Rows!Mutates(u)
    BY <1>1 DEF Kept, Rows!Mutates
  <2>3. ~Rows!Mutates(t) /\ ~Served(t)
    BY DEF Rows!Mutates, Served, RowsInv, TasksFit, TaskFits
  <2>4. Rows!Mutates(t)' <=> op # "list"
    BY <1>1 DEF Rows!Mutates, Rows!Loads
  <2>5. LoadsCross'
    <3> SUFFICES ASSUME NEW s \in Slot, request'[s].op = "list", request'[s].clean
                 PROVE  /\ \A u \in Slot : ~Rows!Mutates(u)'
                        /\ request'[s].at = "read" => request'[s].read = Reads'
      BY DEF LoadsCross
    <3>1. CASE s = t
      BY <1>1, <2>2, <2>4, <3>1 DEF Rows!Crosses
    <3>2. CASE s # t
      <4>1. request[s].op = "list" /\ request[s].clean /\ ~Rows!Crosses(op, r, s)
        BY <1>1, <3>2 DEF Kept
      <4>2. op = "list"
        BY <4>1 DEF Rows!Crosses, Rows!Loads
      <4>. QED BY <1>1, <1>7, <2>1, <2>2, <2>4, <3>2, <4>1, <4>2 DEF LoadsCross, Kept
    <3>. QED BY <3>1, <3>2
  <2>6. ChangesCross'
    <3> SUFFICES ASSUME NEW s \in Slot, NEW u \in Slot, Rows!Mutates(s)', request'[s].clean,
                        request'[s].row # None, u # s, Rows!Mutates(u)'
                 PROVE  request'[u].row # request'[s].row
      BY DEF ChangesCross
    <3>1. CASE s = t
      BY <1>1, <2>2, <2>4, <3>1 DEF Rows!Crosses, Kept, Rows!Loads
    <3>2. CASE u = t
      BY <1>1, <2>2, <2>4, <3>2 DEF Rows!Crosses, Kept, Rows!Loads
    <3>3. CASE s # t /\ u # t
      BY <1>1, <2>1, <2>2, <3>3 DEF ChangesCross, Kept
    <3>. QED BY <3>1, <3>2, <3>3
  <2>7. ASSUME Lacks PROVE Lacks'
    <3>1. ASSUME NEW s \in Slot, Served(s)', request'[s].clean PROVE Patches(request[s])'
      <4>1. s # t /\ Served(s) /\ request[s].clean
        BY <1>1, <1>6, <3>1 DEF Served, Kept
      <4>2. request[s].op \in {"add", "change", "remove"}
        BY <4>1 DEF Served, RowsInv, TasksFit, TaskFits, Rows!Loads
      <4>3. Patches(request[s])
        BY <2>7, <4>1 DEF Lacks
      <4>. QED BY <1>1, <1>7, <4>1, <4>2, <4>3 DEF Patches, Kept
    <3>2. ASSUME NEW s \in Slot, Rows!Mutates(s)', request'[s].clean, request'[s].op # "add"
          PROVE  rows'[request'[s].row] > 0
      <4>1. CASE s = t
        BY <1>1, <2>4, <3>2, <4>1
      <4>2. CASE s # t
        BY <1>1, <2>2, <2>7, <3>2, <4>2 DEF Lacks, Kept
      <4>. QED BY <4>1, <4>2
    <3>3. ASSUME NEW x \in Row
          PROVE  rows'[x] = Reads'[x] \/ \E s \in Slot : Served(s)' /\ request'[s].row = x
      BY <1>1, <1>6, <1>7, <2>3, <2>7 DEF Lacks, Kept
    <3>4. count' = Cardinality(Rows!Present(rows'))
      BY <2>7 DEF Lacks
    <3>5. count' = Cardinality(Rows!Present(rows))'
      BY <3>4
    <3>. QED BY <3>1, <3>2, <3>3, <3>5 DEF Lacks
  <2>. QED BY <2>1, <2>5, <2>6, <2>7
<1>9. ReloadedInv'
  <2> SUFFICES ASSUME view \notin Rows!Patching PROVE ListFits'
    BY DEF ReloadedInv
  <2>1. ListFits /\ (Served(t) => op = "list")
    BY DEF RowsInv, ReloadedInv
  <2>2. CASE op = "list"
    <3>1. newestLoad'["list"] = t /\ t # None
      BY <2>2, NoneAssumption DEF RowsInv, RowsTypes, Rows!Loads
    <3>. QED BY <1>1, <3>1 DEF ListFits
  <2>3. CASE op # "list"
    <3>1. newestLoad'["list"] = newestLoad["list"]
      BY <2>3 DEF RowsInv, RowsTypes, Rows!Loads
    <3>2. newestLoad["list"] # None =>
            newestLoad["list"] \in Slot /\ request[newestLoad["list"]].op = "list"
      BY DEF RowsInv, RowsTypes, NewestFit, Rows!Loads
    <3>3. newestLoad["list"] # t \/ newestLoad["list"] = None
      BY <3>2 DEF Rows!Loads
    <3>4. \A u \in Slot : Served(u) => Served(u)'
      BY <1>6, <2>1, <2>3
    <3>. QED BY <1>1, <1>7, <2>1, <3>1, <3>2, <3>3, <3>4 DEF ListFits, Kept
  <2>. QED BY <2>2, <2>3
<1>10. DetailInv'
  <2> SUFFICES ASSUME view = "invoices" PROVE DetailFits'
    BY DEF DetailInv
  <2>1. DetailFits
    BY DEF RowsInv, DetailInv
  <2>2. CASE op = "detail"
    <3>1. newestLoad'["detail"] = t /\ t # None
      BY <2>2, NoneAssumption DEF RowsInv, RowsTypes, Rows!Loads
    <3>. QED BY <1>1, <3>1 DEF DetailFits
  <2>3. CASE op # "detail"
    <3>1. newestLoad'["detail"] = newestLoad["detail"]
      BY <2>3 DEF RowsInv, RowsTypes, Rows!Loads
    <3>2. newestLoad["detail"] # None =>
            newestLoad["detail"] \in Slot /\ request[newestLoad["detail"]].op = "detail"
      BY DEF RowsInv, RowsTypes, NewestFit, Rows!Loads
    <3>3. newestLoad["detail"] # t \/ newestLoad["detail"] = None
      BY <3>2 DEF Rows!Loads
    <3>4. \A u \in Slot : Leads(u) => Leads(u)'
      BY <1>1, <2>3 DEF Leads, Kept, Served
    <3>. QED BY <1>1, <1>7, <2>1, <3>1, <3>2, <3>3, <3>4 DEF DetailFits, Kept
  <2>. QED BY <2>2, <2>3
<1>. QED BY <1>3, <1>4, <1>5, <1>8, <1>9, <1>10 DEF RowsInv

\* A request that is given up without having changed anything.
LEMMA GivenUp ==
  ASSUME RowsInv, NEW t \in Slot, NEW k \in RowsRequest, request' = [request EXCEPT ![t] = k],
         k.op = "idle" \/ (k.op = "open" /\ k.row \in Row /\ view \notin Rows!Patching)
                       \/ (k.op = "close" /\ view \notin Rows!Patching \cup {"invoices"}),
         k.at = k.op, k.read = Rows!Nothing, ~Served(t),
         view = "invoices" /\ Leads(t) => k.op = "open",
         newestLoad' \in [Rows!Loads -> Slot \cup {None}],
         freshLoad' \in [Rows!Loads -> BOOLEAN],
         \A l \in Rows!Loads : freshLoad'[l] => freshLoad[l],
         \A l \in Rows!Loads : newestLoad'[l] # None => newestLoad'[l] # t,
         \A l \in Rows!Loads : newestLoad'[l] = newestLoad[l]
                                 \/ (newestLoad'[l] = None /\ ~freshLoad'[l]),
         UNCHANGED <<view, workspace, items, rows, count, detail>>
  PROVE  RowsInv'
<1>1. /\ request' \in [Slot -> RowsRequest] /\ request'[t] = k
      /\ \A u \in Slot \ {t} : request'[u] = request[u]
  BY DEF RowsInv, RowsTypes
<1>2. RowsTypes'
  BY <1>1 DEF RowsInv, RowsTypes, Rows!NoDetail
<1>3. TasksFit'
  <2>1. TaskFits(request[t])'
    BY <1>1 DEF TaskFits, Rows!Loads, Rows!Adds, Rows!Patching
  <2>2. ASSUME NEW u \in Slot, u # t PROVE TaskFits(request[u])'
    BY <1>1, <2>2 DEF RowsInv, TasksFit, TaskFits
  <2>. QED BY <2>1, <2>2 DEF TasksFit
<1>4. NewestFit'
  BY <1>1 DEF RowsInv, RowsTypes, NewestFit
<1>5. UNCHANGED Reads /\ UNCHANGED Rows!Table
  BY DEF Reads, Rows!View, Rows!Table
<1>6. ~Served(t)' /\ \A u \in Slot \ {t} : Served(u)' <=> Served(u)
  BY <1>1 DEF Served
<1>7. PatchedInv'
  <2> SUFFICES ASSUME view \in Rows!Patching
               PROVE  (LoadsCross /\ ChangesCross /\ (freshLoad["list"] => Lacks))'
    BY DEF PatchedInv
  <2>1. LoadsCross /\ ChangesCross /\ (freshLoad["list"] => Lacks)
    BY DEF RowsInv, PatchedInv
  <2>2. ~Rows!Mutates(t)' /\ \A u \in Slot \ {t} : Rows!Mutates(u)' <=> Rows!Mutates(u)
    BY <1>1 DEF Rows!Mutates, Rows!Patching
  <2>3. LoadsCross' /\ ChangesCross'
    BY <1>1, <1>5, <2>1, <2>2 DEF LoadsCross, ChangesCross
  <2>4. ASSUME Lacks PROVE Lacks'
    <3>1. ASSUME NEW s \in Slot, Served(s)', request'[s].clean PROVE Patches(request[s])'
      <4>1. s # t /\ Served(s) /\ request[s].clean /\ request'[s] = request[s]
        BY <1>1, <1>6, <3>1
      <4>2. request[s].op \in {"add", "change", "remove"}
        BY <4>1 DEF Served, RowsInv, TasksFit, TaskFits, Rows!Loads
      <4>3. Patches(request[s])
        BY <2>4, <4>1 DEF Lacks
      <4>. QED BY <1>5, <4>1, <4>2, <4>3 DEF Patches
    <3>2. count' = Cardinality(Rows!Present(rows))'
      BY <2>4 DEF Lacks, Rows!Present
    <3>. QED BY <1>1, <1>5, <1>6, <2>2, <2>4, <3>1, <3>2 DEF Lacks
  <2>. QED BY <2>1, <2>3, <2>4 DEF Rows!Loads
<1>8. ReloadedInv'
  BY <1>1, <1>5, <1>6 DEF RowsInv, RowsTypes, ReloadedInv, ListFits, Rows!Loads
<1>9. DetailInv'
  <2> SUFFICES ASSUME view = "invoices" PROVE DetailFits'
    BY DEF DetailInv
  <2>1. \A u \in Slot : Leads(u) => Leads(u)'
    BY <1>1 DEF Leads, Served
  <2>. QED BY <1>1, <1>5, <2>1 DEF RowsInv, RowsTypes, DetailInv, DetailFits, Rows!Loads
<1>. QED BY <1>2, <1>3, <1>4, <1>7, <1>8, <1>9 DEF RowsInv

\* The tables change behind the page, or an answer is lost.
LEMMA Overtaken ==
  ASSUME RowsInv, freshLoad' = [k \in Rows!Loads |-> FALSE],
         UNCHANGED <<view, rows, count, detail, newestLoad>>,
         workspace' \in Org, items' \in [Org -> [Row -> Int]],
         request' \in [Slot -> RowsRequest],
         \A u \in Slot : \/ Kept(u) /\ (request'[u].clean => request[u].at # "read")
                         \/ request'[u] = Rows!Done /\ request[u].op \notin Rows!Loads
  PROVE  RowsInv'
<1>1. RowsTypes'
  BY DEF RowsInv, RowsTypes, Rows!NoDetail
<1>2. ASSUME NEW u \in Slot PROVE TaskFits(request[u])'
  <2>1. CASE Kept(u)
    BY <2>1 DEF RowsInv, TasksFit, TaskFits, Kept
  <2>2. CASE request'[u] = Rows!Done
    BY <2>2, DoneIs DEF TaskFits, Rows!Loads, Rows!Adds
  <2>. QED BY <2>1, <2>2
<1>3. TasksFit'
  BY <1>2 DEF TasksFit
<1>4. NewestFit'
  <2> SUFFICES ASSUME NEW k \in Rows!Loads, newestLoad[k] # None
               PROVE  request'[newestLoad[k]].op = k
    BY DEF NewestFit
  <2>. QED BY DEF RowsInv, RowsTypes, NewestFit, Kept
<1>5. PatchedInv'
  <2> SUFFICES ASSUME view \in Rows!Patching PROVE (LoadsCross /\ ChangesCross)'
    BY DEF PatchedInv, Rows!Loads
  <2>1. LoadsCross /\ ChangesCross
    BY DEF RowsInv, PatchedInv
  <2>2. \A u \in Slot : Rows!Mutates(u)' => Rows!Mutates(u) /\ Kept(u)
    BY DoneIs DEF Rows!Mutates, Kept
  <2>3. LoadsCross'
    <3> SUFFICES ASSUME NEW s \in Slot, request'[s].op = "list", request'[s].clean
                 PROVE  /\ \A u \in Slot : ~Rows!Mutates(u)'
                        /\ request'[s].at = "read" => request'[s].read = Reads'
      BY DEF LoadsCross
    <3>1. Kept(s) /\ request[s].at # "read"
      BY DoneIs
    <3>. QED BY <2>1, <2>2, <3>1 DEF LoadsCross, Kept
  <2>4. ChangesCross'
    BY <2>1, <2>2 DEF ChangesCross, Kept
  <2>. QED BY <2>3, <2>4
<1>6. ReloadedInv'
  BY DoneIs DEF RowsInv, RowsTypes, NewestFit, ReloadedInv, ListFits, Rows!Loads, Kept
<1>7. DetailInv'
  BY DoneIs DEF RowsInv, RowsTypes, NewestFit, DetailInv, DetailFits, Rows!Loads, Kept
<1>. QED BY <1>1, <1>3, <1>4, <1>5, <1>6, <1>7 DEF RowsInv

LEMMA TableIs ==
  ASSUME RowsTypes
  PROVE  /\ Rows!Table \in Org /\ items[Rows!Table] \in [Row -> Int]
         /\ Reads \in [Row -> Nat]
         /\ \A r \in Row : Reads[r] = IF items[Rows!Table][r] < 0 THEN 0
                                      ELSE items[Rows!Table][r]
<1>1. Rows!Table \in Org /\ items[Rows!Table] \in [Row -> Int]
  BY BoundsAssumption DEF RowsTypes, Rows!Table
<1>2. Reads = [r \in Row |-> IF items[Rows!Table][r] < 0 THEN 0 ELSE items[Rows!Table][r]]
  BY DEF Reads, Rows!View
<1>. QED BY <1>1, <1>2

LEMMA ReadKeeps == ASSUME RowsInv, NEW t \in Slot, Rows!Read(t) PROVE RowsInv'
<1>1. PICK k : k = Rows!Request(request[t].op, "read", request[t].row, Reads, request[t].clean)
  OBVIOUS
<1>2. /\ request' = [request EXCEPT ![t] = k] /\ request[t].op \in Rows!Loads
      /\ request[t].at = "sent"
      /\ UNCHANGED <<view, workspace, items, rows, count, detail, newestLoad, freshLoad>>
  BY <1>1 DEF Rows!Read, Reads, Rows!shown, Rows!flags
<1>3. /\ k.op = request[t].op /\ k.at = "read" /\ k.row = request[t].row /\ k.read = Reads
      /\ k.clean = request[t].clean
  BY <1>1, RequestIs
<1>4. k \in RowsRequest
  BY <1>1, <1>2, TableIs DEF RowsInv, RowsTypes, RowsRequest, Rows!Request
<1>5. /\ request' \in [Slot -> RowsRequest] /\ request'[t] = k
      /\ \A u \in Slot \ {t} : request'[u] = request[u]
  BY <1>2, <1>4 DEF RowsInv, RowsTypes
<1>6. RowsTypes'
  BY <1>2, <1>5 DEF RowsInv, RowsTypes, Rows!NoDetail
<1>7. TasksFit'
  BY <1>2, <1>3, <1>5 DEF RowsInv, TasksFit, TaskFits, Rows!Loads
<1>8. NewestFit'
  BY <1>2, <1>3, <1>5 DEF RowsInv, RowsTypes, NewestFit
<1>9. UNCHANGED Reads /\ UNCHANGED Rows!Table
  BY <1>2 DEF Reads, Rows!View, Rows!Table
<1>10. ~Served(t)' /\ ~Served(t) /\ \A u \in Slot : Served(u)' <=> Served(u)
  BY <1>2, <1>3, <1>5 DEF Served
<1>11. PatchedInv'
  <2> SUFFICES ASSUME view \in Rows!Patching
               PROVE  (LoadsCross /\ ChangesCross /\ (freshLoad["list"] => Lacks))'
    BY <1>2 DEF PatchedInv
  <2>1. LoadsCross /\ ChangesCross /\ (freshLoad["list"] => Lacks)
    BY DEF RowsInv, PatchedInv
  <2>2. /\ ~Rows!Mutates(t)' /\ ~Rows!Mutates(t)
        /\ \A u \in Slot : Rows!Mutates(u)' <=> Rows!Mutates(u)
    BY <1>2, <1>3, <1>5 DEF Rows!Mutates
  <2>3. LoadsCross'
    BY <1>3, <1>5, <1>9, <2>1, <2>2 DEF LoadsCross
  <2>4. ChangesCross'
    BY <1>5, <2>1, <2>2 DEF ChangesCross
  <2>5. ASSUME Lacks PROVE Lacks'
    <3>1. ASSUME NEW s \in Slot, Served(s)', request'[s].clean PROVE Patches(request[s])'
      <4>1. s # t /\ Served(s) /\ request[s].clean /\ request'[s] = request[s]
        BY <1>5, <1>10, <3>1
      <4>2. request[s].op \in {"add", "change", "remove"}
        BY <4>1 DEF Served, RowsInv, TasksFit, TaskFits, Rows!Loads
      <4>3. Patches(request[s])
        BY <2>5, <4>1 DEF Lacks
      <4>. QED BY <1>2, <1>9, <4>1, <4>2, <4>3 DEF Patches
    <3>2. count' = Cardinality(Rows!Present(rows))'
      BY <1>2, <2>5 DEF Lacks, Rows!Present
    <3>. QED BY <1>2, <1>5, <1>9, <1>10, <2>2, <2>5, <3>1, <3>2 DEF Lacks
  <2>. QED BY <1>2, <2>1, <2>3, <2>4, <2>5
<1>12. ReloadedInv'
  BY <1>2, <1>3, <1>5, <1>9, <1>10 DEF RowsInv, RowsTypes, ReloadedInv, ListFits, Rows!Loads
<1>13. DetailInv'
  <2> SUFFICES ASSUME view = "invoices" PROVE DetailFits'
    BY <1>2 DEF DetailInv
  <2>1. \A u \in Slot : Leads(u) => Leads(u)'
    BY <1>2, <1>3, <1>5, <1>10 DEF Leads
  <2>. QED BY <1>2, <1>3, <1>5, <1>9, <2>1 DEF RowsInv, RowsTypes, DetailInv, DetailFits,
               Rows!Loads
<1>. QED BY <1>6, <1>7, <1>8, <1>11, <1>12, <1>13 DEF RowsInv

\* What follows a load.
LEMMA ResumeIs ==
  ASSUME RowsInv, NEW t \in Slot, Rows!Resume(t), request[t].op = "list"
  PROVE  \E k \in RowsRequest :
           /\ request' = [request EXCEPT ![t] = k]
           /\ k.op = "idle" \/ (k.op = "open" /\ k.row \in Row /\ view \notin Rows!Patching)
                            \/ (k.op = "close" /\ view \notin Rows!Patching \cup {"invoices"})
           /\ k.at = k.op /\ k.read = Rows!Nothing
           /\ view = "invoices" /\ Leads(t) => k.op = "open"
<1>1. /\ request[t].row \in Row \cup {None} /\ ~Served(t)
      /\ view \in Rows!Patching => request[t].row = None
  BY DEF RowsInv, RowsTypes, RowsRequest, TasksFit, TaskFits, Served, Rows!Loads
<1>2. CASE request[t].row = None
  BY <1>1, <1>2, DoneIs DEF Rows!Resume, Rows!End, Leads
<1>3. CASE request[t].row # None /\ view # "invoices"
  <2>1. PICK k : k = Rows!Request("close", "close", None, Rows!Nothing, FALSE)
    OBVIOUS
  <2>2. k \in RowsRequest
    BY <2>1, DoneIs DEF RowsRequest, Ops, Rows!Request
  <2>3. request' = [request EXCEPT ![t] = k]
    BY <1>3, <2>1 DEF Rows!Resume
  <2>4. k.op = "close" /\ k.at = "close" /\ k.read = Rows!Nothing
    BY <2>1 DEF Rows!Request
  <2>. QED BY <1>1, <1>3, <2>2, <2>3, <2>4
<1>4. CASE request[t].row # None /\ view = "invoices"
  <2>1. PICK k : k = Rows!Request("open", "open", request[t].row, Rows!Nothing, FALSE)
    OBVIOUS
  <2>2. k \in RowsRequest
    BY <1>1, <2>1, DoneIs DEF RowsRequest, Ops, Rows!Request
  <2>3. request' = [request EXCEPT ![t] = k]
    BY <1>4, <2>1 DEF Rows!Resume
  <2>4. k.op = "open" /\ k.at = "open" /\ k.read = Rows!Nothing /\ k.row = request[t].row
    BY <2>1 DEF Rows!Request
  <2>. QED BY <1>1, <1>4, <2>2, <2>3, <2>4
<1>. QED BY <1>2, <1>3, <1>4

LEMMA FailedIs ==
  ASSUME RowsInv, NEW t \in Slot, NEW l \in Rows!Loads, request[t].op = l, Rows!Failed(l, t)
  PROVE  /\ newestLoad' \in [Rows!Loads -> Slot \cup {None}]
         /\ freshLoad' \in [Rows!Loads -> BOOLEAN]
         /\ \A m \in Rows!Loads : freshLoad'[m] => freshLoad[m]
         /\ \A m \in Rows!Loads : newestLoad'[m] # None => newestLoad'[m] # t
         /\ \A m \in Rows!Loads : newestLoad'[m] = newestLoad[m]
                                    \/ (newestLoad'[m] = None /\ ~freshLoad'[m])
<1>1. /\ newestLoad' = [newestLoad EXCEPT ![l] = IF newestLoad[l] = t THEN None
                                              ELSE newestLoad[l]]
      /\ freshLoad' = [freshLoad EXCEPT ![l] = FALSE]
  BY DEF Rows!Failed, RowsInv, RowsTypes
<1>2. \A m \in Rows!Loads : newestLoad[m] = t => m = l
  BY NoneAssumption DEF RowsInv, NewestFit
<1>. QED BY <1>1, <1>2 DEF RowsInv, RowsTypes

LEMMA FailuresKeep ==
  ASSUME RowsInv, NEW t \in Slot, Rows!LoadFails(t) \/ Rows!DetailFails(t) PROVE RowsInv'
<1>1. CASE Rows!LoadFails(t)
  <2>1. /\ request[t].op = "list" /\ Rows!Resume(t) /\ Rows!Failed("list", t)
        /\ UNCHANGED <<view, workspace, items, rows, count, detail>> /\ ~Served(t)
    BY <1>1 DEF Rows!LoadFails, Rows!shown, Served, RowsInv, TasksFit, TaskFits, Rows!Loads
  <2>2. PICK k \in RowsRequest :
           /\ request' = [request EXCEPT ![t] = k]
           /\ k.op = "idle" \/ (k.op = "open" /\ k.row \in Row /\ view \notin Rows!Patching)
                            \/ (k.op = "close" /\ view \notin Rows!Patching \cup {"invoices"})
           /\ k.at = k.op /\ k.read = Rows!Nothing
           /\ view = "invoices" /\ Leads(t) => k.op = "open"
    BY <2>1, ResumeIs
  <2>3. "list" \in Rows!Loads
    BY DEF Rows!Loads
  <2>. QED BY <2>1, <2>2, <2>3, FailedIs, GivenUp
<1>2. CASE Rows!DetailFails(t)
  <2>1. /\ request[t].op = "detail" /\ request' = [request EXCEPT ![t] = Rows!Done]
        /\ Rows!Failed("detail", t) /\ ~Served(t) /\ ~Leads(t)
        /\ UNCHANGED <<view, workspace, items, rows, count, detail>>
    BY <1>2 DEF Rows!DetailFails, Rows!shown, Rows!End, Served, Leads, RowsInv, TasksFit,
        TaskFits,
                Rows!Loads
  <2>2. "detail" \in Rows!Loads
    BY DEF Rows!Loads
  <2>. QED BY <2>1, <2>2, DoneIs, FailedIs, GivenUp
<1>. QED BY <1>1, <1>2

LEMMA AnsweredIs ==
  ASSUME RowsInv, NEW t \in Slot, NEW l \in Rows!Loads, request[t].op = l, Rows!Answered(l, t)
  PROVE  /\ newestLoad' \in [Rows!Loads -> Slot \cup {None}]
         /\ freshLoad' \in [Rows!Loads -> BOOLEAN]
         /\ freshLoad'[l] => newestLoad[l] # None /\ request[t].clean
         /\ newestLoad'[l] = IF newestLoad[l] = t THEN None ELSE newestLoad[l]
         /\ \A m \in Rows!Loads \ {l} :
              freshLoad'[m] = freshLoad[m] /\ newestLoad'[m] = newestLoad[m] /\ newestLoad[m] # t
<1>1. PICK c \in BOOLEAN : c = (newestLoad[l] # None /\ request[t].clean)
  OBVIOUS
<1>2. /\ newestLoad' = [newestLoad EXCEPT ![l] = IF newestLoad[l] = t THEN None
                                              ELSE newestLoad[l]]
      /\ freshLoad' = [freshLoad EXCEPT ![l] = c]
  BY <1>1 DEF Rows!Answered, RowsInv, RowsTypes
<1>3. \A m \in Rows!Loads : newestLoad[m] = t => m = l
  BY NoneAssumption DEF RowsInv, NewestFit
<1>. QED BY <1>1, <1>2, <1>3 DEF RowsInv, RowsTypes

LEMMA LoadedKeeps == ASSUME RowsInv, NEW t \in Slot, Rows!Loaded(t) PROVE RowsInv'
<1>1. PICK new : new = request[t].read
  OBVIOUS
<1>2. /\ request[t].op = "list" /\ request[t].at = "read" /\ Rows!Answered("list", t)
      /\ rows' = new /\ count' = Cardinality(Rows!Present(new)) /\ Rows!Resume(t)
      /\ detail' \in {detail, Rows!NoDetail}
      /\ UNCHANGED <<view, workspace, items>>
  <2>1. detail' = detail \/ detail' = Rows!NoDetail
    BY DEF Rows!Loaded
  <2>2. rows' = request[t].read /\ count' = Cardinality(Rows!Present(request[t].read))
    BY RowsCount DEF Rows!Loaded
  <2>3. UNCHANGED <<view, workspace, items>>
    BY DEF Rows!Loaded
  <2>. QED BY <1>1, <2>1, <2>2, <2>3 DEF Rows!Loaded
<1>3. PICK k \in RowsRequest :
           /\ request' = [request EXCEPT ![t] = k]
           /\ k.op = "idle" \/ (k.op = "open" /\ k.row \in Row /\ view \notin Rows!Patching)
                            \/ (k.op = "close" /\ view \notin Rows!Patching \cup {"invoices"})
           /\ k.at = k.op /\ k.read = Rows!Nothing
           /\ view = "invoices" /\ Leads(t) => k.op = "open"
  BY <1>2, ResumeIs
<1>4. /\ request' \in [Slot -> RowsRequest] /\ request'[t] = k
      /\ \A u \in Slot \ {t} : request'[u] = request[u]
  BY <1>3 DEF RowsInv, RowsTypes
<1>5. /\ newestLoad' \in [Rows!Loads -> Slot \cup {None}]
      /\ freshLoad' \in [Rows!Loads -> BOOLEAN]
      /\ freshLoad'["list"] => newestLoad["list"] # None /\ request[t].clean
      /\ newestLoad'["list"] = IF newestLoad["list"] = t THEN None ELSE newestLoad["list"]
      /\ freshLoad'["detail"] = freshLoad["detail"]
      /\ newestLoad'["detail"] = newestLoad["detail"]
      /\ newestLoad["detail"] # t
  BY <1>2, AnsweredIs DEF Rows!Loads
<1>6. new \in [Row -> Nat] /\ IsFiniteSet(Rows!Present(new))
  <2>1. new \in [Row -> Nat]
    BY <1>1 DEF RowsInv, RowsTypes, RowsRequest
  <2>2. Rows!Present(new) \subseteq Row
    BY DEF Rows!Present
  <2>. QED BY <2>1, <2>2, BoundsAssumption, FS_Subset
<1>7. count' \in Nat
  BY <1>2, <1>6, FS_CardinalityType
<1>8. RowsTypes'
  BY <1>2, <1>4, <1>5, <1>6, <1>7 DEF RowsInv, RowsTypes, Rows!NoDetail
<1>9. TasksFit'
  <2>1. TaskFits(request[t])'
    BY <1>2, <1>3, <1>4 DEF TaskFits, Rows!Loads, Rows!Adds, Rows!Patching
  <2>2. ASSUME NEW u \in Slot, u # t PROVE TaskFits(request[u])'
    BY <1>2, <1>4, <2>2 DEF RowsInv, TasksFit, TaskFits
  <2>. QED BY <2>1, <2>2 DEF TasksFit
<1>10. NewestFit'
  BY <1>4, <1>5, NoneAssumption DEF RowsInv, RowsTypes, NewestFit, Rows!Loads
<1>11. UNCHANGED Reads /\ UNCHANGED Rows!Table
  BY <1>2 DEF Reads, Rows!View, Rows!Table
<1>12. ~Served(t)' /\ ~Served(t) /\ \A u \in Slot : Served(u)' <=> Served(u)
  BY <1>2, <1>3, <1>4 DEF Served
<1>13. PatchedInv'
  <2> SUFFICES ASSUME view \in Rows!Patching
               PROVE  (LoadsCross /\ ChangesCross /\ (freshLoad["list"] => Lacks))'
    BY <1>2 DEF PatchedInv
  <2>1. LoadsCross /\ ChangesCross
    BY DEF RowsInv, PatchedInv
  <2>2. /\ ~Rows!Mutates(t)' /\ ~Rows!Mutates(t)
        /\ \A u \in Slot : Rows!Mutates(u)' <=> Rows!Mutates(u)
    BY <1>2, <1>3, <1>4 DEF Rows!Mutates, Rows!Loads, Rows!Patching
  <2>3. LoadsCross' /\ ChangesCross'
    BY <1>3, <1>4, <1>11, <2>1, <2>2 DEF LoadsCross, ChangesCross
  <2>4. ASSUME freshLoad'["list"] PROVE Lacks'
    <3>1. (\A u \in Slot : ~Rows!Mutates(u)) /\ request[t].read = Reads
      BY <1>2, <1>5, <2>1, <2>4 DEF LoadsCross
    <3>2. ASSUME NEW u \in Slot PROVE ~Served(u)'
      BY <1>12, <3>1 DEF Served, Rows!Mutates, RowsInv, TasksFit, TaskFits
    <3>3. count' = Cardinality(Rows!Present(rows))'
      BY <1>2 DEF Rows!Present
    <3>. QED BY <1>1, <1>2, <1>11, <2>2, <3>1, <3>2, <3>3 DEF Lacks
  <2>. QED BY <2>3, <2>4
<1>14. ReloadedInv'
  <2> SUFFICES ASSUME view \notin Rows!Patching PROVE ListFits'
    BY <1>2 DEF ReloadedInv
  <2>1. ListFits
    BY DEF RowsInv, ReloadedInv
  <2>2. newestLoad'["list"] # None =>
          newestLoad'["list"] = newestLoad["list"] /\ newestLoad["list"] \in Slot \ {t}
    BY <1>5 DEF RowsInv, RowsTypes, Rows!Loads
  <2>3. freshLoad'["list"] =>
          rows' = Reads' \/ newestLoad'["list"] # None \/ \E u \in Slot : Served(u)'
    BY <1>1, <1>2, <1>5, <1>11, <1>12, <2>1 DEF ListFits
  <2>. QED BY <1>4, <1>11, <1>12, <2>1, <2>2, <2>3 DEF ListFits
<1>15. DetailInv'
  <2> SUFFICES ASSUME view = "invoices" PROVE DetailFits'
    BY <1>2 DEF DetailInv
  <2>1. \A u \in Slot : Leads(u) => Leads(u)'
    BY <1>3, <1>4, <1>12 DEF Leads
  <2>2. newestLoad["detail"] \in Slot \cup {None} /\ DetailFits
    BY DEF RowsInv, RowsTypes, Rows!Loads, DetailInv
  <2>. QED BY <1>2, <1>4, <1>5, <1>11, <2>1, <2>2 DEF DetailFits
<1>. QED BY <1>8, <1>9, <1>10, <1>13, <1>14, <1>15 DEF RowsInv

LEMMA DetailLoadedKeeps == ASSUME RowsInv, NEW t \in Slot, Rows!DetailLoaded(t) PROVE RowsInv'
<1>1. PICK r, v : r = request[t].row /\ v = request[t].read[r]
  OBVIOUS
<1>2. /\ request[t].op = "detail" /\ request[t].at = "read" /\ v # 0
      /\ request' = [request EXCEPT ![t] = Rows!Done] /\ Rows!Answered("detail", t)
      /\ detail' = [row |-> r, version |-> v]
      /\ UNCHANGED <<view, workspace, items, rows, count>>
  BY <1>1 DEF Rows!DetailLoaded, Rows!End
<1>3. r \in Row /\ v \in Nat /\ view \notin Rows!Patching
  BY <1>1, <1>2 DEF RowsInv, RowsTypes, RowsRequest, TasksFit, TaskFits, Rows!Adds
<1>4. /\ request' \in [Slot -> RowsRequest] /\ request'[t] = Rows!Done
      /\ \A u \in Slot \ {t} : request'[u] = request[u]
  BY <1>2, DoneIs DEF RowsInv, RowsTypes
<1>5. /\ newestLoad' \in [Rows!Loads -> Slot \cup {None}]
      /\ freshLoad' \in [Rows!Loads -> BOOLEAN]
      /\ freshLoad'["detail"] => newestLoad["detail"] # None /\ request[t].clean
      /\ newestLoad'["detail"] = IF newestLoad["detail"] = t THEN None ELSE newestLoad["detail"]
      /\ freshLoad'["list"] = freshLoad["list"] /\ newestLoad'["list"] = newestLoad["list"]
      /\ newestLoad["list"] # t
  BY <1>2, AnsweredIs DEF Rows!Loads
<1>6. RowsTypes'
  BY <1>2, <1>3, <1>4, <1>5 DEF RowsInv, RowsTypes, Rows!NoDetail
<1>7. TasksFit'
  <2>1. TaskFits(request[t])'
    BY <1>2, <1>4, DoneIs DEF TaskFits, Rows!Loads, Rows!Adds, Rows!Patching
  <2>2. ASSUME NEW u \in Slot, u # t PROVE TaskFits(request[u])'
    BY <1>2, <1>4, <2>2 DEF RowsInv, TasksFit, TaskFits
  <2>. QED BY <2>1, <2>2 DEF TasksFit
<1>8. NewestFit'
  BY <1>4, <1>5, NoneAssumption DEF RowsInv, RowsTypes, NewestFit, Rows!Loads
<1>9. UNCHANGED Reads /\ UNCHANGED Rows!Table
  BY <1>2 DEF Reads, Rows!View, Rows!Table
<1>10. ~Served(t)' /\ ~Served(t) /\ \A u \in Slot : Served(u)' <=> Served(u)
  BY <1>2, <1>4, DoneIs DEF Served
<1>11. PatchedInv'
  BY <1>2, <1>3 DEF PatchedInv
<1>12. ReloadedInv'
  <2>1. newestLoad["list"] \in Slot \cup {None} /\ ListFits
    BY <1>3 DEF RowsInv, RowsTypes, Rows!Loads, ReloadedInv
  <2>. QED BY <1>2, <1>4, <1>5, <1>9, <1>10, <2>1 DEF ReloadedInv, ListFits
<1>13. DetailInv'
  <2> SUFFICES ASSUME view = "invoices" PROVE DetailFits'
    BY <1>2 DEF DetailInv
  <2>1. ~Leads(t) /\ \A u \in Slot : Leads(u) => Leads(u)'
    BY <1>2, <1>4, <1>10 DEF Leads
  <2>2. newestLoad["detail"] \in Slot \cup {None} /\ DetailFits
    BY DEF RowsInv, RowsTypes, Rows!Loads, DetailInv
  <2>3. newestLoad'["detail"] # None =>
          newestLoad'["detail"] = newestLoad["detail"] /\ newestLoad["detail"] \in Slot \ {t}
    BY <1>5, <2>2
  <2>4. ASSUME freshLoad'["detail"], newestLoad'["detail"] = None,
               ~\E u \in Slot : Leads(u)'
        PROVE  detail'.version = items'[Rows!Table'][detail'.row]
    <3>1. newestLoad["detail"] = t /\ request[t].clean
      BY <1>5, <2>2, <2>4
    <3>2. v = Reads[r]
      BY <1>1, <1>2, <2>1, <2>2, <2>4, <3>1, NoneAssumption DEF DetailFits
    <3>3. v = items[Rows!Table][r]
      BY <1>2, <1>3, <3>2, TableIs DEF RowsInv
    <3>. QED BY <1>2, <1>9, <3>3
  <2>. QED BY <1>4, <1>9, <2>1, <2>2, <2>3, <2>4 DEF DetailFits
<1>. QED BY <1>6, <1>7, <1>8, <1>11, <1>12, <1>13 DEF RowsInv

\* The API serves a change: the tables move under the page, which is yet to patch it in or
\* to load anew.
LEMMA ServeKeeps == ASSUME RowsInv, NEW t \in Slot, Rows!Serve(t) PROVE RowsInv'
<1>1. /\ Rows!Mutates(t) /\ request[t].at = "sent"
      /\ request[t].op \notin Rows!Adds => request[t].row \in Row
  BY DEF Rows!Serve, Rows!Mutates, RowsInv, TasksFit, TaskFits, Rows!Loads
<1>2. PICK r \in IF request[t].op \in Rows!Adds THEN Rows!Addable ELSE {request[t].row} :
        LET v == items[Rows!Table][r]
            n == Rows!Age(v) + 1
            met == {u \in Slot \ {t} : Rows!Mutates(u) /\ request[u].row = r} IN
          /\ items' = Rows!Stored(r, IF request[t].op \in Rows!Removes THEN -Rows!Age(v)
                                     ELSE IF request[t].op \in Rows!Adds \/ v > 0 THEN n ELSE -n)
          /\ request' = [s \in Slot |->
               IF s = t THEN Rows!Request(request[t].op, "served", r,
                               [Rows!Nothing EXCEPT ![r] = n], request[t].clean /\ met = {})
               ELSE IF s \in met THEN Rows!Soiled(request[s]) ELSE request[s]]
  BY DEF Rows!Serve
<1>3. PICK v, n, w, met, k :
        /\ v = items[Rows!Table][r] /\ n = Rows!Age(v) + 1
        /\ w = IF request[t].op \in Rows!Removes THEN -Rows!Age(v)
               ELSE IF request[t].op \in Rows!Adds \/ v > 0 THEN n ELSE -n
        /\ met = {u \in Slot \ {t} : Rows!Mutates(u) /\ request[u].row = r}
        /\ k = Rows!Request(request[t].op, "served", r, [Rows!Nothing EXCEPT ![r] = n],
                            request[t].clean /\ met = {})
  OBVIOUS
<1>4. /\ r \in Row /\ (request[t].op \in Rows!Adds => r \in Rows!Addable)
      /\ request[t].op \notin Rows!Adds => r = request[t].row
  BY <1>1, <1>2 DEF Rows!Addable
<1>5. /\ items' = Rows!Stored(r, w)
      /\ request' = [s \in Slot |-> IF s = t THEN k ELSE IF s \in met THEN Rows!Soiled(request[s])
                                                         ELSE request[s]]
      /\ UNCHANGED <<view, workspace, rows, count, detail, newestLoad, freshLoad>>
  BY <1>2, <1>3 DEF Rows!Serve, Rows!shown, Rows!flags
<1>6. /\ v \in Int /\ (request[t].op \in Rows!Adds => v <= 0) /\ n \in Nat /\ n > 0 /\ w \in Int
      /\ request[t].op \in Rows!Removes => w <= 0
      /\ request[t].op \notin Rows!Removes /\ (request[t].op \in Rows!Adds \/ v > 0) => w = n
  <2>1. v \in Int /\ Rows!Table \in Org
    BY <1>3, <1>4, TableIs DEF RowsInv
  <2>2. request[t].op \in Rows!Adds => v <= 0
    BY <1>3, <1>4, <2>1 DEF Rows!Addable, Rows!Exists, Rows!Restorable
  <2>3. Rows!Age(v) \in Nat
    BY <2>1 DEF Rows!Age
  <2>. QED BY <1>3, <2>1, <2>2, <2>3
<1>7. /\ k.op = request[t].op /\ k.at = "served" /\ k.row = r
      /\ k.read = [Rows!Nothing EXCEPT ![r] = n]
      /\ k.clean = (request[t].clean /\ met = {})
  BY <1>3, RequestIs
<1>8. k.read \in [Row -> Nat] /\ k.read[r] = n /\ \A x \in Row \ {r} : k.read[x] = 0
  BY <1>4, <1>6, <1>7, DoneIs
<1>9. k \in RowsRequest
  <2>1. request[t].op \in Ops /\ k.clean \in BOOLEAN
    BY <1>7 DEF RowsInv, RowsTypes, RowsRequest
  <2>. QED BY <1>3, <1>4, <1>7, <1>8, <2>1 DEF RowsRequest, Rows!Request
<1>10. /\ request' \in [Slot -> RowsRequest] /\ request'[t] = k
       /\ \A u \in Slot \ {t} : Kept(u) /\ (request'[u].clean => u \notin met)
  <2>1. ASSUME NEW u \in Slot, u # t
        PROVE  request'[u] \in RowsRequest /\ Kept(u) /\ (request'[u].clean => u \notin met)
    <3>1. request[u] \in RowsRequest
      BY DEF RowsInv, RowsTypes
    <3>2. CASE u \in met
      BY <1>5, <2>1, <3>1, <3>2, SoiledIs DEF Kept
    <3>3. CASE u \notin met
      BY <1>5, <2>1, <3>1, <3>3 DEF Kept
    <3>. QED BY <3>2, <3>3
  <2>. QED BY <1>5, <1>9, <2>1
<1>11. /\ Rows!Table' = Rows!Table /\ Rows!Table \in Org
       /\ items' \in [Org -> [Row -> Int]]
       /\ items'[Rows!Table][r] = w
       /\ \A x \in Row \ {r} : items'[Rows!Table][x] = items[Rows!Table][x]
       /\ \A o \in Org \ {Rows!Table} : items'[o] = items[o]
  <2>1. Rows!Table' = Rows!Table /\ Rows!Table \in Org
    BY <1>5, TableIs DEF Rows!Table, RowsInv
  <2>2. items' = [items EXCEPT ![Rows!Table] = [items[Rows!Table] EXCEPT ![r] = w]]
    BY <1>5 DEF Rows!Stored
  <2>. QED BY <1>4, <1>6, <2>1, <2>2 DEF RowsInv, RowsTypes
<1>12. RowsTypes'
  BY <1>5, <1>10, <1>11 DEF RowsInv, RowsTypes, Rows!NoDetail
<1>13. TasksFit'
  <2>1. TaskFits(request[t])'
    BY <1>1, <1>4, <1>5, <1>7, <1>10 DEF RowsInv, TasksFit, TaskFits, Rows!Loads, Rows!Mutates
  <2>2. ASSUME NEW u \in Slot, u # t PROVE TaskFits(request[u])'
    BY <1>5, <1>10, <2>2 DEF RowsInv, TasksFit, TaskFits, Kept
  <2>. QED BY <2>1, <2>2 DEF TasksFit
<1>14. NewestFit'
  <2>1. \A u \in Slot : request'[u].op = request[u].op
    BY <1>7, <1>10 DEF Kept
  <2>. QED BY <1>5, <2>1 DEF RowsInv, RowsTypes, NewestFit
<1>15. /\ Served(t)' /\ ~Served(t) /\ \A u \in Slot : Served(u) => Served(u)'
       /\ \A u \in Slot \ {t} : Served(u)' <=> Served(u)
  BY <1>1, <1>7, <1>10 DEF Served, Kept
<1>16. ReloadedInv'
  BY <1>15 DEF ReloadedInv, ListFits
<1>17. DetailInv'
  BY <1>15 DEF DetailInv, DetailFits, Leads
<1>18. PatchedInv'
  <2> SUFFICES ASSUME view \in Rows!Patching
               PROVE  (LoadsCross /\ ChangesCross /\ (freshLoad["list"] => Lacks))'
    BY <1>5 DEF PatchedInv
  <2>1. LoadsCross /\ ChangesCross /\ (freshLoad["list"] => Lacks)
    BY DEF RowsInv, PatchedInv
  <2>2. Rows!Mutates(t)' /\ \A u \in Slot : Rows!Mutates(u)' <=> Rows!Mutates(u)
    BY <1>1, <1>7, <1>10 DEF Rows!Mutates, Kept
  <2>3. request[t].op \in {"add", "change", "remove"}
    BY <1>1 DEF Rows!Mutates, RowsInv, TasksFit, TaskFits, Rows!Loads
  <2>4. LoadsCross'
    <3> SUFFICES ASSUME NEW s \in Slot, request'[s].op = "list", request'[s].clean PROVE FALSE
      BY DEF LoadsCross
    <3>1. s # t /\ request[s].op = "list" /\ request[s].clean
      BY <1>7, <1>10, <2>3 DEF Kept
    <3>. QED BY <1>1, <2>1, <3>1 DEF LoadsCross
  <2>5. \A u \in Slot \ {t} : Rows!Mutates(u) /\ request[u].row = r =>
          ~request'[u].clean /\ ~request'[t].clean
    BY <1>3, <1>7, <1>10
  <2>6. ChangesCross'
    <3> SUFFICES ASSUME NEW s \in Slot, NEW u \in Slot, Rows!Mutates(s)', request'[s].clean,
                        request'[s].row # None, u # s, Rows!Mutates(u)'
                 PROVE  request'[u].row # request'[s].row
      BY DEF ChangesCross
    <3>1. CASE s = t
      BY <1>7, <1>10, <2>2, <2>5, <3>1 DEF Kept
    <3>2. CASE u = t
      BY <1>7, <1>10, <2>2, <2>5, <3>2 DEF Kept
    <3>3. CASE s # t /\ u # t
      BY <1>10, <2>1, <2>2, <3>3 DEF ChangesCross, Kept
    <3>. QED BY <3>1, <3>2, <3>3
  <2>7. ASSUME Lacks PROVE Lacks'
    <3>1. Reads' \in [Row -> Nat] /\ Reads \in [Row -> Nat]
          /\ (\A x \in Row \ {r} : Reads'[x] = Reads[x])
          /\ Reads[r] = IF v < 0 THEN 0 ELSE v
      <4>1. Reads' = [x \in Row |-> IF items'[Rows!Table'][x] < 0 THEN 0
                                    ELSE items'[Rows!Table'][x]]
        BY DEF Reads, Rows!View
      <4>. QED BY <1>3, <1>4, <1>11, <4>1, TableIs DEF RowsInv
    <3>2. ASSUME request'[t].clean PROVE Patches(request[t])'
      <4>0. /\ request'[t].op = request[t].op /\ request'[t].row = r
            /\ request'[t].read[r] = n /\ items'[Rows!Table'][r] = w /\ rows' = rows
        BY <1>5, <1>7, <1>8, <1>10, <1>11
      <4>1. rows[r] = Reads[r]
        <5>1. \A u \in Slot : Served(u) => request[u].row # r
          BY <1>15, <2>5, <3>2 DEF Served, Rows!Mutates, RowsInv, TasksFit, TaskFits
        <5>. QED BY <1>4, <2>7, <5>1 DEF Lacks
      <4>2. CASE request[t].op = "add"
        <5>1. rows[r] = 0 /\ w = n
          BY <1>6, <3>1, <4>1, <4>2 DEF Rows!Removes, Rows!Adds
        <5>. QED BY <1>6, <4>0, <4>2, <5>1 DEF Patches
      <4>3. CASE request[t].op \in {"change", "remove"}
        <5>1. rows[r] > 0
          BY <1>1, <1>4, <1>7, <1>10, <2>7, <3>2, <4>3 DEF Lacks, Rows!Adds
        <5>2. v > 0
          BY <1>6, <3>1, <4>1, <5>1
        <5>3. IF request[t].op = "remove" THEN w <= 0 ELSE w = n
          BY <1>6, <4>3, <5>2 DEF Rows!Removes
        <5>. QED BY <1>6, <4>0, <4>3, <5>1, <5>3 DEF Patches
      <4>. QED BY <2>3, <4>2, <4>3
    <3>3. ASSUME NEW s \in Slot, s # t, Served(s)', request'[s].clean PROVE Patches(request[s])'
      <4>1. Served(s) /\ request[s].clean /\ Kept(s)
        BY <1>10, <1>15, <3>3 DEF Kept
      <4>2. request[s].op \in {"add", "change", "remove"} /\ request[s].row \in Row
        BY <4>1 DEF Served, RowsInv, TasksFit, TaskFits, Rows!Loads
      <4>3. Patches(request[s]) /\ request[s].row # r
        BY <2>5, <2>7, <3>3, <4>1, <4>2 DEF Lacks, Rows!Mutates, Rows!Loads
      <4>4. /\ rows' = rows
            /\ items'[Rows!Table'][request[s].row] = items[Rows!Table][request[s].row]
        BY <1>5, <1>11, <4>2, <4>3
      <4>. QED BY <4>1, <4>2, <4>3, <4>4 DEF Patches, Kept
    <3>4. ASSUME NEW s \in Slot, Rows!Mutates(s)', request'[s].clean, request'[s].op # "add"
          PROVE  rows'[request'[s].row] > 0
      <4>1. Rows!Mutates(s) /\ request[s].clean /\ request[s].op # "add"
            /\ request'[s].row = request[s].row
        BY <1>4, <1>7, <1>10, <2>2, <2>3, <3>4 DEF Kept, Rows!Adds
      <4>. QED BY <1>5, <2>7, <4>1 DEF Lacks
    <3>5. ASSUME NEW x \in Row
          PROVE  rows'[x] = Reads'[x] \/ \E s \in Slot : Served(s)' /\ request'[s].row = x
      <4>1. CASE x = r
        BY <1>7, <1>10, <1>15, <4>1
      <4>2. CASE x # r
        <5>1. \A u \in Slot : Served(u) => Served(u)' /\ request'[u].row = request[u].row
          BY <1>10, <1>15 DEF Kept
        <5>. QED BY <1>5, <2>7, <3>1, <4>2, <5>1 DEF Lacks
      <4>. QED BY <4>1, <4>2
    <3>6. count' = Cardinality(Rows!Present(rows))'
      BY <1>5, <2>7 DEF Lacks, Rows!Present
    <3>. QED BY <3>2, <3>3, <3>4, <3>5, <3>6 DEF Lacks
  <2>. QED BY <1>5, <2>1, <2>4, <2>6, <2>7
<1>. QED BY <1>12, <1>13, <1>14, <1>16, <1>17, <1>18 DEF RowsInv

LEMMA PatchedKeepsRows == ASSUME RowsInv, NEW t \in Slot, Rows!Patched(t) PROVE RowsInv'
<1>1. PICK r, op : r = request[t].row /\ op = request[t].op
  OBVIOUS
<1>2. /\ view \in Rows!Patching /\ Served(t) /\ request' = [request EXCEPT ![t] = Rows!Done]
      /\ rows' = (CASE op = "add" -> [rows EXCEPT ![r] = request[t].read[r]]
                    [] op = "change" -> [rows EXCEPT ![r] = IF rows[r] = 0 THEN 0
                                                            ELSE request[t].read[r]]
                    [] op = "remove" -> [rows EXCEPT ![r] = 0])
      /\ count' = (CASE op = "add" -> count + 1
                     [] op = "change" -> count
                     [] op = "remove" -> IF count = 0 THEN 0 ELSE count - 1)
      /\ freshLoad' = [freshLoad EXCEPT !["list"] = freshLoad["list"] /\ request[t].clean]
      /\ UNCHANGED <<view, workspace, items, detail, newestLoad>>
  <2>1. rows' = (CASE op = "add" -> [rows EXCEPT ![r] = request[t].read[r]]
                    [] op = "change" -> [rows EXCEPT ![r] = IF rows[r] = 0 THEN 0
                                                            ELSE request[t].read[r]]
                    [] op = "remove" -> [rows EXCEPT ![r] = 0])
    <3>1. r \in Row /\ DOMAIN rows = Row
      BY <1>1 DEF Rows!Patched, RowsInv, RowsTypes, TasksFit, TaskFits
    <3>. QED BY <1>1, <3>1 DEF Rows!Patched
  <2>2. "list" \in DOMAIN freshLoad
    BY DEF RowsInv, RowsTypes, Rows!Loads
  <2>. QED BY <1>1, <2>1, <2>2 DEF Rows!Patched, Rows!End, Served
<1>3. r \in Row /\ op \in {"add", "change", "remove"} /\ Rows!Mutates(t)
  BY <1>1, <1>2 DEF RowsInv, TasksFit, TaskFits, Served, Rows!Mutates, Rows!Loads
<1>4. PICK y : y = CASE op = "add" -> request[t].read[r]
                     [] op = "change" -> IF rows[r] = 0 THEN 0 ELSE request[t].read[r]
                     [] op = "remove" -> 0
  OBVIOUS
<1>5. y \in Nat /\ (y = 0 \/ y = request[t].read[r])
  <2>1. request[t].read[r] \in Nat
    BY <1>3 DEF RowsInv, RowsTypes, RowsRequest
  <2>. QED BY <1>3, <1>4, <2>1
<1>6. rows' = [rows EXCEPT ![r] = y]
  BY <1>2, <1>3, <1>4
<1>7. rows' \in [Row -> Nat] /\ rows'[r] = y /\ \A x \in Row \ {r} : rows'[x] = rows[x]
  BY <1>3, <1>5, <1>6 DEF RowsInv, RowsTypes
<1>8. count' \in Nat
  <2>1. count \in Nat
    BY DEF RowsInv, RowsTypes
  <2>. QED BY <1>2, <1>3, <2>1
<1>9. /\ freshLoad' \in [Rows!Loads -> BOOLEAN]
      /\ freshLoad'["list"] => freshLoad["list"] /\ request[t].clean
  <2>1. PICK c \in BOOLEAN : c = (freshLoad["list"] /\ request[t].clean)
    OBVIOUS
  <2>2. freshLoad' = [freshLoad EXCEPT !["list"] = c]
    BY <1>2, <2>1
  <2>. QED BY <2>1, <2>2 DEF RowsInv, RowsTypes, Rows!Loads
<1>10. /\ request' \in [Slot -> RowsRequest] /\ request'[t] = Rows!Done
       /\ \A u \in Slot \ {t} : request'[u] = request[u]
  BY <1>2, DoneIs DEF RowsInv, RowsTypes
<1>11. RowsTypes'
  BY <1>2, <1>7, <1>8, <1>9, <1>10 DEF RowsInv, RowsTypes, Rows!NoDetail
<1>12. TasksFit'
  <2>1. TaskFits(request[t])'
    BY <1>2, <1>10, DoneIs DEF TaskFits, Rows!Loads, Rows!Adds, Rows!Patching
  <2>2. ASSUME NEW u \in Slot, u # t PROVE TaskFits(request[u])'
    BY <1>2, <1>10, <2>2 DEF RowsInv, TasksFit, TaskFits
  <2>. QED BY <2>1, <2>2 DEF TasksFit
<1>13. NewestFit'
  BY <1>1, <1>2, <1>3, <1>10 DEF RowsInv, RowsTypes, NewestFit, Rows!Loads
<1>14. UNCHANGED Reads /\ UNCHANGED Rows!Table
  BY <1>2 DEF Reads, Rows!View, Rows!Table
<1>15. ~Served(t)' /\ \A u \in Slot \ {t} : Served(u)' <=> Served(u)
  BY <1>10, DoneIs DEF Served
<1>16. PatchedInv'
  <2>1. LoadsCross /\ ChangesCross /\ (freshLoad["list"] => Lacks)
    BY <1>2 DEF RowsInv, PatchedInv
  <2>2. ~Rows!Mutates(t)' /\ \A u \in Slot \ {t} : Rows!Mutates(u)' <=> Rows!Mutates(u)
    BY <1>10, DoneIs DEF Rows!Mutates
  <2>3. LoadsCross' /\ ChangesCross'
    BY <1>10, <1>14, <2>1, <2>2, DoneIs DEF LoadsCross, ChangesCross
  <2>4. ASSUME freshLoad'["list"] PROVE Lacks'
    <3>1. Lacks /\ request[t].clean /\ Patches(request[t])
      BY <1>2, <1>9, <2>1, <2>4 DEF Lacks
    <3>2. PICK z : z = items[Rows!Table][r]
      OBVIOUS
    <3>3. /\ op = "add" => rows[r] = 0 /\ z = request[t].read[r] /\ z > 0
          /\ op = "change" => rows[r] > 0 /\ z = request[t].read[r] /\ z > 0
          /\ op = "remove" => rows[r] > 0 /\ z <= 0
      BY <1>1, <1>3, <3>1, <3>2 DEF Patches
    <3>4. z \in Int /\ Reads[r] = IF z < 0 THEN 0 ELSE z
      BY <1>3, <3>2, TableIs DEF RowsInv
    <3>5. y = Reads[r]
      BY <1>3, <1>4, <3>3, <3>4
    <3>6. \A u \in Slot \ {t} : Rows!Mutates(u) => request[u].row # r
      BY <1>1, <1>3, <2>1, <3>1, NoneAssumption DEF ChangesCross
    <3>7. ASSUME NEW s \in Slot, Served(s)', request'[s].clean PROVE Patches(request[s])'
      <4>1. s # t /\ Served(s) /\ request[s].clean /\ request'[s] = request[s]
        BY <1>10, <1>15, <3>7
      <4>2. request[s].op \in {"add", "change", "remove"} /\ request[s].row \in Row
        BY <1>2, <4>1 DEF Served, RowsInv, TasksFit, TaskFits, Rows!Loads
      <4>3. Patches(request[s]) /\ request[s].row # r
        BY <3>1, <3>6, <4>1, <4>2 DEF Lacks, Rows!Mutates, Rows!Loads
      <4>4. rows'[request[s].row] = rows[request[s].row]
            /\ items'[Rows!Table'][request[s].row] = items[Rows!Table][request[s].row]
        BY <1>2, <1>7, <1>14, <4>2, <4>3
      <4>. QED BY <4>1, <4>2, <4>3, <4>4 DEF Patches
    <3>8. ASSUME NEW s \in Slot, Rows!Mutates(s)', request'[s].clean, request'[s].op # "add"
          PROVE  rows'[request'[s].row] > 0
      <4>1. s # t /\ request'[s] = request[s] /\ Rows!Mutates(s)
        BY <1>10, <2>2, <3>8
      <4>2. request[s].row \in Row
        BY <1>2, <3>8, <4>1 DEF Rows!Mutates, RowsInv, TasksFit, TaskFits, Rows!Loads, Rows!Adds
      <4>. QED BY <1>7, <3>1, <3>6, <3>8, <4>1, <4>2 DEF Lacks
    <3>9. ASSUME NEW x \in Row
          PROVE  rows'[x] = Reads'[x] \/ \E s \in Slot : Served(s)' /\ request'[s].row = x
      BY <1>1, <1>7, <1>10, <1>14, <1>15, <3>1, <3>5 DEF Lacks
    <3>10. count' = Cardinality(Rows!Present(rows))'
      <4>1. rows \in [Row -> Nat] /\ count = Cardinality(Rows!Present(rows))
        BY <3>1 DEF RowsInv, RowsTypes, Lacks
      <4>2. IsFiniteSet(Rows!Present(rows))
        BY BoundsAssumption, FS_Subset DEF Rows!Present
      <4>3. CASE op = "add"
        <5>1. Rows!Present(rows') = Rows!Present(rows) \cup {r} /\ r \notin Rows!Present(rows)
          BY <1>3, <1>4, <1>7, <3>3, <4>1, <4>3 DEF Rows!Present
        <5>2. Cardinality(Rows!Present(rows')) = Cardinality(Rows!Present(rows)) + 1
          BY <4>2, <5>1, FS_AddElement
        <5>. QED BY <1>2, <4>1, <4>3, <5>2
      <4>4. CASE op = "change"
        <5>1. Rows!Present(rows') = Rows!Present(rows)
          BY <1>3, <1>4, <1>7, <3>3, <4>1, <4>4 DEF Rows!Present
        <5>. QED BY <1>2, <4>1, <4>4, <5>1
      <4>5. CASE op = "remove"
        <5>1. Rows!Present(rows') = Rows!Present(rows) \ {r} /\ r \in Rows!Present(rows)
          BY <1>3, <1>4, <1>7, <3>3, <4>1, <4>5 DEF Rows!Present
        <5>2. Cardinality(Rows!Present(rows')) = Cardinality(Rows!Present(rows)) - 1
          BY <4>2, <5>1, FS_RemoveElement
        <5>3. count # 0
          BY <4>1, <4>2, <5>1, FS_EmptySet
        <5>. QED BY <1>2, <4>1, <4>5, <5>2, <5>3
      <4>. QED BY <1>3, <4>3, <4>4, <4>5
    <3>. QED BY <3>7, <3>8, <3>9, <3>10 DEF Lacks
  <2>. QED BY <2>3, <2>4 DEF PatchedInv
<1>17. ReloadedInv' /\ DetailInv'
  BY <1>2 DEF ReloadedInv, DetailInv, Rows!Patching
<1>. QED BY <1>11, <1>12, <1>13, <1>16, <1>17 DEF RowsInv

\* The change op of row r is begun, from a free slot.
LEMMA Begun ==
  ASSUME RowsInv, NEW t \in Slot, NEW op \in Ops, NEW r \in Row \cup {None},
         request[t] = Rows!Done, request' = Rows!With(t, op, r),
         op \notin Rows!Loads \cup {"idle", "close", "open"},
         UNCHANGED <<view, workspace, items, rows, count, detail, newestLoad, freshLoad>>,
         r = None \/ r \in Rows!Present(rows) \/ view \notin Rows!Patching,
         op \notin Rows!Adds => r \in Row,
         op = "add" => r = None,
         view \in Rows!Patching => op \in {"add", "change", "remove"},
         view = "invoices" => op \in {"checkout", "status"}
  PROVE  RowsInv'
<1>2. /\ request[t].op = "idle" /\ request[t].at = "idle" /\ request[t].op \notin Rows!Loads
      /\ ~Served(t) /\ ~Leads(t)
  BY DoneIs DEF Served, Leads, Rows!Loads
<1>3. op \in Ops /\ op \notin Rows!Loads \cup {"idle", "close", "open"}
  BY DEF Ops, Rows!Loads
<1>4. view \in Rows!Patching /\ op # "add" => r \in Row /\ rows[r] > 0
  BY NoneAssumption DEF Rows!Adds, Rows!Present
<1>5. op \notin Rows!Adds \cup {"list"} => r \in Row
  BY <1>3 DEF Rows!Loads
<1>6. view \in Rows!Patching =>
        /\ op \in {"list", "add", "change", "remove"} /\ request[t].op = "idle"
        /\ op \in {"list", "add"} => r = None
        /\ op \in {"change", "remove"} => r \in Row /\ rows[r] > 0
  BY <1>2, <1>3, <1>4 DEF Rows!Loads
<1>7. UNCHANGED <<view, workspace, items, rows, count, detail, freshLoad>>
      /\ newestLoad' = newestLoad
  OBVIOUS
<1>. QED BY <1>2, <1>3, <1>5, <1>6, <1>7, Sent

LEMMA UserKeeps ==
  ASSUME RowsInv, SelectionFits, NEW t \in Slot,
         \/ Rows!Create(t) \/ Rows!Change(t) \/ Rows!RemoveMember(t)
         \/ Rows!DeleteBatch(t) \/ Rows!Save(t) \/ Rows!ToggleFee(t) \/ Rows!DeleteFee(t)
         \/ Rows!DeactivatePlan(t) \/ Rows!Checkout(t) \/ Rows!RefreshPayment(t)
  PROVE  RowsInv' /\ SelectionFits'
<1>1. /\ UNCHANGED <<view, workspace, items, rows, count, detail, newestLoad, freshLoad>>
      /\ UNCHANGED <<row, dueDetail>>
  BY DEF Rows!Create, Rows!Change, Rows!RemoveMember, Rows!DeleteBatch, Rows!Save,
         Rows!ToggleFee, Rows!DeleteFee, Rows!DeactivatePlan, Rows!Checkout,
         Rows!RefreshPayment, Rows!Submit, Rows!Update, Rows!Unbegun, Rows!shown
<1>2. SelectionFits'
  BY <1>1 DEF SelectionFits
<1>. SUFFICES RowsInv'
  BY <1>2
<1>3. row \in Row \cup {None} /\ \A r : r \in Rows!Present(rows) => r \in Row
  BY DEF SelectionFits, Rows!Present
<1>. USE DEF Ops, Rows!Begin, Rows!Free, Rows!Loads, Rows!Adds, Rows!Patching
<1>4. CASE Rows!Create(t)
  BY <1>1, <1>4, Begun DEF Rows!Create, Rows!Submit
<1>5. CASE Rows!Change(t)
  BY <1>1, <1>3, <1>5, Begun DEF Rows!Change, Rows!Update
<1>6. CASE Rows!RemoveMember(t)
  BY <1>1, <1>3, <1>6, Begun DEF Rows!RemoveMember, Rows!Update
<1>7. CASE Rows!DeleteBatch(t)
  BY <1>1, <1>3, <1>7, Begun DEF Rows!DeleteBatch, Rows!Submit
<1>8. CASE Rows!Save(t)
  <2>1. /\ view \in {"fees", "plans"}
        /\ Rows!Begin(t, IF row = None THEN "add" ELSE "change", row)
    BY <1>8 DEF Rows!Save, Rows!Submit
  <2>2. CASE row = None
    BY <1>1, <1>3, <2>1, <2>2, Begun
  <2>3. CASE row # None
    BY <1>1, <1>3, <2>1, <2>3, Begun
  <2>. QED BY <2>2, <2>3
<1>9. CASE Rows!ToggleFee(t)
  BY <1>1, <1>3, <1>9, Begun DEF Rows!ToggleFee
<1>10. CASE Rows!DeleteFee(t)
  <2>1. PICK r \in Rows!Present(rows) :
          Rows!Begin(t, IF row = r THEN "removeEdited" ELSE "remove", r)
    BY <1>10 DEF Rows!DeleteFee
  <2>2. r \in Row /\ view = "fees"
    BY <1>3, <1>10 DEF Rows!DeleteFee
  <2>3. CASE row = r
    BY <1>1, <2>1, <2>2, <2>3, Begun
  <2>4. CASE row # r
    BY <1>1, <2>1, <2>2, <2>4, Begun
  <2>. QED BY <2>3, <2>4
<1>11. CASE Rows!DeactivatePlan(t)
  <2>1. PICK r \in Rows!Present(rows) :
          Rows!Begin(t, IF row = r THEN "change" ELSE "toggle", r)
    BY <1>11 DEF Rows!DeactivatePlan, Rows!Submit
  <2>2. r \in Row /\ view = "plans"
    BY <1>3, <1>11 DEF Rows!DeactivatePlan
  <2>3. CASE row = r
    BY <1>1, <2>1, <2>2, <2>3, Begun
  <2>4. CASE row # r
    BY <1>1, <2>1, <2>2, <2>4, Begun
  <2>. QED BY <2>3, <2>4
<1>12. CASE Rows!Checkout(t)
  BY <1>1, <1>12, Begun DEF Rows!Checkout, Rows!Submit
<1>13. CASE Rows!RefreshPayment(t)
  <2>1. detail.row \in Row
    BY <1>13 DEF Rows!RefreshPayment, RowsInv, RowsTypes
  <2>. QED BY <1>1, <1>13, <2>1, Begun DEF Rows!RefreshPayment, Rows!Update
<1>. QED BY <1>4, <1>5, <1>6, <1>7, <1>8, <1>9, <1>10, <1>11, <1>12, <1>13

LEMMA SelectKeeps ==
  ASSUME SelectionFits, NEW r \in Row \cup {None}, Rows!Select(r), view' = view
  PROVE  SelectionFits'
BY DEF SelectionFits, Rows!Select

\* Loads and details that are begun, by an effect or after a change.
LEMMA LoadsKeep ==
  ASSUME RowsInv, SelectionFits, NEW t \in Slot,
         Rows!Refresh(t) \/ Rows!LoadDetail(t) \/ Rows!Reload(t) \/ Rows!Open(t)
  PROVE  RowsInv' /\ SelectionFits'
<1>1. /\ None \in Row \cup {None} /\ {"list", "detail"} \subseteq Ops
      /\ Rows!Loads = {"list", "detail"}
  BY DEF Ops, Rows!Loads
<1>2. CASE Rows!Refresh(t)
  <2>1. /\ request[t] = Rows!Done /\ request' = Rows!With(t, "list", None)
        /\ newestLoad' = [newestLoad EXCEPT !["list"] = t]
        /\ UNCHANGED <<view, workspace, items, rows, count, detail, freshLoad>>
        /\ UNCHANGED <<row, dueDetail>>
    BY <1>2 DEF Rows!Refresh, Rows!Begin, Rows!Free, Rows!shown
  <2>2. request[t].op = "idle" /\ ~Served(t) /\ ~Leads(t)
    BY <2>1, DoneIs DEF Served, Leads
  <2>3. RowsInv'
    BY <1>1, <2>1, <2>2, Sent
  <2>. QED BY <2>1, <2>3 DEF SelectionFits
<1>3. CASE Rows!LoadDetail(t)
  <2>1. /\ request[t] = Rows!Done /\ request' = Rows!With(t, "detail", row) /\ dueDetail
        /\ newestLoad' = [newestLoad EXCEPT !["detail"] = t] /\ ~dueDetail'
        /\ UNCHANGED <<view, workspace, items, rows, count, detail, freshLoad>>
        /\ UNCHANGED row
    BY <1>3 DEF Rows!LoadDetail, Rows!Begin, Rows!Free, Rows!shown
  <2>2. request[t].op = "idle" /\ ~Served(t) /\ ~Leads(t)
    BY <2>1, DoneIs DEF Served, Leads
  <2>3. row \in Row /\ view = "invoices"
    BY <2>1 DEF SelectionFits
  <2>4. RowsInv'
    BY <1>1, <2>1, <2>2, <2>3, Sent DEF Rows!Patching
  <2>. QED BY <2>1, <2>4 DEF SelectionFits
<1>4. CASE Rows!Reload(t)
  <2>1. PICK r : r = IF request[t].op = "toggle" \/ request[t].op = "remove" THEN None
                     ELSE request[t].row
    OBVIOUS
  <2>2. /\ view \notin Rows!Patching /\ Served(t) /\ request' = Rows!With(t, "list", r)
        /\ newestLoad' = [newestLoad EXCEPT !["list"] = t]
        /\ UNCHANGED <<view, workspace, items, rows, count, detail, freshLoad>>
    BY <1>4, <2>1 DEF Rows!Reload, Served
  <2>3. /\ request[t].op \notin Rows!Loads /\ request[t].row \in Row
        /\ view = "invoices" => r \in Row
    BY <2>1, <2>2 DEF RowsInv, TasksFit, TaskFits, Served
  <2>4. r \in Row \cup {None} /\ (view = "invoices" => r # None)
    BY <2>1, <2>3, NoneAssumption
  <2>5. RowsInv'
    BY <1>1, <2>2, <2>3, <2>4, Sent
  <2>6. CASE request[t].op = "checkout"
    <3>1. Rows!Select(request[t].row)
      BY <1>4, <2>6 DEF Rows!Reload
    <3>. QED BY <2>2, <2>3, <2>5, <3>1, SelectKeeps
  <2>7. CASE request[t].op # "checkout"
    BY <1>4, <2>2, <2>5, <2>7 DEF Rows!Reload, SelectionFits
  <2>. QED BY <2>6, <2>7
<1>5. CASE Rows!Open(t)
  <2>1. /\ request[t].op = "open" /\ request' = Rows!With(t, "detail", request[t].row)
        /\ newestLoad' = [newestLoad EXCEPT !["detail"] = t]
        /\ UNCHANGED <<view, workspace, items, rows, count, detail, freshLoad>>
        /\ UNCHANGED <<row, dueDetail>>
    BY <1>5 DEF Rows!Open, Rows!shown
  <2>2. ~Served(t) /\ request[t].row \in Row /\ view \notin Rows!Patching
    BY <2>1 DEF RowsInv, TasksFit, TaskFits, Served, Rows!Adds
  <2>3. RowsInv'
    BY <1>1, <2>1, <2>2, Sent
  <2>. QED BY <2>1, <2>3 DEF SelectionFits
<1>. QED BY <1>2, <1>3, <1>4, <1>5

LEMMA EndsKeep ==
  ASSUME RowsInv, SelectionFits, NEW t \in Slot, Rows!Close(t) \/ Rows!Refused(t)
  PROVE  RowsInv' /\ SelectionFits'
<1>1. newestLoad \in [Rows!Loads -> Slot \cup {None}] /\ freshLoad \in [Rows!Loads -> BOOLEAN]
  BY DEF RowsInv, RowsTypes
<1>2. request[t].op \notin Rows!Loads =>
        \A l \in Rows!Loads : newestLoad[l] # None => newestLoad[l] # t
  BY DEF RowsInv, NewestFit
<1>3. CASE Rows!Close(t)
  <2>1. /\ request[t].op = "close" /\ request' = [request EXCEPT ![t] = Rows!Done]
        /\ UNCHANGED <<view, workspace, items, rows, count, detail>>
        /\ UNCHANGED <<newestLoad, freshLoad, dueDetail>> /\ row' = None
    BY <1>3 DEF Rows!Close, Rows!End
  <2>2. ~Served(t) /\ ~Leads(t) /\ view # "invoices" /\ request[t].op \notin Rows!Loads
    BY <2>1 DEF RowsInv, TasksFit, TaskFits, Served, Leads, Rows!Loads
  <2>3. RowsInv'
    BY <1>1, <1>2, <2>1, <2>2, DoneIs, GivenUp
  <2>. QED BY <2>1, <2>2, <2>3 DEF SelectionFits
<1>4. CASE Rows!Refused(t) /\ request[t].at = "sent"
  <2>1. /\ Rows!Mutates(t) /\ request' = [request EXCEPT ![t] = Rows!Done]
        /\ UNCHANGED <<view, workspace, items, rows, count, detail>>
        /\ UNCHANGED <<newestLoad, freshLoad, row, dueDetail>>
    BY <1>4 DEF Rows!Refused, Rows!End, Rows!shown
  <2>2. ~Served(t) /\ ~Leads(t) /\ request[t].op \notin Rows!Loads
    BY <1>4, <2>1 DEF RowsInv, TasksFit, TaskFits, Served, Leads, Rows!Loads, Rows!Mutates
  <2>3. RowsInv'
    BY <1>1, <1>2, <2>1, <2>2, DoneIs, GivenUp
  <2>. QED BY <2>1, <2>3 DEF SelectionFits
<1>5. CASE Rows!Refused(t) /\ request[t].at # "sent"
  <2>1. /\ Rows!Mutates(t) /\ request' = [Rows!Outdated EXCEPT ![t] = Rows!Done]
        /\ freshLoad' = [l \in Rows!Loads |-> FALSE]
        /\ UNCHANGED <<view, rows, count, detail, newestLoad>>
        /\ UNCHANGED <<workspace, items, row, dueDetail>>
    BY <1>5 DEF Rows!Refused, Rows!shown
  <2>2. request[t].op \notin Rows!Loads
    BY <2>1 DEF Rows!Mutates
  <2>3. request' \in [Slot -> RowsRequest] /\ request'[t] = Rows!Done
    BY <2>1, OutdatedIs, DoneIs DEF RowsInv
  <2>4. ASSUME NEW u \in Slot, u # t
        PROVE  Kept(u) /\ (request'[u].clean => request[u].at # "read")
    <3>1. request'[u] = Rows!Outdated[u]
      BY <2>1, <2>4, OutdatedIs DEF RowsInv
    <3>. QED BY <3>1, OutdatedIs DEF Kept, RowsInv
  <2>5. workspace' \in Org /\ items' \in [Org -> [Row -> Int]]
    BY <2>1 DEF RowsInv, RowsTypes
  <2>6. RowsInv'
    BY <2>1, <2>2, <2>3, <2>4, <2>5, Overtaken
  <2>. QED BY <2>1, <2>6 DEF SelectionFits
<1>. QED BY <1>3, <1>4, <1>5

LEMMA OthersKeep ==
  ASSUME RowsInv, SelectionFits, Rows!Elsewhere \/ Rows!Switch
  PROVE  RowsInv' /\ SelectionFits'
<1>1. /\ request' = Rows!Outdated /\ freshLoad' = [l \in Rows!Loads |-> FALSE]
      /\ UNCHANGED <<view, rows, count, detail, newestLoad>>
      /\ UNCHANGED <<row, dueDetail>>
  BY DEF Rows!Elsewhere, Rows!Switch, Rows!shown, Rows!flags
<1>2. /\ request' \in [Slot -> RowsRequest]
      /\ \A u \in Slot : Kept(u) /\ (request'[u].clean => request[u].at # "read")
  BY <1>1, OutdatedIs DEF RowsInv, Kept
<1>3. workspace' \in Org /\ items' \in [Org -> [Row -> Int]]
  <2>1. CASE Rows!Switch
    BY <2>1 DEF Rows!Switch, RowsInv, RowsTypes
  <2>2. CASE Rows!Elsewhere
    <3>0. PICK r \in Row :
            \E w \in {Rows!Age(items[Rows!Table][r]) + 1, -items[Rows!Table][r]} :
              items' = Rows!Stored(r, w) /\ workspace' = workspace
      BY <2>2 DEF Rows!Elsewhere
    <3>1. PICK w \in {Rows!Age(items[Rows!Table][r]) + 1, -items[Rows!Table][r]} :
            items' = Rows!Stored(r, w) /\ workspace' = workspace
      BY <3>0
    <3>2. items[Rows!Table][r] \in Int /\ Rows!Table \in Org
      BY TableIs DEF RowsInv
    <3>3. w \in Int
      BY <3>1, <3>2 DEF Rows!Age
    <3>4. items' = [items EXCEPT ![Rows!Table] = [items[Rows!Table] EXCEPT ![r] = w]]
      BY <3>1 DEF Rows!Stored
    <3>. QED BY <3>1, <3>2, <3>3, <3>4 DEF RowsInv, RowsTypes
  <2>. QED BY <2>1, <2>2
<1>4. RowsInv'
  BY <1>1, <1>2, <1>3, Overtaken
<1>. QED BY <1>1, <1>4 DEF SelectionFits

LEMMA RowsSelect ==
  ASSUME RowsInv, SelectionFits, NEW t \in Slot,
         \/ Rows!Read(t) \/ Rows!Loaded(t) \/ Rows!LoadFails(t) \/ Rows!DetailLoaded(t)
         \/ Rows!DetailFails(t) \/ Rows!Serve(t) \/ Rows!Patched(t)
  PROVE  SelectionFits'
<1>1. CASE Rows!Loaded(t)
  <2>1. \/ UNCHANGED <<row, dueDetail>>
        \/ \E r \in Row \cup {None} : Rows!Select(r)
    BY <1>1 DEF Rows!Loaded, SelectionFits, Rows!Present
  <2>2. view' = view
    BY <1>1 DEF Rows!Loaded
  <2>. QED BY <2>1, <2>2, SelectKeeps DEF SelectionFits
<1>2. CASE Rows!Patched(t)
  BY <1>2 DEF Rows!Patched, SelectionFits, Rows!Patching
<1>3. CASE \/ Rows!Read(t) \/ Rows!LoadFails(t) \/ Rows!DetailLoaded(t)
           \/ Rows!DetailFails(t) \/ Rows!Serve(t)
  BY <1>3 DEF Rows!Read, Rows!LoadFails, Rows!DetailLoaded, Rows!DetailFails, Rows!Serve,
              Rows!shown, Rows!flags, SelectionFits
<1>. QED BY <1>1, <1>2, <1>3

LEMMA RowsNext == RowsInv /\ SelectionFits /\ Rows!Next => RowsInv' /\ SelectionFits'
<1> SUFFICES ASSUME RowsInv, SelectionFits, Rows!Next PROVE RowsInv' /\ SelectionFits'
  OBVIOUS
<1>1. CASE Rows!Choose
  <2>1. /\ UNCHANGED <<view, workspace, items, rows, count, detail>>
        /\ UNCHANGED <<request, newestLoad, freshLoad>>
        /\ \E r \in Row \cup {None} : Rows!Select(r)
    BY <1>1 DEF Rows!Choose, Rows!Present
  <2>2. SelectionFits'
    BY <2>1, SelectKeeps
  <2>3. RowsTypes' /\ TasksFit' /\ NewestFit'
    BY <2>1 DEF RowsInv, RowsTypes, Rows!NoDetail, TasksFit, TaskFits, NewestFit
  <2>4. UNCHANGED Reads /\ UNCHANGED Rows!Table
    BY <2>1 DEF Reads, Rows!View, Rows!Table
  <2>5. PatchedInv'
    BY <2>1, <2>4, ZenonT(40)
    DEF RowsInv, PatchedInv, LoadsCross, ChangesCross, Lacks, Patches, Served,
        Rows!Mutates, Rows!Present
  <2>6. ReloadedInv' /\ DetailInv'
    BY <2>1, <2>4 DEF RowsInv, ReloadedInv, ListFits, DetailInv, DetailFits, Leads, Served,
                      Rows!NoDetail
  <2>. QED BY <2>2, <2>3, <2>5, <2>6 DEF RowsInv
<1>2. CASE Rows!Elsewhere \/ Rows!Switch
  BY <1>2, OthersKeep
<1>3. ASSUME NEW t \in Slot, Rows!Step(t) PROVE RowsInv' /\ SelectionFits'
  BY <1>3, LoadsKeep, EndsKeep, UserKeeps, RowsSelect, ReadKeeps, LoadedKeeps, FailuresKeep,
     DetailLoadedKeeps, ServeKeeps, PatchedKeepsRows DEF Rows!Step
<1>. QED BY <1>1, <1>2, <1>3 DEF Rows!Next

LEMMA RowsStart == Rows!Init => RowsInv /\ SelectionFits
<1> SUFFICES ASSUME Rows!Init PROVE RowsInv /\ SelectionFits
  OBVIOUS
<1>1. \A t \in Slot : request[t] = Rows!Done
  BY DEF Rows!Init
<1>2. items \in [Org -> [Row -> Int]]
  <2>1. Rows!Nothing \in [Row -> Int]
    BY DoneIs
  <2>2. PICK table \in [Row -> {0, 1}] :
          items = [o \in Org |-> IF o = Rows!Table THEN table ELSE Rows!Nothing]
    BY DEF Rows!Init
  <2>3. table \in [Row -> Int]
    OBVIOUS
  <2>. QED BY <2>1, <2>2, <2>3
<1>3. RowsTypes
  BY <1>2, DoneIs, BoundsAssumption DEF Rows!Init, RowsTypes
<1>4. TasksFit
  BY <1>1, DoneIs DEF TasksFit, TaskFits, Rows!Loads, Rows!Adds
<1>5. NewestFit
  BY DEF Rows!Init, NewestFit
<1>6. PatchedInv
  <2>1. LoadsCross /\ ChangesCross
    BY <1>1, DoneIs DEF LoadsCross, ChangesCross
  <2>2. ~freshLoad["list"]
    BY DEF Rows!Init, Rows!Loads
  <2>. QED BY <2>1, <2>2 DEF PatchedInv
<1>7. ReloadedInv /\ DetailInv
  BY DEF Rows!Init, Rows!Loads, ReloadedInv, ListFits, DetailInv, DetailFits
<1>8. SelectionFits
  BY DEF Rows!Init, SelectionFits
<1>. QED BY <1>3, <1>4, <1>5, <1>6, <1>7, <1>8 DEF RowsInv

LEMMA RowsCurrent == RowsInv => Rows!PageIsCurrent
<1> SUFFICES ASSUME RowsInv, Rows!Quiet
             PROVE  /\ freshLoad["list"] => rows = Reads
                    /\ freshLoad["list"] /\ view = "team" =>
                         count = Cardinality(Rows!Present(rows))
                    /\ view = "invoices" /\ freshLoad["detail"] /\ detail # Rows!NoDetail =>
                         detail.version = items[Rows!Table][detail.row]
  BY RowsCount DEF Rows!PageIsCurrent, Reads
<1>1. \A t \in Slot : ~Served(t) /\ ~Leads(t)
  BY DoneIs DEF Rows!Quiet, Rows!Free, Served, Leads
<1>2. \A l \in Rows!Loads : newestLoad[l] = None
  BY DoneIs DEF Rows!Quiet, Rows!Free, RowsInv, RowsTypes, NewestFit, Rows!Loads
<1>3. CASE view \in Rows!Patching
  <2>1. ASSUME freshLoad["list"]
        PROVE  rows = Reads /\ count = Cardinality(Rows!Present(rows))
    <3>1. Lacks
      BY <1>3, <2>1 DEF RowsInv, PatchedInv
    <3>2. \A r \in Row : rows[r] = Reads[r]
      BY <1>1, <3>1 DEF Lacks
    <3>. QED BY <3>1, <3>2, TableIs DEF Lacks, RowsInv, RowsTypes
  <2>. QED BY <1>3, <2>1 DEF Rows!Patching
<1>4. CASE view \notin Rows!Patching
  BY <1>1, <1>2, <1>4 DEF RowsInv, ReloadedInv, ListFits, DetailInv, DetailFits, Rows!Loads,
                          Rows!Patching
<1>. QED BY <1>3, <1>4

\* A page of rows with nothing under way shows what a reload would show, its seats and the
\* detail of its invoice included, on every page and however many requests have crossed
\* (refresh, refreshBillingData, loadInvoiceDetail and the handlers of the pages).
THEOREM PagesAreCurrent == ClientsSpec => []PageIsCurrent
<1> DEFINE Inv == part = "rows" => RowsInv /\ SelectionFits
<1>1. ClientsInit => Inv
  BY RowsStart DEF ClientsInit
<1>2. ASSUME RowsInv, SelectionFits, UNCHANGED rowsVars PROVE RowsInv' /\ SelectionFits'
  <2>1. UNCHANGED <<view, workspace, items, rows, count, detail, request, newestLoad,
                    freshLoad, row, dueDetail>>
    BY <1>2 DEF rowsVars
  <2>2. RowsTypes' /\ TasksFit' /\ NewestFit' /\ SelectionFits'
    BY <1>2, <2>1 DEF RowsInv, RowsTypes, Rows!NoDetail, TasksFit, TaskFits, NewestFit,
                      SelectionFits
  <2>3. UNCHANGED Reads /\ UNCHANGED Rows!Table
    BY <2>1 DEF Reads, Rows!View, Rows!Table
  <2>4. PatchedInv'
    BY <1>2, <2>1, <2>3 DEF RowsInv, PatchedInv, LoadsCross, ChangesCross, Lacks,
                            Patches, Served, Rows!Mutates, Rows!Present
  <2>5. ReloadedInv' /\ DetailInv'
    BY <1>2, <2>1, <2>3 DEF RowsInv, ReloadedInv, ListFits, DetailInv, DetailFits, Leads, Served,
                            Rows!NoDetail
  <2>. QED BY <2>2, <2>4, <2>5 DEF RowsInv
<1>3. Inv /\ [ClientsNext]_clientVars => Inv'
  BY <1>2, PartStays, RowsMove, RowsNext
<1>4. Inv => PageIsCurrent
  BY RowsCurrent DEF PageIsCurrent
<1>. QED BY <1>1, <1>3, <1>4, PTL DEF ClientsSpec
=============================================================================
