--------------------------- MODULE ExtensionState ---------------------------
(***************************************************************************)
(* The background script of the extension over its one record in           *)
(* chrome.storage: login, logout, recovery of the extension session, the   *)
(* popup's state, the heartbeat and the syncs (background.ts, storage.ts). *)
(*                                                                         *)
(* Nothing excludes two handlers from each other: patchExtensionState      *)
(* reads the record, and writes it back whole when chrome answers.  A      *)
(* handler is a task; mine is the state it works with and cur the one its  *)
(* patch has read.  The service worker may be stopped at any time, which   *)
(* ends the tasks and leaves the record.                                   *)
(*                                                                         *)
(* Logins are numbered; a login's organization and shops have its number.  *)
(* The fields of the record that patches change with no regard for the     *)
(* login (lastPage, lastSync, selectedShopId, subscriptionOverview) are    *)
(* left out: such a patch only touches the record, by writing back what it *)
(* has read.  Bounds: Task, MaxLogins, MaxTime, Goals.                     *)
(***************************************************************************)
EXTENDS Integers, FiniteSets

CONSTANTS
  Task,
  Goals,        \* among "login", "popup", "sync", "heartbeat", "touch"
  TTL,          \* life of an extension session
  MaxLogins, MaxTime

VARIABLES
  store,        \* chrome.storage.local
  task,
  logins,       \* logins so far
  dead,         \* logins whose session the API has ended
  out,          \* history: logged out with no task in flight, and no login since
  now

vars == <<store, task, logins, dead, out, now>>

Login == 1..MaxLogins
NoExt == [login |-> 0, exp |-> 0]
State ==
  [auth: 0..MaxLogins, ext: [login: 0..MaxLogins, exp: Nat], shops: 0..MaxLogins]
INITIAL_STATE == [auth |-> 0, ext |-> NoExt, shops |-> 0]

\* What is patched in: a login's bundle or the session of a heartbeat (n is the
\* login, exp the session's end), or nothing about the login.
PatchOf(kind) == [kind |-> kind, n |-> 0, exp |-> 0]
Touch == PatchOf("touch")
Idle ==
  [goal |-> "none", at |-> "idle", mine |-> INITIAL_STATE, cur |-> INITIAL_STATE,
   patch |-> Touch, then |-> "idle"]

Init ==
  /\ store = INITIAL_STATE
  /\ task = [t \in Task |-> Idle]
  /\ logins = 0
  /\ dead = {}
  /\ out = FALSE
  /\ now = 0

-----------------------------------------------------------------------------
At(t, l) == task[t].at = l
Become(t, r) == task' = [task EXCEPT ![t] = r]
End(t) == Become(t, Idle)

\* A task that goes on elsewhere, that goes on with a state, that begins a patch.
Moved(r, l) == [r EXCEPT !.at = l]
MovedWith(r, l, s) == [r EXCEPT !.at = l, !.mine = s]
Patching(r, p, then) ==
  [r EXCEPT !.at = "patchRead", !.patch = p, !.then = then, !.mine = INITIAL_STATE]
Goto(t, l) == Become(t, Moved(task[t], l))
GoWith(t, l, s) == Become(t, MovedWith(task[t], l, s))
Patch(t, p, then) == Become(t, Patching(task[t], p, then))
Mine(t) == task[t].mine

\* isExtensionSessionExpired
Fresh(e) == e # NoExt /\ e.exp > now

\* What the API may answer to a request with the token of a login: it names
\* the session's end, or fails otherwise.
Answer(login) == {"failed"} \cup IF login \in dead THEN {"expired"} ELSE {"ok"}

\* Variant: a heartbeat writes back the session it was sent for.
MergedPutsSession(s, p) ==
  CASE p.kind = "bundle" -> [auth |-> p.n, ext |-> [login |-> p.n, exp |-> p.exp],
                             shops |-> p.n]
    [] p.kind = "clear"  -> INITIAL_STATE
    [] p.kind = "noExt"  -> [s EXCEPT !.ext = NoExt]
    [] p.kind = "beat"   -> [s EXCEPT !.ext = [login |-> p.n, exp |-> p.exp]]
    [] p.kind = "touch"  -> s

\* The record a patch makes of the one it has read.
Merged(s, p) ==
  CASE p.kind = "bundle" -> [auth |-> p.n, ext |-> [login |-> p.n, exp |-> p.exp],
                             shops |-> p.n]
    [] p.kind = "clear"  -> INITIAL_STATE
    [] p.kind = "noExt"  -> [s EXCEPT !.ext = NoExt]
    [] p.kind = "beat"   -> IF s.ext = NoExt THEN s ELSE [s EXCEPT !.ext.exp = p.exp]
    [] p.kind = "touch"  -> s

PatchRead(t) ==
  /\ At(t, "patchRead")
  /\ Become(t, [task[t] EXCEPT !.at = "patchWrite", !.cur = store])
  /\ UNCHANGED <<store, logins, dead, out, now>>

PatchWrite(t) ==
  /\ At(t, "patchWrite")
  /\ LET next == Merged(task[t].cur, task[t].patch) IN
       /\ store' = next
       /\ IF task[t].then = "idle" THEN End(t)
          ELSE Become(t, [task[t] EXCEPT !.at = task[t].then, !.mine = next,
                                         !.cur = INITIAL_STATE, !.patch = Touch,
                                         !.then = "idle"])
  /\ UNCHANGED <<logins, dead, out, now>>

\* Any handler that throws is answered with its message, which is patched in.
Fail(t) == Patch(t, Touch, "idle")

-----------------------------------------------------------------------------
\* The messages of the popup and of content scripts, and the alarm.
Start(t) ==
  /\ At(t, "idle")
  /\ \E goal \in Goals :
       LET new == [Idle EXCEPT !.goal = goal]
       IN  \/ /\ goal = "login" /\ logins < MaxLogins
              /\ Become(t, [new EXCEPT !.at = "login"])
           \/ /\ goal \in {"popup", "sync"}
              /\ Become(t, [new EXCEPT !.at = "ensure"])
           \/ goal = "heartbeat" /\ Become(t, [new EXCEPT !.at = "beat"])
           \/ /\ goal = "touch"
              /\ Become(t, [new EXCEPT !.at = "patchRead"])
  /\ out' = (out /\ task'[t].goal # "login")
  /\ UNCHANGED <<store, logins, dead, now>>

\* handleLogout overwrites the record without reading it.
Logout ==
  /\ store' = INITIAL_STATE
  /\ out' = (\A t \in Task : At(t, "idle"))
  /\ UNCHANGED <<task, logins, dead, now>>

\* handleLogin
LoginCall(t) ==
  /\ At(t, "login")
  /\ \/ Fail(t) /\ UNCHANGED logins
     \/ /\ logins < MaxLogins
        /\ logins' = logins + 1
        /\ GoWith(t, "bundle", [INITIAL_STATE EXCEPT !.auth = logins'])
  /\ UNCHANGED <<store, dead, out, now>>

\* createSessionBundle: the workspace is switched, shops and subscription are
\* loaded (the latter may be missing) and an extension session is created.
\* What to do if that fails is decided by the login or by the recovery.
Bundle(t) ==
  /\ At(t, "bundle")
  /\ LET auth == Mine(t).auth IN \E answer \in Answer(auth) :
       \/ /\ answer = "ok"
          /\ Patch(t, [kind |-> "bundle", n |-> auth, exp |-> now + TTL],
                   IF task[t].goal = "login" THEN "idle" ELSE "recovered")
       \/ answer # "ok" /\ task[t].goal = "login" /\ Fail(t)
       \/ answer = "expired" /\ task[t].goal # "login" /\
            Patch(t, PatchOf("clear"), "reread")
       \/ answer = "failed" /\ task[t].goal # "login" /\
            Patch(t, PatchOf("noExt"), "ensured")
  /\ UNCHANGED <<store, logins, dead, out, now>>

\* recoverExtensionSession reads the record again, ...
Recover(t) ==
  /\ At(t, "recover")
  /\ GoWith(t, IF store.auth = 0 THEN "ensured" ELSE "bundle", store)
  /\ UNCHANGED <<store, logins, dead, out, now>>

\* ... and patches its message in afterwards.
Recovered(t) ==
  /\ At(t, "recovered") /\ Patch(t, Touch, "ensured")
  /\ UNCHANGED <<store, logins, dead, out, now>>

\* clearExtensionLoginState returns what it finds after its patch.
Reread(t) ==
  /\ At(t, "reread")
  /\ GoWith(t, "ensured", store)
  /\ UNCHANGED <<store, logins, dead, out, now>>

\* ensureExtensionSessionState
Ensure(t) ==
  /\ At(t, "ensure")
  /\ \/ /\ Fresh(store.ext) \/ (store.auth = 0 /\ store.ext = NoExt)
        /\ GoWith(t, "ensured", store)
     \/ /\ ~Fresh(store.ext) /\ store.auth # 0
        /\ Goto(t, "recover")
     \/ /\ store.ext # NoExt /\ ~Fresh(store.ext) /\ store.auth = 0
        /\ Patch(t, PatchOf("clear"), "reread")
  /\ UNCHANGED <<store, logins, dead, out, now>>

-----------------------------------------------------------------------------
\* ensurePopupState goes on to refreshSubscriptionOverviewState, which reads
\* the record once more.
Overview(t) ==
  /\ At(t, "ensured") /\ task[t].goal = "popup"
  /\ IF Mine(t).auth = 0 \/ store.auth = 0 THEN End(t)
     ELSE GoWith(t, "overview", store)
  /\ UNCHANGED <<store, logins, dead, out, now>>

OverviewCall(t) ==
  /\ At(t, "overview")
  /\ \E answer \in Answer(Mine(t).auth) :
       Patch(t, IF answer = "expired" THEN PatchOf("clear") ELSE Touch, "idle")
  /\ UNCHANGED <<store, logins, dead, out, now>>

\* handleSyncNow, handleSyncProductUrl and handleSyncProductPreview, once a
\* snapshot is there: buildSyncPayload names the organization and the sessions
\* of mine or refuses; the batch is accepted or not; all that ends in a patch.
Sync(t) ==
  /\ At(t, "ensured") /\ task[t].goal = "sync"
  /\ Patch(t, Touch, "idle")
  /\ UNCHANGED <<store, logins, dead, out, now>>

-----------------------------------------------------------------------------
\* handleHeartbeat
Beat(t) ==
  /\ At(t, "beat")
  /\ \/ store.ext = NoExt /\ store.auth = 0 /\ End(t)
     \/ store.ext = NoExt /\ store.auth # 0 /\ Goto(t, "recover")
     \/ /\ store.ext # NoExt
        /\ GoWith(t, "heartbeat", store)
  /\ UNCHANGED <<store, logins, dead, out, now>>

BeatCall(t) ==
  /\ At(t, "heartbeat")
  /\ \/ Patch(t, [kind |-> "beat", n |-> Mine(t).ext.login, exp |-> now + TTL], "idle")
     \/ IF Mine(t).auth = 0 THEN Patch(t, PatchOf("noExt"), "idle")
        ELSE Become(t, [task[t] EXCEPT !.at = "recover", !.goal = "lost"])
  /\ UNCHANGED <<store, logins, dead, out, now>>

\* A heartbeat that failed (is lost) drops the session that its recovery did not renew.
BeatEnds(t) ==
  /\ At(t, "ensured") /\ task[t].goal \in {"heartbeat", "lost"}
  /\ IF task[t].goal = "lost" /\ Mine(t).ext = NoExt
     THEN Patch(t, PatchOf("noExt"), "idle") ELSE End(t)
  /\ UNCHANGED <<store, logins, dead, out, now>>

-----------------------------------------------------------------------------
\* The API ends a login's session; time; the browser stops the service worker.
Dies ==
  /\ \E l \in 1..logins : l \notin dead /\ dead' = dead \cup {l}
  /\ UNCHANGED <<store, task, logins, out, now>>

Tick ==
  /\ now < MaxTime /\ now' = now + 1
  /\ UNCHANGED <<store, task, logins, dead, out>>

Stopped ==
  /\ task' = [t \in Task |-> Idle]
  /\ UNCHANGED <<store, logins, dead, out, now>>

Step(t) ==
  \/ Start(t) \/ LoginCall(t) \/ Bundle(t) \/ Recover(t) \/ Recovered(t)
  \/ Reread(t) \/ Ensure(t) \/ Overview(t) \/ OverviewCall(t) \/ Sync(t)
  \/ Beat(t) \/ BeatCall(t) \/ BeatEnds(t) \/ PatchRead(t) \/ PatchWrite(t)

Next == (\E t \in Task : Step(t)) \/ Logout \/ Dies \/ Tick \/ Stopped
Spec == Init /\ [][Next]_vars

-----------------------------------------------------------------------------
\* Whatever patches overwrite each other, the record never combines two
\* logins, and neither does the state a handler works with: the extension
\* session and the shops in it are those of the login in it, so a batch names
\* the organization of the session that sends it.
OneLogin ==
  \A s \in {store} \cup {task[t].mine : t \in Task} :
    s.ext # NoExt => s.ext.login = s.auth /\ s.shops = s.auth

\* A logout that met no task in flight is final: no heartbeat, popup or sync
\* brings an extension session back before somebody logs in (a logout beside a
\* task in flight may be undone by the task's patch).
LogoutIsFinal == out => store.ext = NoExt
=============================================================================
