----------------------------- MODULE WebSession -----------------------------
(***************************************************************************)
(* The login of the web application in the tabs of one browser             *)
(* (auth-provider, storage, api, the login page and the frame of the       *)
(* private pages).  A tab keeps its session and profile in React state and *)
(* shares localStorage with the others, which it only reads when it is     *)
(* loaded.  Logging out asks the API nothing.                              *)
(*                                                                         *)
(* A login stands for its token and for its user; who is logged in is that *)
(* login with the workspace the session names.  GET /me and GET            *)
(* /organizations/current are read apart; the list of workspaces is left   *)
(* out.  Logins are numbered as they are made; the first is in the         *)
(* workspace Home.  Bounds: Tab, MaxLogins, Slot, MaxSwitches.             *)
(***************************************************************************)
EXTENDS Integers, FiniteSets

CONSTANTS Tab, Org, Home, Slot, None, MaxLogins, MaxSwitches

VARIABLES
  org, alive,           \* the API: the workspace of each login, those not revoked
  stored,               \* localStorage
  ready, session, profile, current, due, switching,     \* of each tab
  task,
  logins, switches,     \* bounds
  newest, fresh         \* history: the refresh last begun until it is answered, and
                        \* whether the last answer was its and still is the API's

tabVars == <<ready, session, profile, current, due, switching>>
vars == <<org, alive, stored, tabVars, task, logins, switches, newest, fresh>>

Login == 1..MaxLogins

Request(op, b, l, me, clean) ==
  [op |-> op, tab |-> b, login |-> l, me |-> me, current |-> None, clean |-> clean]
Idle == Request("idle", None, None, None, FALSE)
Session == [token : Login, user : Login, org : Org] \cup {None}
Who(s) == IF s = None THEN None ELSE s.token

Init ==
  /\ org \in [Login -> Org] /\ org[1] = Home /\ alive = {} /\ logins = 0 /\ switches = 0
  /\ stored = None
  /\ ready = [b \in Tab |-> FALSE] /\ switching = [b \in Tab |-> FALSE]
  /\ session = [b \in Tab |-> None] /\ profile = session /\ current = session
  /\ due = [b \in Tab |-> FALSE]
  /\ task = [t \in Slot |-> Idle]
  /\ newest = [b \in Tab |-> None] /\ fresh = [b \in Tab |-> FALSE]

-----------------------------------------------------------------------------
\* A tab takes s; every change of the token has the effect refresh the profile.
Take(b, s) ==
  /\ session' = [session EXCEPT ![b] = s]
  /\ due' = [due EXCEPT ![b] = IF Who(s) = Who(session[b]) THEN @ ELSE s # None]

\* saveSession, clearSessionState
Forget(b) ==
  /\ profile' = [profile EXCEPT ![b] = None] /\ current' = [current EXCEPT ![b] = None]
  /\ fresh' = [fresh EXCEPT ![b] = FALSE]
SaveSession(b, s) == stored' = s /\ Take(b, s) /\ Forget(b)
ClearSession(b) == stored' = None /\ Take(b, None) /\ Forget(b)

\* The effect of mounting reads the storage.
Mount(b) ==
  /\ ~ready[b] /\ ready' = [ready EXCEPT ![b] = TRUE]
  /\ \/ stored = None /\ UNCHANGED <<session, due, stored>>
     \/ stored # None /\ Take(b, stored) /\ UNCHANGED stored
     \/ stored # None /\ Who(stored) \notin alive          \* it has expired
          /\ stored' = None /\ UNCHANGED <<session, due>>
  /\ UNCHANGED <<org, alive, profile, current, switching, task, logins, switches, newest,
                 fresh>>

\* The tab is loaded anew: what it was doing is gone.
Reload(b) ==
  /\ ready[b] /\ ready' = [ready EXCEPT ![b] = FALSE]
  /\ session' = [session EXCEPT ![b] = None] /\ due' = [due EXCEPT ![b] = FALSE]
  /\ Forget(b) /\ switching' = [switching EXCEPT ![b] = FALSE]
  /\ task' = [t \in Slot |-> IF task[t].tab = b THEN Idle ELSE task[t]]
  /\ newest' = [newest EXCEPT ![b] = None]
  /\ UNCHANGED <<org, alive, stored, logins, switches>>

\* handleSubmit of the login page, where a tab without a session is sent.
LogIn(b, t) ==
  /\ ready[b] /\ session[b] = None /\ task[t] = Idle
  /\ \A u \in Slot : task[u].tab # b \/ task[u].op # "login"
  /\ logins < MaxLogins /\ logins' = logins + 1 /\ alive' = alive \cup {logins'}
  /\ task' = [task EXCEPT ![t] = Request("login", b, logins', None, FALSE)]
  /\ UNCHANGED <<org, stored, tabVars, switches, newest, fresh>>

LoggedIn(t) ==
  LET l == task[t].login IN
  /\ task[t].op = "login" /\ task' = [task EXCEPT ![t] = Idle]
  /\ SaveSession(task[t].tab, [token |-> l, user |-> l, org |-> org[l]])
  /\ UNCHANGED <<org, alive, ready, switching, logins, switches, newest>>

\* "Keluar"
LogOut(b) ==
  /\ session[b] # None /\ ClearSession(b)
  /\ UNCHANGED <<org, alive, ready, switching, task, logins, switches, newest>>

-----------------------------------------------------------------------------
Refreshing(b, l) == Request("refresh", b, l, None, TRUE)

\* refreshProfile by the effect, whose timer has no delay, or else by "Muat
\* Ulang Data".
Refresh(b, t) ==
  /\ session[b] # None /\ task[t] = Idle
  /\ task' = [task EXCEPT ![t] = Refreshing(b, Who(session[b]))]
  /\ newest' = [newest EXCEPT ![b] = t] /\ due' = [due EXCEPT ![b] = FALSE]
  /\ UNCHANGED <<org, alive, stored, ready, session, profile, current, switching, logins,
                 switches, fresh>>

ReadMe(t) ==
  /\ task[t].op = "refresh" /\ task[t].me = None /\ task[t].login \in alive
  /\ task' = [task EXCEPT ![t].me = org[task[t].login]]
  /\ UNCHANGED <<org, alive, stored, tabVars, logins, switches, newest, fresh>>
ReadCurrent(t) ==
  /\ task[t].op = "refresh" /\ task[t].current = None /\ task[t].login \in alive
  /\ task' = [task EXCEPT ![t].current = org[task[t].login]]
  /\ UNCHANGED <<org, alive, stored, tabVars, logins, switches, newest, fresh>>

\* The end of refreshProfile, and of the switch it belongs to.
EndRefresh(t) ==
  LET b == task[t].tab IN
  /\ task' = [task EXCEPT ![t] = Idle]
  /\ newest' = [newest EXCEPT ![b] = IF @ = t THEN None ELSE @]
  /\ switching' = [switching EXCEPT ![b] = @ /\ \E u \in Slot \ {t} :
                                         task[u].tab = b /\ task[u].op = "switch"]
  /\ UNCHANGED <<org, alive, ready, logins, switches>>

\* syncSessionFromProfile, over the session the tab has by now.
Synced(s, me) == [token |-> s.token, user |-> me.token, org |-> me.org]
\* Variant: the session that the refresh began with is written back.
SyncSessionOfBegin(b, me) ==
  /\ stored' = [token |-> me.token, user |-> me.token, org |-> me.org]
  /\ session' = [session EXCEPT ![b] = IF @ = None THEN None ELSE Synced(@, me)]

SyncSession(b, me) ==
  LET s == session[b] IN
  IF s = None \/ s = Synced(s, me) THEN UNCHANGED <<session, stored>>
  ELSE session' = [session EXCEPT ![b] = Synced(s, me)] /\ stored' = Synced(s, me)

Refreshed(t) ==
  LET b == task[t].tab
      me == [token |-> task[t].login, org |-> task[t].me] IN
  /\ task[t].op = "refresh" /\ task[t].me # None /\ task[t].current # None
  /\ SyncSession(b, me)
  /\ profile' = [profile EXCEPT ![b] = me]
  /\ current' = [current EXCEPT ![b] = [token |-> me.token, org |-> task[t].current]]
  /\ fresh' = [fresh EXCEPT ![b] = newest[b] # None /\ task[t].clean
                                   /\ me.token = Who(session[b])]
  /\ EndRefresh(t) /\ UNCHANGED due

\* An answer of 401 clears whatever session the tab has; any other error only
\* is shown.
RefreshDenied(t) ==
  /\ task[t].op = "refresh" /\ task[t].login \notin alive
  /\ ClearSession(task[t].tab) /\ EndRefresh(t)
RefreshFails(t) ==
  /\ task[t].op = "refresh" /\ EndRefresh(t)
  /\ fresh' = [fresh EXCEPT ![task[t].tab] = FALSE]
  /\ UNCHANGED <<stored, session, profile, current, due>>

-----------------------------------------------------------------------------
\* switchOrganization, from the list that is disabled while it runs.
Switch(b, t) ==
  /\ session[b] # None /\ current[b] # None /\ ~switching[b] /\ task[t] = Idle
  /\ switches < MaxSwitches /\ switches' = switches + 1
  /\ \E o \in Org \ {session[b].org} :
       task' = [task EXCEPT ![t] = Request("switch", b, Who(session[b]), o, FALSE)]
  /\ switching' = [switching EXCEPT ![b] = TRUE]
  /\ UNCHANGED <<org, alive, stored, ready, session, profile, current, due, logins, newest,
                 fresh>>

\* The API moves the login; its refreshes that have read are outdated, and so
\* are other tabs of that login.
Moved(t) == [u \in Slot |->
  IF task[u].op = "refresh" /\ task[u].login = task[t].login
       /\ ~(task[u].me = None /\ task[u].current = None)
  THEN [task[u] EXCEPT !.clean = FALSE] ELSE task[u]]
Outdated(t) == [b \in Tab |-> fresh[b] /\ (b = task[t].tab \/ Who(session[b]) # task[t].login)]

SwitchServed(t) ==
  /\ task[t].op = "switch" /\ task[t].login \in alive
  /\ org' = [org EXCEPT ![task[t].login] = task[t].me]
  /\ task' = [Moved(t) EXCEPT ![t].op = "switched"]
  /\ fresh' = Outdated(t)
  /\ UNCHANGED <<alive, stored, tabVars, logins, switches, newest>>

\* Variant: the profile is not loaded again.
SwitchedForgets(t) ==
  /\ task[t].op = "switched" /\ EndRefresh(t)
  /\ UNCHANGED <<stored, session, profile, current, due, fresh>>

\* ... and refreshProfile follows, of the login that switched.
Switched(t) ==
  LET b == task[t].tab IN
  /\ task[t].op = "switched"
  /\ task' = [task EXCEPT ![t] = Refreshing(b, task[t].login)]
  /\ newest' = [newest EXCEPT ![b] = t]
  /\ UNCHANGED <<org, alive, stored, tabVars, logins, switches, fresh>>

\* Refused, or the answer is lost: nobody catches it.
SwitchFails(t) ==
  LET b == task[t].tab IN
  /\ task[t].op \in {"switch", "switched"}
  /\ task' = [task EXCEPT ![t] = Idle]
  /\ switching' = [switching EXCEPT ![b] = FALSE]
  /\ fresh' = [fresh EXCEPT ![b] = @ /\ task[t].op = "switch"]
  /\ UNCHANGED <<org, alive, stored, ready, session, profile, current, due, logins, switches,
                 newest>>

\* The API lets a login lapse or revokes it.
Revoke(l) ==
  /\ l \in alive /\ alive' = alive \ {l}
  /\ UNCHANGED <<org, stored, tabVars, task, logins, switches, newest, fresh>>

Next ==
  \/ \E b \in Tab : Mount(b) \/ Reload(b) \/ LogOut(b)
  \/ \E b \in Tab, t \in Slot : LogIn(b, t) \/ Refresh(b, t) \/ Switch(b, t)
  \/ \E t \in Slot : LoggedIn(t) \/ ReadMe(t) \/ ReadCurrent(t) \/ Refreshed(t)
       \/ RefreshDenied(t) \/ RefreshFails(t) \/ SwitchServed(t) \/ Switched(t)
       \/ SwitchFails(t)
  \/ \E l \in Login : Revoke(l)
Spec == Init /\ [][Next]_vars

-----------------------------------------------------------------------------
\* Once no tab has a session and none is stored, only the answer to a login
\* stores one: refreshes and switches that were under way at the logout do not
\* bring the session back.
LogoutStays ==
  [][stored = None /\ (\A b \in Tab : session[b] = None) /\ stored' # None =>
       \E t \in Slot : task[t].op = "login" /\ task'[t] = Idle]_vars

\* When a tab has nothing under way, its session, profile and workspace are of
\* one login and of the workspace the API has for it, unless a refresh failed,
\* came late or was an earlier login's, or the workspace was switched in
\* another tab since.
TabAgrees ==
  \A b \in Tab :
    /\ fresh[b] /\ session[b] # None /\ ~due[b]
    /\ \A t \in Slot : task[t].tab # b
    => LET s == session[b] IN
       /\ s.user = s.token
       /\ profile[b] = [token |-> s.token, org |-> org[s.token]]
       /\ current[b] = profile[b]
       /\ s.org = org[s.token]
=============================================================================
