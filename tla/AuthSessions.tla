---------------------------- MODULE AuthSessions ----------------------------
(***************************************************************************)
(* One person's access: AuthService (signup, login, password reset,        *)
(* logout), SessionAuthGuard, OrganizationsService.switchOrganization,     *)
(* ExtensionSessionsService and its guard.                                 *)
(*                                                                         *)
(* req[h] is what request h has read and where it waits: for the next      *)
(* query, for bcrypt, or for the mail server.  A transaction whose first   *)
(* statement updates the user's row is serialised with the others that do  *)
(* (login, resetPassword) and is one step.  requestPasswordReset's is two: *)
(* its delete sees the tokens committed so far, its commit comes later.    *)
(*                                                                         *)
(* Passwords are numbered by the resets that set them; a login gives the   *)
(* current one or fails.  Bounds: Session, Ext, Token (rows ever created;  *)
(* a create beyond them fails), MaxResets, MaxTime, Purposes (what the     *)
(* admitted requests do).                                                  *)
(***************************************************************************)
EXTENDS Integers, FiniteSets

CONSTANTS
  Handler,              \* requests in flight together
  Session, Ext, Token,  \* rows of user_sessions, extension_sessions, reset tokens
  Org, Internal,        \* workspaces 1..n by creation of the membership; the
                        \* internal one among them
  SessionTTL, ExtTTL, TokenTTL,
  Purposes,             \* among "use", "logout", "switch", "extend"
  MaxResets, MaxTime

VARIABLES
  registered, admin,    \* the user row: created, and PLATFORM_ADMIN
  password,             \* resets so far
  access,               \* membership status of the user in every workspace
  session, ext, token,  \* the rows
  mailed,               \* tokens whose link reached the mailbox
  req,                  \* requests
  lapsed,               \* history: extension sessions that expired unused
  now

rows == <<registered, admin, password, access, session, ext, token, mailed>>
vars == <<rows, req, lapsed, now>>

-----------------------------------------------------------------------------
\* Rows carry, as history, how many resets came before them.
NoSession == [status |-> "none", org |-> 0, exp |-> 0, made |-> 0]
SessionRow ==
  [status: {"none", "live", "deleted"}, org: Org \cup {0}, exp: Nat, made: Nat]
ExtRow ==
  [status: {"none", "ACTIVE", "EXPIRED", "deleted"}, org: Org \cup {0},
   exp: Nat, made: Nat]
NoToken == [status |-> "none", exp |-> 0, uses |-> 0]
TokenRow == [status: {"none", "open", "used", "deleted"}, exp: Nat, uses: Nat]

Idle ==
  [at |-> "idle", purpose |-> "none", s |-> {}, e |-> {}, t |-> {}, org |-> 0]
Request ==
  [at: {"idle", "signup", "login", "tokenDelete", "tokenCommit", "mail",
        "reset", "expire", "member", "touch", "admitted", "switchRead",
        "switchWrite", "extExpire", "extMember", "extAdmitted"},
   purpose: Purposes \cup {"none"}, s: SUBSET Session, e: SUBSET Ext, t: SUBSET Token,
   org: Org \cup {0}]

\* The one row a request works on.
The(S) == CHOOSE x \in S : TRUE

Init ==
  /\ registered = FALSE
  /\ admin \in BOOLEAN
  /\ password = 0
  /\ access = [o \in Org |-> "none"]
  /\ session = [s \in Session |-> NoSession]
  /\ ext = [e \in Ext |-> NoSession]
  /\ token = [t \in Token |-> NoToken]
  /\ mailed = {}
  /\ req = [h \in Handler |-> Idle]
  /\ lapsed = {}
  /\ now = 0

-----------------------------------------------------------------------------
Goto(h, r) == req' = [req EXCEPT ![h] = r]
End(h) == Goto(h, Idle)
At(h, l) == req[h].at = l
Unseen(row) == {x \in DOMAIN row : row[x].status = "none"}
NoRowLeft(row) == Unseen(row) = {}
Fresh(row) == The(Unseen(row))

\* createSession, inside the caller's transaction.
CreateSession(org) ==
  session' = [session EXCEPT ![Fresh(session)] =
                [status |-> "live", org |-> org, exp |-> now + SessionTTL,
                 made |-> password]]

\* signup: the address is free, the password is hashed and a slug looked for.
SignupRead(h) ==
  /\ At(h, "idle") /\ ~registered
  /\ Goto(h, [Idle EXCEPT !.at = "signup"])
  /\ UNCHANGED <<rows, now>>

\* The transaction fails if the address, or the slug, was taken meanwhile.
SignupTx(h) ==
  /\ At(h, "signup")
  /\ \/ /\ ~registered
        /\ registered' = TRUE
        /\ \E o \in Org \ {Internal} :
             access' = [access EXCEPT ![o] = "ACTIVE"] /\ CreateSession(o)
     \/ UNCHANGED <<registered, access, session>>
  /\ End(h)
  /\ UNCHANGED <<admin, password, ext, token, mailed, now>>

\* login finds the user and compares the password given with the hash it read.
LoginRead(h) ==
  /\ At(h, "idle") /\ registered
  /\ Goto(h, [Idle EXCEPT !.at = "login"])
  /\ UNCHANGED <<rows, now>>

\* ensureInternalWorkspaceAccess: a platform administrator's membership of the
\* internal workspace is created, or put back to ACTIVE.
EnsuredAccess == IF admin THEN [access EXCEPT ![Internal] = "ACTIVE"] ELSE access

\* pickActiveMembership: the first of the preferred kind, or else the first.
PickMembership(acc) ==
  LET active == {o \in Org : acc[o] = "ACTIVE"}
      preferred == {o \in active : (o = Internal) = admin}
      from == IF preferred # {} THEN preferred ELSE active
  IN  CHOOSE o \in from : \A p \in from : o <= p

LoginTx(h) ==
  /\ At(h, "login")
  /\ IF (\A o \in Org : EnsuredAccess[o] # "ACTIVE") \/ NoRowLeft(session)
     THEN UNCHANGED <<access, session>>
     ELSE access' = EnsuredAccess /\ CreateSession(PickMembership(EnsuredAccess))
  /\ End(h)
  /\ UNCHANGED <<registered, admin, password, ext, token, mailed, now>>

\* requestPasswordReset; its deleteMany takes the tokens committed by now.
TokenDelete(h) ==
  /\ At(h, "idle") /\ registered
  /\ Goto(h, [Idle EXCEPT !.at = "tokenCommit",
                          !.t = {t \in Token : token[t].status \in {"open", "used"}}])
  /\ UNCHANGED <<rows, now>>

TokenCommit(h) ==
  /\ At(h, "tokenCommit")
  /\ NoRowLeft(token) => End(h) /\ UNCHANGED token
  /\ ~NoRowLeft(token) => LET n == Fresh(token) IN
       /\ token' = [t \in Token |->
                      IF t = n THEN [status |-> "open", exp |-> now + TokenTTL, uses |-> 0]
                      ELSE IF t \in req[h].t THEN [token[t] EXCEPT !.status = "deleted"]
                      ELSE token[t]]
       /\ Goto(h, [Idle EXCEPT !.at = "mail", !.t = {n}])
  /\ UNCHANGED <<registered, admin, password, access, session, ext, mailed, now>>

\* The mail is sent after the commit and may fail.
Mail(h) ==
  /\ At(h, "mail")
  /\ mailed' \in {mailed, mailed \cup req[h].t}
  /\ End(h)
  /\ UNCHANGED <<registered, admin, password, access, session, ext, token, now>>

\* Variant: usedAt is not looked at.
ResetReadsUsed(h) ==
  /\ At(h, "idle")
  /\ \E t \in mailed : /\ token[t].status \in {"open", "used"} /\ token[t].exp > now
                       /\ Goto(h, [Idle EXCEPT !.at = "reset", !.t = {t}])
  /\ UNCHANGED <<rows, now>>

\* resetPassword: the token is neither used nor expired; then bcrypt runs.
ResetRead(h) ==
  /\ At(h, "idle")
  /\ \E t \in mailed : /\ token[t].status = "open" /\ token[t].exp > now
                       /\ Goto(h, [Idle EXCEPT !.at = "reset", !.t = {t}])
  /\ UNCHANGED <<rows, now>>

Ended(row) ==
  [x \in DOMAIN row |-> IF row[x].status = "none" THEN row[x]
                        ELSE [row[x] EXCEPT !.status = "deleted"]]

\* Variant: the extension keeps its sessions.
ResetTxKeepsExt(h) ==
  LET t == The(req[h].t)
  IN  /\ At(h, "reset")
      /\ IF token[t].status = "deleted" \/ password = MaxResets
         THEN UNCHANGED <<password, token, session>>
         ELSE /\ password' = password + 1
              /\ token' = [Ended(token) EXCEPT ![t] =
                             [status |-> "used", exp |-> token[t].exp,
                              uses |-> token[t].uses + 1]]
              /\ session' = Ended(session)
      /\ End(h)
      /\ UNCHANGED <<registered, admin, access, ext, mailed, now>>

\* The transaction does not look at usedAt again; it is rolled back only if the
\* token's row is gone.
ResetTx(h) ==
  LET t == The(req[h].t)
  IN  /\ At(h, "reset")
      /\ IF token[t].status = "deleted" \/ password = MaxResets
         THEN UNCHANGED <<password, token, session, ext>>
         ELSE /\ password' = password + 1
              /\ token' = [Ended(token) EXCEPT ![t] =
                             [status |-> "used", exp |-> token[t].exp,
                              uses |-> token[t].uses + 1]]
              /\ session' = Ended(session)
              /\ ext' = Ended(ext)
      /\ End(h)
      /\ UNCHANGED <<registered, admin, access, mailed, now>>

-----------------------------------------------------------------------------
\* SessionAuthGuard: the session with its workspace, its expiry, ...
SessionRead(h) ==
  /\ At(h, "idle")
  /\ \E s \in Session, p \in Purposes :
       /\ session[s].status = "live"
       /\ Goto(h, [Idle EXCEPT !.at = IF session[s].exp <= now THEN "expire"
                                      ELSE "member",
                               !.purpose = p, !.s = {s}, !.org = session[s].org])
  /\ UNCHANGED <<rows, now>>

\* Deleting or updating a row that is gone throws.
Delete(s) == session' = [session EXCEPT ![s].status = "deleted"]

ExpireSession(h) ==
  /\ At(h, "expire")
  /\ Delete(The(req[h].s))
  /\ End(h)
  /\ UNCHANGED <<registered, admin, password, access, ext, token, mailed, now>>

\* ... the membership of that workspace, ...
MemberRead(h) ==
  /\ At(h, "member")
  /\ IF access[req[h].org] = "ACTIVE"
     THEN Goto(h, [req[h] EXCEPT !.at = "touch"]) ELSE End(h)
  /\ UNCHANGED <<rows, now>>

\* ... and lastSeenAt, by id.
Touch(h) ==
  /\ At(h, "touch")
  /\ IF session[The(req[h].s)].status = "live"
     THEN Goto(h, [req[h] EXCEPT !.at = "admitted"]) ELSE End(h)
  /\ UNCHANGED <<rows, now>>

\* Any request that only needs to be admitted.
Use(h) ==
  /\ At(h, "admitted") /\ req[h].purpose = "use"
  /\ End(h)
  /\ UNCHANGED <<rows, now>>

Logout(h) ==
  /\ At(h, "admitted") /\ req[h].purpose = "logout"
  /\ Delete(The(req[h].s))
  /\ End(h)
  /\ UNCHANGED <<registered, admin, password, access, ext, token, mailed, now>>

\* switchOrganization reads the other membership and then moves the session,
\* if it is still there.
SwitchRead(h) ==
  /\ At(h, "admitted") /\ req[h].purpose = "switch"
  /\ \E o \in Org : IF access[o] = "ACTIVE"
                    THEN Goto(h, [req[h] EXCEPT !.at = "switchWrite", !.org = o])
                    ELSE End(h)
  /\ UNCHANGED <<rows, now>>

SwitchWrite(h) ==
  /\ At(h, "switchWrite")
  /\ session' = [s \in Session |->
                   IF s \in req[h].s /\ session[s].status = "live"
                   THEN [session[s] EXCEPT !.org = req[h].org] ELSE session[s]]
  /\ End(h)
  /\ UNCHANGED <<registered, admin, password, access, ext, token, mailed, now>>

\* createForUserSession, in the workspace the guard read.
CreateExt(h) ==
  /\ At(h, "admitted") /\ req[h].purpose = "extend"
  /\ NoRowLeft(ext) => UNCHANGED ext
  /\ ~NoRowLeft(ext) =>
       ext' = [ext EXCEPT ![Fresh(ext)] = [status |-> "ACTIVE", org |-> req[h].org,
                                           exp |-> now + ExtTTL, made |-> password]]
  /\ End(h)
  /\ UNCHANGED <<registered, admin, password, access, session, token, mailed, now>>

\* Variant: the expiry is not looked at.
ExtReadAny(h) ==
  /\ At(h, "idle")
  /\ \E e \in Ext :
       /\ ext[e].status = "ACTIVE"
       /\ Goto(h, [Idle EXCEPT !.at = "extMember", !.e = {e}, !.org = ext[e].org])
  /\ UNCHANGED <<rows, now>>

\* validateAccessToken for a request of the extension.
ExtRead(h) ==
  /\ At(h, "idle")
  /\ \E e \in Ext :
       /\ ext[e].status = "ACTIVE"
       /\ Goto(h, [Idle EXCEPT !.at = IF ext[e].exp <= now THEN "extExpire"
                                      ELSE "extMember",
                               !.e = {e}, !.org = ext[e].org])
  /\ UNCHANGED <<rows, now>>

ExpireExt(h) ==
  /\ At(h, "extExpire")
  /\ ext' = [e \in Ext |-> IF e \in req[h].e /\ ext[e].status # "deleted"
                           THEN [ext[e] EXCEPT !.status = "EXPIRED"] ELSE ext[e]]
  /\ End(h)
  /\ UNCHANGED <<registered, admin, password, access, session, token, mailed, now>>

ExtMemberRead(h) ==
  /\ At(h, "extMember")
  /\ IF access[req[h].org] = "ACTIVE"
     THEN Goto(h, [req[h] EXCEPT !.at = "extAdmitted"]) ELSE End(h)
  /\ UNCHANGED <<rows, now>>

\* Variant: a heartbeat declares the session active.
HeartbeatActivates(h) ==
  /\ At(h, "extAdmitted")
  /\ ext' = [e \in Ext |-> IF e \in req[h].e /\ ext[e].status # "deleted"
                           THEN [ext[e] EXCEPT !.exp = now + ExtTTL, !.status = "ACTIVE"]
                           ELSE ext[e]]
  /\ End(h)
  /\ UNCHANGED <<registered, admin, password, access, session, token, mailed, now>>

\* refreshHeartbeat extends the expiry by id, whatever the status is by now.
Heartbeat(h) ==
  /\ At(h, "extAdmitted")
  /\ ext' = [e \in Ext |-> IF e \in req[h].e /\ ext[e].status # "deleted"
                           THEN [ext[e] EXCEPT !.exp = now + ExtTTL] ELSE ext[e]]
  /\ End(h)
  /\ UNCHANGED <<registered, admin, password, access, session, token, mailed, now>>

-----------------------------------------------------------------------------
\* Managers of a workspace invite and remove the user; days go by.
ChangeAccess ==
  /\ registered
  /\ \E o \in Org, s \in {"ACTIVE", "REMOVED"} :
       /\ s = "REMOVED" => access[o] = "ACTIVE"
       /\ access' = [access EXCEPT ![o] = s]
       /\ access' # access
  /\ UNCHANGED <<registered, admin, password, session, ext, token, mailed, req, now>>

Tick ==
  /\ now < MaxTime /\ now' = now + 1
  /\ UNCHANGED <<rows, req>>

Step(h) ==
  \/ SignupRead(h) \/ SignupTx(h) \/ LoginRead(h) \/ LoginTx(h)
  \/ TokenDelete(h) \/ TokenCommit(h) \/ Mail(h) \/ ResetRead(h) \/ ResetTx(h)
  \/ SessionRead(h) \/ ExpireSession(h) \/ MemberRead(h) \/ Touch(h)
  \/ Use(h) \/ Logout(h) \/ SwitchRead(h) \/ SwitchWrite(h) \/ CreateExt(h)
  \/ ExtRead(h) \/ ExpireExt(h) \/ ExtMemberRead(h) \/ Heartbeat(h)

\* Extension sessions whose time is over while no request holds them.
Unheld(e) == ext[e].exp <= now /\ \A h \in Handler : e \notin req[h].e
Lapsed == {e \in Ext : ext[e].status # "none" /\ Unheld(e)}

Next ==
  /\ (\E h \in Handler : Step(h)) \/ ChangeAccess \/ Tick
  /\ lapsed' = lapsed \cup Lapsed'

Spec == Init /\ [][Next]_vars

-----------------------------------------------------------------------------
\* Rows and requests have their types.
TypeOK ==
  /\ registered \in BOOLEAN /\ admin \in BOOLEAN
  /\ password \in 0..MaxResets
  /\ access \in [Org -> {"none", "ACTIVE", "REMOVED"}]
  /\ session \in [Session -> SessionRow]
  /\ ext \in [Ext -> ExtRow]
  /\ token \in [Token -> TokenRow]
  /\ mailed \subseteq Token
  /\ req \in [Handler -> Request]
  /\ lapsed \subseteq Ext
  /\ now \in 0..MaxTime

Usable(row, status) == {x \in DOMAIN row : row[x].status = status}

\* No web or extension session outlives a password reset, although requests
\* that were admitted before it go on to touch, move and extend their session
\* by id afterwards (resetPassword).
NoSessionOutlivesReset ==
  /\ \A s \in Usable(session, "live") : session[s].made = password
  /\ \A e \in Usable(ext, "ACTIVE") : ext[e].made = password

\* Requesting a link invalidates the ones before it; only requests whose
\* transactions overlap leave several open (requestPasswordReset).
OpenTokensAreInFlight ==
  Cardinality(Usable(token, "open")) <= Cardinality(Handler)

\* A link is checked before bcrypt and marked used after it, so one link can
\* set the password more than once, but no oftener than requests were in
\* flight together (resetPassword).
TokenUsesAreInFlight ==
  \A t \in Token : token[t].uses <= Cardinality(Handler)

\* An extension session that reached its expiry with no request in flight on
\* it is never admitted again, however heartbeats extend by id.
LapsedStaysOut ==
  \A h \in Handler : At(h, "extAdmitted") => req[h].e \cap lapsed = {}

\* What the API promises of a bearer token (module Credential): a session, web
\* or extension, that was deleted or has expired is never usable again.
UsableBearers == Usable(session, "live") \cup Usable(ext, "ACTIVE")
RevokedBearers ==
  Usable(session, "deleted") \cup Usable(ext, "deleted") \cup Usable(ext, "EXPIRED")
Bearer == INSTANCE Credential
            WITH Id <- Session \cup Ext, usable <- UsableBearers,
                 revoked <- RevokedBearers
SessionsAreCredentials == Bearer!Spec
=============================================================================
