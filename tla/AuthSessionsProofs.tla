------------------------- MODULE AuthSessionsProofs -------------------------
(***************************************************************************)
(* Proofs about AuthSessions, for any number of requests, sessions, tokens *)
(* and workspaces: its bearer tokens are credentials, and a password reset *)
(* ends every session there is.                                            *)
(***************************************************************************)
EXTENDS AuthSessions, FiniteSetTheorems, TLAPS

\* A row has a status of its table, and the columns of a session.
Shaped(r, statuses) ==
  /\ r.status \in statuses
  /\ r = [status |-> r.status, org |-> r.org, exp |-> r.exp, made |-> r.made]
SessionStatus == {"none", "live", "deleted"}
ExtStatus == {"none", "ACTIVE", "EXPIRED", "deleted"}

RowsShaped ==
  /\ session = [s \in Session |-> session[s]]
  /\ ext = [e \in Ext |-> ext[e]]
  /\ \A s \in Session : Shaped(session[s], SessionStatus)
  /\ \A e \in Ext : Shaped(ext[e], ExtStatus)

\* Before the account exists there is nothing but signups.
Unregistered ==
  /\ mailed = {}
  /\ \A h \in Handler : req[h].at \in {"idle", "signup"}
  /\ \A s \in Session : session[s].status = "none"
  /\ \A e \in Ext : ext[e].status = "none"
AccountFirst ==
  /\ req = [h \in Handler |-> req[h]]
  /\ registered \/ Unregistered

RowInv == RowsShaped /\ AccountFirst

LEMMA RowInit == Init => RowInv
BY DEF Init, RowInv, RowsShaped, AccountFirst, Unregistered, Shaped, SessionStatus, ExtStatus,
       NoSession, Idle

-----------------------------------------------------------------------------
(* What the steps do to the two tables.                                    *)

\* Nothing that a credential is about changes.
SameStatus ==
  /\ \A s \in Session : session'[s].status = session[s].status
                        /\ session'[s].made = session[s].made
  /\ \A e \in Ext : ext'[e].status = ext[e].status /\ ext'[e].made = ext[e].made

\* One new row.
NewSession ==
  /\ UNCHANGED ext
  /\ \E s \in Session : \E o, x :
       /\ session[s].status = "none"
       /\ session' = [session EXCEPT ![s] =
                        [status |-> "live", org |-> o, exp |-> x, made |-> password]]
NewExt ==
  /\ UNCHANGED session
  /\ \E e \in Ext : \E o, x :
       /\ ext[e].status = "none"
       /\ ext' = [ext EXCEPT ![e] =
                    [status |-> "ACTIVE", org |-> o, exp |-> x, made |-> password]]

\* Some rows end.
RowsEnd ==
  /\ \A s \in Session : \/ session'[s] = session[s]
                        \/ session'[s] = [session[s] EXCEPT !.status = "deleted"]
  /\ \A e \in Ext : \/ ext'[e] = ext[e]
                    \/ ext'[e] = [ext[e] EXCEPT !.status = "deleted"]
                    \/ ext'[e] = [ext[e] EXCEPT !.status = "EXPIRED"]

\* A row nobody has used.
LEMMA FreshRow ==
  ASSUME NEW row, ~NoRowLeft(row)
  PROVE  Fresh(row) \in DOMAIN row /\ row[Fresh(row)].status = "none"
<1>1. Fresh(row) \in Unseen(row)
  BY DEF NoRowLeft, Fresh, The
<1>. QED BY <1>1 DEF Unseen

LEMMA CreateIsNew ==
  ASSUME RowsShaped, NEW o, CreateSession(o), ~NoRowLeft(session), UNCHANGED ext
  PROVE  NewSession
<1>1. Fresh(session) \in Session /\ session[Fresh(session)].status = "none"
  BY FreshRow DEF RowsShaped
<1>. QED BY <1>1 DEF CreateSession, NewSession

LEMMA StepShape ==
  ASSUME Session # {}, RowInv, NEW h \in Handler, Step(h)
  PROVE  /\ session' = [s \in Session |-> session'[s]]
         /\ ext' = [e \in Ext |-> ext'[e]]
         /\ UNCHANGED <<session, ext>> \/ NewSession \/ NewExt \/ RowsEnd
            \/ SwitchWrite(h) \/ Heartbeat(h)
<1>. USE DEF RowInv
<1>1. CASE SignupTx(h)
  <2>1. CASE UNCHANGED session
    BY <1>1, <2>1 DEF SignupTx, RowsShaped
  <2>2. CASE ~registered /\ \E o \in Org \ {Internal} : CreateSession(o)
    <3>1. Unseen(session) = Session
      BY <2>2 DEF RowsShaped, AccountFirst, Unregistered, Unseen
    <3>2. ~NoRowLeft(session)
      BY <3>1 DEF NoRowLeft
    <3>3. NewSession
      BY <1>1, <2>2, <3>2, CreateIsNew DEF SignupTx
    <3>. QED BY <3>3 DEF NewSession, RowsShaped
  <2>. QED BY <1>1, <2>1, <2>2 DEF SignupTx
<1>2. CASE LoginTx(h)
  <2>1. CASE UNCHANGED session
    BY <1>2, <2>1 DEF LoginTx, RowsShaped
  <2>2. CASE ~NoRowLeft(session) /\ \E o : CreateSession(o)
    <3>1. NewSession
      BY <1>2, <2>2, CreateIsNew DEF LoginTx
    <3>. QED BY <3>1 DEF NewSession, RowsShaped
  <2>. QED BY <1>2, <2>1, <2>2 DEF LoginTx
<1>3. CASE CreateExt(h)
  <2>1. CASE UNCHANGED ext
    BY <1>3, <2>1 DEF CreateExt, RowsShaped
  <2>2. CASE ~NoRowLeft(ext)
    <3>1. Fresh(ext) \in Ext /\ ext[Fresh(ext)].status = "none"
      BY <2>2, FreshRow DEF RowsShaped
    <3>2. NewExt
      BY <1>3, <2>2, <3>1 DEF CreateExt, NewExt
    <3>. QED BY <3>2 DEF NewExt, RowsShaped
  <2>. QED BY <1>3, <2>1, <2>2 DEF CreateExt
<1>4. CASE ExpireSession(h) \/ Logout(h)
  <2>1. /\ session' = [session EXCEPT ![The(req[h].s)].status = "deleted"]
        /\ ext' = ext
    BY <1>4 DEF ExpireSession, Logout, Delete
  <2> DEFINE x == The(req[h].s)
  <2> HIDE DEF x
  <2>2. session' = [session EXCEPT ![x].status = "deleted"]
    BY <2>1 DEF x
  <2>3. \A s \in Session : \/ session'[s] = session[s]
                           \/ session'[s] = [session[s] EXCEPT !.status = "deleted"]
    BY <2>2 DEF RowsShaped
  <2>4. session' = [s \in Session |-> session'[s]]
    BY <2>2 DEF RowsShaped
  <2>. QED BY <2>1, <2>3, <2>4 DEF RowsEnd, RowsShaped
<1>5. CASE ResetTx(h)
  <2>1. CASE UNCHANGED <<session, ext>>
    BY <2>1 DEF RowsShaped
  <2>2. CASE session' = Ended(session) /\ ext' = Ended(ext)
    BY <2>2 DEF Ended, RowsEnd, RowsShaped
  <2>. QED BY <1>5, <2>1, <2>2 DEF ResetTx
<1>6. CASE ExpireExt(h)
  BY <1>6 DEF ExpireExt, RowsEnd, RowsShaped
<1>7. CASE SwitchWrite(h)
  BY <1>7 DEF SwitchWrite, RowsShaped
<1>8. CASE Heartbeat(h)
  BY <1>8 DEF Heartbeat, RowsShaped
<1>9. CASE \/ SignupRead(h) \/ LoginRead(h) \/ TokenDelete(h) \/ TokenCommit(h)
           \/ Mail(h) \/ ResetRead(h) \/ SessionRead(h) \/ MemberRead(h) \/ Touch(h)
           \/ Use(h) \/ SwitchRead(h) \/ ExtRead(h) \/ ExtMemberRead(h)
  BY <1>9 DEF SignupRead, LoginRead, TokenDelete, TokenCommit, Mail, ResetRead,
              SessionRead, MemberRead, Touch, Use, SwitchRead, ExtRead, ExtMemberRead,
              rows, RowsShaped
<1>. QED BY <1>1, <1>2, <1>3, <1>4, <1>5, <1>6, <1>7, <1>8, <1>9 DEF Step

\* Moving a session to another workspace or extending one keeps what it is.
LEMMA ByIdKeepsStatus ==
  ASSUME RowsShaped, NEW h \in Handler, SwitchWrite(h) \/ Heartbeat(h)
  PROVE  /\ SameStatus
         /\ \A s \in Session : Shaped(session'[s], SessionStatus)
         /\ \A e \in Ext : Shaped(ext'[e], ExtStatus)
<1>1. CASE SwitchWrite(h)
  BY <1>1 DEF SwitchWrite, SameStatus, RowsShaped, Shaped
<1>2. CASE Heartbeat(h)
  BY <1>2 DEF Heartbeat, SameStatus, RowsShaped, Shaped
<1>. QED BY <1>1, <1>2

LEMMA AccountNext ==
  ASSUME Session # {}, RowInv, NEW h \in Handler, Step(h)
  PROVE  AccountFirst'
<1>. USE DEF RowInv, AccountFirst
<1>1. req' = [g \in Handler |-> req'[g]]
  BY DEF Step, SignupRead, SignupTx, LoginRead, LoginTx, TokenDelete, TokenCommit, Mail,
         ResetRead, ResetTx, SessionRead, ExpireSession, MemberRead, Touch, Use, Logout,
         SwitchRead, SwitchWrite, CreateExt, ExtRead, ExpireExt, ExtMemberRead,
         Heartbeat, Goto, End
<1>2. registered => registered'
  BY DEF Step, SignupRead, SignupTx, LoginRead, LoginTx, TokenDelete, TokenCommit, Mail,
         ResetRead, ResetTx, SessionRead, ExpireSession, MemberRead, Touch, Use, Logout,
         SwitchRead, SwitchWrite, CreateExt, ExtRead, ExpireExt, ExtMemberRead,
         Heartbeat, rows
<1>3. CASE registered
  BY <1>1, <1>2, <1>3
<1>4. CASE ~registered
  <2>1. Unregistered
    BY <1>4
  <2>2. SignupRead(h) \/ SignupTx(h)
    BY <1>4, <2>1
       DEF Unregistered, Step, At, LoginRead, LoginTx, TokenDelete, TokenCommit, Mail,
           ResetRead, ResetTx, SessionRead, ExpireSession, MemberRead, Touch, Use,
           Logout, SwitchRead, SwitchWrite, CreateExt, ExtRead, ExpireExt,
           ExtMemberRead, Heartbeat
  <2>3. CASE SignupRead(h)
    BY <1>1, <2>1, <2>3 DEF Unregistered, SignupRead, Goto, Idle, rows
  <2>4. CASE SignupTx(h)
    BY <1>1, <2>1, <2>4 DEF Unregistered, SignupTx, End, Goto, Idle
  <2>. QED BY <2>2, <2>3, <2>4
<1>. QED BY <1>3, <1>4

LEMMA ShapeKept ==
  ASSUME RowsShaped,
         session' = [s \in Session |-> session'[s]], ext' = [e \in Ext |-> ext'[e]],
         UNCHANGED <<session, ext>> \/ NewSession \/ NewExt \/ RowsEnd
  PROVE  RowsShaped'
<1>1. CASE UNCHANGED <<session, ext>>
  BY <1>1 DEF RowsShaped
<1>2. CASE NewSession
  BY <1>2 DEF NewSession, RowsShaped, Shaped, SessionStatus
<1>3. CASE NewExt
  BY <1>3 DEF NewExt, RowsShaped, Shaped, ExtStatus
<1>4. CASE RowsEnd
  <2>1. ASSUME NEW s \in Session PROVE Shaped(session'[s], SessionStatus)
    BY <1>4 DEF RowsEnd, RowsShaped, Shaped, SessionStatus
  <2>2. ASSUME NEW e \in Ext PROVE Shaped(ext'[e], ExtStatus)
    BY <1>4 DEF RowsEnd, RowsShaped, Shaped, ExtStatus
  <2>. QED BY <2>1, <2>2 DEF RowsShaped
<1>. QED BY <1>1, <1>2, <1>3, <1>4

\* Access changes and days leave every row alone.
LEMMA OthersKeepRows ==
  ASSUME RowInv, ChangeAccess \/ Tick \/ UNCHANGED vars
  PROVE  RowInv' /\ UNCHANGED <<session, ext, password>>
BY DEF ChangeAccess, Tick, vars, rows, RowInv, RowsShaped, AccountFirst, Unregistered

LEMMA RowNext == Session # {} /\ RowInv /\ [Next]_vars => RowInv'
<1> SUFFICES ASSUME Session # {}, RowInv, [Next]_vars PROVE RowInv'
  OBVIOUS
<1>1. ASSUME NEW h \in Handler, Step(h) PROVE RowInv'
  <2>1. CASE SwitchWrite(h) \/ Heartbeat(h)
    BY <1>1, <2>1, AccountNext, StepShape, ByIdKeepsStatus DEF RowInv, RowsShaped
  <2>2. CASE ~(SwitchWrite(h) \/ Heartbeat(h))
    BY <1>1, <2>2, AccountNext, StepShape, ShapeKept DEF RowInv
  <2>. QED BY <2>1, <2>2
<1>. QED BY <1>1, OthersKeepRows DEF Next

-----------------------------------------------------------------------------
(* The refinement.                                                         *)

LEMMA BearerInit == Init => Bearer!Init
BY DEF Init, Bearer!Init, UsableBearers, RevokedBearers, Usable, NoSession

LEMMA SameStatusStutters ==
  ASSUME RowsShaped, RowsShaped', SameStatus
  PROVE  UNCHANGED <<UsableBearers, RevokedBearers>>
BY DEF RowsShaped, SameStatus, UsableBearers, RevokedBearers, Usable

LEMMA BearerNext ==
  Session # {} /\ Session \cap Ext = {} /\ RowInv /\ RowInv' /\ [Next]_vars
  => [Bearer!Next]_<<UsableBearers, RevokedBearers>>
<1> SUFFICES ASSUME Session # {}, Session \cap Ext = {}, RowInv, RowInv', [Next]_vars
             PROVE  Bearer!Next \/ UNCHANGED <<UsableBearers, RevokedBearers>>
  OBVIOUS
<1>. USE DEF RowInv
<1>1. DOMAIN session = Session /\ DOMAIN ext = Ext
      /\ DOMAIN session' = Session /\ DOMAIN ext' = Ext
  BY DEF RowsShaped
<1>2. CASE UNCHANGED <<session, ext>>
  BY <1>2 DEF UsableBearers, RevokedBearers, Usable
<1>3. CASE NewSession
  <2>1. PICK s \in Session : /\ session[s].status = "none"
                             /\ session'[s].status = "live"
                             /\ \A x \in Session \ {s} : session'[x] = session[x]
                             /\ ext' = ext
    BY <1>1, <1>3 DEF NewSession
  <2>2. s \notin Ext
    OBVIOUS
  <2>3. Bearer!Issue(s)
    BY <1>1, <2>1, <2>2 DEF Bearer!Issue, UsableBearers, RevokedBearers, Usable
  <2>. QED BY <2>3 DEF Bearer!Next
<1>4. CASE NewExt
  <2>1. PICK e \in Ext : /\ ext[e].status = "none"
                         /\ ext'[e].status = "ACTIVE"
                         /\ \A x \in Ext \ {e} : ext'[x] = ext[x]
                         /\ session' = session
    BY <1>1, <1>4 DEF NewExt
  <2>2. e \notin Session
    OBVIOUS
  <2>3. Bearer!Issue(e)
    BY <1>1, <2>1, <2>2 DEF Bearer!Issue, UsableBearers, RevokedBearers, Usable
  <2>. QED BY <2>3 DEF Bearer!Next
<1>5. CASE RowsEnd
  <2> DEFINE S == {s \in Session : session'[s].status = "deleted"}
             E == {e \in Ext : ext'[e].status \in {"EXPIRED", "deleted"}}
  <2>1. /\ \A s \in Session : s \notin S => session'[s] = session[s]
        /\ \A s \in Session : session[s].status = "deleted" => s \in S
    BY <1>5 DEF RowsEnd, RowsShaped, Shaped
  <2>2. /\ \A e \in Ext : e \notin E => ext'[e] = ext[e]
        /\ \A e \in Ext : ext[e].status \in {"EXPIRED", "deleted"} => e \in E
    BY <1>5 DEF RowsEnd, RowsShaped, Shaped
  <2>3. S \cup E \in SUBSET (Session \cup Ext)
    OBVIOUS
  <2>4. Bearer!Revoke(S \cup E)
    BY <1>1, <2>1, <2>2 DEF Bearer!Revoke, UsableBearers, RevokedBearers, Usable
  <2>. QED BY <2>3, <2>4 DEF Bearer!Next
<1>6. ASSUME NEW h \in Handler, SwitchWrite(h) \/ Heartbeat(h)
      PROVE  UNCHANGED <<UsableBearers, RevokedBearers>>
  BY <1>6, ByIdKeepsStatus, SameStatusStutters
<1>. QED BY <1>2, <1>3, <1>4, <1>5, <1>6, StepShape, OthersKeepRows DEF Next

\* The API's bearer tokens are credentials: a session, web or extension, that
\* was deleted or has expired is never usable again, whatever requests that were
\* admitted before still do to it (SessionAuthGuard, ExtensionSessionsService).
THEOREM BearersAreCredentials ==
  ASSUME Session # {}, Session \cap Ext = {}
  PROVE  Spec => SessionsAreCredentials
<1>1. Spec => []RowInv
  BY RowInit, RowNext, PTL DEF Spec
<1>. QED BY <1>1, BearerInit, BearerNext, PTL DEF Spec, SessionsAreCredentials, Bearer!Spec

-----------------------------------------------------------------------------
(* Password resets.                                                        *)

LEMMA ResetInit == Init => NoSessionOutlivesReset
BY DEF Init, NoSessionOutlivesReset, Usable, NoSession

LEMMA ResetNext ==
  Session # {} /\ RowInv /\ RowInv' /\ NoSessionOutlivesReset /\ [Next]_vars
  => NoSessionOutlivesReset'
<1> SUFFICES ASSUME Session # {}, RowInv, RowInv', NoSessionOutlivesReset, [Next]_vars
             PROVE  NoSessionOutlivesReset'
  OBVIOUS
<1>. USE DEF RowInv, NoSessionOutlivesReset, Usable
<1>1. DOMAIN session = Session /\ DOMAIN ext = Ext
      /\ DOMAIN session' = Session /\ DOMAIN ext' = Ext
  BY DEF RowsShaped
<1>2. CASE UNCHANGED password
  <2>1. CASE UNCHANGED <<session, ext>>
    BY <1>2, <2>1
  <2>2. CASE NewSession
    BY <1>1, <1>2, <2>2 DEF NewSession
  <2>3. CASE NewExt
    BY <1>1, <1>2, <2>3 DEF NewExt
  <2>4. CASE RowsEnd
    BY <1>1, <1>2, <2>4 DEF RowsEnd, RowsShaped, Shaped
  <2>5. ASSUME NEW h \in Handler, SwitchWrite(h) \/ Heartbeat(h) PROVE SameStatus
    BY <2>5, ByIdKeepsStatus
  <2>6. CASE SameStatus
    BY <1>1, <1>2, <2>6 DEF SameStatus
  <2>. QED BY <2>1, <2>2, <2>3, <2>4, <2>5, <2>6, StepShape, OthersKeepRows DEF Next
<1>3. CASE password' # password
  <2>1. PICK h \in Handler : ResetTx(h)
    BY <1>3, OthersKeepRows
       DEF Next, Step, SignupRead, SignupTx, LoginRead, LoginTx, TokenDelete,
           TokenCommit, Mail, ResetRead, SessionRead, ExpireSession, MemberRead, Touch,
           Use, Logout, SwitchRead, SwitchWrite, CreateExt, ExtRead, ExpireExt,
           ExtMemberRead, Heartbeat, rows
  <2>2. session' = Ended(session) /\ ext' = Ended(ext)
    BY <1>3, <2>1 DEF ResetTx
  <2>. QED BY <1>1, <2>2 DEF Ended, RowsShaped, Shaped
<1>. QED BY <1>2, <1>3

\* A password reset ends every session there is, web and extension, and no
\* request admitted before it brings one back (resetPassword).
THEOREM ResetsEndSessions ==
  ASSUME Session # {}
  PROVE  Spec => []NoSessionOutlivesReset
<1>1. Spec => []RowInv
  BY RowInit, RowNext, PTL DEF Spec
<1>. QED BY <1>1, ResetInit, ResetNext, PTL DEF Spec

-----------------------------------------------------------------------------
(* Types.                                                                  *)

\* Workspaces are numbered; lives and bounds are numbers.
Numbered ==
  /\ Org \subseteq Nat /\ Internal \in Org
  /\ \A S \in SUBSET Org : S # {} => \E o \in S : \A p \in S : o <= p
  /\ {SessionTTL, ExtTTL, TokenTTL, MaxResets, MaxTime} \subseteq Nat

LEMMA TypeInit == Numbered /\ Init => TypeOK
<1> SUFFICES ASSUME Numbered, Init PROVE TypeOK
  OBVIOUS
<1>1. Idle \in Request
  BY DEF Idle, Request
<1>2. NoSession \in SessionRow /\ NoSession \in ExtRow /\ NoToken \in TokenRow
  BY DEF SessionRow, ExtRow, TokenRow, NoSession, NoToken
<1>3. MaxResets \in Nat /\ MaxTime \in Nat
  BY DEF Numbered
<1>4. /\ session \in [Session -> SessionRow] /\ ext \in [Ext -> ExtRow]
      /\ token \in [Token -> TokenRow] /\ req \in [Handler -> Request]
  BY <1>1, <1>2 DEF Init
<1>5. password \in 0..MaxResets /\ now \in 0..MaxTime
  BY <1>3 DEF Init
<1>. QED BY <1>4, <1>5 DEF Init, TypeOK

LEMMA ReqTyped ==
  ASSUME TypeOK, Numbered, NEW h \in Handler, Step(h)
  PROVE  \E r \in Request : req' = [req EXCEPT ![h] = r]
<1>. USE DEF At, End, Goto
<1>1. Idle \in Request
  BY DEF Idle, Request
<1>2. req[h] \in Request
  BY DEF TypeOK
<1>3. CASE SignupRead(h) \/ LoginRead(h) \/ TokenDelete(h)
  BY <1>3 DEF SignupRead, LoginRead, TokenDelete, Request, Idle
<1>4. CASE TokenCommit(h)
  <2>1. CASE NoRowLeft(token)
    BY <1>1, <1>4, <2>1 DEF TokenCommit
  <2>2. CASE ~NoRowLeft(token)
    <3>1. PICK n : n = Fresh(token)
      OBVIOUS
    <3>2. n \in Token
      BY <2>2, <3>1, FreshRow DEF TypeOK
    <3>3. req' = [req EXCEPT ![h] = [Idle EXCEPT !.at = "mail", !.t = {n}]]
      BY <1>4, <2>2, <3>1 DEF TokenCommit
    <3>4. [Idle EXCEPT !.at = "mail", !.t = {n}] \in Request
      BY <3>2 DEF Idle, Request
    <3>. QED BY <3>3, <3>4
  <2>. QED BY <2>1, <2>2
<1>5. CASE ResetRead(h)
  <2>1. PICK t \in mailed : req' = [req EXCEPT ![h] = [Idle EXCEPT !.at = "reset", !.t = {t}]]
    BY <1>5 DEF ResetRead
  <2>2. [Idle EXCEPT !.at = "reset", !.t = {t}] \in Request
    BY DEF Idle, Request, TypeOK
  <2>. QED BY <2>1, <2>2
<1>6. CASE SessionRead(h)
  <2>1. PICK s \in Session, p \in Purposes, l \in {"expire", "member"} :
          req' = [req EXCEPT ![h] = [Idle EXCEPT !.at = l, !.purpose = p, !.s = {s},
                                                 !.org = session[s].org]]
    BY <1>6 DEF SessionRead
  <2>2. session[s].org \in Org \cup {0}
    BY DEF TypeOK, SessionRow
  <2>3. [Idle EXCEPT !.at = l, !.purpose = p, !.s = {s}, !.org = session[s].org] \in Request
    BY <2>2 DEF Idle, Request
  <2>. QED BY <2>1, <2>3
<1>7. CASE ExtRead(h)
  <2>1. PICK e \in Ext, l \in {"extExpire", "extMember"} :
          req' = [req EXCEPT ![h] = [Idle EXCEPT !.at = l, !.e = {e}, !.org = ext[e].org]]
    BY <1>7 DEF ExtRead
  <2>2. ext[e].org \in Org \cup {0}
    BY DEF TypeOK, ExtRow
  <2>3. [Idle EXCEPT !.at = l, !.e = {e}, !.org = ext[e].org] \in Request
    BY <2>2 DEF Idle, Request
  <2>. QED BY <2>1, <2>3
<1>8. CASE MemberRead(h) \/ Touch(h) \/ ExtMemberRead(h)
  <2>1. \/ req' = [req EXCEPT ![h] = Idle]
        \/ \E l \in {"touch", "admitted", "extAdmitted"} :
             req' = [req EXCEPT ![h] = [req[h] EXCEPT !.at = l]]
    BY <1>8 DEF MemberRead, Touch, ExtMemberRead
  <2>2. ASSUME NEW l \in {"touch", "admitted", "extAdmitted"}
        PROVE  [req[h] EXCEPT !.at = l] \in Request
    BY <1>2 DEF Request
  <2>. QED BY <1>1, <2>1, <2>2
<1>9. CASE SwitchRead(h)
  <2>1. \/ req' = [req EXCEPT ![h] = Idle]
        \/ \E o \in Org :
             req' = [req EXCEPT ![h] = [req[h] EXCEPT !.at = "switchWrite", !.org = o]]
    BY <1>9 DEF SwitchRead
  <2>2. ASSUME NEW o \in Org
        PROVE  [req[h] EXCEPT !.at = "switchWrite", !.org = o] \in Request
    BY <1>2 DEF Request
  <2>. QED BY <1>1, <2>1, <2>2
<1>10. CASE \/ SignupTx(h) \/ LoginTx(h) \/ Mail(h) \/ ResetTx(h) \/ ExpireSession(h)
            \/ Use(h) \/ Logout(h) \/ SwitchWrite(h) \/ CreateExt(h) \/ ExpireExt(h)
            \/ Heartbeat(h)
  BY <1>1, <1>10 DEF SignupTx, LoginTx, Mail, ResetTx, ExpireSession, Use, Logout, SwitchWrite,
                     CreateExt, ExpireExt, Heartbeat
<1>. QED BY <1>3, <1>4, <1>5, <1>6, <1>7, <1>8, <1>9, <1>10 DEF Step

\* A row that a create fills.
LEMMA FirstOfTable ==
  ASSUME TypeOK
  PROVE  /\ ~NoRowLeft(session) => Fresh(session) \in Session
         /\ ~NoRowLeft(ext) => Fresh(ext) \in Ext
         /\ ~NoRowLeft(token) => Fresh(token) \in Token
BY FreshRow DEF TypeOK

LEMMA SessionTyped ==
  ASSUME TypeOK, Numbered, NEW h \in Handler, Step(h)
  PROVE  session' \in [Session -> SessionRow]
<1>. USE DEF TypeOK, SessionRow
<1>1. ASSUME NEW o \in Org, CreateSession(o) PROVE session' \in [Session -> SessionRow]
  <2>1. PICK r : r = [status |-> "live", org |-> o, exp |-> now + SessionTTL,
                      made |-> password]
    OBVIOUS
  <2>2. r \in SessionRow
    BY <2>1 DEF Numbered
  <2>3. session' = [session EXCEPT ![Fresh(session)] = r]
    BY <1>1, <2>1 DEF CreateSession
  <2>. QED BY <2>2, <2>3
<1>2. CASE SignupTx(h)
  BY <1>1, <1>2 DEF SignupTx
<1>3. CASE LoginTx(h)
  <2>1. CASE \E o \in Org : EnsuredAccess[o] = "ACTIVE"
    <3> DEFINE active == {o \in Org : EnsuredAccess[o] = "ACTIVE"}
               preferred == {o \in active : (o = Internal) = admin}
               from == IF preferred # {} THEN preferred ELSE active
    <3>1. from \in SUBSET Org /\ from # {}
      BY <2>1
    <3>2. \E o \in from : \A p \in from : o <= p
      BY <3>1 DEF Numbered
    <3>3. PickMembership(EnsuredAccess) \in from
      BY <3>2 DEF PickMembership
    <3>. QED BY <1>1, <1>3, <3>1, <3>3 DEF LoginTx
  <2>. QED BY <1>3, <2>1 DEF LoginTx
<1>4. CASE ResetTx(h)
  BY <1>4 DEF ResetTx, Ended
<1>5. CASE ExpireSession(h) \/ Logout(h)
  <2>1. PICK x : session' = [session EXCEPT ![x].status = "deleted"]
    BY <1>5 DEF ExpireSession, Logout, Delete
  <2>. QED BY <2>1
<1>6. CASE SwitchWrite(h)
  <2>1. req[h].org \in Org \cup {0}
    BY DEF Request
  <2>. QED BY <1>6, <2>1 DEF SwitchWrite
<1>. QED BY <1>2, <1>3, <1>4, <1>5, <1>6
         DEF Step, SignupRead, LoginRead, TokenDelete, TokenCommit, Mail, ResetRead, SessionRead,
             MemberRead, Touch, Use, SwitchRead, CreateExt, ExtRead, ExpireExt, ExtMemberRead,
             Heartbeat, rows

LEMMA ExtTyped ==
  ASSUME TypeOK, Numbered, NEW h \in Handler, Step(h)
  PROVE  ext' \in [Ext -> ExtRow]
<1>. USE DEF TypeOK, ExtRow
<1>1. CASE CreateExt(h)
  <2>1. PICK r : r = [status |-> "ACTIVE", org |-> req[h].org, exp |-> now + ExtTTL,
                      made |-> password]
    OBVIOUS
  <2>2. r \in ExtRow
    BY <2>1 DEF Numbered, Request
  <2>3. UNCHANGED ext \/ ext' = [ext EXCEPT ![Fresh(ext)] = r]
    BY <1>1, <2>1 DEF CreateExt
  <2>. QED BY <2>2, <2>3
<1>2. CASE ResetTx(h)
  BY <1>2, SMTT(30) DEF ResetTx, Ended
<1>3. CASE ExpireExt(h)
  BY <1>3 DEF ExpireExt
<1>4. CASE Heartbeat(h)
  BY <1>4 DEF Heartbeat, Numbered
<1>. QED BY <1>1, <1>2, <1>3, <1>4
         DEF Step, SignupRead, SignupTx, LoginRead, LoginTx, TokenDelete, TokenCommit, Mail,
             ResetRead, SessionRead, ExpireSession, MemberRead, Touch, Use, Logout, SwitchRead,
             SwitchWrite, ExtRead, ExtMemberRead, rows

LEMMA TokenTyped ==
  ASSUME TypeOK, Numbered, NEW h \in Handler, Step(h)
  PROVE  token' \in [Token -> TokenRow]
<1>. USE DEF TypeOK, TokenRow
<1>1. CASE TokenCommit(h)
  <2>1. CASE UNCHANGED token
    BY <2>1
  <2>2. CASE ~NoRowLeft(token)
    <3>1. PICK r : r = [status |-> "open", exp |-> now + TokenTTL, uses |-> 0]
      OBVIOUS
    <3>2. r \in TokenRow
      BY <3>1 DEF Numbered
    <3>3. PICK n : n = Fresh(token)
      OBVIOUS
    <3>4. token' = [t \in Token |-> IF t = n THEN r
                                   ELSE IF t \in req[h].t
                                   THEN [token[t] EXCEPT !.status = "deleted"]
                                   ELSE token[t]]
      BY <1>1, <2>2, <3>1, <3>3 DEF TokenCommit
    <3>. QED BY <3>2, <3>4
  <2>. QED BY <1>1, <2>1, <2>2 DEF TokenCommit
<1>2. CASE ResetTx(h)
  <2>1. CASE UNCHANGED token
    BY <2>1
  <2>2. CASE token' # token
    <3>1. PICK x, r : x = The(req[h].t) /\ r = [status |-> "used", exp |-> token[x].exp,
                                               uses |-> token[x].uses + 1]
      OBVIOUS
    <3>2. token' = [Ended(token) EXCEPT ![x] = r]
      BY <1>2, <2>2, <3>1 DEF ResetTx
    <3>3. Ended(token) \in [Token -> TokenRow]
      BY DEF Ended
    <3>4. x \in Token => r \in TokenRow
      BY <3>1
    <3>. QED BY <3>2, <3>3, <3>4
  <2>. QED BY <2>1, <2>2
<1>. QED BY <1>1, <1>2
         DEF Step, SignupRead, SignupTx, LoginRead, LoginTx, TokenDelete, Mail, ResetRead,
             SessionRead, ExpireSession, MemberRead, Touch, Use, Logout, SwitchRead, SwitchWrite,
             CreateExt, ExtRead, ExpireExt, ExtMemberRead, Heartbeat, rows

LEMMA OthersTyped ==
  ASSUME TypeOK, Numbered, NEW h \in Handler, Step(h)
  PROVE  /\ registered' \in BOOLEAN /\ admin' \in BOOLEAN
         /\ password' \in 0..MaxResets /\ mailed' \subseteq Token
         /\ access' \in [Org -> {"none", "ACTIVE", "REMOVED"}]
         /\ now' \in 0..MaxTime
<1>. USE DEF TypeOK
<1>1. CASE SignupTx(h)
  BY <1>1 DEF SignupTx
<1>2. CASE LoginTx(h)
  BY <1>2 DEF LoginTx, EnsuredAccess
<1>3. CASE Mail(h)
  <2>1. req[h].t \subseteq Token
    BY DEF Request
  <2>. QED BY <1>3, <2>1 DEF Mail
<1>4. CASE ResetTx(h)
  BY <1>4 DEF ResetTx, Numbered
<1>. QED BY <1>1, <1>2, <1>3, <1>4
         DEF Step, SignupRead, LoginRead, TokenDelete, TokenCommit, ResetRead, SessionRead,
             ExpireSession, MemberRead, Touch, Use, Logout, SwitchRead, SwitchWrite, CreateExt,
             ExtRead, ExpireExt, ExtMemberRead, Heartbeat, rows

LEMMA TypeNext == Numbered /\ TypeOK /\ [Next]_vars => TypeOK'
<1> SUFFICES ASSUME Numbered, TypeOK, [Next]_vars PROVE TypeOK'
  OBVIOUS
<1>1. ASSUME Next PROVE lapsed' \subseteq Ext \/ ext' \notin [Ext -> ExtRow]
  BY <1>1 DEF Next, Lapsed, TypeOK
<1>2. ASSUME NEW h \in Handler, Step(h), Next PROVE TypeOK'
  <2>1. req' \in [Handler -> Request]
    BY <1>2, ReqTyped DEF TypeOK
  <2>. QED BY <1>1, <1>2, <2>1, SessionTyped, ExtTyped, TokenTyped, OthersTyped DEF TypeOK
<1>3. CASE ChangeAccess /\ Next
  BY <1>1, <1>3 DEF ChangeAccess, TypeOK
<1>4. CASE Tick /\ Next
  BY <1>1, <1>4 DEF Tick, rows, TypeOK, Numbered
<1>5. CASE UNCHANGED vars
  BY <1>5 DEF vars, rows, TypeOK
<1>. QED BY <1>2, <1>3, <1>4, <1>5 DEF Next

\* Rows, requests and counters have their types.
THEOREM SessionTypes == ASSUME Numbered PROVE Spec => []TypeOK
BY TypeInit, TypeNext, PTL DEF Spec

-----------------------------------------------------------------------------
(* Extension sessions that lapsed.                                         *)

\* A lapsed session is over, and whoever holds it is about to expire it.
LapsedInv ==
  \A e \in lapsed :
    /\ ext[e].status # "none" /\ ext[e].exp <= now
    /\ \A h \in Handler : e \in req[h].e => req[h].at = "extExpire"

\* Where a request is, and which extension sessions it holds, after a step of its
\* own.
LEMMA HeldAfter ==
  ASSUME TypeOK, NEW h \in Handler, Step(h)
  PROVE  /\ \A g \in Handler \ {h} : req'[g] = req[g]
         /\ req'[h].at = "tokenCommit" => TokenDelete(h)
         /\ req'[h].at = "reset" => ResetRead(h)
         /\ \/ req'[h].e = {}
            \/ \E e \in Ext : /\ req'[h].e = {e}
                              /\ ext[e].exp <= now => req'[h].at = "extExpire"
            \/ req'[h].e = req[h].e /\ req[h].at # "extExpire"
<1>. USE DEF At, End, Goto, TypeOK
<1>1. CASE \/ SignupTx(h) \/ LoginTx(h) \/ Mail(h) \/ ResetTx(h) \/ ExpireSession(h)
           \/ Use(h) \/ Logout(h) \/ SwitchWrite(h) \/ CreateExt(h) \/ ExpireExt(h)
           \/ Heartbeat(h)
  BY <1>1 DEF SignupTx, LoginTx, Mail, ResetTx, ExpireSession, Use, Logout, SwitchWrite,
              CreateExt, ExpireExt, Heartbeat, Idle
<1>2. CASE SignupRead(h) \/ LoginRead(h) \/ TokenDelete(h)
  BY <1>2 DEF SignupRead, LoginRead, TokenDelete, Idle
<1>3. CASE TokenCommit(h) \/ ResetRead(h) \/ SessionRead(h)
  <2>1. CASE TokenCommit(h)
    <3>1. PICK n : n = Fresh(token)
      OBVIOUS
    <3>2. \/ req' = [req EXCEPT ![h] = Idle]
          \/ req' = [req EXCEPT ![h] = [Idle EXCEPT !.at = "mail", !.t = {n}]]
      BY <2>1, <3>1 DEF TokenCommit
    <3>3. CASE req' = [req EXCEPT ![h] = Idle]
      BY <3>3 DEF Idle
    <3>4. CASE req' = [req EXCEPT ![h] = [Idle EXCEPT !.at = "mail", !.t = {n}]]
      BY <3>4 DEF Idle
    <3>. QED BY <3>2, <3>3, <3>4
  <2>2. CASE ResetRead(h)
    BY <2>2 DEF ResetRead, Idle
  <2>3. CASE SessionRead(h)
    <3>1. PICK s \in Session, p \in Purposes, l \in {"expire", "member"} :
            req' = [req EXCEPT ![h] = [Idle EXCEPT !.at = l, !.purpose = p, !.s = {s},
                                                   !.org = session[s].org]]
      BY <2>3 DEF SessionRead
    <3>. QED BY <3>1 DEF Idle
  <2>. QED BY <1>3, <2>1, <2>2, <2>3
<1>4. CASE ExtRead(h)
  BY <1>4 DEF ExtRead, Idle
<1>5. CASE MemberRead(h) \/ Touch(h) \/ ExtMemberRead(h) \/ SwitchRead(h)
  <2>1. \/ req' = [req EXCEPT ![h] = Idle]
        \/ \E l \in {"touch", "admitted", "extAdmitted"} :
             req' = [req EXCEPT ![h] = [req[h] EXCEPT !.at = l]]
        \/ \E o : req' = [req EXCEPT ![h] = [req[h] EXCEPT !.at = "switchWrite", !.org = o]]
    BY <1>5 DEF MemberRead, Touch, ExtMemberRead, SwitchRead
  <2>2. req[h].at # "extExpire"
    BY <1>5 DEF MemberRead, Touch, ExtMemberRead, SwitchRead
  <2>3. CASE req' = [req EXCEPT ![h] = Idle]
    BY <2>3 DEF Idle
  <2>4. ASSUME NEW l, req' = [req EXCEPT ![h] = [req[h] EXCEPT !.at = l]]
        PROVE  req'[h].at = l /\ req'[h].e = req[h].e /\ \A g \in Handler \ {h} : req'[g] = req[g]
    BY <2>4 DEF Request
  <2>5. ASSUME NEW o, req' = [req EXCEPT ![h] = [req[h] EXCEPT !.at = "switchWrite", !.org = o]]
        PROVE  /\ req'[h].at = "switchWrite" /\ req'[h].e = req[h].e
               /\ \A g \in Handler \ {h} : req'[g] = req[g]
    BY <2>5 DEF Request
  <2>. QED BY <2>1, <2>2, <2>3, <2>4, <2>5
<1>. QED BY <1>1, <1>2, <1>3, <1>4, <1>5 DEF Step

\* Nothing extends or renews a session that lapsed.
LEMMA LapsedRow ==
  ASSUME TypeOK, LapsedInv, NEW h \in Handler, Step(h), NEW e \in lapsed
  PROVE  ext'[e].status # "none" /\ ext'[e].exp = ext[e].exp
<1>. USE DEF TypeOK, ExtRow
<1>1. ext[e].status # "none" /\ e \in Ext /\ ext[e] \in ExtRow
  BY DEF LapsedInv
<1>2. CASE UNCHANGED ext
  BY <1>1, <1>2
<1>3. CASE CreateExt(h)
  <2>1. CASE ~NoRowLeft(ext)
    <3>1. Fresh(ext) # e
      BY <1>1, <2>1, FreshRow
    <3>. QED BY <1>1, <1>3, <2>1, <3>1 DEF CreateExt
  <2>. QED BY <1>2, <1>3, <2>1 DEF CreateExt
<1>4. CASE ResetTx(h)
  BY <1>1, <1>4 DEF ResetTx, Ended
<1>5. CASE ExpireExt(h)
  BY <1>1, <1>5 DEF ExpireExt
<1>6. CASE Heartbeat(h)
  <2>1. e \notin req[h].e
    BY <1>6 DEF Heartbeat, At, LapsedInv
  <2>. QED BY <1>1, <1>6, <2>1 DEF Heartbeat
<1>. QED BY <1>2, <1>3, <1>4, <1>5, <1>6
         DEF Step, SignupRead, SignupTx, LoginRead, LoginTx, TokenDelete, TokenCommit, Mail,
             ResetRead, SessionRead, ExpireSession, MemberRead, Touch, Use, Logout, SwitchRead,
             SwitchWrite, ExtRead, ExtMemberRead, rows

LEMMA LapsedNext == TypeOK /\ TypeOK' /\ LapsedInv /\ [Next]_vars => LapsedInv'
<1> SUFFICES ASSUME TypeOK, TypeOK', LapsedInv, [Next]_vars PROVE LapsedInv'
  OBVIOUS
<1>1. CASE UNCHANGED vars
  BY <1>1 DEF vars, rows, LapsedInv
<1>2. CASE Next
  <2>1. ASSUME NEW e \in Lapsed'
        PROVE  /\ ext'[e].status # "none" /\ ext'[e].exp <= now'
               /\ \A h \in Handler : e \notin req'[h].e
    BY <2>1 DEF Lapsed, Unheld
  <2>2. ASSUME NEW e \in lapsed
        PROVE  /\ ext'[e].status # "none" /\ ext'[e].exp <= now'
               /\ \A h \in Handler : e \in req'[h].e => req'[h].at = "extExpire"
    <3>1. ASSUME NEW h \in Handler, Step(h)
          PROVE  /\ ext'[e].status # "none" /\ ext'[e].exp <= now'
                 /\ \A g \in Handler : e \in req'[g].e => req'[g].at = "extExpire"
      <4>1. ext'[e].status # "none" /\ ext'[e].exp = ext[e].exp
        BY <3>1, LapsedRow
      <4>2. UNCHANGED now
        BY <3>1 DEF Step, SignupRead, SignupTx, LoginRead, LoginTx, TokenDelete, TokenCommit,
                    Mail, ResetRead, ResetTx, SessionRead, ExpireSession, MemberRead, Touch,
                    Use, Logout, SwitchRead, SwitchWrite, CreateExt, ExtRead, ExpireExt,
                    ExtMemberRead, Heartbeat
      <4>3. \A g \in Handler : e \in req'[g].e => req'[g].at = "extExpire"
        BY <3>1, HeldAfter DEF LapsedInv
      <4>. QED BY <4>1, <4>2, <4>3 DEF LapsedInv
    <3>2. CASE ChangeAccess
      BY <3>2 DEF ChangeAccess, LapsedInv
    <3>3. CASE Tick
      <4>1. ext[e].exp \in Nat /\ now \in Nat
        BY DEF TypeOK, ExtRow
      <4>. QED BY <3>3, <4>1 DEF Tick, rows, LapsedInv
    <3>. QED BY <1>2, <3>1, <3>2, <3>3 DEF Next
  <2>. QED BY <1>2, <2>1, <2>2 DEF Next, LapsedInv
<1>. QED BY <1>1, <1>2

LEMMA LapsedInit == Init => LapsedInv
BY DEF Init, LapsedInv

LEMMA LapsedOut == LapsedInv => LapsedStaysOut
BY DEF LapsedInv, LapsedStaysOut, At

\* An extension session that reached its expiry with no request in flight on it is
\* never admitted again, however heartbeats extend by id (ExtensionAuthGuard,
\* refreshHeartbeat).
THEOREM LapsedSessionsStayOut == ASSUME Numbered PROVE Spec => []LapsedStaysOut
BY LapsedInit, LapsedOut, LapsedNext, TypeInit, TypeNext, PTL DEF Spec

-----------------------------------------------------------------------------
(* Reset links.                                                            *)

OpenTokens == Usable(token, "open")

\* Each open token was made by a request of its own, and a request that is about to
\* make another deletes the one it made.
Makes(f) ==
  /\ \A t, u \in OpenTokens : f[t] = f[u] => t = u
  /\ \A t \in OpenTokens : req[f[t]].at = "tokenCommit" => t \in req[f[t]].t
MadeInv == \E f \in [OpenTokens -> Handler] : Makes(f)

\* The requests that are about to use a token.
Using(t) == {h \in Handler : req[h].at = "reset" /\ req[h].t = {t}}
UsesInv ==
  /\ \A h \in Handler : req[h].at = "reset" => \E t \in Token : req[h].t = {t}
  /\ \A t \in Token :
       /\ token[t].status = "open" => token[t].uses = 0
       /\ token[t].uses + Cardinality(Using(t)) <= Cardinality(Handler)

\* What a step does to the tokens.
Commits(h, n) ==
  /\ req[h].at = "tokenCommit" /\ req'[h].at = "mail"
  /\ \A t \in Token \ {n} :
       token'[t] = IF t \in req[h].t THEN [token[t] EXCEPT !.status = "deleted"] ELSE token[t]
  /\ token'[n].status = "open" /\ token'[n].uses = 0
Resets(h, x) ==
  /\ req[h].at = "reset" /\ x = The(req[h].t) /\ req'[h].at = "idle"
  /\ \A t \in Token : token'[t].status # "open"
  /\ \A t \in Token \ {x} : token'[t].uses = token[t].uses
  /\ x \in Token => token'[x].uses = token[x].uses + 1

LEMMA TokensAfter ==
  ASSUME TypeOK, TypeOK', NEW h \in Handler, Step(h)
  PROVE  UNCHANGED token \/ (\E n \in Token : Commits(h, n)) \/ \E x : Resets(h, x)
<1>. USE DEF TypeOK, At, End, Goto
<1>1. CASE TokenCommit(h)
  <2>1. CASE ~NoRowLeft(token)
    <3>1. PICK n : n = Fresh(token)
      OBVIOUS
    <3>2. n \in Token
      BY <2>1, <3>1, FirstOfTable
    <3>3. token' = [t \in Token |->
                      IF t = n THEN [status |-> "open", exp |-> now + TokenTTL, uses |-> 0]
                      ELSE IF t \in req[h].t THEN [token[t] EXCEPT !.status = "deleted"]
                      ELSE token[t]]
      BY <1>1, <2>1, <3>1 DEF TokenCommit
    <3>4. req' = [req EXCEPT ![h] = [Idle EXCEPT !.at = "mail", !.t = {n}]]
      BY <1>1, <2>1, <3>1 DEF TokenCommit
    <3>5. req'[h].at = "mail"
      BY <3>4 DEF Idle
    <3>6. Commits(h, n)
      BY <1>1, <3>2, <3>3, <3>5 DEF TokenCommit, Commits
    <3>. QED BY <3>2, <3>6
  <2>. QED BY <1>1, <2>1 DEF TokenCommit
<1>2. CASE ResetTx(h) /\ token' # token
  <2>1. PICK x, r : x = The(req[h].t) /\ r = [status |-> "used", exp |-> token[x].exp,
                                             uses |-> token[x].uses + 1]
    OBVIOUS
  <2>2. token' = [Ended(token) EXCEPT ![x] = r]
    BY <1>2, <2>1 DEF ResetTx
  <2>3. req[h].at = "reset" /\ req'[h] = Idle
    BY <1>2 DEF ResetTx
  <2>4. \A t \in Token : Ended(token)[t].status # "open" /\ Ended(token)[t].uses = token[t].uses
    BY DEF Ended, TokenRow
  <2>5. DOMAIN Ended(token) = Token
    BY DEF Ended
  <2>6. Resets(h, x)
    BY <2>1, <2>2, <2>3, <2>4, <2>5 DEF Resets, Idle
  <2>. QED BY <2>6
<1>. QED BY <1>1, <1>2
         DEF Step, SignupRead, SignupTx, LoginRead, LoginTx, TokenDelete, Mail, ResetRead,
             SessionRead, ExpireSession, MemberRead, Touch, Use, Logout, SwitchRead, SwitchWrite,
             CreateExt, ExtRead, ExpireExt, ExtMemberRead, Heartbeat, rows

LEMMA MadeNext == TypeOK /\ TypeOK' /\ MadeInv /\ [Next]_vars => MadeInv'
<1> SUFFICES ASSUME TypeOK, TypeOK', MadeInv, [Next]_vars PROVE MadeInv'
  OBVIOUS
<1>0. OpenTokens = {t \in Token : token[t].status = "open"}
      /\ OpenTokens' = {t \in Token : token'[t].status = "open"}
  BY DEF OpenTokens, Usable, TypeOK
<1>1. PICK f \in [OpenTokens -> Handler] : Makes(f)
  BY DEF MadeInv
<1>2. CASE UNCHANGED <<token, req>>
  <2>1. OpenTokens' = OpenTokens
    BY <1>0, <1>2
  <2>. QED BY <1>1, <1>2, <2>1 DEF MadeInv, Makes
<1>3. ASSUME NEW h \in Handler, Step(h) PROVE MadeInv'
  <2>1. CASE UNCHANGED token
    <3>1. OpenTokens' = OpenTokens
      BY <1>0, <2>1
    <3>2. ASSUME NEW t \in OpenTokens, req'[f[t]].at = "tokenCommit"
          PROVE  t \in req'[f[t]].t
      <4>1. CASE f[t] = h
        <5>1. TokenDelete(h)
          BY <1>3, <3>2, <4>1, HeldAfter
        <5>2. req'[h].t = {u \in Token : token[u].status \in {"open", "used"}}
          BY <5>1 DEF TokenDelete, Goto, Idle, TypeOK
        <5>. QED BY <1>0, <4>1, <5>2
      <4>2. CASE f[t] # h
        <5>1. req'[f[t]] = req[f[t]]
          BY <1>3, <4>2, HeldAfter
        <5>. QED BY <1>1, <3>2, <5>1 DEF Makes
      <4>. QED BY <4>1, <4>2
    <3>. QED BY <1>1, <3>1, <3>2 DEF MadeInv, Makes
  <2>2. ASSUME NEW n \in Token, Commits(h, n) PROVE MadeInv'
    <3> DEFINE g == [t \in OpenTokens' |-> IF t = n THEN h ELSE f[t]]
    <3>1. ASSUME NEW t \in OpenTokens', t # n
          PROVE  t \in OpenTokens /\ t \notin req[h].t
      BY <1>0, <2>2, <3>1 DEF Commits, TypeOK, TokenRow
    <3>2. ASSUME NEW t \in OpenTokens', t # n PROVE f[t] # h
      BY <1>1, <2>2, <3>1, <3>2 DEF Makes, Commits
    <3>3. g \in [OpenTokens' -> Handler]
      BY <3>1
    <3>4. ASSUME NEW t \in OpenTokens', NEW u \in OpenTokens', g[t] = g[u] PROVE t = u
      BY <1>1, <3>1, <3>2, <3>4 DEF Makes
    <3>5. ASSUME NEW t \in OpenTokens', req'[g[t]].at = "tokenCommit"
          PROVE  t \in req'[g[t]].t
      <4>1. t # n
        BY <2>2, <3>5 DEF Commits
      <4>2. g[t] = f[t] /\ f[t] # h /\ f[t] \in Handler /\ t \in OpenTokens
        BY <3>1, <3>2, <4>1
      <4>3. req'[f[t]] = req[f[t]]
        BY <1>3, <4>2, HeldAfter
      <4>. QED BY <1>1, <3>5, <4>2, <4>3 DEF Makes
    <3> HIDE DEF g
    <3>. QED BY <3>3, <3>4, <3>5 DEF MadeInv, Makes
  <2>3. ASSUME NEW x, Resets(h, x) PROVE MadeInv'
    <3>1. OpenTokens' = {}
      BY <1>0, <2>3 DEF Resets
    <3>2. [t \in {} |-> t] \in [OpenTokens' -> Handler]
      BY <3>1
    <3>. QED BY <3>1, <3>2 DEF MadeInv, Makes
  <2>. QED BY <1>3, <2>1, <2>2, <2>3, TokensAfter
<1>. QED BY <1>2, <1>3 DEF Next, ChangeAccess, Tick, vars, rows

LEMMA UsesNext ==
  IsFiniteSet(Handler) /\ TypeOK /\ TypeOK' /\ UsesInv /\ [Next]_vars => UsesInv'
<1> SUFFICES ASSUME IsFiniteSet(Handler), TypeOK, TypeOK', UsesInv, [Next]_vars
             PROVE  UsesInv'
  OBVIOUS
<1>1. CASE UNCHANGED <<token, req>>
  BY <1>1 DEF UsesInv, Using
<1>2. ASSUME NEW h \in Handler, Step(h) PROVE UsesInv'
  <2>1. ASSUME NEW g \in Handler, req'[g].at = "reset"
        PROVE  \E t \in Token : req'[g].t = {t}
    <3>1. CASE g = h
      <4>1. ResetRead(h)
        BY <1>2, <2>1, <3>1, HeldAfter
      <4>. QED BY <3>1, <4>1 DEF ResetRead, Goto, Idle, TypeOK
    <3>. QED BY <1>2, <2>1, <3>1, HeldAfter DEF UsesInv
  <2>2. ASSUME NEW t \in Token
        PROVE  /\ IsFiniteSet(Using(t)) /\ Cardinality(Using(t)) \in Nat
               /\ Cardinality(Handler) \in Nat
               /\ Cardinality(Using(t)') \in Nat
               /\ Cardinality(Using(t)') <= Cardinality(Handler)
               /\ token[t].uses \in Nat
    <3>1. Using(t) \subseteq Handler /\ Using(t)' \subseteq Handler
      BY DEF Using
    <3>. QED BY <3>1, FS_Subset, FS_CardinalityType DEF TypeOK, TokenRow
  <2>3. ASSUME NEW t \in Token, ~ResetRead(h)
        PROVE  /\ Using(t)' \subseteq Using(t)
               /\ Cardinality(Using(t)') <= Cardinality(Using(t))
    <3>1. Using(t)' \subseteq Using(t)
      BY <1>2, <2>3, HeldAfter DEF Using
    <3>. QED BY <2>2, <3>1, FS_Subset
  <2>4. CASE UNCHANGED token
    <3>1. ASSUME NEW t \in Token, ResetRead(h)
          PROVE  token[t].uses + Cardinality(Using(t)') <= Cardinality(Handler)
      <4>1. CASE req'[h].t = {t}
        <5>1. token[t].status = "open"
          BY <3>1, <4>1 DEF ResetRead, Goto, Idle, TypeOK
        <5>. QED BY <2>2, <5>1 DEF UsesInv
      <4>2. CASE req'[h].t # {t}
        <5>1. Using(t)' \subseteq Using(t)
          BY <1>2, <4>2, HeldAfter DEF Using
        <5>2. Cardinality(Using(t)') <= Cardinality(Using(t))
          BY <2>2, <5>1, FS_Subset
        <5>. QED BY <2>2, <5>2 DEF UsesInv
      <4>. QED BY <4>1, <4>2
    <3>2. ASSUME NEW t \in Token
          PROVE  token[t].uses + Cardinality(Using(t)') <= Cardinality(Handler)
      BY <2>2, <2>3, <3>1 DEF UsesInv
    <3>. QED BY <2>1, <2>4, <3>2 DEF UsesInv
  <2>5. ASSUME NEW n \in Token, Commits(h, n) PROVE UsesInv'
    <3>1. ASSUME NEW t \in Token, t # n
          PROVE  token'[t].uses = token[t].uses
                 /\ (token'[t].status = "open" => token[t].status = "open")
      BY <2>5, <3>1 DEF Commits, TypeOK, TokenRow
    <3>2. ~ResetRead(h)
      BY <2>5 DEF Commits, ResetRead, At
    <3>3. ASSUME NEW t \in Token
          PROVE  token'[t].uses + Cardinality(Using(t)') <= Cardinality(Handler)
      BY <2>2, <2>3, <2>5, <3>1, <3>2 DEF UsesInv, Commits
    <3>4. ASSUME NEW t \in Token, token'[t].status = "open" PROVE token'[t].uses = 0
      BY <2>5, <3>1, <3>4 DEF UsesInv, Commits
    <3>. QED BY <2>1, <3>3, <3>4 DEF UsesInv
  <2>6. ASSUME NEW x, Resets(h, x) PROVE UsesInv'
    <3>1. PICK t \in Token : req[h].t = {t}
      BY <2>6 DEF Resets, UsesInv
    <3>2. x = t
      BY <2>6, <3>1 DEF Resets, The
    <3>3. ~ResetRead(h)
      BY <2>6 DEF Resets, ResetRead, At
    <3>4. Cardinality(Using(x)') <= Cardinality(Using(x)) - 1
      <4>1. h \in Using(x) /\ h \notin Using(x)'
        BY <2>6, <3>1, <3>2 DEF Using, Resets
      <4>2. Using(x)' \subseteq Using(x) \ {h}
        BY <2>3, <3>2, <3>3, <4>1
      <4>3. /\ IsFiniteSet(Using(x) \ {h})
            /\ Cardinality(Using(x) \ {h}) = Cardinality(Using(x)) - 1
        BY <2>2, <3>2, <4>1, FS_RemoveElement
      <4>. QED BY <2>2, <3>2, <4>2, <4>3, FS_Subset
    <3>5. ASSUME NEW u \in Token
          PROVE  token'[u].uses + Cardinality(Using(u)') <= Cardinality(Handler)
      <4>1. CASE u = x
        <5>1. token'[u].uses = token[u].uses + 1
          BY <2>6, <3>2, <4>1 DEF Resets
        <5>2. token[u].uses + Cardinality(Using(u)) <= Cardinality(Handler)
          BY DEF UsesInv
        <5>. QED BY <2>2, <3>4, <4>1, <5>1, <5>2
      <4>2. CASE u # x
        <5>1. token'[u].uses = token[u].uses
          BY <2>6, <4>2 DEF Resets
        <5>2. token[u].uses + Cardinality(Using(u)) <= Cardinality(Handler)
          BY DEF UsesInv
        <5>. QED BY <2>2, <2>3, <3>3, <5>1, <5>2
      <4>. QED BY <4>1, <4>2
    <3>. QED BY <2>1, <2>6, <3>5 DEF UsesInv, Resets
  <2>. QED BY <1>2, <2>4, <2>5, <2>6, TokensAfter
<1>. QED BY <1>1, <1>2 DEF Next, ChangeAccess, Tick, vars, rows

LEMMA MadeInit == Init => MadeInv
<1> SUFFICES ASSUME Init PROVE MadeInv
  OBVIOUS
<1>1. OpenTokens = {}
  BY DEF Init, OpenTokens, Usable, NoToken
<1>2. [t \in {} |-> t] \in [OpenTokens -> Handler]
  BY <1>1
<1>. QED BY <1>1, <1>2 DEF MadeInv, Makes

LEMMA MadeBounds == IsFiniteSet(Handler) /\ MadeInv => OpenTokensAreInFlight
<1> SUFFICES ASSUME IsFiniteSet(Handler), MadeInv PROVE OpenTokensAreInFlight
  OBVIOUS
<1>1. PICK f \in [OpenTokens -> Handler] : Makes(f)
  BY DEF MadeInv
<1>2. f \in Injection(OpenTokens, Handler)
  BY <1>1 DEF Makes, Injection, IsInjective
<1>3. Cardinality(OpenTokens) <= Cardinality(Handler)
  BY <1>2, FS_Injection
<1>. QED BY <1>3 DEF OpenTokens, OpenTokensAreInFlight

LEMMA UsesInit == IsFiniteSet(Handler) /\ Init => UsesInv
<1> SUFFICES ASSUME IsFiniteSet(Handler), Init PROVE UsesInv
  OBVIOUS
<1>1. ASSUME NEW t \in Token
      PROVE  Cardinality(Using(t)) \in Nat /\ Cardinality(Using(t)) <= Cardinality(Handler)
  <2>1. Using(t) \subseteq Handler
    BY DEF Using
  <2>. QED BY <2>1, FS_Subset, FS_CardinalityType
<1>2. \A t \in Token : token[t].uses = 0 /\ token[t].status = "none"
  BY DEF Init, NoToken
<1>3. \A h \in Handler : req[h].at = "idle"
  BY DEF Init, Idle
<1>. QED BY <1>1, <1>2, <1>3 DEF UsesInv

LEMMA UsesBounds == IsFiniteSet(Handler) /\ TypeOK /\ UsesInv => TokenUsesAreInFlight
<1> SUFFICES ASSUME IsFiniteSet(Handler), TypeOK, UsesInv, NEW t \in Token
             PROVE  token[t].uses <= Cardinality(Handler)
  BY DEF TokenUsesAreInFlight
<1>1. Using(t) \subseteq Handler
  BY DEF Using
<1>2. Cardinality(Using(t)) \in Nat /\ Cardinality(Handler) \in Nat
  BY <1>1, FS_Subset, FS_CardinalityType
<1>3. token[t].uses \in Nat
  BY DEF TypeOK, TokenRow
<1>. QED BY <1>2, <1>3 DEF UsesInv

\* Requesting a reset link invalidates the ones before it: there are never more open
\* links than requests can be in flight together (requestPasswordReset).
THEOREM OpenLinksAreInFlight ==
  ASSUME Numbered, IsFiniteSet(Handler)
  PROVE  Spec => []OpenTokensAreInFlight
BY MadeInit, MadeBounds, MadeNext, TypeInit, TypeNext, PTL DEF Spec

\* One link sets the password no oftener than requests were in flight together that
\* had found it unused (resetPassword).
THEOREM LinkUsesAreInFlight ==
  ASSUME Numbered, IsFiniteSet(Handler)
  PROVE  Spec => []TokenUsesAreInFlight
BY UsesInit, UsesBounds, UsesNext, TypeInit, TypeNext, PTL DEF Spec
=============================================================================
