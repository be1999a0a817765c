----------------------------- MODULE MCClients -----------------------------
(***************************************************************************)
(* Instances for TLC of the clients of the API: the extension's background *)
(* script, the payloads it sends, and the web application's session and    *)
(* pages.  They share no state but what each models of the API, so a       *)
(* behaviour moves one of them, part, and the others rest.                 *)
(***************************************************************************)
EXTENDS Naturals, FiniteSets, TLC

CONSTANTS
  Slot,                 \* tasks, requests in flight
  Tab,                  \* browser tabs
  Shop, Org, Home,      \* shops, workspaces
  Row, Pages,           \* rows of tables, pages that show them
  Goals, TTL,           \* tasks of the background script, life of a session
  MaxLogins, MaxTime, MaxVersion, MaxSwitches, MaxAsks,
  None,
  Resting               \* the value of what a part does without

\* Names of different kinds differ; there are finitely many rows.
ASSUME NoneAssumption ==
  /\ None \notin Slot \cup Tab \cup Shop \cup Org \cup Row \cup (1..MaxLogins)
  /\ None \notin [token : 1..MaxLogins, user : 1..MaxLogins, org : Org]   \* sessions
ASSUME BoundsAssumption == MaxLogins \in Nat /\ IsFiniteSet(Row) /\ Home \in Org

VARIABLES
  part,
  store, task, logins, dead, out, now,
  page, version, selected, session, answer,
  org, alive, stored, ready, tabSession, profile, current, due, switching, call,
  webLogins, switches, newest, fresh,
  view, workspace, items, rows, count, row, detail, loading, submitting, busy,
  dueList, dueDetail, asked, request, newestLoad, freshLoad

backgroundVars == <<store, task, logins, dead, out, now>>
payloadVars == <<page, version, selected, session, answer>>
sessionVars == <<org, alive, stored, ready, tabSession, profile, current, due,
                 switching, call, webLogins, switches, newest, fresh>>
rowsVars == <<view, workspace, items, rows, count, row, detail, loading, submitting,
              busy, dueList, dueDetail, asked, request, newestLoad, freshLoad>>
clientVars == <<part, backgroundVars, payloadVars, sessionVars, rowsVars>>

\* The background script's record.
Ext == INSTANCE ExtensionState WITH Task <- Slot

Payloads == INSTANCE SyncPayload

Web == INSTANCE WebSession
  WITH session <- tabSession, task <- call, logins <- webLogins

Rows == INSTANCE WebRows
  WITH NoRow <- None, NoSlot <- None,
       page <- view, org <- workspace, selected <- row, due <- dueList,
       task <- request, newest <- newestLoad, fresh <- freshLoad

\* Fewer requests of the page with details.
Asks == [p \in Pages |-> IF p = "invoices" THEN 2 ELSE 3]

-----------------------------------------------------------------------------
BackgroundRests ==
  /\ store = Resting /\ task = Resting /\ logins = Resting /\ dead = Resting
  /\ out = Resting /\ now = Resting
PayloadsRest ==
  /\ page = Resting /\ version = Resting /\ selected = Resting /\ session = Resting
  /\ answer = Resting
WebRests ==
  /\ org = Resting /\ alive = Resting /\ stored = Resting /\ ready = Resting
  /\ tabSession = Resting /\ profile = Resting /\ current = Resting /\ due = Resting
  /\ switching = Resting /\ call = Resting /\ webLogins = Resting
  /\ switches = Resting /\ newest = Resting /\ fresh = Resting
RowsRest ==
  /\ view = Resting /\ workspace = Resting /\ items = Resting /\ rows = Resting
  /\ count = Resting /\ row = Resting /\ detail = Resting /\ loading = Resting
  /\ submitting = Resting /\ busy = Resting /\ dueList = Resting /\ dueDetail = Resting
  /\ asked = Resting /\ request = Resting /\ newestLoad = Resting
  /\ freshLoad = Resting

ClientsInit ==
  /\ part \in {"background", "payloads", "web", "rows"}
  /\ IF part = "background" THEN Ext!Init ELSE BackgroundRests
  /\ IF part = "payloads" THEN Payloads!Init ELSE PayloadsRest
  /\ IF part = "web" THEN Web!Init ELSE WebRests
  /\ IF part = "rows" THEN Rows!Init ELSE RowsRest

Rest(p) ==
  /\ part = p /\ UNCHANGED part
  /\ p # "background" => UNCHANGED backgroundVars
  /\ p # "payloads" => UNCHANGED payloadVars
  /\ p # "web" => UNCHANGED sessionVars
  /\ p # "rows" => UNCHANGED rowsVars

\* At the bounds nothing more happens.
Quiet == UNCHANGED clientVars

ClientsNext ==
  \/ Rest("background") /\ Ext!Next
  \/ Rest("payloads") /\ Payloads!Next
  \/ Rest("web") /\ Web!Next
  \/ Rest("rows") /\ Rows!Next
  \/ Quiet

ClientsSpec == ClientsInit /\ [][ClientsNext]_clientVars

\* Tasks are interchangeable, and so are tabs, shops or rows.
ClientsSymmetry == Permutations(Slot) \cup Permutations(Tab)

-----------------------------------------------------------------------------
\* The state of the extension never combines two logins, whatever patches of
\* the background script overwrite each other (patchExtensionState).
OneLogin == part = "background" => Ext!OneLogin

\* A logout that met nothing in flight is final, in the extension
\* (handleLogout), and once no tab of the web application has a session, only
\* a login makes one (clearSessionState, saveSession).
LogoutIsFinal ==
  [](part = "background" => Ext!LogoutIsFinal) /\ Web!LogoutStays

\* What the extension is ready to send of a page, the API takes
\* (buildSyncPayload, CreateIngestionBatchDto, assertSessionMatchesRequest).
PayloadsAreTaken == part = "payloads" => Payloads!PayloadsAreTaken

\* A tab with nothing under way has one login and the API's workspace for it
\* (refreshProfile, switchOrganization).
TabAgrees == part = "web" => Web!TabAgrees

\* A page with nothing under way shows what a reload would show.
PageIsCurrent == part = "rows" => Rows!PageIsCurrent
=============================================================================
