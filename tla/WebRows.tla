------------------------------ MODULE WebRows ------------------------------
(***************************************************************************)
(* The private pages of the web application that show rows of the          *)
(* workspace: team, shops, market research, fees (settings), plans and     *)
(* invoices (subscription).  A page loads its rows when it is mounted and  *)
(* on demand; what it asks the API to change it either patches into the    *)
(* rows it has ("team", "shops", "research") or loads anew ("fees",        *)
(* "plans", "invoices").  Nothing cancels a request or compares an answer  *)
(* with what was asked since.                                              *)
(*                                                                         *)
(* A row is its version in the API's tables, 0 while there is none and     *)
(* negated once it was removed.  Who was removed from a team can be        *)
(* invited again and is the same row then; every other row that is removed *)
(* is gone for good.  Rows of fees and plans belong to no workspace.  The  *)
(* parallel requests of a load are one.  A row appended twice counts once. *)
(* Bounds: Row, Slot, and MaxAsks[page] requests of the user, changes of   *)
(* others and switches of the workspace.                                   *)
(***************************************************************************)
EXTENDS Integers, FiniteSets

CONSTANTS
  Pages, Org,
  Home,         \* the workspace of the session at the start
  Row, NoRow, Slot, NoSlot, MaxAsks

VARIABLES
  page,
  org,          \* the workspace the API has for the session
  items,        \* the API's tables
  rows,         \* what the page shows, ...
  count,        \* ... the seats in use (team), ...
  selected,     \* ... the row being edited, expanded or looked at ...
  detail,       \* ... and its detail (invoices)
  loading,      \* isLoading
  submitting,   \* isSubmitting, isSaving, isDeleting
  busy,         \* updatingMemberId, updatingShopId
  due, dueDetail,       \* the timers of the page's effects
  asked,        \* history: how often something was asked
  task,
  newest,       \* history: the load last begun, by kind, until it is answered
  fresh         \* history: whether the last answer, by kind, left the page current

shown == <<rows, count, selected, detail>>
flags == <<loading, submitting, busy, due, dueDetail>>
vars == <<page, org, items, shown, flags, newest, asked, task, fresh>>

Nothing == [r \in Row |-> 0]
NoDetail == [row |-> NoRow, version |-> 0]
Age(v) == IF v < 0 THEN -v ELSE v
Present(f) == {r \in Row : f[r] > 0}
Request(op, at, r, read, clean) ==
  [op |-> op, at |-> at, row |-> r, read |-> read, clean |-> clean]
Done == Request("idle", "idle", NoRow, Nothing, FALSE)
Soiled(k) == [k EXCEPT !.clean = FALSE]
Loads == {"list", "detail"}
Patching == {"team", "shops", "research"}
\* Whose table a page's rows are in: all workspaces have the same fees and plans.
Table == IF page \in {"fees", "plans"} THEN Home ELSE org
View(f) == [r \in Row |-> IF f[r] < 0 THEN 0 ELSE f[r]]

Init ==
  /\ page \in Pages /\ org = Home
  /\ \E table \in [Row -> {0, 1}] :
       items = [o \in Org |-> IF o = Table THEN table ELSE Nothing]
  /\ rows = Nothing /\ count = 0 /\ selected = NoRow /\ detail = NoDetail
  /\ loading = FALSE /\ submitting = FALSE /\ busy = NoRow
  /\ due = TRUE /\ dueDetail = FALSE
  /\ newest = [k \in Loads |-> NoSlot]
  /\ asked = 0 /\ task = [t \in Slot |-> Done]
  /\ fresh = [k \in Loads |-> FALSE]

-----------------------------------------------------------------------------
Free(t) == task[t] = Done
Mutates(t) == task[t].op \notin Loads \cup {"idle"}
Quiet == (\A t \in Slot : Free(t)) /\ ~due /\ ~dueDetail

\* What t may cross: a load that is patched meanwhile may hold the change or
\* not, and of two changes of one row the later may be patched in first.
Crosses(op, r, s) ==
  /\ page \in Patching
  /\ \/ op = "list" /\ Mutates(s)
     \/ op \notin Loads /\ (task[s].op = "list" \/ (Mutates(s) /\ r # NoRow /\ task[s].row = r))
With(t, op, r) ==
  [s \in Slot |->
     IF s = t THEN Request(op, "sent", r, Nothing, \A u \in Slot \ {t} : ~Crosses(op, r, u))
     ELSE IF Crosses(op, r, s) THEN Soiled(task[s]) ELSE task[s]]
\* Changes of others after a load has read.
Outdated == [t \in Slot |-> IF task[t].at = "read" THEN Soiled(task[t]) ELSE task[t]]
Ask == asked < MaxAsks[page] /\ asked' = asked + 1
Begin(t, op, r) == Free(t) /\ task' = With(t, op, r)
End(t) == task' = [task EXCEPT ![t] = Done]

\* refresh, refreshBillingData: by the effect of mounting or by the button.
Refresh(t) ==
  /\ Begin(t, "list", NoRow) /\ newest' = [newest EXCEPT !["list"] = t]
  /\ \/ due /\ due' = FALSE /\ UNCHANGED asked
     \/ ~loading /\ Ask /\ UNCHANGED due
  /\ loading' = TRUE
  /\ UNCHANGED <<page, org, items, shown, submitting, busy, dueDetail, fresh>>

\* loadInvoiceDetail, by the effect of the selection.
LoadDetail(t) ==
  /\ dueDetail /\ dueDetail' = FALSE
  /\ Begin(t, "detail", selected) /\ newest' = [newest EXCEPT !["detail"] = t]
  /\ UNCHANGED <<page, org, items, shown, loading, submitting, busy, due, asked, fresh>>

\* The API reads for a load.
Read(t) ==
  /\ task[t].op \in Loads /\ task[t].at = "sent"
  /\ task' = [task EXCEPT ![t] = Request(@.op, "read", @.row, View(items[Table]), @.clean)]
  /\ UNCHANGED <<page, org, items, shown, flags, newest, asked, fresh>>

\* An answer that comes after the one to a newer request is late.
Answered(k, t) ==
  /\ newest' = [newest EXCEPT ![k] = IF @ = t THEN NoSlot ELSE @]
  /\ fresh' = [fresh EXCEPT ![k] = newest[k] # NoSlot /\ task[t].clean]
Failed(k, t) ==
  /\ newest' = [newest EXCEPT ![k] = IF @ = t THEN NoSlot ELSE @]
  /\ fresh' = [fresh EXCEPT ![k] = FALSE]

Select(r) ==
  /\ selected' = r
  /\ dueDetail' = (IF page = "invoices" /\ r # selected THEN r # NoRow ELSE dueDetail)

\* What follows the load of a mutation: the form is reset, whichever row is in
\* it by then, or the detail is loaded.
Resume(t) ==
  /\ loading' = FALSE
  /\ \/ task[t].row = NoRow /\ End(t)
     \/ task[t].row # NoRow /\ page # "invoices"
          /\ task' = [task EXCEPT ![t] = Request("close", "close", NoRow, Nothing, FALSE)]
     \/ task[t].row # NoRow /\ page = "invoices"
          /\ task' = [task EXCEPT ![t] = Request("open", "open", @.row, Nothing, FALSE)]

\* The rows of a load are shown; a selection that is not among them is lost
\* for plans and batches and replaced by the first invoice.
Loaded(t) ==
  LET new == task[t].read IN
  /\ task[t].op = "list" /\ task[t].at = "read" /\ Answered("list", t)
  /\ rows' = new /\ count' = Cardinality(Present(new))
  /\ \/ page \notin {"plans", "research", "invoices"} /\ UNCHANGED <<selected, dueDetail>>
     \/ /\ page \in {"plans", "research", "invoices"}
        /\ IF selected \in Present(new) THEN Select(selected)
           ELSE \E r \in IF page # "invoices" \/ Present(new) = {} THEN {NoRow}
                         ELSE Present(new) : Select(r)
  /\ detail' = (IF page = "invoices" /\ Present(new) = {} THEN NoDetail ELSE detail)
  /\ Resume(t)
  /\ UNCHANGED <<page, org, items, submitting, busy, due, asked>>

LoadFails(t) ==
  /\ task[t].op = "list" /\ Resume(t) /\ Failed("list", t)
  /\ UNCHANGED <<page, org, items, shown, submitting, busy, due, dueDetail, asked>>

DetailLoaded(t) ==
  LET r == task[t].row v == task[t].read[r] IN
  /\ task[t].op = "detail" /\ task[t].at = "read" /\ v # 0 /\ End(t)
  /\ Answered("detail", t)
  /\ detail' = [row |-> r, version |-> v]
  /\ UNCHANGED <<page, org, items, rows, count, selected, flags, asked>>

DetailFails(t) ==
  /\ task[t].op = "detail" /\ End(t) /\ Failed("detail", t)
  /\ UNCHANGED <<page, org, items, shown, flags, asked>>

-----------------------------------------------------------------------------
\* What the user asks for, by page.

Unbegun ==
  Ask /\ UNCHANGED <<page, org, items, shown, loading, due, dueDetail, newest, fresh>>
Submit(t, op, r) ==
  ~submitting /\ submitting' = TRUE /\ Begin(t, op, r) /\ UNCHANGED busy /\ Unbegun
Update(t, op, r) ==
  busy # r /\ busy' = r /\ Begin(t, op, r) /\ UNCHANGED submitting /\ Unbegun

\* handleInvite, and handleSubmit of a shop
Create(t) ==
  /\ page \in {"team", "shops"} /\ Submit(t, "add", NoRow)

\* updateRole, updateRoasDefaults
Change(t) ==
  \E r \in Present(rows) : page \in {"team", "shops"} /\ Update(t, "change", r)

\* removeMember
RemoveMember(t) ==
  \E r \in Present(rows) : page = "team" /\ Update(t, "remove", r)

\* handleDelete of a batch of market research
DeleteBatch(t) ==
  \E r \in Present(rows) : page = "research" /\ Submit(t, "remove", r)

\* handleSubmit of fees and plans: the row being edited, or a new one
Save(t) ==
  /\ page \in {"fees", "plans"}
  /\ Submit(t, IF selected = NoRow THEN "add" ELSE "change", selected)

\* handleToggleStatus of a fee, which no flag guards
ToggleFee(t) ==
  /\ page = "fees" /\ UNCHANGED <<submitting, busy>> /\ Unbegun
  /\ \E r \in Present(rows) : Begin(t, "toggle", r)

\* handleDelete of a fee
DeleteFee(t) ==
  /\ page = "fees" /\ UNCHANGED <<submitting, busy>> /\ Unbegun
  /\ \E r \in Present(rows) :
       Begin(t, IF selected = r THEN "removeEdited" ELSE "remove", r)

\* handleDeactivate of a plan, which stays in the list
DeactivatePlan(t) ==
  /\ page = "plans"
  /\ \E r \in Present(rows) : Submit(t, IF selected = r THEN "change" ELSE "toggle", r)

\* handleCheckout, for one plan at a time
Checkout(t) == page = "invoices" /\ Submit(t, "checkout", NoRow)

\* handleRefreshPaymentStatus of the invoice whose detail is shown
RefreshPayment(t) ==
  page = "invoices" /\ detail # NoDetail /\ Update(t, "status", detail.row)

\* fillForm, handleEdit, the expanded batch, the invoice looked at, or none
Choose ==
  /\ page \in {"research", "fees", "plans", "invoices"}
  /\ \E r \in Present(rows) \cup (IF page = "invoices" THEN {} ELSE {NoRow}) : Select(r)
  /\ UNCHANGED <<page, org, items, rows, count, detail, loading, submitting, busy, due,
                 newest, asked, task, fresh>>

-----------------------------------------------------------------------------
Adds == {"add", "checkout"}
Removes == {"remove", "removeEdited"}
Exists(r) == \E o \in Org : items[o][r] # 0
Stored(r, v) == [items EXCEPT ![Table] = [@ EXCEPT ![r] = v]]
\* A membership that was removed stays in its table.
Restorable(r) == page = "team" /\ items[Table][r] < 0
Addable == {r \in Row : ~Exists(r) \/ Restorable(r)}

\* The API does what is asked.  A removed member can still be given a role, be
\* removed, or be invited again, whoever else's request is on the same row.
Serve(t) ==
  /\ Mutates(t) /\ task[t].at = "sent"
  /\ \E r \in IF task[t].op \in Adds THEN Addable ELSE {task[t].row} :
     LET v == items[Table][r]
         n == Age(v) + 1
         met == {u \in Slot \ {t} : Mutates(u) /\ task[u].row = r} IN
       /\ task[t].op \notin Adds => v > 0 \/ Restorable(r)
       /\ items' = Stored(r, IF task[t].op \in Removes THEN -Age(v)
                             ELSE IF task[t].op \in Adds \/ v > 0 THEN n ELSE -n)
       /\ task' = [s \in Slot |->
            IF s = t THEN Request(task[t].op, "served", r, [Nothing EXCEPT ![r] = n],
                                  task[t].clean /\ met = {})
            ELSE IF s \in met THEN Soiled(task[s]) ELSE task[s]]
  /\ UNCHANGED <<page, org, shown, flags, newest, asked, fresh>>

Unbusy(t) ==
  /\ submitting' = (submitting /\ task[t].op \notin {"add", "checkout"}
                               /\ ~(task[t].op = "remove" /\ page = "research"))
  /\ busy' = (IF page \in {"team", "shops"} /\ task[t].op # "add" THEN NoRow ELSE busy)

\* The catch and finally of a change that was refused, or whose answer is lost.
Refused(t) ==
  /\ \/ Mutates(t) /\ task[t].at = "sent" /\ End(t) /\ UNCHANGED fresh
     \/ /\ Mutates(t) /\ task[t].at = "served"
        /\ task' = [Outdated EXCEPT ![t] = Done] /\ fresh' = [k \in Loads |-> FALSE]
  /\ submitting' = (submitting /\ ~(task[t].op \in {"add", "checkout"}
                                    \/ page \in {"research", "plans"}
                                    \/ (page = "fees" /\ task[t].op = "change")))
  /\ busy' = (IF page \notin {"fees", "plans"} /\ task[t].op \notin Adds THEN NoRow ELSE busy)
  /\ UNCHANGED <<page, org, items, shown, loading, due, dueDetail, newest, asked>>

\* Variant: a removed row stays in the list until it is loaded.
PatchedKeeps(t) ==
  LET r == task[t].row op == task[t].op IN
  /\ page \in Patching /\ task[t].at = "served" /\ End(t) /\ Unbusy(t)
  /\ rows' = (CASE op = "add" -> [rows EXCEPT ![r] = task[t].read[r]]
                [] op = "change" -> [rows EXCEPT ![r] = IF @ = 0 THEN 0 ELSE task[t].read[r]]
                [] op = "remove" -> rows)
  /\ count' = (CASE op = "add" -> count + 1
                 [] op = "change" -> count
                 [] op = "remove" -> IF count = 0 THEN 0 ELSE count - 1)
  /\ selected' = (IF op = "remove" /\ selected = r THEN NoRow ELSE selected)
  /\ fresh' = [fresh EXCEPT !["list"] = @ /\ task[t].clean]
  /\ UNCHANGED <<page, org, items, detail, loading, due, dueDetail, newest, asked>>

\* Appended, replaced or filtered out, with the seat it takes or frees.
Patched(t) ==
  LET r == task[t].row op == task[t].op IN
  /\ page \in Patching /\ task[t].at = "served" /\ End(t) /\ Unbusy(t)
  /\ rows' = (CASE op = "add" -> [rows EXCEPT ![r] = task[t].read[r]]
                [] op = "change" -> [rows EXCEPT ![r] = IF @ = 0 THEN 0 ELSE task[t].read[r]]
                [] op = "remove" -> [rows EXCEPT ![r] = 0])
  /\ count' = (CASE op = "add" -> count + 1
                 [] op = "change" -> count
                 [] op = "remove" -> IF count = 0 THEN 0 ELSE count - 1)
  /\ selected' = (IF op = "remove" /\ selected = r THEN NoRow ELSE selected)
  /\ fresh' = [fresh EXCEPT !["list"] = @ /\ task[t].clean]
  /\ UNCHANGED <<page, org, items, detail, loading, due, dueDetail, newest, asked>>

\* The load after a change: a row in the task stands for what follows it.  A
\* checkout selects its invoice first.
Reload(t) ==
  LET op == task[t].op IN
  /\ page \notin Patching /\ task[t].at = "served"
  /\ task' = With(t, "list", IF op = "toggle" \/ op = "remove" THEN NoRow ELSE task[t].row)
  /\ newest' = [newest EXCEPT !["list"] = t] /\ loading' = TRUE
  /\ IF op = "checkout" THEN Select(task[t].row) ELSE UNCHANGED <<selected, dueDetail>>
  /\ submitting' = (submitting /\ ~(page = "plans" /\ op = "toggle"))
  /\ UNCHANGED <<page, org, items, rows, count, detail, busy, due, asked, fresh>>

\* resetForm and closeModal after a save, the deletion of the row being edited
\* or its deactivation
Close(t) ==
  /\ task[t].op = "close" /\ End(t)
  /\ selected' = NoRow /\ submitting' = FALSE
  /\ UNCHANGED <<page, org, items, rows, count, detail, loading, busy, due, dueDetail,
                 newest, asked, fresh>>

\* The end of handleCheckout and handleRefreshPaymentStatus: the detail.
Open(t) ==
  /\ task[t].op = "open"
  /\ task' = With(t, "detail", task[t].row)
  /\ newest' = [newest EXCEPT !["detail"] = t]
  /\ submitting' = FALSE /\ busy' = NoRow
  /\ UNCHANGED <<page, org, items, shown, loading, due, dueDetail, asked, fresh>>

-----------------------------------------------------------------------------
\* Somebody else changes the tables.
Elsewhere ==
  /\ Ask
  /\ \E r \in Row :
       LET v == items[Table][r] IN
       \/ (v > 0 \/ r \in Addable) /\ items' = Stored(r, Age(v) + 1)
       \/ v > 0 /\ items' = Stored(r, -v)
  /\ task' = Outdated /\ fresh' = [k \in Loads |-> FALSE]
  /\ UNCHANGED <<page, org, shown, flags, newest>>

\* switchOrganization changes the workspace behind the same token: no effect of
\* the page runs again.
Switch ==
  /\ Ask /\ page \notin {"fees", "plans"} /\ org' \in Org \ {org}
  /\ task' = Outdated /\ fresh' = [k \in Loads |-> FALSE]
  /\ UNCHANGED <<page, items, shown, flags, newest>>

Step(t) ==
  \/ Refresh(t) \/ LoadDetail(t) \/ Read(t) \/ Loaded(t) \/ LoadFails(t)
  \/ DetailLoaded(t) \/ DetailFails(t)
  \/ Create(t) \/ Change(t) \/ RemoveMember(t) \/ DeleteBatch(t) \/ Save(t)
  \/ ToggleFee(t) \/ DeleteFee(t) \/ DeactivatePlan(t) \/ Checkout(t) \/ RefreshPayment(t)
  \/ Serve(t) \/ Refused(t) \/ Patched(t) \/ Reload(t) \/ Close(t) \/ Open(t)

Next == (\E t \in Slot : Step(t)) \/ Choose \/ Elsewhere \/ Switch
Spec == Init /\ [][Next]_vars

-----------------------------------------------------------------------------
\* When nothing is under way, the page shows what a reload would show, its
\* rows, seats and the invoice's detail being the tables', however loads,
\* changes, patches and selections have crossed; unless the last answer came
\* later than a newer request's, failed or was lost, a load or a change of the
\* same row met a change that is patched in (the invitation of somebody whose
\* removal is not patched in yet is one), somebody else has changed the tables
\* since, or the workspace was switched under the page.
PageIsCurrent ==
  Quiet =>
    /\ fresh["list"] => rows = View(items[Table])
    /\ fresh["list"] /\ page = "team" => count = Cardinality(Present(rows))
    /\ page = "invoices" /\ fresh["detail"] /\ detail # NoDetail =>
         detail.version = items[Table][detail.row]
=============================================================================
