---------------------------- MODULE Entitlement ----------------------------
(***************************************************************************)
(* What billing promises an organization about its subscription and the    *)
(* entitlement snapshot, whatever rows, jobs and requests bring it about.  *)
(* Of the gateway it knows the plans whose orders were settled and the     *)
(* statuses heard of any order; of the code, the columns each kind of      *)
(* change may touch and what must have happened before it.                 *)
(***************************************************************************)
EXTENDS Integers

CONSTANTS Plan, Paid, Free, Period, NoTime

VARIABLES
  sub,      \* [plan, status, periodEnd, graceEnd, autoRenew]
  snap,     \* [plan, status]
  bought,   \* plans with a settled order
  heard     \* statuses of orders heard of

vars == <<sub, snap, bought, heard>>

Init ==
  /\ sub = [plan |-> Free, status |-> "TRIALING", periodEnd |-> NoTime,
            graceEnd |-> NoTime, autoRenew |-> FALSE]
  /\ snap = [plan |-> Free, status |-> "none"]
  /\ bought = {} /\ heard = {}

\* The reports that make a subscription wait for a payment, or suspend it.
Causes(status) ==
  CASE status = "PENDING_ACTIVATION" -> {"pending", "failed"}
    [] status = "PAST_DUE" -> {"failed"}
    [] status \in {"GRACE_PERIOD", "EXPIRED"} -> {"expired"}
    [] status = "CANCELED" -> {"cancelled", "refunded"}
    [] OTHER -> {}

\* A paid period was there to end, or an order expired.
Ended == sub.periodEnd # NoTime \/ "expired" \in heard

\* The gateway is heard of an order; a settlement buys its plan.
Hear ==
  /\ heard \subseteq heard' /\ bought \subseteq bought'
  /\ bought' # bought => "settlement" \in heard'
  /\ UNCHANGED <<sub, snap>>

\* A plan is chosen: a priced one awaits its payment, a free one is active.
\* The period that runs is kept.
Choose ==
  /\ \E p \in Plan :
       sub' = [sub EXCEPT !.plan = p, !.autoRenew = p \in Paid, !.graceEnd = NoTime,
                          !.status = IF p \in Paid THEN "PENDING_ACTIVATION" ELSE "ACTIVE"]
  /\ UNCHANGED <<snap, bought, heard>>

\* A plan starts or renews, all columns at once: a priced one was bought, and
\* only a priced one renews itself.
Start ==
  /\ \E p \in Plan :
       /\ p \in Paid => p \in bought
       /\ sub'.autoRenew => p \in Paid
       /\ sub'.periodEnd >= Period[p]
       /\ sub' = [plan |-> p, status |-> "ACTIVE", periodEnd |-> sub'.periodEnd,
                  graceEnd |-> NoTime, autoRenew |-> sub'.autoRenew]
  /\ UNCHANGED <<snap, bought, heard>>

\* A report changes the status; grace, and only grace, has a last day.
Suspend ==
  /\ sub' = [sub EXCEPT !.status = sub'.status, !.graceEnd = sub'.graceEnd]
  /\ Causes(sub'.status) \cap heard # {}
  /\ sub'.status = "GRACE_PERIOD" <=> sub'.graceEnd # NoTime
  /\ UNCHANGED <<snap, bought, heard>>

\* A period is over, and then its grace.
Lapse ==
  /\ Ended
  /\ sub' = [sub EXCEPT !.status = "GRACE_PERIOD", !.graceEnd = sub'.graceEnd]
  /\ sub'.graceEnd # NoTime
  /\ UNCHANGED <<snap, bought, heard>>
Expire ==
  /\ Ended
  /\ sub' = [sub EXCEPT !.status = "EXPIRED"]
  /\ UNCHANGED <<snap, bought, heard>>

\* The snapshot gets a plan and a status the organization may have: an active
\* priced plan was bought, any other status was caused.
Grant ==
  /\ snap'.plan \in Plan
  /\ \/ snap'.status = "ACTIVE" /\ (snap'.plan \in Paid => snap'.plan \in bought)
     \/ Causes(snap'.status) \cap heard # {}
     \/ snap'.status \in {"GRACE_PERIOD", "EXPIRED"} /\ Ended
  /\ UNCHANGED <<sub, bought, heard>>

Next == Hear \/ Choose \/ Start \/ Suspend \/ Lapse \/ Expire \/ Grant
Spec == Init /\ [][Next]_vars
=============================================================================
