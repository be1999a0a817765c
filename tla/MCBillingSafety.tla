--------------------------- MODULE MCBillingSafety ---------------------------
(***************************************************************************)
(* Four instances of Billing in one run of TLC: part chooses in the        *)
(* initial state the one that moves.  Each admits other requests, bounds   *)
(* and faults; the constants of the cfg are their union, and what Billing  *)
(* promises is checked of all of them.                                     *)
(***************************************************************************)
EXTENDS MCBilling

VARIABLE part

\* Two requests of any kind over one invoice, on one day.
Callbacks == INSTANCE Billing
  WITH Handler <- {h1, h2}, Invoice <- {i1}, Attempt <- {1}, MaxTime <- 0,
       MaxCrashes <- 0, Requests <- {"checkout", "callback", "refresh"},
       Outcomes <- {"pending", "settlement"},
       ChargeOutcomes <- {"ok", "lost"}

\* Four days of requests beside the background jobs.
Lifecycle == INSTANCE Billing
  WITH Handler <- {h1}, Invoice <- {i1}, Attempt <- {1}, MaxTime <- 3,
       MaxCrashes <- 0, Requests <- {"checkout", "callback", "refresh"},
       Outcomes <- {"settlement", "failed", "expired"},
       ChargeOutcomes <- {"ok", "lost", "refused"}

\* Renewals on two days, one period ahead: charges that remain unanswered (a
\* refused one is one that is never reported) and reports that arrive late.
Renewals == INSTANCE Billing
  WITH Handler <- {h1}, Invoice <- {i1, i2, i3}, Attempt <- {1}, MaxTime <- 1,
       MaxCrashes <- 0, Requests <- {"checkout", "callback"},
       Outcomes <- {"pending", "settlement"},
       ChargeOutcomes <- {"ok", "lost"}, Horizon <- 1

\* A death between any two steps, and deliveries repeated.
Crashes == INSTANCE Billing
  WITH Handler <- {h1}, Invoice <- {i1}, Attempt <- {1, 2}, MaxTime <- 2,
       MaxCrashes <- 1, Requests <- {"checkout", "callback"},
       Outcomes <- {"settlement", "cancelled", "refunded"},
       ChargeOutcomes <- {"ok", "lost", "refused"}

SafetyInit == part \in {"callbacks", "lifecycle", "renewals", "crash"} /\ Init

SafetyNext ==
  /\ \/ part = "callbacks" /\ Callbacks!Next
     \/ part = "lifecycle" /\ Lifecycle!Next
     \/ part = "renewals" /\ Renewals!Next
     \/ part = "crash" /\ Crashes!Next
  /\ UNCHANGED part

SafetySpec == SafetyInit /\ [][SafetyNext]_<<part, vars>>
=============================================================================
