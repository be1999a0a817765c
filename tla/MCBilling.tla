----------------------------- MODULE MCBilling -----------------------------
(***************************************************************************)
(* Instances of Billing for TLC: a free and a priced plan, one or two      *)
(* requests in flight, one to three invoice rows.                          *)
(***************************************************************************)
EXTENDS Billing, TLC

CONSTANTS h1, h2, i1, i2, i3, free, pro

MCPeriod == [p \in Plan |-> 1]

\* Rows and requests are interchangeable.
MCSymmetry == Permutations(Handler) \cup Permutations(Invoice)
=============================================================================
