------------------------------ MODULE MCQuota ------------------------------
(***************************************************************************)
(* An instance of Quota for TLC: two registrations in flight over three    *)
(* shops and one plan.                                                     *)
(***************************************************************************)
EXTENDS Quota, TLC

CONSTANTS h1, h2, owner, s1, s2, s3, p1, freeMonthly

MCShopSymmetry == Permutations(Handler) \cup Permutations(Shop)
=============================================================================
