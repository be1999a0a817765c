----------------------------- MODULE Credential -----------------------------
(***************************************************************************)
(* What a bearer credential promises: it is issued once, it can be used    *)
(* until it is revoked, and a revoked one is never usable again.           *)
(***************************************************************************)
CONSTANT Id

VARIABLES usable, revoked

Init == usable = {} /\ revoked = {}

\* A credential nobody has seen before.
Issue(i) ==
  /\ i \notin usable \cup revoked
  /\ usable' = usable \cup {i}
  /\ revoked' = revoked

\* One action may end several credentials, usable or not yet issued.
Revoke(S) ==
  /\ usable' = usable \ S
  /\ revoked' = revoked \cup S

Next == (\E i \in Id : Issue(i)) \/ (\E S \in SUBSET Id : Revoke(S))

Spec == Init /\ [][Next]_<<usable, revoked>>
=============================================================================
