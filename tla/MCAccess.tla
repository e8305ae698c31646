------------------------------ MODULE MCAccess ------------------------------
(* Small instances of Access for TLC. *)
EXTENDS Access, TLC

CONSTANTS a1, a2, b1, b2, p1

TwoOwners == (b1 :> a1) @@ (b2 :> a2)
OneProcess == [b \in {b1, b2} |-> {p1}]
OneReset == (a1 :> 1) @@ (a2 :> 1)
=============================================================================
