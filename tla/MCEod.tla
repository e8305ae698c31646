------------------------------- MODULE MCEod --------------------------------
(* Small instances of Eod for TLC. *)
EXTENDS Eod, TLC

CONSTANTS ana, ben, mia, ada

Person(role, manager) == [role |-> role, active |-> TRUE, manager |-> manager]

(* Two employees of one manager, who reports to the administrator. *)
OneTeam == (ana :> Person("employee", mia)) @@ (ben :> Person("employee", mia))
           @@ (mia :> Person("manager", ada)) @@ (ada :> Person("admin", None))

(* The manager demoted, and an employee left with one who is gone. *)
Scattered == [OneTeam EXCEPT ![mia].role = "employee", ![ana].manager = ben,
                             ![ben].active = FALSE]

TwoRosters == {OneTeam, Scattered}

Symmetry == Permutations(Saves)
=============================================================================
