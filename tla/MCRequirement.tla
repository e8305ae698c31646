---------------------------- MODULE MCRequirement ---------------------------
(* Small instances of Requirement for TLC. *)
EXTENDS Requirement, TLC

CONSTANTS e1, m1, a1

(* The fields are in the order of their names, which TLC keeps them in.     *)
Staff(active, manager) ==
    [v \in People |->
        CASE v = e1 -> [active |-> active, manager |-> manager, role |-> "employee"]
          [] v = m1 -> [active |-> TRUE, manager |-> None, role |-> "manager"]
          [] OTHER -> [active |-> TRUE, manager |-> None, role |-> "admin"]]

\* The employee is active, or has left; m1 is the manager in both.
TwoRosters == {Staff(TRUE, m1), Staff(FALSE, m1)}

Symmetry == Permutations(Submits) \cup Permutations(Reviews)
=============================================================================
