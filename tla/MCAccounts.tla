----------------------------- MODULE MCAccounts -----------------------------
(* Small instances of PinReset, RateLimit and DeductionDefaults for TLC.   *)
(* They share no variable, so a behaviour of all is one of each up to      *)
(* stuttering, and a behaviour here is one of one of them while the others *)
(* stand still.                                                            *)
EXTENDS PinReset, RateLimit, DeductionDefaults, TLC

CONSTANTS ana, ben, mia, ada

VARIABLE scene

Person(role, manager) == [role |-> role, active |-> TRUE, manager |-> manager]

OneTeam == (ana :> Person("employee", mia)) @@ (ben :> Person("employee", mia))
           @@ (mia :> Person("manager", ada)) @@ (ada :> Person("admin", None))

(* The employee moved to the administrator, and one who is gone.           *)
Moved == [OneTeam EXCEPT ![ana].manager = ada, ![ben].active = FALSE]

TwoRosters == {OneTeam, Moved}

(* What stands still starts one way only.                                  *)
Init ==
    /\ scene \in {"pin reset", "limits", "defaults"}
    /\ PinInit /\ LimitInit /\ DefaultInit
    /\ scene # "pin reset" => team = OneTeam
    /\ scene # "limits" => ~shared

Next ==
    /\ UNCHANGED scene
    /\ \/ scene = "pin reset" /\ PinNext /\ UNCHANGED <<limitVars, defaultVars>>
       \/ scene = "limits" /\ LimitNext /\ UNCHANGED <<pinVars, defaultVars>>
       \/ scene = "defaults" /\ DefaultNext /\ UNCHANGED <<pinVars, limitVars>>

Spec == Init /\ [][Next]_<<scene, pinVars, limitVars, defaultVars>>

Symmetry == Permutations(Attempts)
=============================================================================
