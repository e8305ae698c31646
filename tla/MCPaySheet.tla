----------------------------- MODULE MCPaySheet -----------------------------
(* Small instances of PaySheet and Compensation for TLC. They share no     *)
(* variable: in a behaviour here one of them runs and the other stands     *)
(* still.                                                                  *)
EXTENDS PaySheet, Compensation, TLC

VARIABLE scene

Both == {"sss", "wht"}
TheSettings ==
    {[pay |-> "semimonthly", premiums |-> {"holiday", "rest_day", "night_diff"}, gov |-> Gov],
     [pay |-> "weekly", premiums |-> {"night_diff"}, gov |-> Both],
     [pay |-> "monthly", premiums |-> {}, gov |-> {}]}

\* 524,999 and 525,000 lie on both sides of a step of the SSS table.
SomeSalaries == {None, 50000, 524999, 525000, 2600000}

Day(in, out, regular, ot, ot_status, mark) ==
    [in |-> in, out |-> out, regular |-> regular, ot |-> ot, status |-> ot_status, mark |-> mark]

\* No entry, a night shift of 8 hours, ten hours from 14:00 with overtime, and
\* two marks. Instants are half minutes: 120 to the hour.
SomeDays ==
    {Day(None, None, 0, 0, "none", "none"),
     Day(2520, 3600, 480, 0, "none", "none"),
     Day(None, None, 0, 0, "none", "no_show"),
     Day(None, None, 0, 0, "none", "lwop")}
    \cup {Day(1681, 3001, 480, 120, s, "none") : s \in {"pending", "approved", "rejected"}}

SomeHires == {None, 5, 16}
SomeSeparations == {None, 0, 4}
TheFirst ==
    {r \in Records : /\ r.hired = None /\ r.separated = None
                     /\ r.active /\ ~r.holiday /\ r.rest
                     /\ r.salary \in {None, 2600000}}

MoreDays == 0..3

\* What stands still starts one way only.
SceneInit ==
    /\ scene \in {"line", "rates"}
    /\ Init /\ ProfileInit
    /\ scene = "rates" => now = CHOOSE r \in First : TRUE

SceneNext ==
    /\ UNCHANGED scene
    /\ \/ scene = "line" /\ Next /\ UNCHANGED profileVars
       \/ scene = "rates" /\ ProfileNext /\ UNCHANGED vars

SceneSpec == SceneInit /\ [][SceneNext]_<<scene, vars, profileVars>>

Symmetry == Permutations(Rates) \cup Permutations(Sessions)
=============================================================================
