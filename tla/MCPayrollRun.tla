---------------------------- MODULE MCPayrollRun ----------------------------
(* Small instances of PayrollRun for TLC. *)
EXTENDS PayrollRun, TLC

\* Gross pay grows with the minutes and with the premium input.
SmallGross(w) == w.minutes + w.premium

Plain == [minutes |-> 2, pending |-> FALSE, lwop |-> FALSE, premium |-> 0]
WithLwop == [Plain EXCEPT !.minutes = 3, !.lwop = TRUE]
WithPending == [Plain EXCEPT !.pending = TRUE]

OneSheet == {Plain}
AllSheets == {Plain, WithLwop, WithPending}

NoDefault == [t \in Manual |-> 0]
OneDefault == [t \in Manual |-> 1]

\* Amounts typed by an admin, one of them negative.
Signed == {-1, 1}

\* Automatic deductions of a paid employee, and toggles.
On == [t \in Automatic |-> 1]
OnlyOn == {On}
OnOrUnpaid == {On, None}
AllOn == {Gov}
AllToggles == SUBSET Gov

\* Bound of the run with races: a save begins while one run is there. A second
\* run follows a void of the first, whose handlers may still be at work.
SaveInOneRun ==
    (\A r \in Runs : status[r] # "none") =>
        \A s \in Sessions : job[s].at = "idle" => job'[s].at # "save"
RaceSpec == Init /\ [][Next /\ SaveInOneRun]_vars

Symmetry == Permutations(Runs) \cup Permutations(Sessions)
=============================================================================
