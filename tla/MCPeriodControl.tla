--------------------------- MODULE MCPeriodControl ---------------------------
(* Small instances of PeriodControl for TLC. *)
EXTENDS PeriodControl, TLC

\* A half of January 2024, the month, a fortnight that shares one day with the
\* half, and a range with its dates swapped.
FirstHalf == [first |-> 1, last |-> 15]
January == [first |-> 1, last |-> 31]
Fortnight == [first |-> 15, last |-> 28]
Swapped == [first |-> 20, last |-> 10]
JanuaryForms == {FirstHalf, January, Fortnight, Swapped}

\* The anchor of the fortnights is inside the calendar, so that dates before
\* it count too.
Semimonthly == [pay_period |-> "semimonthly", anchor |-> 1]
AllSettings == [pay_period : PayPeriodTypes, anchor : {1, 400}]
JanuarySettings == [pay_period : {"semimonthly", "monthly", "biweekly"}, anchor : {1}]

\* The pay periods of every setting split the calendar: each date is in its
\* own period, and every date of that period has the same one. So a range is
\* the pay period of its last day exactly when it is a pay period, and the
\* canonical ranges of one setting never overlap (reports/period.rs).
PeriodsPartition ==
    \A f \in AllSettings : \A d \in Calendar :
        LET p == current_pay_period(d, f) IN
        /\ d \in Dates(p)
        /\ \A e \in Dates(p) \cap Calendar : current_pay_period(e, f) = p

ASSUME CalendarSplits == PeriodsPartition

Symmetry == Permutations(Runs) \cup Permutations(Sessions)
=============================================================================
