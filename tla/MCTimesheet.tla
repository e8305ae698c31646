---------------------------- MODULE MCTimesheet ----------------------------
(* Small instances of Timesheet for TLC. *)
EXTENDS Timesheet, TLC

\* Eight o'clock, twenty minutes later (less than the break) and six in the
\* evening (overtime from either).
ThreeTimes == {480, 500, 1080}

Usual == [break |-> 60, threshold |-> 480, grace |-> 5, approval |-> TRUE]
NoApproval == [Usual EXCEPT !.approval = FALSE]
BothSettings == {Usual, NoApproval}

EightToFive == [start |-> 480, end |-> 1020]
OneShift == {EightToFive}

Symmetry == Permutations(Sessions)
=============================================================================
