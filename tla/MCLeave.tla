------------------------------- MODULE MCLeave -------------------------------
(* Small instances of Leave for TLC. *)
EXTENDS Leave, TLC

\* One period that covers the calendar, or none.
WholePeriod == {Day}
NoPeriods == {}

Symmetry == Permutations(Requests) \cup Permutations(Sessions)
=============================================================================
