---------------------------- MODULE PayrollLedger ----------------------------
(***************************************************************************)
(* What payroll runs promise of each pay period: at most one run counts at *)
(* a time, a draft can be given up for another one, and a period that has  *)
(* been paid is never paid again.                                          *)
(***************************************************************************)
CONSTANTS Periods, Runs

VARIABLE book  \* book[p]: the runs of p that count, and whether they are paid

Entry(r, paid) == [run |-> r, paid |-> paid]

Init == book = [p \in Periods |-> {}]

Draft(p, r) ==
    /\ book[p] = {}
    /\ book' = [book EXCEPT ![p] = {Entry(r, FALSE)}]

GiveUp(p, r) ==
    /\ book[p] = {Entry(r, FALSE)}
    /\ book' = [book EXCEPT ![p] = {}]

Pay(p, r) ==
    /\ book[p] = {Entry(r, FALSE)}
    /\ book' = [book EXCEPT ![p] = {Entry(r, TRUE)}]

Next == \E p \in Periods, r \in Runs : Draft(p, r) \/ GiveUp(p, r) \/ Pay(p, r)

Spec == Init /\ [][Next]_book
=============================================================================
