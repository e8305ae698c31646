----------------------------- MODULE LeaveLedger -----------------------------
(***************************************************************************)
(* What the leave handlers promise of the tables they share, as if every   *)
(* request were served at one instant and nothing else ran meanwhile: a    *)
(* claim is submitted, decided and perhaps revoked, and each decision      *)
(* moves its cost and marks or clears its days in the same instant. There  *)
(* are no sessions, no locks and no period check in this module.           *)
(***************************************************************************)
EXTENDS Integers

CONSTANTS
    Employees, Requests, Tracked, Day,
    Claims,          \* what is claimed: employee, type, cost and set of days
    InitialBalance, BalanceEdits,
    Edited,          \* employees whose balances an admin may set by hand
    NoRow,           \* attendance of a day without a row
    None             \* no claim, no open page

VARIABLES
    status,   \* status[r]
    claim,    \* claim[r]: what request r claims
    balance,  \* balance[e][t]
    entry,    \* entry[e][d]: clock mark and attendance of a day
    page      \* page[e][t]: the balance an admin is looking at

Shares(c, d) == c.emp = d.emp /\ c.days \cap d.days # {}

Init ==
    /\ status = [r \in Requests |-> "none"]
    /\ claim = [r \in Requests |-> None]
    /\ balance = [e \in Employees |-> [t \in Tracked |-> InitialBalance]]
    /\ entry = [e \in Employees |-> [d \in Day |->
                    [clocked |-> FALSE, attendance |-> NoRow]]]
    /\ page = [e \in Employees |-> [t \in Tracked |-> None]]

(* The life of a claim. *)
Submit(r, c) ==
    /\ status[r] = "none"
    /\ \A q \in Requests :
          status[q] \in {"pending", "approved"} => ~Shares(claim[q], c)
    /\ status' = [status EXCEPT ![r] = "pending"]
    /\ claim' = [claim EXCEPT ![r] = c]
    /\ UNCHANGED <<balance, entry, page>>

Decide(r, old, new) ==
    /\ status[r] = old
    /\ status' = [status EXCEPT ![r] = new]
    /\ UNCHANGED <<claim, page>>

Withdraw(r) == Decide(r, "pending", "cancelled") /\ UNCHANGED <<balance, entry>>
Reject(r) == Decide(r, "pending", "rejected") /\ UNCHANGED <<balance, entry>>

Move(c, delta) ==
    balance' = IF c.type \in Tracked
               THEN [balance EXCEPT ![c.emp][c.type] = @ + delta]
               ELSE balance

Approve(r) ==
    LET c == claim[r] IN
    /\ Decide(r, "pending", "approved")
    /\ c.type \in Tracked => balance[c.emp][c.type] >= c.cost
    /\ Move(c, - c.cost)
    /\ entry' = [entry EXCEPT ![c.emp] = [d \in Day |->
          IF d \in c.days THEN [clocked |-> @[d].clocked, attendance |-> c.type]
                          ELSE @[d]]]

Revoke(r) ==
    LET c == claim[r] IN
    /\ Decide(r, "approved", "cancelled")
    /\ Move(c, c.cost)
    /\ entry' = [entry EXCEPT ![c.emp] = [d \in Day |->
          IF d \in c.days /\ ~@[d].clocked /\ @[d].attendance = c.type
          THEN [clocked |-> FALSE, attendance |-> NoRow]
          ELSE @[d]]]

(* The others that write these tables. A clock-in or an absence mark leaves a
   row on its day and never takes a clock time away. *)
Attend(e, d) ==
    /\ entry'[e][d].attendance # NoRow
    /\ entry[e][d].clocked => entry'[e][d].clocked
    /\ entry' = [entry EXCEPT ![e][d] = entry'[e][d]]
    /\ UNCHANGED <<status, claim, balance, page>>

Open(e, t) ==
    /\ page[e][t] = None
    /\ page' = [page EXCEPT ![e][t] = balance[e][t]]
    /\ UNCHANGED <<status, claim, balance, entry>>

Save(e, t) ==
    /\ page[e][t] # None
    /\ \E b \in BalanceEdits \cup {page[e][t]} :
          balance' = [balance EXCEPT ![e][t] = b]
    /\ page' = [page EXCEPT ![e][t] = None]
    /\ UNCHANGED <<status, claim, entry>>

Next ==
    \/ \E r \in Requests :
          \/ \E c \in Claims : Submit(r, c)
          \/ Withdraw(r)
          \/ Reject(r)
          \/ Approve(r)
          \/ Revoke(r)
    \/ \E e \in Employees, d \in Day : Attend(e, d)
    \/ \E e \in Edited, t \in Tracked : Open(e, t) \/ Save(e, t)

vars == <<status, claim, balance, entry, page>>

Spec == Init /\ [][Next]_vars
=============================================================================
