------------------------------- MODULE Leave -------------------------------
(***************************************************************************)
(* Leave requests, leave balances and the attendance days they write       *)
(* (services/leave.rs, services/leave_balances.rs, services/attendance.rs).*)
(*                                                                         *)
(* Every statement the code runs on the connection pool is its own READ    *)
(* COMMITTED transaction, so a handler is a sequence of steps that other   *)
(* handlers interleave with: pc[s] is the step session s is about to run.  *)
(* Inside pool.begin() .. commit() the writes become visible together, at  *)
(* the commit, while the row locks are held from the statement that took   *)
(* them; HoldsRequest and HoldsBalance are those locks.                    *)
(*                                                                         *)
(* A handler whose first check fails changes nothing, so it is no step;    *)
(* one whose later check fails goes back to "idle".                        *)
(***************************************************************************)
EXTENDS Integers, FiniteSets, FiniteSetsExt

CONSTANTS
    Employees,       \* employees who ask for leave
    Requests,        \* ids of leave_requests rows
    Sessions,        \* HTTP requests being served at the same time
    LastDay,         \* the calendar is 1..LastDay
    Periods,         \* sets of days that can be closed, one per period row
    Tracked,         \* leave types with a balance
    Untracked,       \* leave types without one
    OtherMarks,      \* absence marks that are not leave types
    InitialBalance,  \* tenths of a day seeded when an employee is created
    Edited,          \* employees whose edit page an admin opens
    BalanceEdits,    \* tenths an admin may type into the balance fields
    None             \* no form, no request, no open page

Day == 1..LastDay
LeaveTypes == Tracked \cup Untracked
Worked == "worked"
NoRow == "no_row"
Attendance == LeaveTypes \cup OtherMarks \cup {Worked, NoRow}

\* A submitted form. The handler turns half days off when the range has more
\* than one day, and the end may not precede the start.
Form == {f \in [emp : Employees, first : Day, last : Day,
                half : BOOLEAN, type : LeaveTypes] :
            /\ f.first <= f.last
            /\ f.half => f.first = f.last}

ASSUME LeaveAssumption ==
    /\ LastDay \in Nat
    /\ Tracked \cap Untracked = {}
    /\ {Worked, NoRow} \cap (LeaveTypes \cup OtherMarks) = {}
    /\ Periods \subseteq SUBSET Day
    /\ InitialBalance \in Nat
    /\ Edited \subseteq Employees
    /\ BalanceEdits \subseteq Nat
    /\ None \notin Form
    /\ None \notin Requests
    /\ None \notin Nat

VARIABLES
    status,    \* status[r]: "none" until the row is inserted
    form,      \* form[r]: dates, portion and type of the row
    balance,   \* balance[e][t]: employee_leave_balances, tenths of a day
    entry,     \* entry[e][d]: the time_entries row of e on d
    closed,    \* the rows of closed_pay_periods
    page,      \* page[e][t]: balance shown on an open "edit employee" page
    pc,        \* pc[s]: next step of session s
    req,       \* req[s]: request row that s reviews or revokes
    draft,     \* draft[s]: form that s submits
    snapshot,  \* snapshot[s]: balance read by s
    seen       \* seen[s]: days whose row s has read inside its transaction

vars == <<status, form, balance, entry, closed, page,
          pc, req, draft, snapshot, seen>>
days == <<entry, closed>>

Statuses == {"none", "pending", "approved", "rejected", "cancelled"}
Live == {"pending", "approved"}
CreateSteps == {"create_editable", "create_balance", "create_reserved",
                "create_insert"}
LockSteps == {"review_deduct", "review_write", "revoke_write"}
RowSteps == {"review_editable", "review_reject", "review_lock",
             "revoke_editable", "revoke_lock"} \cup LockSteps
Steps == {"idle"} \cup CreateSteps \cup RowSteps

TypeOK ==
    /\ status \in [Requests -> Statuses]
    /\ form \in [Requests -> Form \cup {None}]
    /\ balance \in [Employees -> [Tracked -> Nat]]
    /\ entry \in [Employees -> [Day ->
                    [clocked : BOOLEAN, attendance : Attendance]]]
    /\ closed \subseteq Periods
    /\ page \in [Employees -> [Tracked -> Nat \cup {None}]]
    /\ pc \in [Sessions -> Steps]
    /\ req \in [Sessions -> Requests \cup {None}]
    /\ draft \in [Sessions -> Form \cup {None}]
    /\ snapshot \in [Sessions -> Nat]
    /\ seen \in [Sessions -> SUBSET Day]

Init ==
    /\ status = [r \in Requests |-> "none"]
    /\ form = [r \in Requests |-> None]
    /\ balance = [e \in Employees |-> [t \in Tracked |-> InitialBalance]]
    /\ entry = [e \in Employees |-> [d \in Day |->
                    [clocked |-> FALSE, attendance |-> NoRow]]]
    /\ closed = {}
    /\ page = [e \in Employees |-> [t \in Tracked |-> None]]
    /\ pc = [s \in Sessions |-> "idle"]
    /\ req = [s \in Sessions |-> None]
    /\ draft = [s \in Sessions |-> None]
    /\ snapshot = [s \in Sessions |-> 0]
    /\ seen = [s \in Sessions |-> {}]

(***************************************************************************)
(* What the handlers compute from a form and from the tables.              *)
(***************************************************************************)
Span(f) == f.first .. f.last
tracks_balance(t) == t \in Tracked
requested_leave_tenths(f) ==
    IF f.half THEN 5 ELSE 10 * (f.last - f.first + 1)

\* What an approval of f takes from the balance, and a revoke gives back.
Cost(f) == IF tracks_balance(f.type) THEN requested_leave_tenths(f) ELSE 0

Overlaps(f, g) == /\ f.emp = g.emp
                  /\ f.first <= g.last
                  /\ g.first <= f.last

has_overlapping_request(f) ==
    \E r \in Requests : status[r] \in Live /\ Overlaps(form[r], f)

\* Mutant: the schema before migration 029, without the constraint.
NoExclusionConstraint(f) == FALSE

\* The exclusion constraint leave_requests_no_overlap_pending_approved.
ViolatesExclusion(f) == has_overlapping_request(f)

is_period_closed(f) == \E p \in closed : p \cap Span(f) # {}

pending_leave_tenths(f) ==
    MapThenSumSet(LAMBDA r : requested_leave_tenths(form[r]),
        {r \in Requests : /\ status[r] = "pending"
                          /\ form[r].emp = f.emp
                          /\ form[r].type = f.type})

HasRow(e, d) == entry[e][d].attendance # NoRow

(***************************************************************************)
(* Steps of a session.                                                     *)
(***************************************************************************)
Goto(s, to) == pc' = [pc EXCEPT ![s] = to]

\* The handler returns, with success or with an error: a transaction that is
\* still open rolls back and its locks go.
Return(s) ==
    /\ Goto(s, "idle")
    /\ req' = [req EXCEPT ![s] = None]
    /\ draft' = [draft EXCEPT ![s] = None]
    /\ snapshot' = [snapshot EXCEPT ![s] = 0]
    /\ seen' = [seen EXCEPT ![s] = {}]

\* Row lock on a leave request: SELECT .. FOR UPDATE, held to the commit.
HoldsRequest(s, r) == pc[s] \in LockSteps /\ req[s] = r

RequestFree(s, r) == \A t \in Sessions \ {s} : ~HoldsRequest(t, r)

\* Row lock on a balance: taken by the deducting UPDATE, held to the commit.
HoldsBalance(s, e, t) ==
    /\ pc[s] = "review_write"
    /\ form[req[s]].emp = e
    /\ form[req[s]].type = t

BalanceFree(s, e, t) == \A u \in Sessions \ {s} : ~HoldsBalance(u, e, t)

\* Bound of the model: no more creations under way than unused request ids.
UnusedIds == Cardinality({r \in Requests : status[r] = "none"})
                > Cardinality({t \in Sessions : pc[t] \in CreateSteps})

(* create_request: overlap check, period check, balance check, INSERT. *)
CreateBegin(s) ==
    /\ pc[s] = "idle"
    /\ UnusedIds
    /\ \E f \in Form : /\ ~has_overlapping_request(f)
                       /\ draft' = [draft EXCEPT ![s] = f]
    /\ Goto(s, "create_editable")
    /\ UNCHANGED <<status, form, balance, days, page, req, snapshot, seen>>

CreateAssertEditable(s) ==
    /\ pc[s] = "create_editable"
    /\ \/ /\ is_period_closed(draft[s])
          /\ Return(s)
       \/ /\ ~is_period_closed(draft[s])
          /\ Goto(s, IF tracks_balance(draft[s].type) THEN "create_balance"
                                                      ELSE "create_insert")
          /\ UNCHANGED <<req, draft, snapshot, seen>>
    /\ UNCHANGED <<status, form, balance, days, page>>

CreateReadBalance(s) ==
    /\ pc[s] = "create_balance"
    /\ snapshot' = [snapshot EXCEPT
                      ![s] = balance[draft[s].emp][draft[s].type]]
    /\ Goto(s, "create_reserved")
    /\ UNCHANGED <<status, form, balance, days, page, req, draft, seen>>

Sufficient(s) == snapshot[s] - pending_leave_tenths(draft[s])
                    >= requested_leave_tenths(draft[s])

CreateAssertSufficient(s) ==
    /\ pc[s] = "create_reserved"
    /\ \/ /\ ~Sufficient(s)
          /\ Return(s)
       \/ /\ Sufficient(s)
          /\ Goto(s, "create_insert")
          /\ UNCHANGED <<req, draft, snapshot, seen>>
    /\ UNCHANGED <<status, form, balance, days, page>>

CreateInsert(s) ==
    /\ pc[s] = "create_insert"
    /\ Return(s)
    /\ \/ /\ ViolatesExclusion(draft[s])
          /\ UNCHANGED <<status, form>>
       \/ /\ ~ViolatesExclusion(draft[s])
          /\ \E r \in Requests :
                /\ status[r] = "none"
                /\ status' = [status EXCEPT ![r] = "pending"]
                /\ form' = [form EXCEPT ![r] = draft[s]]
    /\ UNCHANGED <<balance, days, page>>

(* cancel_request, first statement: the owner withdraws a pending request.
   When it matches no row the handler goes on as RevokeBegin. *)
CancelPending(s) ==
    /\ pc[s] = "idle"
    /\ \E r \in Requests :
          /\ status[r] = "pending"
          /\ RequestFree(s, r)
          /\ status' = [status EXCEPT ![r] = "cancelled"]
    /\ UNCHANGED <<form, balance, days, page, pc, req, draft, snapshot, seen>>

(* review_request: status read, period check when approving, then one
   transaction: lock the request, deduct, mark the days, set the status. *)
ReviewBegin(s) ==
    /\ pc[s] = "idle"
    /\ \E r \in Requests :
          /\ status[r] = "pending"
          /\ req' = [req EXCEPT ![s] = r]
    /\ \/ Goto(s, "review_editable")
       \/ Goto(s, "review_reject")
    /\ UNCHANGED <<status, form, balance, days, page, draft, snapshot, seen>>

ReviewAssertEditable(s) ==
    /\ pc[s] = "review_editable"
    /\ \/ /\ is_period_closed(form[req[s]])
          /\ Return(s)
       \/ /\ ~is_period_closed(form[req[s]])
          /\ Goto(s, "review_lock")
          /\ UNCHANGED <<req, draft, snapshot, seen>>
    /\ UNCHANGED <<status, form, balance, days, page>>

ReviewReject(s) ==
    /\ pc[s] = "review_reject"
    /\ RequestFree(s, req[s])
    /\ status' = [status EXCEPT ![req[s]] =
                    IF @ = "pending" THEN "rejected" ELSE @]
    /\ Return(s)
    /\ UNCHANGED <<form, balance, days, page>>

ReviewLock(s) ==
    /\ pc[s] = "review_lock"
    /\ RequestFree(s, req[s])
    /\ \/ /\ status[req[s]] # "pending"
          /\ Return(s)
       \/ /\ status[req[s]] = "pending"
          /\ Goto(s, "review_deduct")
          /\ UNCHANGED <<req, draft, snapshot, seen>>
    /\ UNCHANGED <<status, form, balance, days, page>>

(* The deducting UPDATE waits for the balance row and refuses when it holds
   less than the cost; then every day's row is read. A clock-in can commit
   between the SELECT of a day and its write, never after the write, so
   reading all days here and writing them all at the commit gives the same
   outcomes as the loop over the days. *)
ReviewDeduct(s) ==
    LET f == form[req[s]]
        Refused ==
            \/ tracks_balance(f.type) /\ balance[f.emp][f.type] < Cost(f)
            \/ \E d \in Span(f) : entry[f.emp][d].clocked
    IN
    /\ pc[s] = "review_deduct"
    /\ BalanceFree(s, f.emp, f.type)
    /\ \/ /\ Refused
          /\ Return(s)
       \/ /\ ~Refused
          /\ seen' = [seen EXCEPT ![s] = {d \in Span(f) : HasRow(f.emp, d)}]
          /\ Goto(s, "review_write")
          /\ UNCHANGED <<req, draft, snapshot>>
    /\ UNCHANGED <<status, form, balance, days, page>>

\* The days of f as the approval leaves them: UPDATE by id of a row that was
\* read (nothing, if it has gone), INSERT of a row that was not there.
MarkedDays(f, old) ==
    [entry EXCEPT ![f.emp] = [d \in Day |->
        IF d \in Span(f) /\ (d \in old => HasRow(f.emp, d))
        THEN [clocked |-> @[d].clocked, attendance |-> f.type]
        ELSE @[d]]]

ChargedBalance(f, delta) ==
    IF tracks_balance(f.type)
    THEN [balance EXCEPT ![f.emp][f.type] = @ + delta]
    ELSE balance

(* Writes and commit. An INSERT that meets a row created since the read breaks
   UNIQUE (employee_id, work_date) and rolls the whole transaction back. *)
ReviewWrite(s) ==
    LET f == form[req[s]]
        Collides == \E d \in Span(f) \ seen[s] : HasRow(f.emp, d)
    IN
    /\ pc[s] = "review_write"
    /\ Return(s)
    /\ \/ /\ Collides
          /\ UNCHANGED <<status, balance, entry>>
       \/ /\ ~Collides
          /\ status' = [status EXCEPT ![req[s]] = "approved"]
          /\ balance' = ChargedBalance(f, - Cost(f))
          /\ entry' = MarkedDays(f, seen[s])
    /\ UNCHANGED <<form, closed, page>>

(* revoke_approved_request, by a reviewer or by the owner through
   cancel_request: status read, period check, then one transaction: lock the
   request, refund, delete the absence rows, set the status. *)
RevokeBegin(s) ==
    /\ pc[s] = "idle"
    /\ \E r \in Requests :
          /\ status[r] = "approved"
          /\ req' = [req EXCEPT ![s] = r]
    /\ Goto(s, "revoke_editable")
    /\ UNCHANGED <<status, form, balance, days, page, draft, snapshot, seen>>

RevokeAssertEditable(s) ==
    /\ pc[s] = "revoke_editable"
    /\ \/ /\ is_period_closed(form[req[s]])
          /\ Return(s)
       \/ /\ ~is_period_closed(form[req[s]])
          /\ Goto(s, "revoke_lock")
          /\ UNCHANGED <<req, draft, snapshot, seen>>
    /\ UNCHANGED <<status, form, balance, days, page>>

\* Mutant: the status is checked before the transaction only.
RevokeLockUnchecked(s) ==
    /\ pc[s] = "revoke_lock"
    /\ RequestFree(s, req[s])
    /\ Goto(s, "revoke_write")
    /\ UNCHANGED <<status, form, balance, days, page, req, draft, snapshot, seen>>

\* Mutant: a locking read that finds no approved row waits for one.
RevokeLockWaits(s) ==
    /\ pc[s] = "revoke_lock"
    /\ RequestFree(s, req[s])
    /\ status[req[s]] = "approved"
    /\ Goto(s, "revoke_write")
    /\ UNCHANGED <<status, form, balance, days, page, req, draft, snapshot, seen>>

RevokeLock(s) ==
    /\ pc[s] = "revoke_lock"
    /\ RequestFree(s, req[s])
    /\ \/ /\ status[req[s]] # "approved"
          /\ Return(s)
       \/ /\ status[req[s]] = "approved"
          /\ Goto(s, "revoke_write")
          /\ UNCHANGED <<req, draft, snapshot, seen>>
    /\ UNCHANGED <<status, form, balance, days, page>>

\* clear_leave_absence: only rows without clock times that still carry the
\* attendance of the leave are deleted.
ClearedDays(f) ==
    [entry EXCEPT ![f.emp] = [d \in Day |->
        IF d \in Span(f) /\ ~@[d].clocked /\ @[d].attendance = f.type
        THEN [clocked |-> FALSE, attendance |-> NoRow]
        ELSE @[d]]]

RevokeWrite(s) ==
    LET f == form[req[s]] IN
    /\ pc[s] = "revoke_write"
    /\ BalanceFree(s, f.emp, f.type)
    /\ status' = [status EXCEPT ![req[s]] = "cancelled"]
    /\ balance' = ChargedBalance(f, Cost(f))
    /\ entry' = ClearedDays(f)
    /\ Return(s)
    /\ UNCHANGED <<form, closed, page>>

(***************************************************************************)
(* Statements of other handlers on the tables the leave handlers use.      *)
(***************************************************************************)
\* The upsert that ends clock_in: it takes over an absence row of the day. Two
\* racing clock-ins both upsert; the second changes nothing that is kept here.
ClockInUpsert(e, d) ==
    /\ ~entry[e][d].clocked
    /\ entry' = [entry EXCEPT ![e][d] = [clocked |-> TRUE,
                                         attendance |-> Worked]]
    /\ UNCHANGED <<status, form, balance, closed, page,
                   pc, req, draft, snapshot, seen>>

\* The write that ends a manager's absence mark. Its clock-in check read the
\* row one statement earlier, so the row may have been clocked by now.
AbsenceWrite(e, d, a) ==
    /\ entry[e][d].attendance # a
    /\ entry' = [entry EXCEPT ![e][d].attendance = a]
    /\ UNCHANGED <<status, form, balance, closed, page,
                   pc, req, draft, snapshot, seen>>

ClosePeriod(p) ==
    /\ p \notin closed
    /\ closed' = closed \cup {p}
    /\ UNCHANGED <<status, form, balance, entry, page,
                   pc, req, draft, snapshot, seen>>

\* Payroll runs may refuse a reopen (module PayrollRun); here it may come at
\* any time.
ReopenPeriod(p) ==
    /\ p \in closed
    /\ closed' = closed \ {p}
    /\ UNCHANGED <<status, form, balance, entry, page,
                   pc, req, draft, snapshot, seen>>

(* An admin opens "edit employee", which renders each balance into a field,
   and saves it: set_balance writes each field back as an absolute value,
   whether the admin typed into it or not, in a statement of its own. *)
OpenPage(e, t) ==
    /\ page[e][t] = None
    /\ page' = [page EXCEPT ![e][t] = balance[e][t]]
    /\ UNCHANGED <<status, form, balance, days, pc, req, draft, snapshot, seen>>

SavePage(e, t) ==
    /\ page[e][t] # None
    /\ \A s \in Sessions : ~HoldsBalance(s, e, t)
    /\ \E shown \in BalanceEdits \cup {page[e][t]} :
          balance' = [balance EXCEPT ![e][t] = shown]
    /\ page' = [page EXCEPT ![e][t] = None]
    /\ UNCHANGED <<status, form, days, pc, req, draft, snapshot, seen>>

(***************************************************************************)
(* The specification.                                                      *)
(***************************************************************************)
Begin(s) == CreateBegin(s) \/ CancelPending(s) \/ ReviewBegin(s) \/ RevokeBegin(s)

Advance(s) ==
    \/ CreateAssertEditable(s)
    \/ CreateReadBalance(s)
    \/ CreateAssertSufficient(s)
    \/ CreateInsert(s)
    \/ ReviewAssertEditable(s)
    \/ ReviewReject(s)
    \/ ReviewLock(s)
    \/ ReviewDeduct(s)
    \/ ReviewWrite(s)
    \/ RevokeAssertEditable(s)
    \/ RevokeLock(s)
    \/ RevokeWrite(s)

Environment ==
    \/ \E e \in Employees, d \in Day :
          \/ ClockInUpsert(e, d)
          \/ \E a \in LeaveTypes \cup OtherMarks : AbsenceWrite(e, d, a)
    \/ \E p \in Periods : ClosePeriod(p) \/ ReopenPeriod(p)
    \/ \E e \in Edited, t \in Tracked : OpenPage(e, t) \/ SavePage(e, t)

Next == \/ \E s \in Sessions : Begin(s) \/ Advance(s)
        \/ Environment

Spec == Init /\ [][Next]_vars

\* Users start what they like; a handler that has started runs on, and
\* PostgreSQL grants a row lock to its waiters in the order they came, so a
\* waiting session is not overtaken for ever.
FairSpec == Spec /\ \A s \in Sessions : SF_vars(Advance(s))

(***************************************************************************)
(* Properties.                                                             *)
(***************************************************************************)
\* No two pending or approved requests of one employee share a day, whatever
\* submits, reviews, cancels and revokes overlap in time (leave.rs:147-172 and
\* the exclusion constraint of migration 029).
LiveLeaveDisjoint ==
    \A q, r \in Requests :
        /\ q # r
        /\ status[q] \in Live
        /\ status[r] \in Live
        => ~Overlaps(form[q], form[r])

(***************************************************************************)
(* The strengthening of LiveLeaveDisjoint that the transactions preserve.  *)
(***************************************************************************)
\* The rows a session works on exist.
RowsKnown ==
    /\ \A r \in Requests : status[r] # "none" => form[r] \in Form
    /\ \A s \in Sessions :
          /\ pc[s] \in CreateSteps => draft[s] \in Form
          /\ pc[s] = "create_balance" => tracks_balance(draft[s].type)
          /\ pc[s] \in RowSteps => /\ req[s] \in Requests
                                   /\ status[req[s]] # "none"

\* One session holds the lock of a request, and while it does the status it
\* checked stands.
RequestLocks ==
    \A s \in Sessions :
        /\ pc[s] \in {"review_deduct", "review_write"} =>
              status[req[s]] = "pending"
        /\ pc[s] = "revoke_write" => status[req[s]] = "approved"
        /\ \A t \in Sessions :
              s # t /\ pc[s] \in LockSteps /\ pc[t] \in LockSteps =>
                 req[s] # req[t]

\* One session holds the lock of a balance, and the balance covers its charge.
BalanceLocks ==
    \A s \in Sessions : \A e \in Employees, t \in Tracked :
        HoldsBalance(s, e, t) =>
            /\ balance[e][t] >= Cost(form[req[s]])
            /\ BalanceFree(s, e, t)

\* The rows that an approval is about to UPDATE are still there.
SeenRowsStay ==
    \A s \in Sessions : \A d \in Day :
        pc[s] = "review_write" /\ d \in seen[s] =>
            HasRow(form[req[s]].emp, d) /\ d \in Span(form[req[s]])

LeaveInv == /\ TypeOK
            /\ RowsKnown
            /\ LiveLeaveDisjoint
            /\ RequestLocks
            /\ BalanceLocks
            /\ SeenRowsStay

\* What request r holds of its employee's balance.
Charge(r) == IF status[r] = "approved" THEN Cost(form[r]) ELSE 0

\* A step that changes what requests hold of a balance changes one request
\* and moves exactly that amount between it and the balance; nothing else but
\* an admin's save moves a balance. So no approval is deducted twice, none is
\* refunded twice and no deduction is lost, however reviewers, owners and
\* revokers race (leave.rs:362-464, 287-340, leave_balances.rs:252-309).
LedgerBalanced ==
    [][ \A e \in Employees, t \in Tracked :
          \/ page[e][t] # None /\ page'[e][t] = None
          \/ /\ balance'[e][t] = balance[e][t]
             /\ \A r \in Requests :
                   form[r] # None /\ form[r].emp = e /\ form[r].type = t
                     => Charge(r)' = Charge(r)
          \/ \E r \in Requests :
                /\ form[r] # None /\ form[r].emp = e /\ form[r].type = t
                /\ balance'[e][t] + Charge(r)' = balance[e][t] + Charge(r)
                /\ \A q \in Requests \ {r} : Charge(q)' = Charge(q)
      ]_vars

\* The approval of a request leaves every one of its days with a row that
\* carries the attendance of the leave: no UPDATE of a row that has vanished
\* meanwhile, no day left out (leave.rs:411-434, attendance.rs:132-170).
ApprovalMarksEveryDay ==
    [][ \A r \in Requests :
          status[r] = "pending" /\ status'[r] = "approved" =>
            \A d \in Span(form[r]) :
                entry'[form[r].emp][d].attendance = form[r].type
      ]_vars

\* What request r claims: whose balance, which days, and at what cost.
Claim(f) == [emp |-> f.emp, type |-> f.type, cost |-> Cost(f), days |-> Span(f)]
Claimed == [r \in Requests |-> IF form[r] = None THEN None ELSE Claim(form[r])]

\* Whatever handlers overlap in time, the tables change as if each operation
\* were one atomic action of LeaveLedger: an approval deducts its cost and marks
\* every day of its claim, a revoke gives the cost back and clears the days it
\* still finds, no decision is taken twice or undone otherwise, and no balance
\* or day moves for another reason than the ones listed there (leave.rs:174-464,
\* leave_balances.rs:252-309, attendance.rs:80-179).
Ledger == INSTANCE LeaveLedger WITH
    Claims <- {Claim(f) : f \in Form}, claim <- Claimed
LedgerSpec == Ledger!Spec

\* A decision is final: rejected and cancelled requests stay so, an approved
\* one can only be cancelled, and a row never changes hands or dates
\* (the status guards of leave.rs:233, 273, 402, 445).
DecisionIsFinal ==
    [][ \A r \in Requests :
          /\ status[r] \in {"rejected", "cancelled"} => status'[r] = status[r]
          /\ status[r] = "approved" => status'[r] \in {"approved", "cancelled"}
          /\ status[r] # "none" => form'[r] = form[r]
      ]_vars

\* Every handler that starts returns: no session waits for ever on the row
\* locks of leave_requests and employee_leave_balances.
HandlersReturn == \A s \in Sessions : pc[s] # "idle" ~> pc[s] = "idle"
=============================================================================
