---------------------------- MODULE PeriodControl ----------------------------
(***************************************************************************)
(* Closing and reopening date ranges, and the payroll runs that need them: *)
(* services/payroll_controls.rs, the guards of services/payroll/runs.rs    *)
(* and a change of the pay period in services/settings.rs.                 *)
(*                                                                         *)
(* A payroll run is paid for a range of dates; what keeps two runs from    *)
(* paying the same day is that a run needs its exact range closed, that    *)
(* closed ranges do not overlap and that a range with a run stays closed.  *)
(* Handlers run as sessions, one pool statement per step.                  *)
(***************************************************************************)
EXTENDS PayPeriods, FiniteSets

CONSTANTS
    Settings,       \* the settings of the pay period an admin chooses from
    FirstSetting,   \* the settings at the start
    Forms,          \* ranges an admin submits, to close, reopen or pay
    Runs,           \* ids of payroll_runs rows
    Sessions,       \* HTTP requests being served at the same time
    None            \* no range

ASSUME ControlAssumption ==
    /\ Settings \subseteq Setting
    /\ FirstSetting \in Settings
    /\ Forms \subseteq Range
    /\ IsFiniteSet(Runs)
    /\ IsFiniteSet(Sessions)
    /\ None \notin Range

VARIABLES
    setting,   \* pay_period and pay_period_anchor of company_settings
    closed,    \* ranges with a closed_pay_periods row
    status,    \* status[r]: "none" until the run is inserted
    period,    \* period[r]: its range
    job,       \* job[s]: the next statement of session s and what it has read
    raced      \* history: ranges whose check another request has overtaken

vars == <<setting, closed, status, period, job, raced>>

Idle == [at |-> "idle", range |-> None, setting |-> FirstSetting]
CreateSteps == {"create_closed", "create_insert"}
Steps == {"idle", "overlaps", "insert", "delete"} \cup CreateSteps

TypeOK ==
    /\ setting \in Settings
    /\ \A p \in closed : p \in Forms /\ p.first <= p.last
    /\ status \in [Runs -> {"none", "draft", "finalized", "voided"}]
    /\ period \in [Runs -> Forms \cup {None}]
    /\ job \in [Sessions -> [at : Steps, range : Forms \cup {None},
                             setting : Settings]]
    /\ raced \subseteq Forms

Init ==
    /\ setting = FirstSetting
    /\ closed = {}
    /\ status = [r \in Runs |-> "none"]
    /\ period = [r \in Runs |-> None]
    /\ job = [s \in Sessions |-> Idle]
    /\ raced = {}

Go(s, at) == job' = [job EXCEPT ![s].at = at]
Return(s) == job' = [job EXCEPT ![s] = Idle]

\* The runs that count: status IN ('draft', 'finalized').
Active(r) == status[r] \in {"draft", "finalized"}
ActiveRuns(p) == {r \in Runs : Active(r) /\ period[r] = p}

\* Mutant: a comparison that misses ranges that share one day.
OverlapsStrictly(p) == {q \in closed : q.first < p.last /\ q.last > p.first}

list_overlapping_closed_periods(p) ==
    {q \in closed : q.first <= p.last /\ q.last >= p.first}

is_period_exactly_closed(p) == p \in closed

\* History: two different ranges with a date in common.
ShareDates(p, q) == p # q /\ p.first <= q.last /\ p.last >= q.first

\* History: the ranges of the other sessions whose next statement is at.
RangesAt(s, at) == {job[t].range : t \in {u \in Sessions \ {s} : job[u].at = at}}

(***************************************************************************)
(* close_pay_period.                                                       *)
(***************************************************************************)

EndNotBeforeStart(p) == p.first <= p.last

CloseBegin(s) ==
    /\ job[s].at = "idle"
    /\ \E p \in Forms :
          /\ EndNotBeforeStart(p)
          /\ ~is_period_exactly_closed(p)
          /\ job' = [job EXCEPT ![s].at = "overlaps", ![s].range = p]
    /\ UNCHANGED <<setting, closed, status, period, raced>>

CloseOverlaps(s) ==
    /\ job[s].at = "overlaps"
    /\ IF list_overlapping_closed_periods(job[s].range) = {}
       THEN Go(s, "insert")
       ELSE Return(s)
    /\ UNCHANGED <<setting, closed, status, period, raced>>

\* ON CONFLICT (period_start, period_end) DO NOTHING. Whoever has asked for
\* overlaps already, and will insert next, does not see this row.
CloseInsert(s) ==
    /\ job[s].at = "insert"
    /\ closed' = closed \cup {job[s].range}
    /\ raced' = raced \cup {p \in RangesAt(s, "insert") : ShareDates(p, job[s].range)}
    /\ Return(s)
    /\ UNCHANGED <<setting, status, period>>

(***************************************************************************)
(* reopen_pay_period.                                                      *)
(***************************************************************************)
\* Mutant: only drafts are looked for.
NoDraft(p) == \A r \in Runs : status[r] = "draft" => period[r] # p

assert_payroll_run_allows_reopen(p) == ActiveRuns(p) = {}

ReopenBegin(s) ==
    /\ job[s].at = "idle"
    /\ \E p \in Forms :
          /\ assert_payroll_run_allows_reopen(p)
          /\ job' = [job EXCEPT ![s].at = "delete", ![s].range = p]
    /\ UNCHANGED <<setting, closed, status, period, raced>>

ReopenDelete(s) ==
    /\ job[s].at = "delete"
    /\ closed' = closed \ {job[s].range}
    /\ raced' = raced \cup ({job[s].range} \cap RangesAt(s, "create_insert"))
    /\ Return(s)
    /\ UNCHANGED <<setting, status, period>>

(***************************************************************************)
(* create_draft_run, as far as it concerns the range; what it does between *)
(* its checks and the INSERT is in PayrollRun.                             *)
(***************************************************************************)
\* A run id is left for every creation that has started.
UnusedIds == Cardinality({r \in Runs : status[r] = "none"})
    > Cardinality({s \in Sessions : job[s].at \in CreateSteps})

\* The handler reads the settings first.
CreateBegin(s) ==
    /\ job[s].at = "idle"
    /\ UnusedIds
    /\ \E p \in Forms :
          job' = [job EXCEPT ![s] = [at |-> "create_closed", range |-> p,
                                     setting |-> setting]]
    /\ UNCHANGED <<setting, closed, status, period, raced>>

Payable(p, f) == is_period_exactly_closed(p) /\ Canonical(p, f)

CreateCheck(s) ==
    /\ job[s].at = "create_closed"
    /\ IF EndNotBeforeStart(job[s].range) /\ Payable(job[s].range, job[s].setting)
       THEN Go(s, "create_insert")
       ELSE Return(s)
    /\ UNCHANGED <<setting, closed, status, period, raced>>

\* The partial unique index refuses a second run that counts.
CreateInsert(s) ==
    LET p == job[s].range IN
    /\ job[s].at = "create_insert"
    /\ \/ /\ ActiveRuns(p) # {}
          /\ UNCHANGED <<status, period, raced>>
       \/ /\ ActiveRuns(p) = {}
          /\ \E r \in Runs :
                /\ status[r] = "none"
                /\ status' = [status EXCEPT ![r] = "draft"]
                /\ period' = [period EXCEPT ![r] = p]
          /\ raced' = raced \cup ({p} \cap RangesAt(s, "delete"))
    /\ Return(s)
    /\ UNCHANGED <<setting, closed>>

(***************************************************************************)
(* Statements that take a run or the settings further in one step.         *)
(***************************************************************************)
void_draft_run(r) ==
    /\ status[r] = "draft"
    /\ status' = [status EXCEPT ![r] = "voided"]
    /\ UNCHANGED <<setting, closed, period, job, raced>>

\* The UPDATE that ends finalize_run.
finalize_run(r) ==
    /\ status[r] = "draft"
    /\ status' = [status EXCEPT ![r] = "finalized"]
    /\ UNCHANGED <<setting, closed, period, job, raced>>

\* Nothing looks at closed ranges or runs when the pay period is changed.
update_settings ==
    /\ setting' \in Settings
    /\ UNCHANGED <<closed, status, period, job, raced>>

Next ==
    \/ \E s \in Sessions :
          \/ CloseBegin(s) \/ CloseOverlaps(s) \/ CloseInsert(s)
          \/ ReopenBegin(s) \/ ReopenDelete(s)
          \/ CreateBegin(s) \/ CreateCheck(s) \/ CreateInsert(s)
    \/ \E r \in Runs : void_draft_run(r) \/ finalize_run(r)
    \/ update_settings

Spec == Init /\ [][Next]_vars

(***************************************************************************)
(* Properties. Every check is a statement of its own, and another request  *)
(* may write between the check and the write that relies on it:            *)
(*  - two closes of overlapping ranges, each past its overlap query;       *)
(*  - a reopen past its check for runs and a creation past its check for   *)
(*    the closed range.                                                    *)
(* raced has the ranges to which one of the two has happened. The          *)
(* properties say that a day paid twice, or a run without its closed       *)
(* range, comes from there and from nowhere else; with one session raced   *)
(* stays empty.                                                            *)
(***************************************************************************)
\* README.md, "Pay period close": "Overlapping close ranges are rejected".
ClosedDisjoint ==
    \A p, q \in closed :
        p # q /\ Dates(p) \cap Dates(q) # {} => p \in raced \/ q \in raced

\* A range stays closed, and its dates frozen, while a run that counts pays it,
\* unless a reopen and a creation of it have overtaken each other
\* (payroll_controls.rs:235-262, runs.rs:174).
RunsStayClosed ==
    \A r \in Runs : Active(r) => period[r] \in closed \/ period[r] \in raced

\* No day is paid by two runs, also when the company changes from one pay
\* period to another between them, unless one of their ranges was closed or
\* paid in a race. Nothing in the code compares the ranges of runs: it follows
\* from RunsStayClosed and ClosedDisjoint.
NoDayPaidTwice ==
    \A q, r \in Runs :
        /\ q # r /\ Active(q) /\ Active(r)
        /\ Dates(period[q]) \cap Dates(period[r]) # {}
        => period[q] \in raced \/ period[r] \in raced

(***************************************************************************)
(* The inductive invariant.                                                *)
(***************************************************************************)
\* The partial unique index: a range has one run that counts.
OneRunPerRange ==
    \A q, r \in Runs : q # r /\ Active(q) /\ Active(r) => period[q] # period[r]

\* What a session has read still stands when it acts on it, or it was overtaken.
ReadStands(s) ==
    LET p == job[s].range IN
    /\ job[s].at # "idle" => p \in Forms
    /\ job[s].at \in {"overlaps", "insert"} => p.first <= p.last
    /\ job[s].at = "insert" =>
          list_overlapping_closed_periods(p) \subseteq {p} \/ p \in raced
    /\ job[s].at = "delete" => ActiveRuns(p) = {} \/ p \in raced
    /\ job[s].at = "create_insert" => p \in closed \/ p \in raced
ReadsStand == \A s \in Sessions : ReadStands(s)

ControlInv == /\ TypeOK
              /\ ReadsStand
              /\ OneRunPerRange
              /\ ClosedDisjoint
              /\ RunsStayClosed

\* Only one request at a time is served.
OneAtATime == \A s, t \in Sessions : s = t
=============================================================================
