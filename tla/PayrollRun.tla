----------------------------- MODULE PayrollRun -----------------------------
(***************************************************************************)
(* Payroll runs (services/payroll/runs.rs, deductions.rs,                  *)
(* deductions_auto.rs) over closed pay periods (payroll_controls.rs).      *)
(*                                                                         *)
(* Outside create_draft_run's and save_line_deductions' transactions every *)
(* statement commits on its own, so each handler is a job that other jobs  *)
(* interleave with: job[s].at names the statement that session s is to run *)
(* next. A transaction is one step, taken at its commit; the reads that    *)
(* follow a write, up to the next write, are made in the step of the write.*)
(*                                                                         *)
(* Amounts are small numbers. due[e] stands for what the contribution      *)
(* tables make of e's compensation for each automatic deduction; None when *)
(* e has no compensation on the last day of the period or was not employed *)
(* on any day of it.                                                       *)
(***************************************************************************)
EXTENDS Integers, FiniteSets, FiniteSetsExt

CONSTANTS
    Periods,      \* canonical pay periods, which do not overlap
    Runs,         \* ids of payroll_runs rows
    Sessions,     \* HTTP requests being served at the same time
    Employees,    \* active employees
    Gov,          \* government deduction types: SSS, PHIC, HDMF, WHT
    Lwop,         \* the LWOP deduction type
    Manual,       \* the other deduction types
    Default,      \* Default[t]: employee_deduction_defaults, 0 for none
    Dues,         \* values that due[e] takes
    Toggles,      \* sets of government types that the settings enable
    Sheets,       \* attendance summaries an edit can produce
    FirstSheet,   \* the summary a period starts with
    Premiums,     \* premium inputs a change of the holidays can produce
    Gross(_),     \* gross pay of a line with this summary
    Amounts,      \* amounts an admin types for a deduction
    None          \* no compensation, no job

Automatic == Gov \cup {Lwop}
Types == Automatic \cup Manual

\* A payroll_summary row of one employee. premium is the input of the labor
\* premiums (the hours of the day, holidays, rest days); the rest is hashed.
Sheet == [minutes : Nat, pending : BOOLEAN, lwop : BOOLEAN, premium : Nat]
Hashed(w) == <<w.minutes, w.pending, w.lwop>>

\* What the summary of an employee can be: the attendance that an edit leaves,
\* with the premium input of an edit or of a change of the holidays.
PremiumInputs == Premiums \cup {w.premium : w \in Sheets \cup {FirstSheet}}
Summaries ==
    {[w EXCEPT !.premium = x] : w \in Sheets \cup {FirstSheet}, x \in PremiumInputs}

ASSUME PayrollAssumption ==
    /\ IsFiniteSet(Types)
    /\ Lwop \notin Gov
    /\ Manual \cap Automatic = {}
    /\ Default \in [Manual -> Nat]
    /\ Dues \subseteq [Automatic -> Nat] \cup {None}
    /\ Toggles \subseteq SUBSET Gov
    /\ Sheets \subseteq Sheet
    /\ FirstSheet \in Sheet
    /\ Premiums \subseteq Nat
    /\ Amounts \subseteq Int
    /\ None \notin Runs \cup Employees
    /\ \A w \in Summaries : Gross(w) \in Nat

VARIABLES
    closed,    \* periods with a closed_pay_periods row
    sheet,     \* sheet[p][e]: what payroll_summary returns now
    due,       \* due[e]: today's automatic deductions of e
    toggles,   \* government types deducted automatically
    status,    \* status[r]: "none" until the run is inserted
    period,    \* period[r]
    hash,      \* hash[r]: attendance_snapshot_hash
    line,      \* line[r][e]: payroll_lines row of an employee e with one
    ded,       \* ded[r][e][t]: payroll_deductions row; amount 0 is no row
    job,       \* job[s]: what session s is doing
    torn       \* history: runs a handler left with net pay and deductions apart

vars == <<closed, sheet, due, toggles, status, period, hash, line, ded, job, torn>>
books == <<status, period, hash, line, ded, torn>>
world == <<closed, sheet, due, toggles>>

NoRow == [amount |-> 0, auto |-> FALSE]
Active == {"draft", "finalized"}
Idle == [at |-> "idle", kind |-> "none", run |-> None, period |-> None,
         sheet |-> None, due |-> None, toggles |-> {}, todo |-> {}, line |-> None,
         plan |-> {}, type |-> None, input |-> None, sums |-> None]

Deductions == [amount : Nat, auto : BOOLEAN]
Line == [sheet : Sheet, gross : Nat, net : Int]

\* The employees with a line in run r.
Lines(r) == DOMAIN line[r]

Init ==
    /\ closed = {}
    /\ sheet = [p \in Periods |-> [e \in Employees |-> FirstSheet]]
    /\ due \in [Employees -> Dues]
    /\ toggles \in Toggles
    /\ status = [r \in Runs |-> "none"]
    /\ period = [r \in Runs |-> None]
    /\ hash = [r \in Runs |-> None]
    /\ line = [r \in Runs |-> <<>>]
    /\ ded = [r \in Runs |-> [e \in Employees |-> [t \in Types |-> NoRow]]]
    /\ job = [s \in Sessions |-> Idle]
    /\ torn = {}

TypeOK ==
    /\ closed \subseteq Periods
    /\ sheet \in [Periods -> [Employees -> Sheet]]
    /\ due \in [Employees -> Dues]
    /\ toggles \in Toggles
    /\ status \in [Runs -> {"none", "voided"} \cup Active]
    /\ period \in [Runs -> Periods \cup {None}]
    /\ \A r \in Runs : Lines(r) \subseteq Employees /\ line[r] \in [Lines(r) -> Line]
    /\ ded \in [Runs -> [Employees -> [Types -> Deductions]]]
    /\ torn \subseteq Runs

(***************************************************************************)
(* Readings of the tables.                                                 *)
(***************************************************************************)
ActiveRuns(p) == {r \in Runs : status[r] \in Active /\ period[r] = p}

\* Mutant: the index of migration 019, which only counts finalized runs.
ViolatesOneFinalized(p) ==
    \E r \in Runs : status[r] = "finalized" /\ period[r] = p

\* The index payroll_runs_one_active_per_period refuses a second active run.
ViolatesOneActive(p) == ActiveRuns(p) # {}

Total(f, types) == MapThenSumSet(LAMBDA t : f[t], types)
AmountOf(rows) == [t \in Types |-> rows[t].amount]
SumOf(r, e, types) == Total(AmountOf(ded[r][e]), types)
IsAuto(r, e, t) == ded[r][e][t].amount > 0 /\ ded[r][e][t].auto
AutoTypes(r, e) == {t \in Types : IsAuto(r, e, t)}

\* attendance_snapshot_hash of the summary rows f of a period.
SnapshotHash(f) == [e \in Employees |-> Hashed(f[e])]

Deducted(r) == [e \in Employees |-> SumOf(r, e, Types)]

\* Mutant: the schema before migration 021, without the CHECK.
NoNetCheck(r, sums) == FALSE

\* CHECK payroll_lines_net_within_gross, for a refresh of r's lines.
OverGross(r, sums) == \E e \in Lines(r) : sums[e] > line[r][e].gross

(***************************************************************************)
(* Moves of a job.                                                         *)
(***************************************************************************)
Be(s, j) == job' = [job EXCEPT ![s] = j]
Go(s, at) == Be(s, [job[s] EXCEPT !.at = at])
Return(s) == Be(s, Idle)
Tear(r) == torn' = torn \cup {r}

\* Mutant: the error is returned and the draft stays.
FailWithoutVoid(s) == Return(s) /\ Tear(job[s].run)

\* An error after create_draft_run's commit voids the draft; an error of
\* another handler is only reported.
Fail(s) ==
    IF job[s].kind = "create" THEN Go(s, "auto_void") /\ UNCHANGED torn
    ELSE Return(s) /\ Tear(job[s].run)

\* The next line of a loop over a run's lines, in any order, or what follows.
NextLine(j) ==
    IF j.todo = {}
    THEN {[j EXCEPT !.line = None, !.plan = {}, !.type = None,
             !.at = IF j.kind = "recalc_gov" THEN "lwop_begin" ELSE "sums"]}
    ELSE {[j EXCEPT !.line = e, !.todo = @ \ {e}, !.plan = {}, !.type = None,
             !.at = CASE j.kind = "create" -> "defaults"
                      [] j.kind = "recalc_gov" -> "gov"
                      [] j.kind = "recalc_lwop" -> "lwop"] : e \in j.todo}

\* What follows the government deductions of a line.
AfterGov(j) ==
    IF j.kind = "create"
    THEN {[j EXCEPT !.at = "lwop", !.plan = {}, !.type = None]}
    ELSE NextLine(j)

\* What follows the write of type t: the rest of the plan, if there is any.
AfterWrite(j, t) ==
    IF j.plan = {t} THEN IF t \in Gov THEN AfterGov(j) ELSE NextLine(j)
    ELSE {[j EXCEPT !.at = "write", !.plan = @ \ {t}, !.type = None]}

(***************************************************************************)
(* close_pay_period, reopen_pay_period and the edits of attendance.        *)
(***************************************************************************)
\* The exact-match check and the INSERT .. ON CONFLICT DO NOTHING.
ClosePeriod(p) ==
    /\ p \notin closed
    /\ closed' = closed \cup {p}
    /\ UNCHANGED <<sheet, due, toggles, books, job>>

ReopenBegin(s) ==
    /\ job[s].at = "idle"
    /\ \E p \in Periods :
          /\ ActiveRuns(p) = {}
          /\ Be(s, [Idle EXCEPT !.at = "reopen", !.period = p])
    /\ UNCHANGED <<world, books>>

ReopenDelete(s) ==
    /\ job[s].at = "reopen"
    /\ closed' = closed \ {job[s].period}
    /\ Return(s)
    /\ UNCHANGED <<sheet, due, toggles, books>>

\* A clock event, correction, absence or OT review: period check, then write.
EditBegin(s) ==
    /\ job[s].at = "idle"
    /\ \E p \in Periods \ closed :
          Be(s, [Idle EXCEPT !.at = "edit", !.period = p])
    /\ UNCHANGED <<world, books>>

EditWrite(s) ==
    /\ job[s].at = "edit"
    /\ \E e \in Employees, w \in Sheets :
          sheet' = [sheet EXCEPT ![job[s].period][e] = w]
    /\ Return(s)
    /\ UNCHANGED <<closed, due, toggles, books>>

\* add_holiday and delete_holiday, which check no period.
HolidayChange(p) ==
    /\ \E x \in Premiums :
          /\ \E e \in Employees : sheet[p][e].premium # x
          /\ sheet' = [sheet EXCEPT ![p] =
                         [e \in Employees |-> [@[e] EXCEPT !.premium = x]]]
    /\ UNCHANGED <<closed, due, toggles, books, job>>

\* An admin changes a compensation, or the toggles in the settings.
DueChange(e) ==
    /\ \E d \in Dues \ {due[e]} : due' = [due EXCEPT ![e] = d]
    /\ UNCHANGED <<closed, sheet, toggles, books, job>>

ToggleChange ==
    /\ \E g \in Toggles \ {toggles} : toggles' = g
    /\ UNCHANGED <<closed, sheet, due, books, job>>

(***************************************************************************)
(* create_draft_run.                                                       *)
(***************************************************************************)
\* Bound of the model: no more creations under way than unused run ids.
UnusedIds == Cardinality({r \in Runs : status[r] = "none"})
    > Cardinality({s \in Sessions : job[s].at \in {"summary", "insert_run"}})

CreateBegin(s) ==
    /\ job[s].at = "idle"
    /\ UnusedIds
    /\ \E p \in closed : Be(s, [Idle EXCEPT !.at = "summary", !.period = p])
    /\ UNCHANGED <<world, books>>

CreateSummary(s) ==
    /\ job[s].at = "summary"
    /\ Be(s, [job[s] EXCEPT !.at = "insert_run",
                            !.sheet = sheet[job[s].period]])
    /\ UNCHANGED <<world, books>>

\* The line of e: attendance from the summary f read before; the inputs of the
\* premiums are read now, through the pool, while the transaction is open.
NewLine(e, p, f) ==
    LET w == [f[e] EXCEPT !.premium = sheet[p][e].premium]
    IN  [sheet |-> w, gross |-> Gross(w), net |-> Gross(w)]

\* An employee without compensation is skipped.
NewLines(p, f) ==
    [e \in {x \in Employees : due[x] # None} |-> NewLine(e, p, f)]

\* The transaction: the run and all its lines.
CreateInsert(s) ==
    LET p == job[s].period
        f == job[s].sheet
    IN
    /\ job[s].at = "insert_run"
    /\ \/ /\ ViolatesOneActive(p)
          /\ Return(s)
          /\ UNCHANGED books
       \/ /\ ~ViolatesOneActive(p)
          /\ \E r \in Runs :
                /\ status[r] = "none"
                /\ status' = [status EXCEPT ![r] = "draft"]
                /\ period' = [period EXCEPT ![r] = p]
                /\ hash' = [hash EXCEPT ![r] = SnapshotHash(f)]
                /\ line' = [line EXCEPT ![r] = NewLines(p, f)]
                /\ Be(s, [Idle EXCEPT !.at = "auto_begin", !.kind = "create",
                                      !.run = r])
          /\ UNCHANGED <<ded, torn>>
    /\ UNCHANGED world

\* apply_automatic_deductions_for_run: status check, toggles, types, lines.
AutoBegin(s) ==
    LET r == job[s].run IN
    /\ job[s].at = "auto_begin"
    /\ \/ status[r] # "draft" /\ Fail(s)
       \/ /\ status[r] = "draft"
          /\ \E j \in NextLine([job[s] EXCEPT !.due = due, !.toggles = toggles,
                                             !.todo = Lines(r)]) :
                Be(s, j)
          /\ UNCHANGED torn
    /\ UNCHANGED <<world, status, period, hash, line, ded>>

\* apply_employee_defaults_for_line: only on a line without deductions, and
\* only when all of them fit the gross.
Defaults(s) ==
    LET r == job[s].run
        e == job[s].line
        planned == {t \in Manual : Default[t] > 0}
        applies == /\ \A t \in Types : ded[r][e][t].amount = 0
                   /\ planned # {}
                   /\ Total(Default, planned) <= line[r][e].gross
    IN
    /\ job[s].at = "defaults"
    /\ Be(s, IF applies THEN [job[s] EXCEPT !.at = "default", !.plan = planned]
                        ELSE [job[s] EXCEPT !.at = "gov"])
    /\ UNCHANGED <<world, books>>

Put(r, e, t, amount, auto) ==
    ded' = [ded EXCEPT ![r][e][t] = [amount |-> amount, auto |-> auto]]

DefaultInsert(s) ==
    LET r == job[s].run
        e == job[s].line
    IN
    /\ job[s].at = "default"
    /\ \E t \in job[s].plan :
          \/ /\ ded[r][e][t].amount > 0
             /\ Fail(s)
             /\ UNCHANGED ded
          \/ /\ ded[r][e][t].amount = 0
             /\ Put(r, e, t, Default[t], FALSE)
             /\ UNCHANGED torn
             /\ Be(s, IF job[s].plan = {t}
                      THEN [job[s] EXCEPT !.at = "gov", !.plan = {}]
                      ELSE [job[s] EXCEPT !.plan = @ \ {t}])
    /\ UNCHANGED <<world, status, period, hash, line>>

(***************************************************************************)
(* The automatic deductions of a line.                                     *)
(***************************************************************************)
Without(r, e, types) ==
    [ded EXCEPT ![r][e] = [t \in Types |-> IF t \in types THEN NoRow ELSE @[t]]]

\* The enabled types for which e's compensation yields an amount.
Planned(j, e) ==
    {t \in j.toggles : j.due[e] # None /\ j.due[e][t] > 0}
PlannedTotal(j, e) == Total(j.due[e], Planned(j, e))

\* Mutant: existing_non_gov is not added to the total.
GovFitsForgetsOthers(j, r, e) ==
    SumOf(r, e, Gov \ AutoTypes(r, e)) + PlannedTotal(j, e) <= line[r][e].gross

\* manual_gov_total + existing_non_gov + auto_total <= gross_cents.
GovFits(j, r, e) ==
    SumOf(r, e, Types \ (Gov \cap AutoTypes(r, e))) + PlannedTotal(j, e)
        <= line[r][e].gross

\* apply_government_deductions_for_line: delete the automatic rows of disabled
\* types, then plan the enabled ones unless the total would exceed the gross.
GovPlan(s) ==
    LET j == job[s]
        r == j.run
        e == j.line
    IN
    /\ j.at = "gov"
    /\ ded' = Without(r, e, (Gov \ j.toggles) \cap AutoTypes(r, e))
    /\ \/ /\ Planned(j, e) # {}
          /\ GovFits(j, r, e)
          /\ Be(s, [j EXCEPT !.at = "write", !.plan = Planned(j, e)])
       \/ /\ Planned(j, e) = {} \/ ~GovFits(j, r, e)
          /\ \E n \in AfterGov(j) : Be(s, n)
    /\ UNCHANGED <<world, status, period, hash, line, torn>>

\* What e's compensation yields for the days without pay, if there is one.
LwopAmount(j, e) == IF j.due[e] = None THEN 0 ELSE j.due[e][Lwop]

\* apply_lwop_deduction_for_line, the same with one type.
LwopPlan(s) ==
    LET r == job[s].run
        e == job[s].line
        amount == LwopAmount(job[s], e)
        others == SumOf(r, e, Types \ ({Lwop} \cap AutoTypes(r, e)))
    IN
    /\ job[s].at = "lwop"
    /\ \/ /\ ~line[r][e].sheet.lwop
          /\ ded' = Without(r, e, {Lwop} \cap AutoTypes(r, e))
          /\ \E j \in NextLine(job[s]) : Be(s, j)
       \/ /\ line[r][e].sheet.lwop
          /\ amount = 0 \/ others + amount > line[r][e].gross
          /\ \E j \in NextLine(job[s]) : Be(s, j)
          /\ UNCHANGED ded
       \/ /\ line[r][e].sheet.lwop
          /\ amount > 0
          /\ others + amount <= line[r][e].gross
          /\ Be(s, [job[s] EXCEPT !.at = "write", !.plan = {Lwop}])
          /\ UNCHANGED ded
    /\ UNCHANGED <<world, status, period, hash, line, torn>>

\* Mutant: the UPDATE without AND d.note = 'Auto-calculated'.
WriteAutoUnguarded(s) ==
    LET r == job[s].run
        e == job[s].line
    IN
    /\ job[s].at = "write"
    /\ \E t \in job[s].plan :
          \/ /\ ded[r][e][t].amount > 0
             /\ Put(r, e, t, job[s].due[e][t], TRUE)
             /\ \E j \in AfterWrite(job[s], t) : Be(s, j)
          \/ /\ ded[r][e][t].amount = 0
             /\ Be(s, [job[s] EXCEPT !.at = "insert", !.type = t])
             /\ UNCHANGED ded
    /\ UNCHANGED <<world, status, period, hash, line, torn>>

\* UPDATE .. WHERE note = 'Auto-calculated'; when no row matches, an INSERT
\* follows as a statement of its own.
WriteAuto(s) ==
    LET r == job[s].run
        e == job[s].line
    IN
    /\ job[s].at = "write"
    /\ \E t \in job[s].plan :
          \/ /\ IsAuto(r, e, t)
             /\ Put(r, e, t, job[s].due[e][t], TRUE)
             /\ \E j \in AfterWrite(job[s], t) : Be(s, j)
          \/ /\ ~IsAuto(r, e, t)
             /\ Be(s, [job[s] EXCEPT !.at = "insert", !.type = t])
             /\ UNCHANGED ded
    /\ UNCHANGED <<world, status, period, hash, line, torn>>

\* The INSERT; payroll_deductions_line_type_unique refuses a second row.
InsertAuto(s) ==
    LET r == job[s].run
        e == job[s].line
        t == job[s].type
    IN
    /\ job[s].at = "insert"
    /\ \/ /\ ded[r][e][t].amount > 0
          /\ Fail(s)
          /\ UNCHANGED ded
       \/ /\ ded[r][e][t].amount = 0
          /\ Put(r, e, t, job[s].due[e][t], TRUE)
          /\ \E j \in AfterWrite(job[s], t) : Be(s, j)
          /\ UNCHANGED torn
    /\ UNCHANGED <<world, status, period, hash, line>>

\* refresh_all_line_net_pay is one UPDATE, which sees the deductions as they
\* were when it began: a statement that commits before the refresh has the
\* lines is not in its sums.
ReadSums(s) ==
    /\ job[s].at \in {"sums", "fin_sums"}
    /\ Be(s, [job[s] EXCEPT !.at = IF @ = "sums" THEN "refresh" ELSE "fin_refresh",
                            !.sums = Deducted(job[s].run)])
    /\ UNCHANGED <<world, books>>

Refreshed(r, sums) ==
    [line EXCEPT ![r] = [e \in Lines(r) |->
        [@[e] EXCEPT !.net = line[r][e].gross - sums[e]]]]

WriteNet(r, sums) ==
    /\ line' = Refreshed(r, sums)
    /\ torn' = IF sums = Deducted(r) THEN torn \ {r} ELSE torn \cup {r}

Refresh(s) ==
    LET r == job[s].run IN
    /\ job[s].at = "refresh"
    /\ \/ /\ OverGross(r, job[s].sums)
          /\ Fail(s)
          /\ UNCHANGED line
       \/ /\ ~OverGross(r, job[s].sums)
          /\ WriteNet(r, job[s].sums)
          /\ Return(s)
    /\ UNCHANGED <<world, status, period, hash, ded>>

\* void_draft_run: its UPDATE is guarded by the status it has checked.
VoidIfDraft(r) ==
    status' = [status EXCEPT ![r] = IF @ = "draft" THEN "voided" ELSE @]

AutoVoid(s) ==
    /\ job[s].at = "auto_void"
    /\ VoidIfDraft(job[s].run)
    /\ Tear(job[s].run)
    /\ Return(s)
    /\ UNCHANGED <<world, period, hash, line, ded>>

Void(r) ==
    /\ status[r] = "draft"
    /\ VoidIfDraft(r)
    /\ UNCHANGED <<world, period, hash, line, ded, job, torn>>

(***************************************************************************)
(* recalculate_government_deductions_for_run.                              *)
(***************************************************************************)
RecalcBegin(s) ==
    /\ job[s].at = "idle"
    /\ \E r \in Runs :
          /\ status[r] = "draft"
          /\ Be(s, [Idle EXCEPT !.at = "recalc", !.kind = "recalc_gov",
                                !.run = r])
    /\ UNCHANGED <<world, books>>

\* The DELETE of all automatic government rows of the run; the loop over the
\* lines follows unless every toggle is off.
RecalcDelete(s) ==
    LET r == job[s].run IN
    /\ job[s].at = "recalc"
    /\ ded' = [ded EXCEPT ![r] = [e \in Employees |-> [t \in Types |->
                 IF t \in Gov /\ IsAuto(r, e, t) THEN NoRow ELSE @[e][t]]]]
    /\ \/ toggles = {} /\ Go(s, "lwop_begin")
       \/ /\ toggles # {}
          /\ \E j \in NextLine([job[s] EXCEPT !.due = due, !.toggles = toggles,
                                             !.todo = Lines(r)]) :
                Be(s, j)
    /\ UNCHANGED <<world, status, period, hash, line, torn>>

\* recalculate_lwop_deductions_for_run checks the status again.
LwopBegin(s) ==
    LET r == job[s].run IN
    /\ job[s].at = "lwop_begin"
    /\ \/ /\ status[r] # "draft"
          /\ Fail(s)
       \/ /\ status[r] = "draft"
          /\ \E j \in NextLine([job[s] EXCEPT !.kind = "recalc_lwop",
                                  !.due = due, !.todo = Lines(r)]) :
                Be(s, j)
          /\ UNCHANGED torn
    /\ UNCHANGED <<world, status, period, hash, line, ded>>

(***************************************************************************)
(* save_line_deductions.                                                   *)
(***************************************************************************)
\* What an admin submits for a line: an amount for each type, with the note
\* the page showed ("Auto-calculated") or one of their own. A negative amount
\* is refused twice, by the parser of the form and by the service.
Typed == {NoRow} \cup [amount : Amounts \ {0}, auto : BOOLEAN]
Inputs == {f \in [Types -> Typed] : \A t \in Manual : ~f[t].auto}
TotalOf(f) == Total(AmountOf(f), Types)

NoNegativeAmount(f) == \A t \in Types : f[t].amount >= 0

\* Mutant: the page is trusted to show drafts only.
SaveBeginOnAnyRun(s) ==
    /\ job[s].at = "idle"
    /\ \E r \in Runs :
          /\ status[r] # "none"
          /\ \E e \in Lines(r), f \in Inputs :
                /\ TotalOf(f) <= line[r][e].gross
                /\ NoNegativeAmount(f)
                /\ Be(s, [Idle EXCEPT !.at = "save", !.run = r, !.line = e,
                                      !.input = f])
    /\ UNCHANGED <<world, books>>

SaveBegin(s) ==
    /\ job[s].at = "idle"
    /\ \E r \in Runs :
          /\ status[r] = "draft"
          /\ \E e \in Lines(r), f \in Inputs :
                /\ TotalOf(f) <= line[r][e].gross
                /\ NoNegativeAmount(f)
                /\ Be(s, [Idle EXCEPT !.at = "save", !.run = r, !.line = e,
                                      !.input = f])
    /\ UNCHANGED <<world, books>>

\* Mutant: the net pay is left to the next refresh.
SaveWriteWithoutNet(s) ==
    LET r == job[s].run IN
    /\ job[s].at = "save"
    /\ ded' = [ded EXCEPT ![r][job[s].line] = job[s].input]
    /\ Return(s)
    /\ UNCHANGED <<world, status, period, hash, line, torn>>

\* The transaction: DELETE, INSERTs, net pay. The status is not read again.
SaveWrite(s) ==
    LET r == job[s].run
        e == job[s].line
        f == job[s].input
    IN
    /\ job[s].at = "save"
    /\ ded' = [ded EXCEPT ![r][e] = f]
    /\ line' = [line EXCEPT ![r][e].net = line[r][e].gross - TotalOf(f)]
    /\ Return(s)
    /\ UNCHANGED <<world, status, period, hash, torn>>

(***************************************************************************)
(* finalize_run.                                                           *)
(***************************************************************************)
FinalizeBegin(s) ==
    /\ job[s].at = "idle"
    /\ \E r \in Runs :
          /\ status[r] = "draft"
          /\ Lines(r) # {}
          /\ \A e \in Lines(r) : ~line[r][e].sheet.pending
          /\ Be(s, [Idle EXCEPT !.at = "stale", !.run = r])
    /\ UNCHANGED <<world, books>>

is_draft_attendance_stale(r) == hash[r] # SnapshotHash(sheet[period[r]])

FinalizeStale(s) ==
    LET r == job[s].run IN
    /\ job[s].at = "stale"
    /\ IF is_draft_attendance_stale(r) THEN Return(s) ELSE Go(s, "preflight")
    /\ UNCHANGED <<world, books>>

FinalizePreflight(s) ==
    /\ job[s].at = "preflight"
    /\ IF OverGross(job[s].run, Deducted(job[s].run))
       THEN Return(s) ELSE Go(s, "fin_sums")
    /\ UNCHANGED <<world, books>>

FinalizeRefresh(s) ==
    LET r == job[s].run IN
    /\ job[s].at = "fin_refresh"
    /\ \/ /\ OverGross(r, job[s].sums)
          /\ Return(s)
          /\ UNCHANGED <<line, torn>>
       \/ /\ ~OverGross(r, job[s].sums)
          /\ WriteNet(r, job[s].sums)
          /\ Be(s, [job[s] EXCEPT !.at = "finalize", !.sums = None])
    /\ UNCHANGED <<world, status, period, hash, ded>>

FinalizeWrite(s) ==
    LET r == job[s].run IN
    /\ job[s].at = "finalize"
    /\ status' = [status EXCEPT ![r] = IF @ = "draft" THEN "finalized" ELSE @]
    /\ Return(s)
    /\ UNCHANGED <<world, period, hash, line, ded, torn>>

(***************************************************************************)
(* The specification.                                                      *)
(***************************************************************************)
Job(s) ==
    \/ ReopenBegin(s) \/ ReopenDelete(s)
    \/ EditBegin(s) \/ EditWrite(s)
    \/ CreateBegin(s) \/ CreateSummary(s) \/ CreateInsert(s)
    \/ AutoBegin(s) \/ Defaults(s) \/ DefaultInsert(s)
    \/ GovPlan(s) \/ LwopPlan(s) \/ WriteAuto(s) \/ InsertAuto(s)
    \/ ReadSums(s) \/ Refresh(s) \/ AutoVoid(s)
    \/ RecalcBegin(s) \/ RecalcDelete(s) \/ LwopBegin(s)
    \/ SaveBegin(s) \/ SaveWrite(s)
    \/ FinalizeBegin(s) \/ FinalizeStale(s) \/ FinalizePreflight(s)
    \/ FinalizeRefresh(s) \/ FinalizeWrite(s)

Next ==
    \/ \E s \in Sessions : Job(s)
    \/ \E p \in Periods : ClosePeriod(p) \/ HolidayChange(p)
    \/ \E e \in Employees : DueChange(e)
    \/ ToggleChange
    \/ \E r \in Runs : Void(r)

Spec == Init /\ [][Next]_vars

(***************************************************************************)
(* Properties.                                                             *)
(***************************************************************************)
\* A pay period never has two runs that count, however creations, voids and
\* finalizations of several admins overlap (runs.rs:161-238, 383-465).
OneActiveRun ==
    \A q, r \in Runs :
        /\ status[q] \in Active
        /\ status[r] \in Active
        /\ period[q] = period[r]
        => q = r

\* Finalized and voided are the ends of a run; its period and what it was
\* computed from never change once it is there (runs.rs:383-465).
RunIsFinal ==
    [][ \A r \in Runs :
          /\ status[r] \in {"finalized", "voided"} => status'[r] = status[r]
          /\ status[r] # "none" =>
                /\ period'[r] = period[r]
                /\ hash'[r] = hash[r]
                /\ Lines(r)' = Lines(r)
                /\ \A e \in Lines(r) :
                      /\ line'[r][e].gross = line[r][e].gross
                      /\ line'[r][e].sheet = line[r][e].sheet ]_vars

\* Net pay is never negative nor above gross, whichever of the handlers that
\* write it comes last (deductions.rs:213-248).
NetWithinGross ==
    \A r \in Runs : \A e \in Lines(r) :
        line[r][e].net \in 0 .. line[r][e].gross

\* The sessions at work on run r.
Workers(r) == {s \in Sessions : job[s].run = r}

\* Net pay is what the deductions leave of the gross (PAYROLL.md:240) on every
\* run where no creation or recalculation is under way, whatever saves,
\* refreshes and finalizes overlap. Two things come between them, and torn
\* records the run until a refresh mends it: a handler that gave up, and a
\* refresh whose sums were no longer those of the table when it wrote
\* (deductions.rs:221-248, deductions_auto.rs:22-176).
NetMatches ==
    \A r \in Runs : \A e \in Lines(r) :
        \/ line[r][e].net = line[r][e].gross - SumOf(r, e, Types)
        \/ r \in torn
        \/ \E s \in Workers(r) : job[s].kind # "none"

\* What an admin typed under a note of their own is only replaced by another
\* save of that line: automatic deductions, refreshes, recalculations and
\* defaults never overwrite or delete it (deductions_auto.rs:79-139, 387-497).
ManualRowsKept ==
    [][ \A r \in Runs, e \in Employees, t \in Types :
          ded[r][e][t].amount > 0 /\ ~ded[r][e][t].auto =>
             \/ ded'[r][e][t] = ded[r][e][t]
             \/ \E s \in Sessions : /\ job[s].at = "save"
                                    /\ job[s].run = r
                                    /\ job[s].line = e
                                    /\ job'[s] = Idle ]_vars

\* A creation that returns with its run still in draft has applied all the
\* deductions and refreshed the net pay: every failing statement on the way,
\* in any loop, leads to the void (runs.rs:233-236, deductions_auto.rs:22-76).
CreateLeavesNoHalfDraft ==
    [][ \A s \in Sessions :
          /\ job[s].kind = "create"
          /\ job'[s] = Idle
          /\ status'[job[s].run] = "draft"
          => job[s].at = "refresh" ]_vars

\* No handler begins to work on a run that is finalized or voided: the ones
\* that had passed their draft check before, and do not read the status again
\* (deductions.rs:146, deductions_auto.rs:85), finish, and when the last of
\* them has returned the deductions and lines of the run never change again.
FinalRunsSettle ==
    [][ \A r \in Runs :
          status[r] \in {"finalized", "voided"} =>
             /\ Workers(r)' \subseteq Workers(r)
             /\ Workers(r) = {} => /\ ded'[r] = ded[r]
                                   /\ line'[r] = line[r] ]_vars

\* Nobody else is at work on a run whose lines a creation or a recalculation
\* goes through: the code takes this for granted, it locks nothing
\* (runs.rs:229-236, deductions_auto.rs:78-139).
Undisturbed ==
    \A s \in Sessions : job[s].kind # "none" => Workers(job[s].run) = {s}

\* While the runs are Undisturbed, the deductions of a line never add up to
\* more than its gross pay, although four handlers check only their own part
\* of the sum (deductions.rs:148-154, deductions_auto.rs:357-360, 443-452,
\* 598-617).
DeductionsWithinGross ==
    \A r \in Runs : \A e \in Lines(r) :
        SumOf(r, e, Types) <= line[r][e].gross

\* Each period goes through the life that PayrollLedger promises: the runs
\* that count in it, with a finalized run counting as paid.
Book == [p \in Periods |->
    {[run |-> r, paid |-> status[r] = "finalized"] : r \in ActiveRuns(p)}]
Ledger == INSTANCE PayrollLedger WITH book <- Book
LedgerSpec == Ledger!Spec
=============================================================================
