# TalaSora Prime DTR: specifications, checks and proofs

TalaSora Prime DTR is a server for daily time records, leave and Philippine
payroll: one Axum process (or several replicas) over one PostgreSQL database.
This directory holds TLA+ modules for the parts of `src/src/` in which the order
of statements or the arithmetic matters, the TLC configurations that check them,
and TLAPS proofs of their properties. Paths below are relative to the repository's `src/`
directory as it is laid out here (`src/src/services/leave.rs` is the leave
service, `src/docs/PAYROLL.md` the payroll document).

1. [The system](#1-the-system)
2. [How the code is modelled](#2-how-the-code-is-modelled)
3. [Modules](#3-modules)
4. [Runs](#4-runs)
5. [Proofs](#5-proofs)
6. [Where code and documents disagree](#6-where-code-and-documents-disagree)
7. [What is not modelled](#7-what-is-not-modelled)
8. [Plan](#8-plan)

## 1. The system

Everything the server knows is in PostgreSQL, apart from uploaded files, two caches
(settings, authentication snapshots) and the limiter's windows when it runs in
memory. Handlers (`handlers/`) parse a form, check the role and call a service
(`services/`), which runs SQL through a connection pool. There are no background
workers: all concurrency is between HTTP requests, of one process or of several.

| Component | State | Operations | What makes it hard |
|---|---|---|---|
| Leave requests and balances (`services/leave.rs`, `leave_balances.rs`) | `leave_requests`, `employee_leave_balances`, the days in `time_entries` | submit, cancel, approve, reject, revoke; edit of the balances | two submissions of the same dates, reviewer against owner against revoker, row locks of two tables, the approval writes attendance |
| Payroll runs (`services/payroll/`) | `payroll_runs`, `payroll_run_lines`, `payroll_deductions` | create a draft, automatic deductions, LWOP, recalculate, save deductions, finalize, void | chains of statements outside a transaction, a handler that fails half way, two admins on one run |
| Payroll arithmetic (`payroll/compute.rs`, `gov_deductions.rs`, `labor_premiums.rs`, `money.rs`) | none | gross pay, proration, premiums, contributions, tax | brackets and steps, rounding, caps |
| Reports, exports and payslips (`reports/payroll.rs`, `payroll/export.rs`, `pdf.rs`, `payslips.rs`) | none | summary of a period, payslip page and PDF, CSV, journal | the same pay computed or explained in several places |
| Pay period controls (`services/payroll_controls.rs`, `reports/period.rs`, `settings.rs`) | `closed_pay_periods`, the pay period setting | close, reopen, change the setting | checks made before the write; a day that belongs to ranges of two settings |
| Time entries and attendance (`services/clock.rs`, `corrections.rs`, `ot.rs`, `attendance.rs`, `hours.rs`) | `time_entries`, `correction_logs` | clock in, clock out, correct, add a corrected entry, review overtime, mark an absence, clear it | five handlers read and write one row, each in statements of its own; the close of the period |
| Compensation (`services/compensation.rs`) | `compensation_profiles`, `compensation_history`, `employee_deduction_defaults` | change of rate, lookup as of a date, defaults | backdated changes and the history they leave; the read comes before the transaction; deletes and inserts of two saves |
| Employees, sessions, PIN reset (`services/employees.rs`, `pin_reset.rs`, `auth/`) | `employees`, `sessions`, `pin_reset_requests`, a snapshot cache in every process | sign in and out, deactivate, change role, reset a PIN, ask for a reset, review | caches of several processes, session versions, the last administrator, reviews that write by id |
| Rate limits (`auth/rate_limit_store.rs`, `login_limiter.rs`, `post_limiter.rs`) | windows of attempts, in memory or in a table | look, record, clear, prune, clean up | looked up and recorded in two accesses, with a PIN comparison in between |
| End-of-day reports (`services/eod/`) | `eod_reports`, `eod_tasks`, `notification_dismissals` | save, submit, unlock, list, remind, dismiss | a draft saved over a submitted report; tasks outside a transaction; six queries that must agree on who sees whom |
| Requirements and uploads (`services/requirements.rs`, `uploads.rs`, `onboarding.rs`) | types, rows and files | create and change a type, submit, review, expire | file and row change in separate steps; lists with conditions of their own |
| Holidays and shifts, profile, audit, HTTP shell | plain rows or none | single statements, formatting | little beyond their SQL |

Interactions: every handler that writes a dated row asks
`assert_work_date_editable` / `assert_range_editable` whether the date is in a
closed pay period; approving leave deducts a balance and marks the days in
`time_entries`; clocking in takes over the mark of a day; revoking leave clears
it; a payroll run exists only for a closed, canonical pay period and reads the
summary of its time entries and the compensation on its last day; a period with a
run that counts cannot be reopened. Every request passes the session check
and, if it is a POST, the limiter; what managers may do for whom is the
`employees.manager_id` that the team queries read.

What would make each of these correct: leave that is live never overlaps and its
charge is in exactly one place; a period is paid once, and what was paid does not
change; a day is paid once; a closed date stands still; overtime is never out of
payroll's sight; punches are not lost; every date that had a rate keeps one; a
payslip adds up to what was paid; nobody acts with a role he no longer has and
nobody is signed out by mistake; a limit bounds the attempts; a submitted
report or an approved document stays as it was sent; who is told to do something
is shown where to do it. The hazards to each, at the line where it bites, are
listed in `PROJECT.json` with the properties that would notice.

## 2. How the code is modelled

**A statement is a step.** A statement that runs on the pool is a READ COMMITTED
transaction of its own. A handler is therefore a sequence of actions, and a
variable says which statement each session runs next: `pc[s]` in `Leave`,
`job[s].at` elsewhere, with what the handler holds in its local variables. A check
that precedes the first write is a step when another session can move between it
and the write, which is what the code leaves open in many places.

**Transactions.** Between `pool.begin()` and `commit()` nothing is visible to
others, so a transaction is one step, taken at its commit, unless it waits. The
leave transactions do wait: `SELECT ... FOR UPDATE` and the guarded updates take
row locks that other sessions queue for. There each statement is a step, the
writes appear together at the commit, and `HoldsRequest` and `HoldsBalance` say
who holds the lock of a row meanwhile.

**Constraints of the database** appear as guards with their effect on the handler
that breaks them: the exclusion constraint on live leave (`ViolatesExclusion`,
migration 029), the partial unique indexes on runs (`ViolatesOneActive`,
`ViolatesOneFinalized`), the CHECK on net pay, the unique deduction of a type, the
unique range of a close, the unique entry of an employee and date.

**Early returns.** A handler whose first check fails changes nothing and is no
step. One that fails later returns to idle (in `PayrollRun`, a creation goes to
the void that the code attempts).

**Sessions** are HTTP requests served at the same time; that some of them may be
served by another replica makes no difference to statements on one database.

**Abstractions.** Names, reasons, notifications, audit rows and formatting are left
out. Amounts are small numbers. In `PayrollRun`, `due[e]` is what the contribution
tables make of an employee's compensation; in `Compensation` a rate is the salary
with its overtime rate and allowances. Settings and shift templates in `Timesheet`
may change at any time, so a handler picks any of them at the statement that uses
them. A request that stops in the middle (the client disconnects and the handler's
future is dropped, or a statement fails) is the action `Abort` of `Timesheet`,
`Access`, `Eod`, `Requirement` and `RateLimit`; in `PayrollRun`, failing statements
are those the constraints make fail. A restart of a process, which empties its
caches and windows, is `Restart` of `Access` and an action of `RateLimit`. Text of
reports and documents is represented by the request that wrote it. `PayCompute` and
`PaySheet` have real amounts, in centavos.

**History variables.** `fresh` (sessions whose copy of the row is the row) and
`before` (sessions at work since before the close) in `Timesheet` are read by no
action; they let two properties speak of an overlap. The later modules mark theirs
"history" where they declare them: `raced` in `PeriodControl`, `excused`, `standing` and `alone` in `Access`,
`since`, `mixed` and `seen` in `Eod` and `Requirement`, `resets` in `PinReset`,
`failed` and `peak` in `RateLimit`, `latest` and `beside` in `DeductionDefaults`,
`torn` in `PayrollRun`.
They name the request that a property blames, or the one it excuses and why.

**Bounds** are guards with a name: `UnusedIds` and the finite sets `Requests` and
`Runs`, `MaxRows`, `MaxIds`, `MaxLogs`, `MaxVersion`, `MaxEdits`, `LastDay`,
`LastTime`, and sets of requests that are used once (`Saves`, `Unlocks`, `Submits`,
`Reviews`, `Asks`, `Attempts`, `DefaultSaves`), and `SaveInOneRun` of
`MCPayrollRun`. Each stops an operation before it begins, never a handler half way.

## 3. Modules

| Module | Models | State | Actions |
|---|---|---|---|
| `Leave` | `services/leave.rs`, `leave_balances.rs`, the days of `attendance.rs`, migration 029 | `status`, `form`, `balance`, `entry`, `closed`, `page`, and of each session `pc`, `req`, `draft`, `snapshot`, `seen` | `Create*` (period check, balance, pending sum, insert), `CancelPending`, `Review*` (period check, reject, or lock, deduct, mark the days and commit), `Revoke*` (period check, lock, refund and clear); clock-ins, absence marks, closes and the edit page as the rest of the world |
| `LeaveLedger` | what the leave handlers promise | `status`, `claim` (of a request: employee, type, cost, days), `balance`, `entry`, `page` | `Submit`, `Withdraw`, `Reject`, `Approve`, `Revoke`; `Attend` (clock-ins and absence marks), `Open` and `Save` of the edit page |
| `PayrollLedger` | what payroll promises | `book`: of each period the runs that count and whether they are paid | `Draft`, `GiveUp`, `Pay` |
| `PayrollRun` | `services/payroll/runs.rs`, `deductions.rs`, `deductions_auto.rs`, the guards of `payroll_controls.rs` | `closed`, `sheet`, `due`, `toggles`, `status`, `period`, `hash`, `line`, `ded`, `job`, `torn` | `Create*`, `Auto*`, `Defaults`, `GovPlan`, `LwopPlan`, `WriteAuto`, `InsertAuto`, `ReadSums` and `Refresh` (the snapshot of an UPDATE and its write), `AutoVoid`, `Void`, `Recalc*`, `LwopBegin`, `Save*`, `Finalize*`; edits of attendance, holidays, compensation and toggles |
| `PayCompute` | `payroll/compute.rs`, `gov_deductions.rs`, the minutes and rates of `labor_premiums.rs` | none | operators: rates, `ForPeriod`, `Prorated`, `ot_pay`, `gross_pay`, premiums, `sss`, `philhealth`, `pagibig`, `withholding_tax`, `TakeHome` |
| `PaySheet` | one employee's line with real amounts: `reports/payroll.rs`, `runs.rs`, `deductions*.rs`, `export.rs`, `pdf.rs`, `payslips.rs`, `labor_premiums.rs` | `now` (the records), `types`, `status`, `line`, `rows`, `edits` | `Edit` (salary, employment dates, activity, the day's entry, holiday, shift, settings), `ToggleType`, `CreateDraft`, `SaveDeductions`, `Finalize`, `Void` |
| `PayPeriods` | `reports/period.rs`: the calendar and `current_pay_period` of the four pay period types | none | operators, with the first days of months as a recursive function |
| `PeriodControl` | `payroll_controls.rs`, the pay period setting, and of runs their period | `setting`, `closed`, `status`, `period`, `job`, `raced` | `Close*`, `Reopen*`, `Create*`, void, finalize, change of setting |
| `Compensation` | `services/compensation.rs`, and the query of `runs.rs` for who has any on a date | `profile`, `history`, `job` | `UpsertBegin` (reads the profile), `UpsertCommit` (archives and replaces) |
| `DeductionDefaults` | `save_deduction_defaults` | `defaults`, `save`, `latest`, `beside` | the delete, with the row locks it waits for, each insert, the commit, the failure on the primary key, the server's choice of a victim among transactions that wait for each other |
| `Timesheet` | `clock.rs`, `corrections.rs`, `ot.rs`, `attendance.rs`, `hours.rs`, one employee and one date | `now`, `entry`, `lastId`, `logs`, `closed`, `job`, `fresh`, `before` | `ClockIn*`, `ClockOut*`, `Fix*` (correction), `New*` (corrected entry on a date without a row), `Review*`, `Mark*`, `Clear*`, `Abort`, `Tick`, close and reopen |
| `Access` | `auth/session.rs`, `middleware.rs`, `services/employees.rs`, `handlers/auth.rs`, `handlers/admin/employees.rs` | `emp`, `cache`, `cookie`, `job`, `excused` | of each browser: `Begin`, `Read`, `Put`, `Drop`, `Again` (who asks), then sign-in, sign-out, change of PIN, sign-out everywhere, reset, role, activity, new employee; `Clear` of the cache, `Abort`; the console's reset of the administrator and restarts |
| `PinReset` | `services/pin_reset.rs` | `team`, `ask`, `review`, `resets` | ask, insert, cancel; load, check who manages, write a review; a new roster |
| `RateLimit` | `auth/rate_limit_store.rs`, `login_limiter.rs`, `post_limiter.rs` | `now`, `shared`, `attempt`, `marks`, `failed`, `peak` | look by address, look by account, compare, note under each, clear, POSTs, cleanup, restart, dropped requests, the clock |
| `Team` | `services/team.rs`, `services/eod/team.rs` | none | operators: who manages, lists, counts and views whom |
| `Eod` | `services/eod/`, the reminders of `notifications.rs`, `handlers/eod` | `day`, `team`, `clocked`, `closed`, `report`, `tasks`, `job`, `dismissed`, `mixed` | `Save*` (clock, period, look, write), `ClearTasks`, `InsertTask`, `Unlock*`, `Dismiss`, `Abort`; midnight, clock-ins, closes and rosters |
| `Requirement` | `services/requirements.rs`, `uploads.rs`, `onboarding.rs`, the notices of `notifications.rs` | `now`, `team`, `types`, `row`, `disk`, `req` | `Submit*` (read, remove the old file, store the new one, update), `Review*`, `CreateType`, `UpdateType`, `SeedType`, `Page`, `Abort`; the clock and rosters |

The `MC...` modules instantiate them for TLC (`MCPaySheet` also `Compensation`,
`MCAccounts` three modules) and the `...Proofs` modules hold the
proofs, three of them about modules that belong together: `AccessProofs` also about
`PinReset` and `RateLimit`, `CompensationProofs` also about `DeductionDefaults` and
`Requirement`, and `PaySheetProofs` about the operators of `PayCompute`. The `map` of
`PROJECT.json` gives the lines of code each definition stands for.

**Payroll is divided in three.** `PayrollRun` keeps the statements of a run, with
small numbers for amounts, and takes periods that do not overlap. `PeriodControl`
keeps the ranges, the calendar and the changes of setting, and of a run only what
pays a range; that canonical ranges of one setting do not overlap, which
`PayrollRun` supposes, is `CalendarSplits` of `MCPeriodControl`. `PaySheet` keeps
the real amounts of one line, over `PayCompute`, with one handler at a time.

**The ledgers.** `Leave` keeps the statements, locks and checks of handlers that
overlap; `LeaveLedger` has each of its operations as one atomic action on the
tables: an approval deducts its cost and marks all its days, a revoke gives the cost
back and clears the days it still finds. `LedgerSpec` of `Leave` says that the
handlers implement it (`claim <- Claimed`, and the tables as they are): TLC checks it in
`LeaveRace`, TLAPS proves it. The ledger has no balance check at submission and no
period check, since the code keeps neither when requests overlap (section 6).

`PayrollRun` keeps a dozen statements, errors and voids of a run;
what the company relies on is shorter: of a period there is at most one run that
counts, it is drafted, then given up or paid, and after payment nothing happens to
the period. That is `PayrollLedger`, and `LedgerSpec` says that `PayrollRun`
implements it (`book <- Book`, where `Book` reads the draft and finalized runs of
each period from the tables): TLC checks it in `PayrollRace`, TLAPS proves it.

**The scopes.** `Team` writes out the queries that decide whom a manager, an
administrator or a colleague sees, each by itself as in the code. `Eod`,
`Requirement` and `PinReset` extend it, and their properties compare the queries
with each other: a list with the page it leads to, a count with the reminders.

**Access and PinReset.** A review that resets a PIN is in `PinReset`; what any
reset does to sessions and caches is `ResetPin` of `Access`. The two meet in one
UPDATE of the employee, so neither needs the other's state.

## 4. Runs

Together the runs take every action and every disjunct of the next-state
relations. Symmetry is used only in runs without liveness.

| Run | Instance | Shows |
|---|---|---|
| `LeaveRace` | 2 sessions, 2 requests of one employee, 2 days, one type with a balance of one day (10 tenths), one period over both days, the edit page writing back its value or 0 | `LiveLeaveDisjoint`, `LedgerSpec` |
| `LeaveLive` | 2 sessions, 2 requests, 1 day, a type with and one without a balance | `HandlersReturn`: no handler waits for ever |
| `PayrollRace` | 2 sessions, 2 runs of one period, 1 employee, one government, one LWOP and one manual type with a default, typed amounts -1 and 1, saves that begin while one run is there | `OneActiveRun`, `NetWithinGross`, `NetMatches`, `ManualRowsKept`, `CreateLeavesNoHalfDraft`, `FinalRunsSettle`, `LedgerSpec` |
| `PayrollSolo` | 1 session, 1 run, two government types with every toggle, three summaries, premiums, an employee with and without compensation | `DeductionsWithinGross` |
| `Payslip` | one employee, 5 salaries (none, low, both sides of a step of the SSS table, high), 7 kinds of day (night shift, overtime under each verdict, marks), hires and separations before, in and after the period, three settings. Compensation: 2 sessions, 2 rates, 4 dates, 3 rows of history | `LinesExplained`, `JournalBalances`, `HandoverPaysOnce`, `FreshDraftQuiet`, `RaiseKeepsPay`; `CoverageKept`, `RaisesKeepPast` |
| `RateGuard` | as `Payslip`, with one change of the records | a violation: `DraftNeedsRate`, the guard of PAYROLL.md:224 that the code does not have (section 6) |
| `PeriodRace` | 2 sessions, 3 runs, semimonthly, monthly and biweekly settings, four ranges of January 2024: its first half, the month, a fortnight that shares one day with the half, and one with its dates swapped | `NoDayPaidTwice`, `RunsStayClosed`; `CalendarSplits` for every date of 2024 and 2025, all four settings and two anchors |
| `TimesheetRace` | 2 sessions, 3 minutes of the day, overtime with and without approval, one shift, one absence, 2 rows in turn, 1 log at the start of a correction | `OvertimeAccounted`, `FrozenWhenClosed`, `CorrectionLogged`, `CoherenceKept` |
| `AccessRace` | 2 browsers of an administrator and of an employee who is hired and promoted, 1 process and the console as another, 1 reset of each | `StaleExplained`, `RunsWithPresentRole`, `OldSessionsEnd`, `ValidSessionsServed`, `AdminsRemain` |
| `EodRace` | an author, a colleague, a manager and an administrator in two rosters, 2 saves of 0 or 2 tasks, 1 unlock, a closed date and, a week later, a holiday | `ReportsSettle`, `OneFormAtRest`, `RemindersAgree`, `PagesAgree` |
| `Requirement` | one owner, one type, 3 submissions, 2 reviews, 3 days, expiry after a day or never, an owner who leaves | `ListsAgree`, `FilesKept`, `DecisionsStand` |
| `Accounts` | PIN resets: 2 askers, 2 asks, 2 reviews, 2 rosters. Limits: 3 attempts, 1 account, 1 address, 2 processes or a shared table, windows 1 and 2, clock to 3, limits 1, 2 and 1. Defaults: 3 saves, 2 types | `ResetsAccounted`, `LimitHolds`, `LocksStand`, `DefaultsOfOneSave` |

**Several modules in one run.** `PinReset`, `RateLimit` and `DeductionDefaults` share
no variable and no lock. `scene` of `MCAccounts` chooses one of them while the
others stand still: a behaviour of all is one of each up to stuttering. `scene` of
`MCPaySheet` does the same for `PaySheet` and `Compensation`: what a change may do to
the rate of a date is a question about the history alone, and a line takes
whatever rate it finds (`SetSalary`).

**Why the bounds are enough.** The checks of this code compare one row with one
other: a request with an overlapping one, a run with another of its period, a
correction with the row it read. Two sessions and two rows give every such pair,
and a third session only repeats one of the two roles. Where three are needed there
are three: the third submission of `Requirement` re-submits what was rejected while
two tabs race, the third attempt of `RateLimit` sees a limit of one overshot by two,
and three saves of defaults can wait for each other in a circle.

One employee is enough where no handler relates rows of two, except that a run has
a line of each; `NextLine` goes through them in order, and an error on any line has
the same consequence. Two days of leave give requests that share a day without
having the same dates. Ten tenths are one day, so a second approval finds the
balance short, and a half day finds half of it left. The three minutes of
`Timesheet` are a clock-in, a second one less than the break later, so that minutes
would go negative, and a clock-out past the threshold. Four dates let a change fall
before, on, between and after two others. In `Access` two browsers suffice for a
change and a request that overlaps it, and the console takes the part of a second
process, since both change the table without emptying this cache. The salaries of
`PaySheet` lie on both sides of a step, and its separations before, on and after
the hire. Two days in `Eod` are enough for midnight, with seven between them, so
that the pages of a week and of longer differ. In `Requirement` a validity of one
day puts expiry before, at and after the clock. The windows 1 and 2 of `RateLimit`
give an age below, at and above each.

`PayrollRace` begins no save once the second run is there (`SaveInOneRun`). That run
follows a void of the first, whose handlers may still be at work, saves among them;
a save of the second meets the same handlers as one of the first did, and handlers of
one run write no other (`EveryJobWritesItsRun`, proved).

`AccessRace`, `PayrollSolo`, `Payslip`, `TimesheetRace` and `Accounts` are the largest,
with 1.88, 1.80, 1.73, 1.67 and 1.50 million distinct states; `PayrollRace` has 0.99. Where
a bound could still hide something, the proofs of section 5 hold for every value of it.

**Deadlock** is checked except where the ids or requests that bound a run are used
up: the payroll runs, `Payslip` with `RateGuard`, `EodRace` and `Accounts`.

**Fairness.** Only `LeaveLive` needs it. `FairSpec` is `Spec` with strong fairness
of `Advance(s)` for each session: a handler that has begun continues. Nothing is
assumed of `Begin` or of the rest of the world. It has to be strong, since a
waiter's step is enabled and disabled again as others take and release the lock,
and it may be: PostgreSQL queues the waiters of a row lock and grants it in order,
and every holder goes on to its commit without waiting for a user.

`HandlersReturn` then says that the order of the locks in approve and revoke,
request before balance, cannot block anyone. The only other locks that are held
over statements are those of `DeductionDefaults`; there the server breaks a circle
of waiters, which is an action, and no handler can wait on two circles.

**Reading the properties of a race.** Several say that something happens only under
a named circumstance: a submitted report is a draft again only by a save that found
a draft before the submission came (`ReportsSettle`), a stale snapshot is there only
after one of three overlaps (`StaleExplained`), the limit is passed only by attempts
that were under way together (`LimitHolds`), a day is paid twice only where two closes
overtook each other's query, or a reopen and a creation each other's check
(`NoDayPaidTwice`). The code allows the circumstance; the
property says that there is no other way, and the run reaches it. Such a property
does not forbid the harm, it says where it can come from. Section 6 lists the
circumstances.

## 5. Proofs

All are checked by `tlapm` to the last leaf, with nothing omitted and no axioms;
they hold for every value of the constants that satisfies the named assumption of
each module, which TLC evaluates in each run. The assumptions say what the schema or
the code says of the constants: sets of ids are finite where the argument counts,
amounts and limits are natural numbers, `None` is no value. One is about an operator:
`Gross(w)` of `PayrollRun` is a natural number, as `gross_pay_cents` ends in `.max(0)`
(`services/payroll/compute.rs:171`).

A safety property is proved from an invariant that says what each request has read
and what of it still holds at the statement that relies on it; an action property
from the same invariant and one lemma about steps.

**Leave** (`TypeCorrect`, `LeaveInvariant`, `NoOverlap`, `ImplementsLedger`,
`AllDaysMarked`, `FinalDecisions`, `BalancedLedger`). `LiveLeaveDisjoint` is kept by the
exclusion constraint alone, but the others need to know what a handler may rely on
between two statements of a transaction. `LeaveInv` adds to the types: ids that were read
are ids of rows (`RowsKnown`), a locked request still has the status it was locked
with and no two sessions hold the same one (`RequestLocks`), a balance that was
deducted under its lock is still large enough at the commit (`BalanceLocks`), and the rows
that an approval has read are still there (`SeenRowsStay`). One lemma per action,
gathered in `NextInv`.

`ImplementsLedger` maps each statement to a step of the ledger or to a stutter.
Submission maps at its INSERT, which the exclusion constraint guards; withdrawal
and rejection at their UPDATE. An approval maps at its commit, and there
`LeaveInv` says what the ledger's `Approve` asks: the request is pending although its
status was read statements ago, the balance covers the cost, and the days written
by id and by upsert are all the days of the claim. A revoke maps at its commit too.
What the ledger implies is also stated as theorems about `Leave`: `BalancedLedger` (every
charge moves its balance by its own amount) and `AllDaysMarked`.

**PayrollRun, the runs** (`OneRunPerPeriod`, `ImplementsLedger`, `NoHalfDraft`,
`FinalRuns`, `FinalRunsStay`, `OwnRowsStay`). The argument goes through a classification of the steps:
`EveryStepIsRunStep` shows that a step of any of the handlers changes the runs by
an insert into a period without an active run, by ending a draft, or not at all.
`RunInv` and the refinement follow from the classification. `NoHalfDraft` needs
what a creation has done by the time it reaches each statement (`JobOK`), carried
by `EveryJobMoves`. `FinalRuns` and `OwnRowsStay` classify the steps again, by
what they do to lines and to deductions. `FinalRunsStay` puts two such
classifications together: a handler only takes up a run that is a draft or that it
has just inserted (`EveryJobStays`), and it writes the deductions and lines of no other
run (`EveryJobWritesItsRun`). So a finalized run can gain no new handler, and without
one it stands still, although handlers do not read its status again.

**PayrollRun, the amounts** (`NetTheorem`, `NetFollowsDeductions`, `PayrollTypes`,
`SumsTheorem`, `SumsAlone`).
`NetWithinGross` holds whatever the sessions do. Its invariant `PaidInv` has the world
as edits leave it (`World`), typed rows of deductions (`DedTyped`), what each job has
read by each statement (`Read`), above all that amounts about to be saved fit the line
they were checked against (`FitsKept`: a line keeps its gross pay), and the claim for each
line (`Paid`): a refresh refuses a line over its gross, a save has checked its own.
`PayrollTypes` adds the columns that no amount depends on.
`NetMatches` is inductive with these (`BalancedOrTold`): a creation or recalculation
goes on until it gives up, voids or refreshes (`WorkGoesOn`), a refresh either writes
the sums of the table or says so (`WriteBalances`), a save writes both sides of the
equation in one transaction (`SaveBalances`), and the steps on other runs leave a run
alone (`JobsBalance`).
`DeductionsWithinGross` is false when two sessions work on one run: in an instance like
`PayrollRace` TLC finds a save between the check of the defaults and their inserts.
`SumsTheorem` has the hypothesis `[]Undisturbed` instead of one on the number of
sessions: nobody else works on a run whose lines a creation or a recalculation goes
through. Saves may overlap each other, and sessions may work on different runs.
`SumsAlone` is the case of one session, as in `PayrollSolo`, without a hypothesis
on the behaviour.
`SumsInv` says that a run that is not there has no deductions, that each
line is within its gross, and what of its gross the job at a line has left
(`Bounded`): the amounts still planned fit together with the rows of all other types,
in a creation and in a recalculation, before each insert. `OthersBounded` keeps the
bounds of a job through the steps of others, which write other runs.
Both need sums over arbitrary finite sets of types. `TotalStep` takes any element out
of a `MapThenSumSet`, by well-founded induction over the finite subsets
(`SubsetInduction`), and `TotalSame`, `TotalSplit`, `TotalLess` and `RowReplaced` are
what the steps cite.

**PeriodControl** (`ControlInvariant`, `NoDoublePay`, `PaidStaysClosed`,
`NothingRacedAlone`), for any number of sessions, runs, ranges and settings. `raced` has
the ranges of which a check was overtaken: by the insert of an overlapping close, by a
creation before the delete of a reopen, or by a reopen before the insert of a creation.
`ReadsStand` says that what a handler has read is still so at the statement that relies
on it, or its range is in `raced`; `NoDayPaidTwice` follows because the ranges of
runs that count are distinct (`OneRunPerRange`), closed, and closed ranges are disjoint,
but for those in `raced`. `QueryFindsOverlaps` is where the arithmetic of the overlap query
meets the sets of dates. `NothingRacedAlone` says that `raced` stays empty while one
request at a time is served (`OneAtATime`), so that then neither property has an
exception.

**Compensation** (`CompensationTypes`, `NoCoverageLost`, `NoPastRateLost`), for any
dates and sessions. `CoverageKept` and `RaisesKeepPast` speak of changes that replace
the profile they read; the other case loses a rate (section 6).

**DeductionDefaults** (`DefaultsTheorem`), for any saves and types. `DefaultInv` says
of each open save what it has locked and written, that no two hold the same row, and
that every row it did not see is of a save that was under way with it (`beside`). With
it the commit of a save leaves its own rows and those of saves beside it; one
lemma per action.

**Timesheet** (`TimesheetTypes`, `NoHiddenOvertime`, `PunchesStay`,
`OnlyEarlierHandlersWrite`, `CorrectionsLogged`, `FreshWritesCoherent`), for any
times, settings, shifts and number of sessions. `SheetInv` adds to the type what a
handler has read by each statement (`JobsFilled`) and that a free id is left while
the date has no row. Three more invariants are built on it, one per property:
`Gate` (only sessions from before the close are about to write a closed date),
`Logged` (a correction about to write has its log) and `CoherenceInv` (the row and
the jobs have their times from somewhere, and a fresh session knows the row).

**PaySheet, the arithmetic** (`HandoverTheorem`, `RaiseTheorem`), for any salaries and
any length of the period, which TLC can only sample. They rest on lemmas of the same
module about the operators of `PayCompute`. `Rounding` bounds `round_div`, from which
`Handover` follows: two shares that add up to the whole period round to the whole pay,
or a centavo more. `CreditStep`, `SssStep`, `PhilhealthStep`, `PagibigStep` and
`WithholdingGrows` bound what each contribution and the tax take of a raise;
`ContributionsStep` adds them up, and the tax never takes more than the rise, but for the
rounding to pesos.

**PaySheet, the line** (`LinesTheorem`, `JournalTheorem`, `FreshTheorem`). A line is
always the one that some records gave, but for its net pay (`LineOfRecords`), so
`LinesExplained` becomes a statement about `Line(r)` of any record: who the query
selects has employed days and the other way round (`SelectedAreEmployed`), and page
and PDF explain what was paid. `JournalBalances` follows since
the net pay of a line is what its rows leave of its gross (`NetOfRows`), and
the types of the journal and the retired ones divide the rows. `FreshDraftQuiet` is
about the two passes of the automatic deductions, which plan the same amounts from the
same records. The sums here are over the six codes, a fixed set.

**Access** (`StaleTheorem`, `PresentRoleTheorem`, `OldSessionsTheorem`,
`ValidSessionsTheorem`, `AdminsTheorem`), for any processes, browsers and people. The
strengthening has to know which row each request carries between its statements.
`AccessInv` adds to the types and to `StaleExplained` itself: what a session,
a snapshot or a request stands for has a row (`Known`); a row fetched and not yet
put in the cache is the present one or excused (`FetchExplained`); and of each
request, by what it may expect (`standing`): a good session is found in the cache or
by the fetch (`GoodGoesIn`), one known to be over is refused (`BadStaysOut`), one that a
process distrusted is let in by the second look (`DistrustedGoesIn`), and while any of
this is said nothing puts the snapshots in doubt (`Undoubted`). `OtherAdmin` carries
the count of administrators from its statement to the deactivation.

**PinReset** (`ResetsTheorem`). `PinInv` has the shape of requests and reviews
(`Shaped`), the partial unique index (`OnePending`), and of each request the reviews
behind it (`Decided`): a review that nothing overtook still has its request pending
before it, so a request that was not contested has one review, and one reset if that
approved.

**RateLimit** (`LimitTheorem`, `LocksTheorem`), for any finite number of attempts,
windows and limits. `LimitHolds` bounds a set that grows while attempts are under way.
`Counted` says that a failure of the window is recorded or about to be, and `Bounded`
that the attempts which a look let through and that failed or may still fail are fewer
than the limit and the peak of attempts under way together. The counting is by the
library's theorems on cardinality: a step adds one attempt to both sides, moves
it within the set, or finds the limit not reached.

**Eod** (`OneFormTheorem`, `PagesTheorem`, `SettleTheorem`, `RemindersTheorem`), for
any people, dates, rosters and number of saves. `EodInv` adds `SavesInOrder` to the
types: a report that is not in `mixed` has at most one save at work on it, the one that
wrote its summary, and its tasks are the first lines of that save's form (`Progress`).
`WritersMove` and `WriteStep` say how a step changes who is writing and what;
`QuietStep` covers the steps that leave reports and tasks alone. `PagesAgree` needs no
more than the types: it is a matter of the queries, and holds of any roster in which
nobody manages himself, which is what the form allows. `ReportsSettle` needs `Told`: a
request past a look whose answer has changed since has been told so. `RemindersAgree`
needs that a dismissal carries the day it was made on (`DismissedInDay`).

**Requirement** (`ListsTheorem`, `FilesTheorem`, `DecisionsTheorem`), for any roster,
types and requests. `ChecklistInv` adds to the types: a row has a type (`TypesKnown`),
a submission under way has an open row unless another came first (`OpenOrTold`), the
file it stores is named by no row but through it and is on the disk when the row is
updated (`OwnFile`), and a review is of the submission it saw unless that was decided
(`SeenOrTold`).

**Model-checked only.** `HandlersReturn`, since it is a liveness property, and
`CalendarSplits`, an evaluation over two years of dates that include a leap year, which
rests on a recursive function over the months. All other properties of the passing
runs are stated by theorems.

The theorems about `LedgerBalanced`, `ApprovalMarksEveryDay`, `DecisionIsFinal`,
`RunIsFinal`, `PunchesKept`, `LeaveInv`, `ControlInv` and the types (`BalancedLedger`,
`AllDaysMarked`, `FinalDecisions`, `FinalRuns`, `PunchesStay`, `LeaveInvariant`,
`ControlInvariant`, `TypeCorrect`, `PayrollTypes`, ...) state properties that no run
repeats, since the proofs cover every instance.

## 6. Where code and documents disagree

The models follow the code. In these places a document says otherwise; the
property named is the one that shows what still holds.

**Payroll and periods**

- README.md:209 rejects overlapping closes; the query and the insert are two
  statements (`payroll_controls.rs:199`), so two closes at once both succeed.
  `NoDayPaidTwice` leaves out the ranges to which this happened (`raced`).
- With two sessions, a reopen and a creation can both succeed, each checking
  before the other writes, against PAYROLL.md:227. `RunsStayClosed` leaves out the
  ranges to which this happened.
- PAYROLL.md:240 has net pay equal gross minus deductions;
  `recalculate_government_deductions_for_run` deletes, inserts and refreshes apart
  (`deductions_auto.rs:91`), and a government row typed by the admin breaks
  `payroll_deductions_line_type_unique` and stops it in the middle, with the old net
  pay. A refresh is one UPDATE whose sums are those of its snapshot
  (`deductions.rs:235`): a save that commits while it waits for the line has its net pay
  overwritten from the old sums. `NetMatches` says that there is no other way: the
  two are apart only on a run that a creation or recalculation is still going through,
  that a handler gave up on, or that a refresh wrote from sums no longer those of the
  table (`torn`), until the next refresh. `NetWithinGross` holds throughout.
- PAYROLL.md:245 blocks edits after finalize; `save_line_deductions` checks the
  status before its transaction (`deductions.rs:146`), so a save can land after it.
  `RunIsFinal` is about the run and its computed lines; `FinalRunsSettle` says that only
  handlers already past that check still write, and nothing after them.
- PAYROLL.md:245 also says that total deductions cannot exceed gross pay; a save
  between the check of the defaults and their inserts (`deductions_auto.rs:366-378`)
  leaves more, which the refresh and the check before finalizing then refuse.
  `DeductionsWithinGross` holds while such a run is `Undisturbed`.
- The snapshot hash that finalize compares leaves out the inputs of the labor
  premiums, so PAYROLL.md:226 (stale runs cannot be finalized) does not hold for a
  change of the holidays. `Hashed` shows what it covers.
- PAYROLL.md:224 lists among the guards of a run: "Every active employee needs
  compensation effective on `period_end`". No creation asks: `insert_line_for_summary`
  skips an employee without a rate, with a line in the log (`runs.rs:277`), and the run is
  made for the others. No race is needed. `employees_missing_compensation`
  (`runs.rs:75`) only fills a warning on the page of periods still to be paid, which
  says that these employees "will be skipped in draft runs" (`payroll.html:17`).
  `RateGuard` finds the violation of `DraftNeedsRate`.
- PAYROLL.md:189 and 291 keep prior rates; a backdated change leaves older rows that
  a later raise brings back (`compensation.rs:192`), and of two changes that read the
  same profile the rate of the first is replaced without a row of the history.
  `RaisesKeepPast` says when the past stands.
- The biweekly factor is half a month (`compute.rs:85`, PAYROLL.md:28), and there are
  26 fortnights in a year: the two together pay thirteen months.
- The payslip's PDF has no line for premium pay (`pdf.rs:137`), the page has one:
  `LinesExplained` states the difference.
- The CSV and the journal leave out a type retired since (`export.rs:226`), so such a
  journal does not balance by exactly that amount (`JournalBalances`); and saving a
  line's deductions, or an employee's defaults, drops the rows of retired types.
- An inactive employee without a date of separation is never in a run, whatever days
  were worked.

**Leave and time**

- README.md:209 freezes closed dates; `review_request` checks the period before its
  transaction only (`leave.rs:389`), so an approval can commit after a close.
- Submission compares the balance with pending requests in two reads and inserts in
  a third statement, so PAYROLL.md:145 (a request may not exceed the balance less
  what is pending) holds for one submission at a time. The approval compares again
  while it deducts.
- The edit page of an employee writes the balances it showed back (`SavePage`), over
  a deduction made meanwhile; PAYROLL.md:148 has an approval deduct the balance.
  `Save` of `LeaveLedger` is that save; no other operation moves a balance by
  anything but a request's own cost.
- Overtime is reviewed by id, two queries after the row was read (`ot.rs:113`): a
  correction in between changes the minutes, and the old verdict lands on minutes
  that no reviewer saw. An absence is written over a row read without a clock-in
  (`attendance.rs:195`), so a clock-in in between leaves a worked day marked absent, and a
  clock-out computes its minutes from the clock-in it read (`clock.rs:146`). No property
  forbids either: `CoherenceKept` says that an incoherent row comes only from a session
  whose copy was out of date, and the verdict on corrected minutes leaves a row
  that is coherent.
- `create_corrected_entry` inserts the row before its log; a request that stops in
  between leaves times without one. `CorrectionLogged` is about existing rows.
- A shift over midnight cannot be clocked out after it, nor corrected: both
  handlers work on the times of one date; and `derive_status` takes such a shift, whose
  end is before its start, as over.

**Sessions, limits and PINs**

- README.md:189 has the session revalidated against the database on each request;
  a request reads the cache of its process, and README.md:211 wants no sticky sessions.
  A snapshot of another process is corrected only when the versions differ, so a role
  or an activity changed on one replica may last on another (`StaleExplained`,
  `OldSessionsEnd`). The second look, at a distrusted snapshot, compares the version
  but not whether the employee is active.
- A deactivation counts the active administrators in a statement before it, and a
  demotion does not count them (`AdminsRemain`).
- README.md:214-215 state plain limits: attempts under way together all see the count
  below it (`LimitHolds`); in memory the counts are those of one process
  and are lost with it, as README.md:210 says; and a request dropped between the
  comparison and the record is not counted. The memory counts ages below the window,
  the table those at it too. The page that asks for a PIN looks at the limit of POSTs
  after its own record, so there it is one less.
- Approve and deny write a PIN request by its id: of two reviews at once, or a review
  and a cancel, the later write wins; a PIN may be reset twice, or for a request
  that was denied or cancelled in between. `ResetsAccounted` excuses such a request as
  contested and accounts for every other. A manager's queue also lists
  requests of inactive employees that only an administrator may decide.

**Reports and documents**

- README.md:24 locks a submitted report: a draft save that looked before the submit
  writes after it and turns the report back into a draft, with its submission time. A
  save or an unlock under way at midnight, or at a close (README.md:209), still writes
  (`ReportsSettle`).
- Two saves at once leave tasks of both; one dropped among its tasks leaves a report
  with a part of them, locked if it was a submission. `OneFormAtRest` excuses these
  reports (`mixed`): it says that no other report has such tasks.
- A manager's count of missing reports ignores holidays, the reminder does not. The
  keys of the notices of pending requests carry a count and no date, so dismissing
  "2 pending" also hides a later two. `RemindersAgree` is about the dated kinds, of
  which this is not so.
- The old file of a requirement is removed before the new one is validated
  (`requirements.rs:209`): a refusal leaves a row whose file is gone, and a
  submission with a note alone is then accepted although the type asks for a file
  (`requirements.rs:203`). A refused or dropped upload can leave a file that no row
  names. `FilesKept` does not forbid the refusal that comes too late; it says of the file
  removed that it is never the file of a row under review or approved,
  unless two submissions overlapped.
- A review names a row, not a submission: what was submitted after the page was shown
  is decided too when the row was decided in between (`DecisionsStand`).
- Queue, count and notice keep rows of retired types and inactive employees that the
  review pages do not offer, and at the very moment of its expiry a document is
  neither met nor open for submission (`ListsAgree`). Progress in the
  administrator's list counts rows, not types.
- Creating a type and seeding its rows are two statements; a page view of the employee
  repairs the rows of active types.
- PAYROLL.md names a route `/admin/compensation/import` that the router does not
  have.

## 7. What is not modelled

Attendance reports and their export, the profile's personal fields and photo, audit
rows, the CSV import of employees, the pages of holidays and shifts, and the HTTP
shell: reads, formatting or single statements without state of their own. The
connection pool: `create_draft_run` takes further connections while its transaction
holds one (`runs.rs:210`), so as many creations at once as the pool has connections
wait until the pool's timeout; the model has no pool. A crash of the server between
two statements of payroll: nothing repairs it, and every property would only say so
(`PROJECT.json` lists the hazard). That `create_draft_run` reads summary, compensation,
employment dates and entries by separate statements is in `PayrollRun` as inputs that
may differ from statement to statement; `PaySheet` reads them at once. The difference
of the application's clock and the database's. Vendored crates and replacements under
`src/patches`, the browser tests under `src/e2e` and the assets are not part of the
program's logic.

## 8. Plan

Done, in the order of importance to the company: leave; payroll runs with their
ledger; the periods and their control; compensation; time entries; access; the
arithmetic and the payslip; end-of-day reports; requirements; PIN resets, limits and
deduction defaults.

Every safety and action property of the passing runs is a theorem, but for the
calendar.

Next, most important first:

1. `PayrollRun` over the amounts of `PayCompute`, so that `SumsInv` and `RaiseKeepsPay`
   speak of the same numbers; and the journal over several lines.
2. The connection pool, with creations that hold one connection and wait for another.

Questions about one module are put in one run where the instance allows it; a new
module's safety run is named after it, and runs whose question a larger instance
answers as well are merged into that one.
