------------------------------ MODULE PaySheet ------------------------------
(***************************************************************************)
(* One employee's line of a payroll run with its real amounts: what the    *)
(* draft takes from the employee's records (services/payroll/runs.rs), the *)
(* deductions and the check before finalizing (deductions.rs,              *)
(* deductions_auto.rs), and what the finalized line shows on the payslip   *)
(* and in the exports (payslips.rs, pdf.rs, export.rs).                    *)
(*                                                                         *)
(* The handlers run one at a time here: PayrollRun has their interleavings,*)
(* with small numbers for amounts.  The period is days 1 to Last, with one *)
(* time entry in it, whose instants are half minutes; the records may      *)
(* change between any two handlers.                                        *)
(***************************************************************************)
EXTENDS PayCompute

CONSTANTS
    Last,            \* the last day of the period
    Salaries,        \* monthly salaries, None for no compensation profile
    Allowance,       \* monthly transport and meal allowance
    OtPercent,       \* ot_rate_percent of the profile
    Hires,           \* dates of hire, None for no date
    Separations,     \* dates of separation, None for no date
    Workdays,        \* states of the time entry
    Settings,        \* [pay, premiums, gov]: pay period type, enabled premiums
                     \* and enabled government deductions
    Break,           \* break_minutes
    Threshold,       \* ot_threshold_minutes
    Approval,        \* ot_requires_approval
    Other,           \* a deduction type of the administrator's
    Default,         \* the employee's default amount for it
    Amounts,         \* amounts typed for a deduction
    First,           \* records that the employee may start with
    MaxEdits,        \* bound on changes of the records and saves
    None             \* no date, no profile, no line

Gov == {"sss", "phic", "hdmf", "wht"}
Codes == Gov \cup {"lwop", Other}

Workday == [in : Nat \cup {None}, out : Nat \cup {None}, regular : Nat, ot : Nat,
            status : {"none", "pending", "approved", "rejected"},
            mark : {"none", "no_show", "lwop"}]

Toggles == [pay : PayPeriods, premiums : SUBSET {"holiday", "rest_day", "night_diff"},
            gov : SUBSET Gov]

Records == [salary : Salaries, hired : Hires, separated : Separations, active : BOOLEAN,
            day : Workdays, holiday : BOOLEAN, rest : BOOLEAN, settings : Settings]

ASSUME SheetAssumption ==
    /\ Last \in Nat \ {0}
    /\ {Allowance, OtPercent, Break, Threshold, Default, MaxEdits} \subseteq Nat
    /\ Amounts \subseteq Nat
    /\ First \subseteq Records
    /\ Salaries \subseteq Nat \cup {None}
    /\ Hires \cup Separations \subseteq Int \cup {None} /\ None \notin Int
    /\ Workdays \subseteq Workday /\ Settings \subseteq Toggles
    /\ Other \notin Gov \cup {"lwop"}

VARIABLES
    now,      \* the employee's records and the settings
    types,    \* active deduction types
    status,   \* "none", "draft" or "finalized"
    line,     \* the payroll_lines row, None where the run skips the employee
    rows,     \* rows[c]: payroll_deductions row; amount 0 is no row
    edits     \* changes and saves so far

vars == <<now, types, status, line, rows, edits>>
payroll == <<status, line, rows>>

NoRow == [amount |-> 0, auto |-> FALSE]
NoRows == [c \in Codes |-> NoRow]

Init ==
    /\ now \in First
    /\ types = Codes
    /\ status = "none"
    /\ line = None
    /\ rows = NoRows
    /\ edits = 0

-----------------------------------------------------------------------------
(* The records.                                                            *)

\* upsert_profile with a form that is valid for the past.
SetSalary == \E s \in Salaries \ {None} : now' = [now EXCEPT !.salary = s]

\* update_admin; the form bounds neither date by the other.
SetEmployment ==
    \E h \in Hires, s \in Separations : now' = [now EXCEPT !.hired = h, !.separated = s]

SetActive == now' = [now EXCEPT !.active = ~@]

\* Punches, corrections, absences and overtime reviews need an open period,
\* and a period with a run that is not voided is closed.
SetDay ==
    /\ status = "none"
    /\ \E d \in Workdays : now' = [now EXCEPT !.day = d]

SetHoliday == now' = [now EXCEPT !.holiday = ~@]

\* A shift can be added for a weekday, not taken away.
SetShift == now.rest /\ now' = [now EXCEPT !.rest = FALSE]

SaveSettings == \E s \in Settings : now' = [now EXCEPT !.settings = s]

Edit ==
    /\ edits < MaxEdits
    /\ edits' = edits + 1
    /\ SetSalary \/ SetEmployment \/ SetActive \/ SetDay \/ SetHoliday \/ SetShift \/ SaveSettings
    /\ UNCHANGED <<types, payroll>>

ToggleType ==
    /\ edits < MaxEdits
    /\ edits' = edits + 1
    /\ \E c \in Codes : types' = IF c \in types THEN types \ {c} ELSE types \cup {c}
    /\ UNCHANGED <<now, payroll>>

-----------------------------------------------------------------------------
(* The line of a draft.                                                    *)

\* The WHERE of payroll_summary.
Selected(r) ==
    /\ r.hired = None \/ r.hired <= Last
    /\ r.separated = None \/ r.separated >= 1
    /\ r.active \/ r.separated # None

EmployedDays(r) == employed_days(1, Last, r.hired, r.separated, None)

OtIs(r, s) == IF r.day.status = s THEN r.day.ot ELSE 0
Marked(r, mark) == IF r.day.mark = mark THEN 1 ELSE 0

\* attendance_snapshot_hash: what the stored hash tells apart.
Hash(r) ==
    IF Selected(r)
    THEN <<r.day.regular, OtIs(r, "approved"), OtIs(r, "pending"),
           Marked(r, "no_show"), Marked(r, "lwop")>>
    ELSE None

\* The overtime that sum_premium_pay_for_period counts.
PremiumOt(r) ==
    CASE r.day.status = "approved" -> r.day.ot
      [] r.day.status = "none" /\ ~Approval -> r.day.ot
      [] OTHER -> 0

Premium(r) ==
    IF r.day.in = None \/ r.day.out = None \/ r.settings.premiums = {} THEN 0
    ELSE day_premium(r.salary, r.day.in, r.day.out, Break, Threshold, PremiumOt(r),
                     r.holiday, r.rest, r.settings.premiums)

\* insert_line_for_summary.
Line(r) ==
    LET pay == r.settings.pay
        employed == EmployedDays(r)
        premium == Premium(r)
        gross == gross_pay(r.salary, Allowance, OtPercent, pay, OtIs(r, "approved"),
                           Marked(r, "no_show"), premium, employed, Last)
    IN [base |-> Prorated(ForPeriod(r.salary, pay), employed, Last),
        allowance |-> Prorated(ForPeriod(Allowance, pay), employed, Last),
        noshow |-> no_show_deduction(r.salary, Marked(r, "no_show")),
        ot |-> ot_pay(r.salary, OtIs(r, "approved"), OtPercent),
        premium |-> premium, gross |-> gross, net |-> gross,
        pending |-> OtIs(r, "pending"), lwop |-> Marked(r, "lwop"), hash |-> Hash(r)]

Skipped(r) == r.salary = None \/ EmployedDays(r) <= 0

-----------------------------------------------------------------------------
(* Deductions.                                                             *)

Total(amount) == amount["sss"] + amount["phic"] + amount["hdmf"] + amount["wht"]
                 + amount["lwop"] + amount[Other]

SumOf(d, codes) == Total([c \in Codes |-> IF c \in codes THEN d[c].amount ELSE 0])

\* Mutant: the amounts of a month, whatever the period.
OwedMonthly(r) ==
    [c \in {g \in r.settings.gov \cap types : monthly_deductions(r.salary)[g] > 0}
        |-> monthly_deductions(r.salary)[c]]

\* What the tables make of the records, for the enabled active types.
Owed(r) ==
    [c \in {g \in r.settings.gov \cap types : period_deductions(r.salary, r.settings.pay)[g] > 0}
        |-> period_deductions(r.salary, r.settings.pay)[c]]

SumOwed(r) == Total([c \in Codes |-> IF c \in DOMAIN Owed(r) THEN Owed(r)[c] ELSE 0])

\* apply_employee_defaults_for_line, for a line without deductions.
Defaults(gross) ==
    IF Other \in types /\ Default <= gross
    THEN [NoRows EXCEPT ![Other].amount = Default] ELSE NoRows

\* apply_government_deductions_for_line, for a line without government rows.
Government(r, d, gross) ==
    IF SumOf(d, Codes) + SumOwed(r) > gross THEN d
    ELSE [c \in Codes |-> IF c \in DOMAIN Owed(r)
                          THEN [amount |-> Owed(r)[c], auto |-> TRUE] ELSE d[c]]

LwopOwed(r, l) == IF l.lwop > 0 /\ "lwop" \in types THEN no_show_deduction(r.salary, l.lwop) ELSE 0

\* apply_lwop_deduction_for_line.
LwopRow(r, d, l) ==
    LET owed == LwopOwed(r, l)
    IN IF owed = 0 \/ SumOf(d, Codes \ {"lwop"}) + owed > l.gross THEN d
       ELSE [d EXCEPT !["lwop"] = [amount |-> owed, auto |-> TRUE]]

\* apply_automatic_deductions_for_run, on a new line.
Automatic(r, l) == LwopRow(r, Government(r, Defaults(l.gross), l.gross), l)

\* Mutant: retired types are not deducted.
RefreshActive(l, d) == [l EXCEPT !.net = l.gross - SumOf(d, types)]

\* refresh_all_line_net_pay.
Refresh(l, d) == [l EXCEPT !.net = l.gross - SumOf(d, Codes)]

CreateDraft ==
    /\ status = "none"
    /\ status' = "draft"
    /\ IF Selected(now) /\ ~Skipped(now)
       THEN /\ rows' = Automatic(now, Line(now))
            /\ line' = Refresh(Line(now), rows')
       ELSE /\ rows' = NoRows
            /\ line' = None
    /\ UNCHANGED <<now, types, edits>>

\* save_line_deductions deletes every row of the line and writes the form's,
\* which has a field for each active type and shows what is stored.
Save(c, amount, auto) ==
    LET form == [k \in Codes |-> CASE k \notin types -> NoRow
                                   [] k \in types /\ k # c -> rows[k]
                                   [] OTHER -> [amount |-> amount, auto |-> auto /\ amount > 0]]
    IN /\ SumOf(form, Codes) <= line.gross
       /\ rows' = form
       /\ line' = Refresh(line, form)

SaveDeductions ==
    /\ status = "draft" /\ line # None
    /\ edits < MaxEdits
    /\ edits' = edits + 1
    /\ \E c \in types, amount \in Amounts, auto \in BOOLEAN :
          /\ auto => rows[c].auto
          /\ Save(c, amount, auto)
    /\ UNCHANGED <<now, types, status>>

\* preflight_finalize_run: the warnings about the line. r.salary may have
\* become None for no line only: a profile is not taken away.
Warnings(r, l, d) ==
    LET due == period_deductions(r.salary, r.settings.pay)
        enabled == r.settings.gov
        lwop == no_show_deduction(r.salary, l.lwop)
    IN {w \in {"disabled", "stale_gov", "missing_gov", "missing_lwop", "stale_lwop"} :
          CASE w = "disabled" -> \E c \in Gov \ enabled : d[c].auto
            [] w = "stale_gov" -> \E c \in enabled \cap types : d[c].auto /\ d[c].amount # due[c]
            [] w = "missing_gov" -> \E c \in enabled \cap types :
                   due[c] > 0 /\ ~(d[c].auto /\ d[c].amount = due[c])
            [] w = "missing_lwop" -> /\ l.lwop > 0 /\ "lwop" \in types /\ lwop > 0
                                     /\ ~(d["lwop"].auto /\ d["lwop"].amount = lwop)
            [] OTHER -> IF l.lwop > 0
                        THEN "lwop" \in types /\ lwop > 0 /\ d["lwop"].auto /\ d["lwop"].amount # lwop
                        ELSE d["lwop"].auto}

Finalize ==
    /\ status = "draft"
    /\ line # None
    /\ line.pending = 0
    /\ line.hash = Hash(now)
    /\ SumOf(rows, Codes) <= line.gross
    /\ status' = "finalized"
    /\ line' = Refresh(line, rows)
    /\ UNCHANGED <<now, types, rows, edits>>

Void ==
    /\ status = "draft"
    /\ status' = "none"
    /\ line' = None /\ rows' = NoRows
    /\ UNCHANGED <<now, types, edits>>

Next == Edit \/ ToggleType \/ CreateDraft \/ SaveDeductions \/ Finalize \/ Void

Spec == Init /\ [][Next]_vars

-----------------------------------------------------------------------------
(* What a finalized line shows.                                            *)

Final == status = "finalized"

\* The columns of the run's CSV and the credits of the journal: the rows of
\* the types that are active when the file is made.
Columns == {c \in types : rows[c].amount > 0}

JournalDebit == line.gross
JournalCredit == SumOf(rows, Columns) + line.net

\* The earnings that the page lists.
PageEarnings == line.base + line.allowance - line.noshow + line.ot + line.premium

\* The earnings that the PDF lists; it has no line for premium pay.
PdfEarnings == line.base + line.allowance - line.noshow + line.ot

-----------------------------------------------------------------------------
(* Properties.                                                             *)

\* payroll_summary's SQL and employed_days_in_period, written apart, agree:
\* whoever the query selects was employed on some day of the period (unless
\* separated before the day of hire), and an active employee employed on some
\* day is selected (reports/payroll.rs:76-81, compute.rs:53-68).
SelectedAreEmployed ==
    /\ Selected(now) /\ EmployedDays(now) = 0 =>
           now.hired # None /\ now.separated # None /\ now.separated < now.hired
    /\ now.active /\ EmployedDays(now) > 0 => Selected(now)

\* What the automatic deductions of a new draft write is what the check before
\* finalizing, which computes it again, expects: it warns only of amounts that
\* were left out because they do not fit in the gross pay
\* (deductions_auto.rs:206-331 against 387-650).
FreshDraftQuiet ==
    [][(status = "none" /\ status' = "draft" /\ line' # None) =>
          /\ Warnings(now, line', rows') \subseteq {"missing_gov", "missing_lwop"}
          /\ Warnings(now, line', rows') # {} =>
                 SumOf(rows', Codes) + SumOwed(now) + LwopOwed(now, line') > line'.gross]_vars

\* The journal of a finalized run balances as long as the types it deducts
\* are active; whatever a retired type deducted is missing from the credits
\* (export.rs:212-294, deductions.rs:21-31).
JournalBalances ==
    Final => JournalDebit - JournalCredit = SumOf(rows, Codes \ types)

\* The earnings on the page add up to the gross pay, whenever the gross pay
\* was not raised to zero; those of the PDF fall short by the premium pay
\* (handlers/payslips.rs:35-96, pdf.rs:83-176).
EarningsExplainGross ==
    line # None =>
        /\ line.gross = AtLeast(PageEarnings, 0)
        /\ PdfEarnings + line.premium = PageEarnings

\* The line of a run says who was employed and what for, in five places that
\* compute it apart: the query, the days employed, the gross pay, the page and
\* the PDF (reports/payroll.rs:76, compute.rs:127, handlers/payslips.rs:35).
LinesExplained == SelectedAreEmployed /\ EarningsExplainGross

\* Every active employee needs compensation effective on the last day of the
\* period, one of the guards that PAYROLL.md:224 lists: no draft is made while
\* an active employee has none. The code asks nobody, and the employee drops
\* out of the run (runs.rs:277).
DraftNeedsRate ==
    [][(status = "none" /\ status' = "draft" /\ now.active) => now.salary # None]_vars

\* A raise never costs an employee more than one step of the SSS table, plus
\* rounding (gov_deductions.rs:73-176).
RaiseKeepsPay ==
    [][(None \notin {now.salary, now'.salary} /\ now'.salary > now.salary) =>
          TakeHome(now'.salary) >= TakeHome(now.salary) - 2502]_vars

\* Whatever day a position changes hands within the period, its two holders
\* are paid its salary once, and at most one centavo more (compute.rs:96-108).
HandoverPaysOnce ==
    now.salary # None =>
        \A d \in 0 .. Last :
            LET full == ForPeriod(now.salary, now.settings.pay)
            IN Prorated(full, d, Last) + Prorated(full, Last - d, Last) - full \in {0, 1}
=============================================================================
