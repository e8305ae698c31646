--------------------------- MODULE PaySheetProofs ---------------------------
(***************************************************************************)
(* What the payslip arithmetic guarantees for every amount, and of every   *)
(* reachable state: the records stay records, whoever edits them, the      *)
(* query, the page and the PDF agree on every line, the journal of a run   *)
(* balances, and a new draft passes the check before finalizing.           *)
(***************************************************************************)
EXTENDS PaySheet, FiniteSetTheorems, TLAPS

(* Multiples that differ by less than one d are of the same number.        *)
LEMMA LessThanOneMore ==
    ASSUME NEW m \in Int, NEW n \in Int, NEW d \in Nat, d > 0, d * m > d * n - d
    PROVE  m >= n
<1> SUFFICES ASSUME m < n PROVE FALSE
    OBVIOUS
<1>1. d * m <= d * (n - 1)
    <2>1. m <= n - 1
        OBVIOUS
    <2> QED BY <2>1, SMT
<1>2. d * (n - 1) = d * n - d
    BY SMT
<1> QED BY <1>1, <1>2, SMT

(* Rounding errs by less than one unit: x is a \div d for a rounded n.     *)
LEMMA Rounding ==
    ASSUME NEW n \in Nat, NEW d \in Nat, d > 0
    PROVE  /\ round_div(n, d) \in Nat
           /\ d * round_div(n, d) <= n + d \div 2
           /\ d * round_div(n, d) > n + d \div 2 - d
<1> DEFINE a == n + d \div 2
<1>1. a \in Nat /\ round_div(n, d) = a \div d
    BY SMT DEF round_div
<1> HIDE DEF a
<1>2. a \div d \in Nat /\ d * (a \div d) <= a /\ a < d * (a \div d) + d
    BY <1>1, SMT
<1> QED BY <1>1, <1>2, SMT DEF a

(* Half of an amount, twice, is the amount and at most one centavo more.   *)
LEMMA Halves ==
    ASSUME NEW s \in Nat
    PROVE  2 * ForPeriod(s, "semimonthly") - s \in {0, 1}
BY SMT DEF ForPeriod, round_div

LEMMA ForPeriodNat ==
    ASSUME NEW s \in Nat, NEW p \in PayPeriods
    PROVE  ForPeriod(s, p) \in Nat
<1>1. round_div(s * 12, 52) \in Nat /\ round_div(s, 2) \in Nat
    <2>1. s * 12 \in Nat /\ 52 \in Nat /\ 52 > 0 /\ 2 \in Nat /\ 2 > 0
        BY SMT
    <2> QED BY <2>1, Rounding
<1> QED BY <1>1 DEF ForPeriod, PayPeriods

(* The amounts for the first e days and for the rest make up the amount.   *)
LEMMA Handover ==
    ASSUME NEW f \in Nat, NEW d \in Nat, d > 0, NEW e \in 0 .. d
    PROVE  Prorated(f, e, d) + Prorated(f, d - e, d) - f \in {0, 1}
<1>1. CASE e = 0 \/ e = d
    BY <1>1, SMT DEF Prorated
<1>2. CASE e > 0 /\ e < d
    <2> DEFINE x == f * e
               y == f * (d - e)
               a == round_div(x, d)
               b == round_div(y, d)
               h == d \div 2
    <2>1. Prorated(f, e, d) = a /\ Prorated(f, d - e, d) = b
        BY <1>2, SMT DEF Prorated
    <2>2. x \in Nat /\ y \in Nat /\ x + y = d * f
        BY <1>2, SMT
    <2>3. h \in Nat /\ 2 * h <= d /\ 2 * h >= d - 1
        BY SMT
    <2> HIDE DEF x, y, h
    <2>4. /\ a \in Nat /\ d * a <= x + h /\ d * a > x + h - d
          /\ b \in Nat /\ d * b <= y + h /\ d * b > y + h - d
        BY <2>2, Rounding DEF h
    <2> HIDE DEF a, b
    <2>5. d * (a + b) = d * a + d * b /\ d * a \in Nat /\ d * b \in Nat /\ d * f \in Nat
        BY <2>4, SMT
    <2>6. a + b >= f
        <3>1. d * (a + b) > d * f - d
            BY <2>2, <2>3, <2>4, <2>5, SMT
        <3> QED BY <2>4, <3>1, LessThanOneMore
    <2>7. f + 1 >= a + b
        <3>1. d * (f + 1) > d * (a + b) - d
            <4>1. d * (f + 1) = d * f + d
                BY SMT
            <4> QED BY <2>2, <2>3, <2>4, <2>5, <4>1, SMT
        <3> QED BY <2>4, <3>1, LessThanOneMore
    <2> QED BY <2>1, <2>4, <2>6, <2>7, SMT
<1> QED BY <1>1, <1>2

(* The tax never falls when income rises, and takes at most the rise and   *)
(* 35 centavos, those of the peso that the rounding down left out.         *)
LEMMA WithholdingGrows ==
    ASSUME NEW s \in Nat, NEW t \in Nat, s <= t
    PROVE  /\ withholding_tax(s) \in Nat /\ withholding_tax(t) \in Nat
           /\ withholding_tax(s) <= withholding_tax(t)
           /\ withholding_tax(t) - withholding_tax(s) <= t - s + 35
BY SMTT(60) DEF withholding_tax

(* The salary credit grows with the salary, by at most a step more.        *)
LEMMA CreditStep ==
    ASSUME NEW p \in Nat, NEW q \in Nat, p <= q
    PROVE  /\ salary_credit(p) \in Nat /\ salary_credit(q) \in Nat
           /\ salary_credit(p) <= salary_credit(q)
           /\ salary_credit(q) - salary_credit(p) <= q - p + 499
<1> DEFINE k == (p - 4750) \div 500
           m == (q - 4750) \div 500
<1>1. p >= 5250 => k \in Nat /\ 500 * k <= p - 4750 /\ 500 * k >= p - 4750 - 499
    BY SMT
<1>2. q >= 5250 => m \in Nat /\ 500 * m <= q - 4750 /\ 500 * m >= q - 4750 - 499
    BY SMT
<1>3. salary_credit(p) = IF p < 5250 THEN 5000 ELSE IF p >= 34750 THEN 35000 ELSE k * 500 + 5000
    BY DEF salary_credit
<1>4. salary_credit(q) = IF q < 5250 THEN 5000 ELSE IF q >= 34750 THEN 35000 ELSE m * 500 + 5000
    BY DEF salary_credit
<1> HIDE DEF k, m
<1> QED BY <1>1, <1>2, <1>3, <1>4, SMT

(* A rise of the salary never lowers the SSS contribution, and raises it by*)
(* at most a step of the table and 5% of the rise.                         *)
LEMMA SssStep ==
    ASSUME NEW s \in Nat, NEW t \in Nat, s <= t
    PROVE  /\ sss(s) \in Nat /\ sss(t) \in Nat
           /\ sss(s) <= sss(t)
           /\ 20 * (sss(t) - sss(s)) <= 50000 + (t - s)
<1> DEFINE p == s \div 100
           q == t \div 100
<1>1. p \in Nat /\ q \in Nat /\ p <= q /\ 100 * (q - p) <= t - s + 99
    BY SMT
<1>2. sss(s) = salary_credit(p) * 5 /\ sss(t) = salary_credit(q) * 5
    BY DEF sss, monthly_salary_credit
<1> HIDE DEF p, q
<1> DEFINE c == salary_credit(p)
           g == salary_credit(q)
<1>3. c \in Nat /\ g \in Nat /\ c <= g /\ g - c <= q - p + 499
    BY <1>1, CreditStep
<1> HIDE DEF c, g
<1>4. 20 * (g * 5 - c * 5) <= 50000 + (t - s)
    BY <1>1, <1>3, SMT
<1>5. sss(s) = c * 5 /\ sss(t) = g * 5
    BY <1>2 DEF c, g
<1>6. c * 5 \in Nat /\ g * 5 \in Nat /\ c * 5 <= g * 5
    BY <1>3, SMT
<1> QED BY <1>4, <1>5, <1>6

(* A rise raises PhilHealth by at most 2.5% of it, to the next centavo.    *)
LEMMA PhilhealthStep ==
    ASSUME NEW s \in Nat, NEW t \in Nat, s <= t
    PROVE  /\ philhealth(s) \in Nat /\ philhealth(t) \in Nat
           /\ philhealth(s) <= philhealth(t)
           /\ 1000 * (philhealth(t) - philhealth(s)) <= 25 * (t - s) + 999
BY SMT DEF philhealth, round_div, AtMost, AtLeast

(* The step of Pag-IBIG: its rate doubles at 150,000 centavos.             *)
LEMMA PagibigStep ==
    ASSUME NEW s \in Nat, NEW t \in Nat, s <= t
    PROVE  /\ pagibig(s) \in Nat /\ pagibig(t) \in Nat
           /\ pagibig(s) <= pagibig(t)
           /\ s > 150000 \/ t <= 150000 => 100 * (pagibig(t) - pagibig(s)) <= 2 * (t - s) + 99
           /\ s <= 150000 => 100 * (pagibig(t) - pagibig(s)) <= 150000 + 2 * (t - s) + 99
BY SMT DEF pagibig, round_div, AtMost

(* Below 5,250 pesos every salary has the lowest contribution.             *)
LEMMA SssFloor ==
    ASSUME NEW s \in Nat, s < 525000
    PROVE  sss(s) = 25000
<1>1. s \div 100 < 5250
    BY SMT
<1> QED BY <1>1, SMT DEF sss, monthly_salary_credit, salary_credit

(* What is left of a salary after its contributions hardly falls.          *)
LEMMA ContributionsStep ==
    ASSUME NEW s \in Nat, NEW t \in Nat, s <= t
    PROVE  /\ Contributions(s) \in Nat /\ Contributions(t) \in Nat
           /\ Contributions(t) - Contributions(s) <= t - s + 2502
<1> DEFINE d == t - s
           a == sss(t) - sss(s)
           b == philhealth(t) - philhealth(s)
           c == pagibig(t) - pagibig(s)
<1>1. sss(s) \in Nat /\ sss(t) \in Nat /\ a \in Nat /\ 20 * a <= 50000 + d
    <2>1. /\ sss(s) \in Nat /\ sss(t) \in Nat /\ sss(s) <= sss(t)
          /\ 20 * (sss(t) - sss(s)) <= 50000 + (t - s)
        BY SssStep
    <2> QED BY <2>1, SMT
<1>2. philhealth(s) \in Nat /\ philhealth(t) \in Nat /\ 1000 * b <= 25 * d + 999
    BY PhilhealthStep
<1>3. /\ pagibig(s) \in Nat /\ pagibig(t) \in Nat
      /\ s > 150000 \/ t <= 150000 => 100 * c <= 2 * d + 99
      /\ s <= 150000 => 100 * c <= 150000 + 2 * d + 99
    BY PagibigStep
<1>4. t < 525000 => a = 0
    BY SssFloor
<1>5. /\ Contributions(s) = sss(s) + philhealth(s) + pagibig(s)
      /\ Contributions(t) = sss(t) + philhealth(t) + pagibig(t)
    BY DEF Contributions
<1> QED BY <1>1, <1>2, <1>3, <1>4, <1>5, SMT

(* A raise costs an employee at most a step of the SSS table and rounding. *)
LEMMA RaiseKeeps ==
    ASSUME NEW s \in Nat, NEW t \in Nat, s <= t
    PROVE  TakeHome(t) >= TakeHome(s) - 2502
<1> DEFINE x == s - Contributions(s)
           y == t - Contributions(t)
           v == AtLeast(x, 0)
           w == AtLeast(y, 0)
<1>1. x \in Int /\ y \in Int /\ y >= x - 2502
    BY SMTT(30), ContributionsStep
<1> HIDE DEF x, y
<1>2. v \in Nat /\ w \in Nat /\ (y >= x => v <= w /\ w - v <= y - x) /\ (y < x => w <= v)
    BY <1>1, SMT DEF AtLeast
<1> HIDE DEF v, w
<1>3. /\ withholding_tax(v) \in Nat /\ withholding_tax(w) \in Nat
      /\ v <= w => withholding_tax(w) - withholding_tax(v) <= w - v + 35
      /\ w <= v => withholding_tax(w) <= withholding_tax(v)
    <2>1. CASE v <= w
        <3>1. /\ withholding_tax(v) \in Nat /\ withholding_tax(w) \in Nat
              /\ withholding_tax(w) - withholding_tax(v) <= w - v + 35
            BY <1>2, <2>1, WithholdingGrows
        <3>2. w <= v => w = v
            BY <1>2, <2>1, SMT
        <3> QED BY <3>1, <3>2, SMT
    <2>2. CASE w < v
        <3>1. /\ withholding_tax(v) \in Nat /\ withholding_tax(w) \in Nat
              /\ withholding_tax(w) <= withholding_tax(v)
            BY <1>2, <2>2, WithholdingGrows, SMT
        <3>2. ~(v <= w)
            BY <1>2, <2>2, SMT
        <3> QED BY <3>1, <3>2
    <2> QED BY <1>2, <2>1, <2>2, SMT
<1>4. TakeHome(s) = x - withholding_tax(v) /\ TakeHome(t) = y - withholding_tax(w)
    BY DEF TakeHome, x, y, v, w
<1> QED BY <1>1, <1>2, <1>3, <1>4, SMT

-----------------------------------------------------------------------------
(* The employee's records and the payslips.                                *)

RecordsOK == now \in Records

LEMMA EditKeepsRecords ==
    ASSUME RecordsOK, Edit
    PROVE  RecordsOK'
<1> USE DEF RecordsOK, Records
<1>1. CASE SetSalary
    BY <1>1 DEF SetSalary
<1>2. CASE SetEmployment
    BY <1>2 DEF SetEmployment
<1>3. CASE SetActive
    BY <1>3 DEF SetActive
<1>4. CASE SetDay
    BY <1>4 DEF SetDay
<1>5. CASE SetHoliday
    BY <1>5 DEF SetHoliday
<1>6. CASE SetShift
    BY <1>6 DEF SetShift
<1>7. CASE SaveSettings
    BY <1>7 DEF SaveSettings
<1> QED BY <1>1, <1>2, <1>3, <1>4, <1>5, <1>6, <1>7 DEF Edit

LEMMA NextKeepsRecords ==
    ASSUME RecordsOK, [Next]_vars
    PROVE  RecordsOK'
<1>1. CASE Edit
    BY <1>1, EditKeepsRecords
<1>2. CASE ToggleType \/ CreateDraft \/ SaveDeductions \/ Finalize \/ Void \/ UNCHANGED vars
    BY <1>2 DEF RecordsOK, ToggleType, CreateDraft, SaveDeductions, Finalize, Void, vars
<1> QED BY <1>1, <1>2 DEF Next

(* The employee's records are well formed in every state.                  *)
LEMMA RecordsStay == Spec => []RecordsOK
<1>1. Init => RecordsOK
    BY SheetAssumption DEF Init, RecordsOK
<1> QED BY <1>1, NextKeepsRecords, PTL DEF Spec

(* Two holders of a position within a period are paid its salary once, to  *)
(* the centavo: the proration of compute.rs:96-108.                       *)
THEOREM HandoverTheorem == Spec => []HandoverPaysOnce
<1>1. RecordsOK => HandoverPaysOnce
    <2> SUFFICES ASSUME RecordsOK, now.salary # None, NEW d \in 0 .. Last
                 PROVE  LET full == ForPeriod(now.salary, now.settings.pay)
                        IN Prorated(full, d, Last) + Prorated(full, Last - d, Last) - full \in {0, 1}
        BY DEF HandoverPaysOnce
    <2>1. now.salary \in Nat /\ now.settings.pay \in PayPeriods
        BY SheetAssumption DEF RecordsOK, Records, Toggles
    <2>2. ForPeriod(now.salary, now.settings.pay) \in Nat
        BY <2>1, ForPeriodNat
    <2>3. Last \in Nat /\ Last > 0
        BY SheetAssumption
    <2> QED BY <2>2, <2>3, Handover
<1> QED BY <1>1, RecordsStay, PTL

(* Every raise leaves the employee's pay after contributions and tax at    *)
(* least where it was, but for a step of the SSS table: the deductions of  *)
(* gov_deductions.rs:73-176.                                               *)
THEOREM RaiseTheorem == Spec => RaiseKeepsPay
<1>1. RecordsOK /\ RecordsOK' =>
          [(None \notin {now.salary, now'.salary} /\ now'.salary > now.salary) =>
              TakeHome(now'.salary) >= TakeHome(now.salary) - 2502]_vars
    <2> SUFFICES ASSUME RecordsOK, RecordsOK',
                        None \notin {now.salary, now'.salary}, now'.salary > now.salary
                 PROVE  TakeHome(now'.salary) >= TakeHome(now.salary) - 2502
        OBVIOUS
    <2>1. now.salary \in Nat /\ now'.salary \in Nat
        BY SheetAssumption DEF RecordsOK, Records
    <2> QED BY <2>1, RaiseKeeps, SMT
<1> QED BY <1>1, RecordsStay, PTL DEF RaiseKeepsPay

-----------------------------------------------------------------------------
(* The line and what it shows.                                             *)

(* Who the query selects and whose days count are the same people: both    *)
(* cut the days of employment to the period.                               *)
LEMMA SelectionAgrees ==
    ASSUME RecordsOK
    PROVE  SelectedAreEmployed
<1> DEFINE h == now.hired
           s == now.separated
           from == OrElse(h, 1, None)
           to == OrElse(s, Last, None)
<1>1. h \in Int \cup {None} /\ s \in Int \cup {None} /\ Last \in Nat /\ Last > 0 /\ now.active \in BOOLEAN
    BY SheetAssumption DEF RecordsOK, Records
<1>2. /\ h = None => from = 1
      /\ h # None => from = h /\ h \in Int
      /\ s = None => to = Last
      /\ s # None => to = s /\ s \in Int
    BY <1>1 DEF OrElse
<1>3. from \in Int /\ to \in Int
    BY <1>1, <1>2
<1>4. EmployedDays(now) = inclusive_calendar_days(AtLeast(from, 1), AtMost(to, Last))
    BY DEF EmployedDays, employed_days
<1>5. Selected(now) <=> /\ h = None \/ h <= Last
                        /\ s = None \/ s >= 1
                        /\ now.active \/ s # None
    BY DEF Selected
<1> HIDE DEF h, s, from, to
<1>6. EmployedDays(now) = 0 <=> AtMost(to, Last) < AtLeast(from, 1)
    BY <1>1, <1>3, <1>4 DEF inclusive_calendar_days, AtLeast, AtMost
<1>7. EmployedDays(now) > 0 <=> AtLeast(from, 1) <= AtMost(to, Last)
    BY <1>1, <1>3, <1>4 DEF inclusive_calendar_days, AtLeast, AtMost
<1>8. Selected(now) /\ EmployedDays(now) = 0 => h # None /\ s # None /\ s < h
    BY <1>1, <1>2, <1>5, <1>6 DEF AtLeast, AtMost
<1>9. now.active /\ EmployedDays(now) > 0 => Selected(now)
    BY <1>1, <1>2, <1>5, <1>7 DEF AtLeast, AtMost
<1> QED BY <1>8, <1>9 DEF SelectedAreEmployed, h, s

(* A line is the one some records gave, but for its net pay, which every   *)
(* change of the deductions computes anew.                                 *)
LineOfRecords ==
    line # None \/ Final =>
        \E r \in Records : r.salary # None /\ line = [Line(r) EXCEPT !.net = line.net]

(* The net pay of a line is no other column of it.                         *)
LEMMA RefreshNet ==
    ASSUME NEW r, NEW m, NEW d
    PROVE  LET old == [Line(r) EXCEPT !.net = m]
               new == Refresh(old, d)
           IN new = [Line(r) EXCEPT !.net = new.net]
    BY DEF Line, Refresh

LEMMA LineStep ==
    ASSUME RecordsOK, LineOfRecords, [Next]_vars
    PROVE  LineOfRecords'
<1>1. ASSUME NEW d, line # None, line' = Refresh(line, d)
      PROVE  LineOfRecords'
    <2>1. PICK r \in Records : r.salary # None /\ line = [Line(r) EXCEPT !.net = line.net]
        BY <1>1 DEF LineOfRecords
    <2> DEFINE m == line.net
    <2>2. line = [Line(r) EXCEPT !.net = m]
        BY <2>1
    <2> HIDE DEF m
    <2>3. line' = [Line(r) EXCEPT !.net = line'.net]
        BY <1>1, <2>2, RefreshNet
    <2> QED BY <2>1, <2>3 DEF LineOfRecords
<1>2. CASE CreateDraft
    <2>0. status' = "draft"
        BY <1>2 DEF CreateDraft
    <2>1. CASE line' = None
        BY <2>0, <2>1 DEF LineOfRecords, Final
    <2>2. CASE now.salary # None /\ line' = Refresh(Line(now), rows')
        <3>1. line' = [Line(now) EXCEPT !.net = line'.net]
            BY <2>2 DEF Line, Refresh
        <3> QED BY <2>2, <3>1 DEF RecordsOK, LineOfRecords
    <2> QED BY <1>2, <2>1, <2>2 DEF CreateDraft, Skipped
<1>3. CASE SaveDeductions
    BY <1>1, <1>3 DEF SaveDeductions, Save
<1>4. CASE Finalize
    BY <1>1, <1>4 DEF Finalize
<1>5. CASE Void
    BY <1>5 DEF Void, LineOfRecords, Final
<1>6. CASE Edit \/ ToggleType \/ UNCHANGED vars
    BY <1>6 DEF Edit, ToggleType, payroll, vars, LineOfRecords, Final
<1> QED BY <1>2, <1>3, <1>4, <1>5, <1>6 DEF Next

(* The columns of a line are the terms of its gross pay.                   *)
LEMMA LineEarnings ==
    ASSUME LineOfRecords
    PROVE  EarningsExplainGross
<1> SUFFICES ASSUME line # None
             PROVE  /\ line.gross = AtLeast(PageEarnings, 0)
                    /\ PdfEarnings + line.premium = PageEarnings
    BY DEF EarningsExplainGross
<1>1. PICK r \in Records : line = [Line(r) EXCEPT !.net = line.net]
    BY DEF LineOfRecords
<1> DEFINE m == line.net
<1>2. line = [Line(r) EXCEPT !.net = m]
    BY <1>1
<1> HIDE DEF m
<1>3. /\ line.gross = Line(r).gross /\ line.base = Line(r).base
      /\ line.allowance = Line(r).allowance /\ line.noshow = Line(r).noshow
      /\ line.ot = Line(r).ot /\ line.premium = Line(r).premium
    BY <1>2 DEF Line
<1>4. Line(r).gross = AtLeast(Line(r).base + Line(r).allowance - Line(r).noshow
                              + Line(r).ot + Line(r).premium, 0)
    BY DEF Line, gross_pay
<1>5. line.gross = AtLeast(PageEarnings, 0)
    BY <1>3, <1>4 DEF PageEarnings
<1> QED BY <1>5 DEF PageEarnings, PdfEarnings

(* The query, the days employed, the gross pay, the page and the PDF agree *)
(* on every line, whatever the records, the period and the rates:          *)
(* reports/payroll.rs:76, compute.rs:127 and handlers/payslips.rs:35.      *)
THEOREM LinesTheorem == Spec => []LinesExplained
<1>1. Init => LineOfRecords
    BY DEF Init, LineOfRecords, Final
<1>2. RecordsOK /\ LineOfRecords => LinesExplained
    BY SelectionAgrees, LineEarnings DEF LinesExplained
<1> QED BY <1>1, <1>2, LineStep, RecordsStay, PTL DEF Spec

-----------------------------------------------------------------------------
(* The amounts of a line.                                                  *)

LEMMA Product ==
    ASSUME NEW a \in Nat, NEW b \in Nat
    PROVE  a * b \in Nat
OBVIOUS

LEMMA RatesNat ==
    ASSUME NEW s \in Nat, NEW n \in Nat, NEW p \in Nat
    PROVE  /\ daily_rate(s) \in Nat /\ hourly_rate(s) \in Nat
           /\ Share(s, n, p) \in Nat /\ ot_pay(s, n, p) \in Nat
           /\ no_show_deduction(s, n) \in Nat
<1>1. daily_rate(s) \in Nat
    BY Rounding DEF daily_rate
<1>2. daily_rate(s) * 60 \in Nat /\ 480 \in Nat /\ 480 > 0
    BY <1>1, Product
<1>3. hourly_rate(s) \in Nat
    BY ZenonT(60), <1>2, Rounding DEF hourly_rate
<1>4. hourly_rate(s) * n * p \in Nat
    <2>1. hourly_rate(s) * n \in Nat
        BY <1>3, Product
    <2> QED BY <2>1, Product
<1>5. 100 * 60 \in Nat /\ 100 * 60 > 0
    BY SMT
<1>6. round_div(hourly_rate(s) * n * p, 100 * 60) \in Nat
    BY <1>4, <1>5, Rounding
<1>7. daily_rate(s) * n \in Nat
    BY <1>1, Product
<1> QED BY <1>1, <1>3, <1>6, <1>7 DEF Share, ot_pay, no_show_deduction

LEMMA ProratedNat ==
    ASSUME NEW f \in Nat, NEW e \in Int, NEW d \in Nat, d > 0
    PROVE  Prorated(f, e, d) \in Nat
<1>1. CASE e >= d \/ e <= 0
    BY <1>1 DEF Prorated
<1>2. CASE e < d /\ e > 0
    <2>1. e \in Nat
        BY <1>2
    <2>2. f * e \in Nat
        BY <2>1, Product
    <2>3. round_div(f * e, d) \in Nat
        BY <2>2, Rounding
    <2> QED BY <1>2, <2>3 DEF Prorated
<1> QED BY <1>1, <1>2

LEMMA NightNat ==
    ASSUME NEW in \in Nat, NEW out \in Nat
    PROVE  night_minutes(in, out) \in Nat
<1>1. IsFiniteSet(0 .. out - in)
    BY FS_Interval
<1>2. IsFiniteSet({k \in 0 .. out - in : 2 * k < out - in /\ is_night(((in + 2 * k) \div 120) % 24)})
    BY <1>1, FS_Subset
<1> QED BY <1>2, FS_CardinalityType DEF night_minutes

LEMMA PremiumNat ==
    ASSUME NEW r \in Records, r.salary # None
    PROVE  Premium(r) \in Nat
<1> DEFINE i == r.day.in
           o == r.day.out
           work == split_work_minutes(i, o, Break, Threshold, PremiumOt(r))
           night == IF "night_diff" \in r.settings.premiums THEN night_minutes(i, o) ELSE 0
           day == CASE "holiday" \in r.settings.premiums /\ r.holiday ->
                           Share(r.salary, work.regular, 100) + Share(r.salary, work.ot, 128)
                     [] ~("holiday" \in r.settings.premiums /\ r.holiday)
                           /\ "rest_day" \in r.settings.premiums /\ r.rest ->
                           Share(r.salary, work.regular, 30) + Share(r.salary, work.ot, 37)
                     [] OTHER -> 0
<1>1. r.salary \in Nat /\ r.day \in Workday /\ Break \in Nat /\ Threshold \in Nat
    BY SheetAssumption DEF Records
<1>2. PremiumOt(r) \in Nat
    BY <1>1 DEF PremiumOt, Workday
<1>3. CASE i = None \/ o = None
    BY <1>3 DEF Premium
<1>4. CASE i # None /\ o # None
    <2>1. i \in Nat /\ o \in Nat
        BY <1>1, <1>4 DEF Workday
    <2>2. work.regular \in Nat /\ work.ot \in Nat
        <3> HIDE DEF i, o
        <3>1. CASE o <= i
            BY <3>1 DEF split_work_minutes
        <3>2. CASE o > i
            <4> DEFINE net == AtLeast(Minutes(i, o) - Break, 0)
            <4>1. net \in Nat
                BY <1>1, <2>1, <3>2 DEF AtLeast, Minutes
            <4> HIDE DEF net
            <4> DEFINE extra == AtLeast(net - Threshold, 0)
            <4>2. extra \in Nat
                BY <1>1, <4>1 DEF AtLeast
            <4> HIDE DEF extra
            <4> DEFINE p == PremiumOt(r)
            <4>3. p \in Nat
                BY <1>2
            <4> HIDE DEF p
            <4>4. AtMost(net, Threshold) \in Nat /\ AtMost(p, extra) \in Nat
                BY <1>1, <4>1, <4>2, <4>3 DEF AtMost
            <4>5. work = [regular |-> AtMost(net, Threshold),
                          ot |-> IF p > 0 THEN AtMost(p, extra) ELSE 0]
                BY <2>1, <3>2 DEF split_work_minutes, net, extra, p
            <4> HIDE DEF work
            <4> QED BY <4>4, <4>5
        <3> QED BY <2>1, <3>1, <3>2
    <2> HIDE DEF work
    <2>3. night \in Nat
        BY <2>1, NightNat
    <2>4. /\ Share(r.salary, work.regular, 100) \in Nat /\ Share(r.salary, work.ot, 128) \in Nat
          /\ Share(r.salary, work.regular, 30) \in Nat /\ Share(r.salary, work.ot, 37) \in Nat
          /\ Share(r.salary, night, 10) \in Nat
        <3>1. {100, 128, 30, 37, 10} \subseteq Nat
            OBVIOUS
        <3> HIDE DEF night
        <3> QED BY <1>1, <2>2, <2>3, <3>1, RatesNat
    <2>5. day \in Nat
        BY <2>4
    <2>6. Premium(r) \in {0, Share(r.salary, night, 10) + day}
        <3>1. day_premium(r.salary, i, o, Break, Threshold, PremiumOt(r), r.holiday, r.rest,
                          r.settings.premiums) \in {0, Share(r.salary, night, 10) + day}
            BY DEF day_premium, work
        <3> QED BY <3>1 DEF Premium
    <2> HIDE DEF day, night
    <2> QED BY <2>4, <2>5, <2>6
<1> QED BY <1>3, <1>4

(* The pay of an employee with a profile is a number of centavos.          *)
LEMMA GrossNat ==
    ASSUME NEW r \in Records, r.salary # None
    PROVE  Line(r).gross \in Nat /\ Line(r).lwop \in {0, 1}
<1>1. r.salary \in Nat /\ r.settings.pay \in PayPeriods /\ r.day \in Workday
    BY SheetAssumption DEF Records, Toggles
<1>2. Allowance \in Nat /\ OtPercent \in Nat /\ Last \in Nat /\ Last > 0
    BY SheetAssumption
<1> DEFINE a == ForPeriod(r.salary, r.settings.pay)
           b == ForPeriod(Allowance, r.settings.pay)
           e == EmployedDays(r)
<1>3. a \in Nat /\ b \in Nat
    BY <1>1, <1>2, ForPeriodNat
<1>4. e \in Int
    <2>1. /\ r.hired \in Int \cup {None} /\ r.separated \in Int \cup {None}
        BY SheetAssumption DEF Records
    <2>2. OrElse(r.hired, 1, None) \in Int /\ OrElse(r.separated, Last, None) \in Int
        BY <1>2, <2>1 DEF OrElse
    <2> QED BY <1>2, <2>2 DEF EmployedDays, employed_days, inclusive_calendar_days, AtLeast, AtMost
<1> HIDE DEF a, b, e
<1> DEFINE c == Prorated(a, e, Last)
           d == Prorated(b, e, Last)
           n == no_show_deduction(r.salary, Marked(r, "no_show"))
           o == ot_pay(r.salary, OtIs(r, "approved"), OtPercent)
           p == Premium(r)
<1>5. c \in Nat /\ d \in Nat
    BY <1>2, <1>3, <1>4, ProratedNat
<1>6. Marked(r, "no_show") \in Nat /\ OtIs(r, "approved") \in Nat /\ Marked(r, "lwop") \in {0, 1}
    BY <1>1 DEF Marked, OtIs, Workday
<1>7. n \in Nat /\ o \in Nat
    BY <1>1, <1>2, <1>6, RatesNat
<1>8. p \in Nat
    BY PremiumNat
<1>9. Line(r).gross = AtLeast(c + d - n + o + p, 0) /\ Line(r).lwop = Marked(r, "lwop")
    BY DEF Line, gross_pay, a, b, e
<1> HIDE DEF c, d, n, o, p
<1>10. AtLeast(c + d - n + o + p, 0) \in Nat
    BY <1>5, <1>7, <1>8 DEF AtLeast
<1> QED BY <1>6, <1>9, <1>10

-----------------------------------------------------------------------------
(* The deductions of a line.                                               *)

Deduction == [amount : Nat, auto : BOOLEAN]

(* The codes are six.                                                      *)
LEMMA SixCodes ==
    /\ Codes = {"sss", "phic", "hdmf", "wht", "lwop", Other}
    /\ Other \notin {"sss", "phic", "hdmf", "wht", "lwop"}
BY SheetAssumption DEF Codes, Gov

(* A sum of deductions is the sum of its amounts, code by code.            *)
LEMMA SumUnfolded ==
    ASSUME NEW d, NEW codes
    PROVE  LET At(c) == IF c \in codes THEN d[c].amount ELSE 0 IN
           SumOf(d, codes) = At("sss") + At("phic") + At("hdmf") + At("wht") + At("lwop") + At(Other)
BY SixCodes DEF SumOf, Total

LEMMA SumNat ==
    ASSUME NEW d \in [Codes -> Deduction], NEW codes
    PROVE  SumOf(d, codes) \in Nat
<1> DEFINE At(c) == IF c \in codes THEN d[c].amount ELSE 0
<1>1. \A c \in Codes : At(c) \in Nat
    BY DEF Deduction
<1>2. SumOf(d, codes) = At("sss") + At("phic") + At("hdmf") + At("wht") + At("lwop") + At(Other)
    BY SumUnfolded
<1>3. {"sss", "phic", "hdmf", "wht", "lwop", Other} \subseteq Codes
    BY SixCodes
<1> HIDE DEF At
<1> QED BY <1>1, <1>2, <1>3

(* The active types that deduct something, and the retired types, deduct   *)
(* all there is to deduct.                                                 *)
LEMMA SumSplit ==
    ASSUME NEW d \in [Codes -> Deduction], NEW active
    PROVE  SumOf(d, Codes)
             = SumOf(d, {c \in active : d[c].amount > 0}) + SumOf(d, Codes \ active)
<1> DEFINE paid == {c \in active : d[c].amount > 0}
           retired == Codes \ active
           All(c) == IF c \in Codes THEN d[c].amount ELSE 0
           Paid(c) == IF c \in paid THEN d[c].amount ELSE 0
           Retired(c) == IF c \in retired THEN d[c].amount ELSE 0
<1>1. ASSUME NEW c \in Codes
      PROVE  All(c) \in Nat /\ Paid(c) \in Nat /\ Retired(c) \in Nat /\ All(c) = Paid(c) + Retired(c)
    BY DEF Deduction
<1>2. /\ SumOf(d, Codes) = All("sss") + All("phic") + All("hdmf") + All("wht") + All("lwop") + All(Other)
      /\ SumOf(d, paid) = Paid("sss") + Paid("phic") + Paid("hdmf") + Paid("wht") + Paid("lwop") + Paid(Other)
      /\ SumOf(d, retired) = Retired("sss") + Retired("phic") + Retired("hdmf") + Retired("wht")
                             + Retired("lwop") + Retired(Other)
    BY SumUnfolded
<1>3. {"sss", "phic", "hdmf", "wht", "lwop", Other} \subseteq Codes
    BY SixCodes
<1> HIDE DEF All, Paid, Retired, paid, retired
<1>4. SumOf(d, Codes) = SumOf(d, paid) + SumOf(d, retired)
    BY <1>1, <1>2, <1>3
<1> QED BY <1>4 DEF paid, retired

(* The deductions of a month and of a period are numbers of centavos.      *)
LEMMA DuesNat ==
    ASSUME NEW s \in Nat, NEW p \in PayPeriods, NEW c \in Gov
    PROVE  period_deductions(s, p)[c] \in Nat
<1>1. sss(s) \in Nat /\ philhealth(s) \in Nat /\ pagibig(s) \in Nat
    BY SssStep, PhilhealthStep, PagibigStep
<1>2. withholding_tax(AtLeast(s - Contributions(s), 0)) \in Nat
    <2>1. Contributions(s) \in Nat
        BY <1>1 DEF Contributions
    <2>2. AtLeast(s - Contributions(s), 0) \in Nat
        BY <2>1 DEF AtLeast
    <2> QED BY <2>2, WithholdingGrows
<1>3. monthly_deductions(s)[c] \in Nat
    BY <1>1, <1>2 DEF monthly_deductions, Gov
<1>4. ForPeriod(monthly_deductions(s)[c], p) \in Nat
    BY <1>3, ForPeriodNat
<1>5. period_deductions(s, p)[c] = AtLeast(ForPeriod(monthly_deductions(s)[c], p), 0)
    BY DEF period_deductions, Gov
<1> QED BY <1>4, <1>5 DEF AtLeast

(* What the tables make of an employee with a profile.                     *)
LEMMA OwedFacts ==
    ASSUME NEW r \in Records, r.salary # None
    PROVE  /\ r.salary \in Nat /\ r.settings.gov \subseteq Gov
           /\ \A c \in Gov : period_deductions(r.salary, r.settings.pay)[c] \in Nat
           /\ \A c : c \in DOMAIN Owed(r) <=>
                 /\ c \in r.settings.gov /\ c \in types
                 /\ period_deductions(r.salary, r.settings.pay)[c] > 0
           /\ \A c \in DOMAIN Owed(r) : Owed(r)[c] = period_deductions(r.salary, r.settings.pay)[c]
           /\ SumOwed(r) \in Nat
<1>1. r.salary \in Nat /\ r.settings.pay \in PayPeriods /\ r.settings.gov \subseteq Gov
    BY SheetAssumption DEF Records, Toggles
<1>2. \A c \in Gov : period_deductions(r.salary, r.settings.pay)[c] \in Nat
    BY <1>1, DuesNat
<1>3. /\ \A c : c \in DOMAIN Owed(r) <=>
                 /\ c \in r.settings.gov /\ c \in types
                 /\ period_deductions(r.salary, r.settings.pay)[c] > 0
      /\ \A c \in DOMAIN Owed(r) : Owed(r)[c] = period_deductions(r.salary, r.settings.pay)[c]
    BY DEF Owed
<1> DEFINE At(c) == IF c \in DOMAIN Owed(r) THEN Owed(r)[c] ELSE 0
<1>4. \A c \in Codes : At(c) \in Nat
    BY <1>1, <1>2, <1>3
<1>5. SumOwed(r) = At("sss") + At("phic") + At("hdmf") + At("wht") + At("lwop") + At(Other)
    BY SixCodes DEF SumOwed, Total
<1>6. {"sss", "phic", "hdmf", "wht", "lwop", Other} \subseteq Codes
    BY SixCodes
<1> HIDE DEF At
<1>7. SumOwed(r) \in Nat
    BY <1>4, <1>5, <1>6
<1> QED BY <1>1, <1>2, <1>3, <1>7

LEMMA NoRowsType == NoRows \in [Codes -> Deduction]
BY DEF NoRows, NoRow, Deduction

LEMMA DefaultsType ==
    ASSUME NEW gross
    PROVE  /\ Defaults(gross) \in [Codes -> Deduction]
           /\ \A c \in Codes : ~Defaults(gross)[c].auto
           /\ Defaults(gross)["lwop"].amount = 0
<1>1. Default \in Nat
    BY SheetAssumption
<1>2. NoRows = [c \in Codes |-> [amount |-> 0, auto |-> FALSE]]
    BY DEF NoRows, NoRow
<1> QED BY <1>1, <1>2, SixCodes DEF Defaults, Deduction

LEMMA GovernmentType ==
    ASSUME NEW r \in Records, r.salary # None, NEW gross
    PROVE  Government(r, Defaults(gross), gross) \in [Codes -> Deduction]
<1>1. \A c \in DOMAIN Owed(r) : Owed(r)[c] \in Nat
    BY OwedFacts
<1> QED BY <1>1, DefaultsType DEF Government, Deduction

LEMMA LwopOwedNat ==
    ASSUME NEW r \in Records, r.salary # None
    PROVE  LwopOwed(r, Line(r)) \in Nat
<1>1. r.salary \in Nat /\ Line(r).lwop \in Nat
    BY OwedFacts, GrossNat
<1>2. no_show_deduction(r.salary, Line(r).lwop) \in Nat
    BY <1>1, RatesNat
<1> QED BY <1>2 DEF LwopOwed

LEMMA AutomaticType ==
    ASSUME NEW r \in Records, r.salary # None
    PROVE  Automatic(r, Line(r)) \in [Codes -> Deduction]
<1> DEFINE d == Government(r, Defaults(Line(r).gross), Line(r).gross)
           owed == LwopOwed(r, Line(r))
<1>1. d \in [Codes -> Deduction]
    BY GovernmentType
<1>2. owed \in Nat
    BY LwopOwedNat
<1>3. Automatic(r, Line(r)) \in {d, [d EXCEPT !["lwop"] = [amount |-> owed, auto |-> TRUE]]}
    BY DEF Automatic, LwopRow
<1> HIDE DEF d
<1> DEFINE row == [amount |-> owed, auto |-> TRUE]
<1>4. row \in Deduction
    BY <1>2 DEF Deduction
<1> HIDE DEF owed, row
<1>5. [d EXCEPT !["lwop"] = row] \in [Codes -> Deduction]
    BY <1>1, <1>4
<1> QED BY <1>1, <1>3, <1>5 DEF row

(* The deductions are one row of each code, and the net pay of a line is   *)
(* what they leave of its gross pay.                                       *)
NetOfRows ==
    /\ rows \in [Codes -> Deduction]
    /\ line # None \/ Final => line.net = line.gross - SumOf(rows, Codes)

LEMMA RefreshFacts ==
    ASSUME LineOfRecords, line # None \/ Final, NEW d
    PROVE  /\ Refresh(line, d).net = line.gross - SumOf(d, Codes)
           /\ Refresh(line, d).gross = line.gross
           /\ line.gross \in Nat
<1>1. PICK r \in Records : r.salary # None /\ line = [Line(r) EXCEPT !.net = line.net]
    BY DEF LineOfRecords
<1> DEFINE m == line.net
<1>2. line = [Line(r) EXCEPT !.net = m]
    BY <1>1
<1> HIDE DEF m
<1>3. line.gross = Line(r).gross
    BY <1>2 DEF Line
<1>4. line.gross \in Nat
    BY <1>1, <1>3, GrossNat
<1>5. "net" \in DOMAIN line /\ "gross" \in DOMAIN line
    BY <1>2 DEF Line
<1> QED BY <1>4, <1>5 DEF Refresh

LEMMA NetStep ==
    ASSUME RecordsOK, LineOfRecords, NetOfRows, [Next]_vars
    PROVE  NetOfRows'
<1>1. CASE CreateDraft
    <2>1. CASE Selected(now) /\ ~Skipped(now)
        <3>1. now \in Records /\ now.salary # None
            BY <2>1 DEF RecordsOK, Skipped
        <3>2. rows' \in [Codes -> Deduction]
            BY <1>1, <2>1, <3>1, AutomaticType DEF CreateDraft
        <3>3. line' = Refresh(Line(now), rows')
            BY <1>1, <2>1 DEF CreateDraft
        <3>4. line'.net = line'.gross - SumOf(rows', Codes)
            BY <3>3 DEF Line, Refresh
        <3> QED BY <3>2, <3>4 DEF NetOfRows, SumOf
    <2>2. CASE ~(Selected(now) /\ ~Skipped(now))
        BY <1>1, <2>2, NoRowsType DEF CreateDraft, NetOfRows, Final
    <2> QED BY <2>1, <2>2
<1>2. CASE SaveDeductions
    <2>1. PICK c \in types, amount \in Amounts, auto \in BOOLEAN : Save(c, amount, auto)
        BY <1>2 DEF SaveDeductions
    <2> DEFINE form == [k \in Codes |-> CASE k \notin types -> NoRow
                                          [] k \in types /\ k # c -> rows[k]
                                          [] OTHER -> [amount |-> amount, auto |-> auto /\ amount > 0]]
    <2>2. rows' = form /\ line' = Refresh(line, form) /\ line # None
        BY <1>2, <2>1 DEF SaveDeductions, Save
    <2>3. form \in [Codes -> Deduction]
        <3>1. amount \in Nat
            BY SheetAssumption
        <3>2. NoRow \in Deduction /\ [amount |-> amount, auto |-> auto /\ amount > 0] \in Deduction
            BY <3>1 DEF NoRow, Deduction
        <3>3. \A k \in Codes : rows[k] \in Deduction
            BY DEF NetOfRows
        <3> QED BY <3>2, <3>3
    <2> HIDE DEF form
    <2>4. line'.net = line'.gross - SumOf(rows', Codes)
        BY <2>2, RefreshFacts
    <2> QED BY <2>2, <2>3, <2>4 DEF NetOfRows, SumOf
<1>3. CASE Finalize
    <2>1. line' = Refresh(line, rows) /\ line # None /\ rows' = rows
        BY <1>3 DEF Finalize
    <2>2. line'.net = line'.gross - SumOf(rows', Codes)
        BY <2>1, RefreshFacts
    <2> QED BY <2>1, <2>2 DEF NetOfRows, SumOf
<1>4. CASE Void
    BY <1>4, NoRowsType DEF Void, NetOfRows, Final
<1>5. CASE Edit \/ ToggleType \/ UNCHANGED vars
    BY <1>5 DEF Edit, ToggleType, payroll, vars, NetOfRows, Final, SumOf
<1> QED BY <1>1, <1>2, <1>3, <1>4, <1>5 DEF Next

(* The journal of every finalized run balances but for the retired types:  *)
(* export.rs:212-294 against the net pay of deductions.rs:235-248.         *)
THEOREM JournalTheorem == Spec => []JournalBalances
<1>1. Init => LineOfRecords /\ NetOfRows
    BY NoRowsType DEF Init, LineOfRecords, NetOfRows, Final
<1>2. RecordsOK /\ LineOfRecords /\ NetOfRows /\ [Next]_vars => LineOfRecords' /\ NetOfRows'
    BY LineStep, NetStep
<1>3. LineOfRecords /\ NetOfRows => JournalBalances
    <2> SUFFICES ASSUME LineOfRecords, NetOfRows, Final
                 PROVE  JournalDebit - JournalCredit = SumOf(rows, Codes \ types)
        BY DEF JournalBalances
    <2> DEFINE all == SumOf(rows, Codes)
               paid == SumOf(rows, Columns)
               retired == SumOf(rows, Codes \ types)
    <2>1. rows \in [Codes -> Deduction] /\ line.net = line.gross - all
        BY DEF NetOfRows
    <2>2. all \in Nat /\ paid \in Nat /\ retired \in Nat
        BY <2>1, SumNat
    <2>3. all = paid + retired
        BY <2>1, SumSplit DEF Columns
    <2>4. line.gross \in Nat
        BY RefreshFacts
    <2>5. JournalDebit - JournalCredit = line.gross - (paid + line.net)
        BY DEF JournalDebit, JournalCredit
    <2> HIDE DEF all, paid, retired
    <2>6. line.gross - (paid + line.net) = retired
        BY <2>1, <2>2, <2>3, <2>4
    <2> QED BY <2>5, <2>6 DEF retired
<1> QED BY <1>1, <1>2, <1>3, RecordsStay, PTL DEF Spec

-----------------------------------------------------------------------------
(* The deductions of a new draft.                                          *)

(* What the automatic deductions left is a row without amount, a default,  *)
(* or the very amount that the check computes again; a code they left out  *)
(* did not fit in the gross pay.                                           *)
LEMMA FreshRows ==
    ASSUME NEW r \in Records, r.salary # None
    PROVE  LET l == Line(r)
               d == Automatic(r, l)
               due == period_deductions(r.salary, r.settings.pay)
           IN /\ \A c \in Gov : d[c].auto => c \in DOMAIN Owed(r) /\ d[c].amount = due[c]
              /\ \A c \in DOMAIN Owed(r) :
                    \/ d[c].auto /\ d[c].amount = due[c]
                    \/ SumOf(d, Codes) + SumOwed(r) + LwopOwed(r, l) > l.gross
              /\ d["lwop"].auto => d["lwop"].amount = LwopOwed(r, l) /\ LwopOwed(r, l) # 0
              /\ \/ LwopOwed(r, l) = 0
                 \/ d["lwop"].auto /\ d["lwop"].amount = LwopOwed(r, l)
                 \/ SumOf(d, Codes) + SumOwed(r) + LwopOwed(r, l) > l.gross
<1> DEFINE l == Line(r)
           first == Defaults(l.gross)
           second == Government(r, first, l.gross)
           d == Automatic(r, l)
           owed == LwopOwed(r, l)
           due == period_deductions(r.salary, r.settings.pay)
<1>1. /\ first \in [Codes -> Deduction] /\ \A c \in Codes : ~first[c].auto
      /\ first["lwop"].amount = 0
    BY DefaultsType
<1>2. second \in [Codes -> Deduction] /\ d \in [Codes -> Deduction]
    BY GovernmentType, AutomaticType
<1>3. owed \in Nat /\ l.gross \in Nat /\ SumOwed(r) \in Nat
    BY LwopOwedNat, GrossNat, OwedFacts
<1>4. /\ Gov \subseteq Codes /\ DOMAIN Owed(r) \subseteq Gov /\ "lwop" \in Codes \ Gov
      /\ \A c \in DOMAIN Owed(r) : Owed(r)[c] = due[c]
    BY SixCodes, OwedFacts DEF Gov
<1>5. \/ second = first /\ SumOf(first, Codes) + SumOwed(r) > l.gross
      \/ second = [c \in Codes |-> IF c \in DOMAIN Owed(r)
                                   THEN [amount |-> Owed(r)[c], auto |-> TRUE] ELSE first[c]]
    BY DEF Government
<1>6. \/ d = second /\ owed = 0
      \/ d = second /\ SumOf(second, Codes \ {"lwop"}) + owed > l.gross
      \/ owed # 0 /\ d = [second EXCEPT !["lwop"] = [amount |-> owed, auto |-> TRUE]]
    BY DEF Automatic, LwopRow
<1>7. SumOf(first, Codes) \in Nat /\ SumOf(second, Codes \ {"lwop"}) \in Nat /\ SumOf(d, Codes) \in Nat
      /\ SumOf(second, Codes) \in Nat
    BY <1>1, <1>2, SumNat
<1>8. ~second["lwop"].auto /\ second["lwop"].amount = 0
    BY <1>1, <1>4, <1>5
<1> HIDE DEF second, first, l, owed
<1>9. SumOf(second, Codes) <= SumOf(d, Codes)
    <2>1. CASE d = second
        BY <1>7, <2>1
    <2>2. CASE d = [second EXCEPT !["lwop"] = [amount |-> owed, auto |-> TRUE]]
        <3> DEFINE A(c) == IF c \in Codes THEN second[c].amount ELSE 0
                   B(c) == IF c \in Codes THEN d[c].amount ELSE 0
        <3>1. \A c \in Codes : A(c) \in Nat /\ B(c) \in Nat
            BY <1>2 DEF Deduction
        <3>2. \A c \in Codes : c # "lwop" => B(c) = A(c)
            BY <1>2, <2>2
        <3>3. A("lwop") <= B("lwop")
            BY <1>3, <1>8, <3>1, SixCodes
        <3>4. /\ SumOf(second, Codes) = A("sss") + A("phic") + A("hdmf") + A("wht") + A("lwop") + A(Other)
              /\ SumOf(d, Codes) = B("sss") + B("phic") + B("hdmf") + B("wht") + B("lwop") + B(Other)
            BY SumUnfolded
        <3> HIDE DEF A, B
        <3> QED BY <3>1, <3>2, <3>3, <3>4, SixCodes
    <2> QED BY <1>6, <2>1, <2>2
<1>10. SumOf(second, Codes \ {"lwop"}) <= SumOf(second, Codes)
    <2> DEFINE A(c) == IF c \in Codes \ {"lwop"} THEN second[c].amount ELSE 0
               B(c) == IF c \in Codes THEN second[c].amount ELSE 0
    <2>1. \A c \in Codes : A(c) \in Nat /\ B(c) \in Nat /\ A(c) <= B(c)
        BY <1>2 DEF Deduction
    <2>2. /\ SumOf(second, Codes \ {"lwop"})
                = A("sss") + A("phic") + A("hdmf") + A("wht") + A("lwop") + A(Other)
          /\ SumOf(second, Codes) = B("sss") + B("phic") + B("hdmf") + B("wht") + B("lwop") + B(Other)
        BY SumUnfolded
    <2> HIDE DEF A, B
    <2> QED BY <2>1, <2>2, SixCodes
<1>11. \A c \in Codes : c # "lwop" => d[c] = second[c]
    BY <1>2, <1>6
<1> HIDE DEF d
<1>12. \A c \in Gov : d[c].auto => c \in DOMAIN Owed(r) /\ d[c].amount = due[c]
    BY <1>1, <1>4, <1>5, <1>11
<1>13. ASSUME NEW c \in DOMAIN Owed(r)
       PROVE  \/ d[c].auto /\ d[c].amount = due[c]
              \/ SumOf(d, Codes) + SumOwed(r) + owed > l.gross
    <2>1. CASE second = first /\ SumOf(first, Codes) + SumOwed(r) > l.gross
        BY <1>3, <1>7, <1>9, <2>1
    <2>2. CASE second = [k \in Codes |-> IF k \in DOMAIN Owed(r)
                                         THEN [amount |-> Owed(r)[k], auto |-> TRUE] ELSE first[k]]
        BY <1>4, <1>11, <2>2
    <2> QED BY <1>5, <2>1, <2>2
<1>14. d["lwop"].auto => d["lwop"].amount = owed /\ owed # 0
    BY <1>2, <1>4, <1>6, <1>8
<1>15. \/ owed = 0
       \/ d["lwop"].auto /\ d["lwop"].amount = owed
       \/ SumOf(d, Codes) + SumOwed(r) + owed > l.gross
    BY <1>2, <1>3, <1>4, <1>6, <1>7, <1>9, <1>10
<1> QED BY <1>12, <1>13, <1>14, <1>15 DEF d, l, owed

(* Of such rows the check before finalizing says nothing, or that what did *)
(* not fit is missing.                                                     *)
LEMMA FreshWarnings ==
    ASSUME NEW r \in Records, r.salary # None, NEW l,
           l.lwop = Line(r).lwop, l.gross = Line(r).gross
    PROVE  LET d == Automatic(r, Line(r)) IN
           /\ Warnings(r, l, d) \subseteq {"missing_gov", "missing_lwop"}
           /\ Warnings(r, l, d) # {} =>
                 SumOf(d, Codes) + SumOwed(r) + LwopOwed(r, l) > l.gross
<1> DEFINE d == Automatic(r, Line(r))
           due == period_deductions(r.salary, r.settings.pay)
           enabled == r.settings.gov
           lwop == no_show_deduction(r.salary, l.lwop)
           Short == SumOf(d, Codes) + SumOwed(r) + LwopOwed(r, l) > l.gross
<1>1. LwopOwed(r, l) = LwopOwed(r, Line(r))
    BY DEF LwopOwed
<1>2. /\ \A c \in Gov : d[c].auto => c \in DOMAIN Owed(r) /\ d[c].amount = due[c]
      /\ \A c \in DOMAIN Owed(r) : (d[c].auto /\ d[c].amount = due[c]) \/ Short
      /\ d["lwop"].auto => d["lwop"].amount = LwopOwed(r, l) /\ LwopOwed(r, l) # 0
      /\ \/ LwopOwed(r, l) = 0
         \/ d["lwop"].auto /\ d["lwop"].amount = LwopOwed(r, l)
         \/ Short
    BY <1>1, FreshRows
<1>3. /\ \A c : c \in DOMAIN Owed(r) <=> c \in enabled /\ c \in types /\ due[c] > 0
      /\ enabled \subseteq Gov
    BY OwedFacts
<1>4. LwopOwed(r, l) = IF l.lwop > 0 /\ "lwop" \in types THEN lwop ELSE 0
    BY DEF LwopOwed
<1>5. lwop \in Nat
    <2>1. r.salary \in Nat /\ l.lwop \in Nat
        BY OwedFacts, GrossNat
    <2> QED BY <2>1, RatesNat
<1> HIDE DEF d, due, enabled, lwop, Short
<1> DEFINE Warned(w) ==
          CASE w = "disabled" -> \E c \in Gov \ enabled : d[c].auto
            [] w = "stale_gov" -> \E c \in enabled \cap types : d[c].auto /\ d[c].amount # due[c]
            [] w = "missing_gov" -> \E c \in enabled \cap types :
                   due[c] > 0 /\ ~(d[c].auto /\ d[c].amount = due[c])
            [] w = "missing_lwop" -> /\ l.lwop > 0 /\ "lwop" \in types /\ lwop > 0
                                     /\ ~(d["lwop"].auto /\ d["lwop"].amount = lwop)
            [] OTHER -> IF l.lwop > 0
                        THEN "lwop" \in types /\ lwop > 0 /\ d["lwop"].auto /\ d["lwop"].amount # lwop
                        ELSE d["lwop"].auto
<1>6. Warnings(r, l, d) =
         {w \in {"disabled", "stale_gov", "missing_gov", "missing_lwop", "stale_lwop"} : Warned(w)}
    BY DEF Warnings, due, enabled, lwop
<1>7. ~Warned("disabled")
    BY <1>2, <1>3
<1>8. ~Warned("stale_gov")
    BY <1>2, <1>3
<1>9. ~Warned("stale_lwop")
    <2>1. Warned("stale_lwop") <=>
             IF l.lwop > 0
             THEN "lwop" \in types /\ lwop > 0 /\ d["lwop"].auto /\ d["lwop"].amount # lwop
             ELSE d["lwop"].auto
        OBVIOUS
    <2> HIDE DEF Warned
    <2> QED BY <1>2, <1>4, <2>1
<1>10. Warned("missing_gov") => Short
    <2>1. Warned("missing_gov") <=> \E c \in enabled \cap types :
             due[c] > 0 /\ ~(d[c].auto /\ d[c].amount = due[c])
        OBVIOUS
    <2> HIDE DEF Warned
    <2> QED BY <1>2, <1>3, <2>1
<1>11. Warned("missing_lwop") => Short
    <2>1. Warned("missing_lwop") <=>
             /\ l.lwop > 0 /\ "lwop" \in types /\ lwop > 0
             /\ ~(d["lwop"].auto /\ d["lwop"].amount = lwop)
        OBVIOUS
    <2> HIDE DEF Warned
    <2> QED BY <1>2, <1>4, <1>5, <2>1
<1> HIDE DEF Warned
<1>12. Warnings(r, l, d) \subseteq {"missing_gov", "missing_lwop"}
    BY <1>6, <1>7, <1>8, <1>9
<1>13. Warnings(r, l, d) # {} => Short
    BY <1>6, <1>7, <1>8, <1>9, <1>10, <1>11
<1> QED BY <1>12, <1>13 DEF Short, d

(* The check before finalizing, which computes the deductions anew, agrees *)
(* with what a new draft was given: deductions_auto.rs:206-331 against     *)
(* 387-650, for every salary, setting and period.                          *)
THEOREM FreshTheorem == Spec => FreshDraftQuiet
<1>1. RecordsOK /\ [Next]_vars =>
          [(status = "none" /\ status' = "draft" /\ line' # None) =>
              /\ Warnings(now, line', rows') \subseteq {"missing_gov", "missing_lwop"}
              /\ Warnings(now, line', rows') # {} =>
                     SumOf(rows', Codes) + SumOwed(now) + LwopOwed(now, line') > line'.gross]_vars
    <2> SUFFICES ASSUME RecordsOK, [Next]_vars, status = "none", status' = "draft", line' # None
                 PROVE  /\ Warnings(now, line', rows') \subseteq {"missing_gov", "missing_lwop"}
                        /\ Warnings(now, line', rows') # {} =>
                               SumOf(rows', Codes) + SumOwed(now) + LwopOwed(now, line') > line'.gross
        OBVIOUS
    <2>1. CreateDraft
        BY DEF Next, Edit, ToggleType, SaveDeductions, Finalize, Void, payroll, vars
    <2>2. /\ now \in Records /\ now.salary # None
          /\ rows' = Automatic(now, Line(now)) /\ line' = Refresh(Line(now), rows')
        BY <2>1 DEF RecordsOK, CreateDraft, Skipped
    <2>3. line'.lwop = Line(now).lwop /\ line'.gross = Line(now).gross
        BY <2>2 DEF Refresh, Line
    <2> QED BY <2>2, <2>3, FreshWarnings
<1> QED BY <1>1, RecordsStay, PTL DEF Spec, FreshDraftQuiet
=============================================================================
