----------------------------- MODULE PayCompute -----------------------------
(***************************************************************************)
(* The arithmetic of a payslip: rates, period pay, proration, overtime and *)
(* premium pay, and the government deductions (services/payroll/compute.rs,*)
(* labor_premiums.rs, gov_deductions.rs).                                  *)
(*                                                                         *)
(* Amounts are centavos.  The products by 12/52 and by decimal tax rates   *)
(* are computed in floating point and rounded; none of them falls half-way *)
(* between two centavos (12/52 of an integer never does, the tax is a      *)
(* whole number of centavos), so the exact quotient stands for them.       *)
(***************************************************************************)
EXTENDS Integers, FiniteSets

PayPeriods == {"weekly", "biweekly", "semimonthly", "monthly"}

AtMost(a, b) == IF a <= b THEN a ELSE b
AtLeast(a, b) == IF a >= b THEN a ELSE b

(* Mutant: rounded down.                                                   *)
round_down(n, d) == IF d = 0 THEN 0 ELSE n \div d

(* No numerator of the code is negative, so truncation is rounding down.   *)
round_div(n, d) == IF d = 0 THEN 0 ELSE (n + d \div 2) \div d

-----------------------------------------------------------------------------
(* Days.                                                                   *)

inclusive_calendar_days(start, end) == IF end < start THEN 0 ELSE end - start + 1

(* A day of hire or separation, or a default where there is none.          *)
OrElse(day, default, None) == IF day = None THEN default ELSE day

employed_days(start, end, hired, separated, None) ==
    inclusive_calendar_days(AtLeast(OrElse(hired, start, None), start),
                            AtMost(OrElse(separated, end, None), end))

-----------------------------------------------------------------------------
(* Pay of a period.                                                        *)

daily_rate(salary) == round_div(salary, 26)
hourly_rate(salary) == round_div(daily_rate(salary) * 60, 480)

ForPeriod(amount, period) ==
    CASE period = "weekly" -> round_div(amount * 12, 52)
      [] period = "monthly" -> amount
      [] OTHER -> round_div(amount, 2)

Prorated(full, employed, days) ==
    IF days <= 0 \/ employed >= days THEN full
    ELSE IF employed <= 0 THEN 0 ELSE round_div(full * employed, days)

no_show_deduction(salary, days) == IF days <= 0 THEN 0 ELSE daily_rate(salary) * days

ot_pay(salary, minutes, percent) ==
    IF minutes <= 0 THEN 0 ELSE round_div(hourly_rate(salary) * minutes * percent, 100 * 60)

(* Mutant: the allowance is not prorated.                                  *)
gross_pay_full_allowance(salary, allowance, percent, period, minutes, noshows, premium, employed, days) ==
    AtLeast(Prorated(ForPeriod(salary, period), employed, days) + ForPeriod(allowance, period)
            - no_show_deduction(salary, noshows)
            + ot_pay(salary, minutes, percent) + premium, 0)

gross_pay(salary, allowance, percent, period, minutes, noshows, premium, employed, days) ==
    AtLeast(Prorated(ForPeriod(salary, period), employed, days)
            + Prorated(ForPeriod(allowance, period), employed, days)
            - no_show_deduction(salary, noshows)
            + ot_pay(salary, minutes, percent) + premium, 0)

-----------------------------------------------------------------------------
(* Premium pay of one day.  Instants are in half minutes, so that work may *)
(* begin and end within a minute.                                          *)

Minutes(in, out) == (out - in) \div 2

(* The regular minutes and the overtime of a day.                          *)
split_work_minutes(in, out, break, threshold, approved) ==
    LET net == AtLeast(Minutes(in, out) - break, 0)
        extra == AtLeast(net - threshold, 0)
    IN IF out <= in THEN [regular |-> 0, ot |-> 0]
       ELSE [regular |-> AtMost(net, threshold),
             ot |-> IF approved > 0 THEN AtMost(approved, extra) ELSE 0]

is_night(hour) == hour < 6 \/ hour >= 22

(* Every minute counted from the clock-in on that begins before the        *)
(* clock-out and in a night hour.                                          *)
night_minutes(in, out) ==
    Cardinality({k \in 0 .. out - in : 2 * k < out - in /\ is_night(((in + 2 * k) \div 120) % 24)})

Share(salary, minutes, percent) == round_div(hourly_rate(salary) * minutes * percent, 100 * 60)

day_premium(salary, in, out, break, threshold, approved, holiday, rest, toggles) ==
    LET work == split_work_minutes(in, out, break, threshold, approved)
        night == IF "night_diff" \in toggles THEN night_minutes(in, out) ELSE 0
        day == CASE "holiday" \in toggles /\ holiday ->
                       Share(salary, work.regular, 100) + Share(salary, work.ot, 128)
                 [] ~("holiday" \in toggles /\ holiday) /\ "rest_day" \in toggles /\ rest ->
                       Share(salary, work.regular, 30) + Share(salary, work.ot, 37)
                 [] OTHER -> 0
    IN IF salary <= 0 \/ hourly_rate(salary) <= 0 \/ (work.regular = 0 /\ work.ot = 0)
       THEN 0 ELSE Share(salary, night, 10) + day

-----------------------------------------------------------------------------
(* Government deductions of a month, the employee's share.                 *)

(* The credit of a salary in pesos.                                        *)
salary_credit(pesos) ==
    IF pesos < 5250 THEN 5000
    ELSE IF pesos >= 34750 THEN 35000
    ELSE ((pesos - 4750) \div 500) * 500 + 5000

monthly_salary_credit(salary) == salary_credit(salary \div 100)

(* Mutant: the whole contribution, with the employer's share.              *)
sss_whole(salary) == monthly_salary_credit(salary) * 15

sss(salary) == monthly_salary_credit(salary) * 5

philhealth(salary) == round_div(AtMost(AtLeast(salary, 1000000), 10000000) * 25, 1000)

pagibig(salary) ==
    LET fund == AtMost(salary, 500000) IN
    AtMost(IF salary <= 150000 THEN round_div(fund, 100) ELSE round_div(fund * 2, 100), 10000)

withholding_tax(taxable) ==
    LET pesos == taxable \div 100 IN
    CASE pesos <= 20833 -> 0
      [] pesos > 20833 /\ pesos <= 33332 -> (pesos - 20833) * 15
      [] pesos > 33332 /\ pesos <= 66666 -> 187500 + (pesos - 33333) * 20
      [] pesos > 66666 /\ pesos <= 166666 -> 854180 + (pesos - 66667) * 25
      [] pesos > 166666 /\ pesos <= 666666 -> 3354180 + (pesos - 166667) * 30
      [] OTHER -> 18354180 + (pesos - 666667) * 35

Contributions(salary) == sss(salary) + philhealth(salary) + pagibig(salary)

monthly_deductions(salary) ==
    IF salary <= 0 THEN [sss |-> 0, phic |-> 0, hdmf |-> 0, wht |-> 0]
    ELSE [sss |-> sss(salary), phic |-> philhealth(salary), hdmf |-> pagibig(salary),
          wht |-> withholding_tax(AtLeast(salary - Contributions(salary), 0))]

period_deductions(salary, period) ==
    [code \in {"sss", "phic", "hdmf", "wht"} |->
        AtLeast(ForPeriod(monthly_deductions(salary)[code], period), 0)]

(* What is left of a monthly salary.                                       *)
TakeHome(salary) ==
    salary - Contributions(salary) - withholding_tax(AtLeast(salary - Contributions(salary), 0))
=============================================================================
