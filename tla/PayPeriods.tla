----------------------------- MODULE PayPeriods -----------------------------
(***************************************************************************)
(* The pay periods of a calendar: services/reports/period.rs.              *)
(*                                                                         *)
(* A date is its number of days since 2023-12-31, a Sunday: date 1 is      *)
(* 2024-01-01, the default anchor of biweekly periods.                     *)
(***************************************************************************)
EXTENDS Integers

CONSTANT LastYear     \* the calendar runs from 2024 to LastYear

ASSUME CalendarAssumption == LastYear \in Int /\ LastYear >= 2024

Range == [first : Int, last : Int]
Dates(p) == p.first..p.last

(***************************************************************************)
(* The civil calendar of the time crate. Month k is month k % 12 + 1 of    *)
(* year 2024 + k \div 12.                                                  *)
(***************************************************************************)
LastMonth == 12 * (LastYear - 2023) - 1
Year(k) == 2024 + k \div 12
Month(k) == (k % 12) + 1

is_leap_year(y) == y % 4 = 0 /\ (y % 100 # 0 \/ y % 400 = 0)

MonthLength(k) ==
    <<31, IF is_leap_year(Year(k)) THEN 29 ELSE 28,
      31, 30, 31, 30, 31, 31, 30, 31, 30, 31>>[Month(k)]

\* MonthStart[k]: the first date of month k.
MonthStart[k \in 0..LastMonth + 1] ==
    IF k = 0 THEN 1 ELSE MonthStart[k - 1] + MonthLength(k - 1)

Calendar == 1..MonthStart[LastMonth + 1] - 1

MonthOf(d) ==
    CHOOSE k \in 0..LastMonth : MonthStart[k] <= d /\ d < MonthStart[k + 1]

(***************************************************************************)
(* The pay period that contains a date.                                    *)
(***************************************************************************)
weekly_period(today) ==
    LET start == today - (today % 7) IN [first |-> start, last |-> start + 6]

\* div_euclid, which floors for a positive divisor as \div does.
biweekly_period(today, anchor) ==
    LET start == anchor + 14 * ((today - anchor) \div 14)
    IN  [first |-> start, last |-> start + 13]

last_day_of_month(k) ==
    CASE Month(k) = 2 -> IF is_leap_year(Year(k)) THEN 29 ELSE 28
      [] Month(k) \in {4, 6, 9, 11} -> 30
      [] OTHER -> 31

semimonthly_period(today) ==
    LET k == MonthOf(today)
        day == today - MonthStart[k] + 1
        Date(n) == MonthStart[k] + n - 1
    IN  IF day <= 15
        THEN [first |-> Date(1), last |-> Date(15)]
        ELSE [first |-> Date(16), last |-> Date(last_day_of_month(k))]

monthly_period(today) ==
    LET k == MonthOf(today)
    IN  [first |-> MonthStart[k],
         last |-> MonthStart[k] + last_day_of_month(k) - 1]

PayPeriodTypes == {"weekly", "biweekly", "semimonthly", "monthly"}
Setting == [pay_period : PayPeriodTypes, anchor : Int]

current_pay_period(today, s) ==
    CASE s.pay_period = "weekly" -> weekly_period(today)
      [] s.pay_period = "biweekly" -> biweekly_period(today, s.anchor)
      [] s.pay_period = "semimonthly" -> semimonthly_period(today)
      [] s.pay_period = "monthly" -> monthly_period(today)

\* assert_canonical_pay_period: p is the pay period that its last day is in.
Canonical(p, s) == p = current_pay_period(p.last, s)
=============================================================================
