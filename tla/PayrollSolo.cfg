SPECIFICATION Spec
CONSTANTS
    Periods = {p1}
    Runs = {r1}
    Sessions = {s1}
    Employees = {e1}
    Gov = {"sss", "wht"}
    Lwop = "lwop"
    Manual = {"loan"}
    Default <- OneDefault
    Dues <- OnOrUnpaid
    Toggles <- AllToggles
    Sheets <- AllSheets
    FirstSheet <- Plain
    Gross <- SmallGross
    Premiums = {0, 1}
    Amounts = {1}
    None = None
INVARIANT DeductionsWithinGross
CHECK_DEADLOCK FALSE
