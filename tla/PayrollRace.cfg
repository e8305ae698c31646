SPECIFICATION RaceSpec
CONSTANTS
    Periods = {p1}
    Runs = {r1, r2}
    Sessions = {s1, s2}
    Employees = {e1}
    Gov = {"sss"}
    Lwop = "lwop"
    Manual = {"loan"}
    Default <- OneDefault
    Dues <- OnlyOn
    Toggles <- AllOn
    Sheets <- OneSheet
    FirstSheet <- Plain
    Gross <- SmallGross
    Premiums = {}
    Amounts <- Signed
    None = None
SYMMETRY Symmetry
INVARIANT OneActiveRun
INVARIANT NetWithinGross
 
PROPERTY ManualRowsKept
PROPERTY CreateLeavesNoHalfDraft
PROPERTY FinalRunsSettle
PROPERTY LedgerSpec
CHECK_DEADLOCK FALSE
