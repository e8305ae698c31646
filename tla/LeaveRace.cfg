SPECIFICATION Spec
CONSTANTS
    Employees = {e1}
    Requests = {r1, r2}
    Sessions = {s1, s2}
    LastDay = 2
    Periods <- WholePeriod
    Tracked = {"vacation"}
    Untracked = {}
    OtherMarks = {}
    InitialBalance = 10
    Edited = {e1}
    BalanceEdits = {0}
    None = None
SYMMETRY Symmetry
INVARIANT LiveLeaveDisjoint
PROPERTY LedgerSpec
