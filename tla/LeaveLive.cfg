SPECIFICATION FairSpec
CONSTANTS
    Employees = {e1}
    Requests = {r1, r2}
    Sessions = {s1, s2}
    LastDay = 1
    Periods <- NoPeriods
    Tracked = {"vacation"}
    Untracked = {"official_leave"}
    OtherMarks = {}
    InitialBalance = 10
    Edited = {}
    BalanceEdits = {}
    None = None
PROPERTY HandlersReturn
