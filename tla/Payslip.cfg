SPECIFICATION SceneSpec
CONSTANTS
    Last = 15
    Salaries <- SomeSalaries
    Allowance = 100001
    OtPercent = 132
    Hires <- SomeHires
    Separations <- SomeSeparations
    Workdays <- SomeDays
    Settings <- TheSettings
    Break = 60
    Threshold = 480
    Approval = TRUE
    Other = "loan"
    Default = 30000
    Amounts = {0, 20000}
    First <- TheFirst
    MaxEdits = 3
    None = None
    Rates = {low, high}
    Days <- MoreDays
    Sessions = {s1, s2}
    MaxRows = 3
    NoProfile = NoProfile
SYMMETRY Symmetry
INVARIANT LinesExplained
INVARIANT JournalBalances
INVARIANT HandoverPaysOnce
PROPERTY FreshDraftQuiet
PROPERTY RaiseKeepsPay
PROPERTY CoverageKept
PROPERTY RaisesKeepPast
CHECK_DEADLOCK FALSE
