SPECIFICATION Spec
CONSTANTS
    LastYear = 2025
    Settings <- JanuarySettings
    FirstSetting <- Semimonthly
    Forms <- JanuaryForms
    Runs = {r1, r2, r3}
    Sessions = {s1, s2}
    None = None
SYMMETRY Symmetry
INVARIANT NoDayPaidTwice
INVARIANT RunsStayClosed
