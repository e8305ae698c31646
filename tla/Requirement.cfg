SPECIFICATION ChecklistSpec
CONSTANTS
    e1 = e1
    m1 = m1
    a1 = a1
    None = None
    People = {e1, m1, a1}
    Owners = {e1}
    Types = {t1}
    Submits = {s1, s2, s3}
    Reviews = {r1, r2}
    LastDay = 2
    Validity = {1}
    WarningDays = 1
    Rosters <- TwoRosters
SYMMETRY Symmetry
INVARIANT ListsAgree
PROPERTY FilesKept
PROPERTY DecisionsStand
