SPECIFICATION Spec
CONSTANTS
    ana = ana
    ben = ben
    mia = mia
    ada = ada
    People = {ana, ben, mia, ada}
    Authors = {ana}
    Saves = {s1, s2}
    Unlocks = {u1}
    Days = {1, 8}
    Holidays = {8}
    CloseDays = {1}
    Watchers = {ana, mia}
    Rosters <- TwoRosters
    Sizes = {0, 2}
    None = None
SYMMETRY Symmetry
INVARIANT OneFormAtRest
INVARIANT RemindersAgree
INVARIANT PagesAgree
PROPERTY ReportsSettle
CHECK_DEADLOCK FALSE
