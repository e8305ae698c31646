SPECIFICATION Spec
CONSTANTS
    ana = ana
    ben = ben
    mia = mia
    ada = ada
    People = {ana, ben, mia, ada}
    Askers = {ana, ben}
    Asks = {k1, k2}
    Reviews = {v1, v2}
    Reviewers = {mia, ada}
    Rosters <- TwoRosters
    None = None
    Attempts = {a1, a2, a3}
    Accounts = {acc}
    Addresses = {ip1}
    Replicas = {app1, app2}
    Table = Table
    Short = 1
    Long = 2
    LastTime = 3
    MaxAccount = 1
    MaxAddress = 2
    MaxPosts = 1
    DefaultSaves = {w1, w2, w3}
    DeductionTypes = {1, 2}
SYMMETRY Symmetry
INVARIANT ResetsAccounted
INVARIANT LimitHolds
INVARIANT DefaultsOfOneSave
PROPERTY LocksStand
CHECK_DEADLOCK FALSE
