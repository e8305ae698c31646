SPECIFICATION Spec
CONSTANTS
    a1 = a1
    a2 = a2
    b1 = b1
    b2 = b2
    p1 = p1
    People = {a1, a2}
    Admin = a1
    First = {a1}
    Processes = {p1}
    Browsers = {b1, b2}
    Given = {"employee", "admin"}
    Owner <- TwoOwners
    Route <- OneProcess
    MaxVersion <- OneReset
    None = None
INVARIANT StaleExplained
INVARIANT RunsWithPresentRole
PROPERTY OldSessionsEnd
PROPERTY ValidSessionsServed
PROPERTY AdminsRemain
