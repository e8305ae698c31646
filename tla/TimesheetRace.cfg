SPECIFICATION Spec
CONSTANTS
    Sessions = {s1, s2}
    Times <- ThreeTimes
    Settings <- BothSettings
    Shifts <- OneShift
    Absences = {"vacation"}
    MaxIds = 2
    MaxLogs = 1
    None = None
SYMMETRY Symmetry
INVARIANT OvertimeAccounted
PROPERTY FrozenWhenClosed
PROPERTY CorrectionLogged
PROPERTY CoherenceKept
