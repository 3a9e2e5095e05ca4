\* One student tapped twice: both finds may come before either save.
SPECIFICATION Spec
CONSTANTS
    Students = {s1}
    Devices = {d1}
    Accounts = {a1}
    None = None
    Tasks = {t1, t2}
    LastDay = 0
SYMMETRY Symmetry
INVARIANT
    OneRecordPerDay
CHECK_DEADLOCK FALSE
