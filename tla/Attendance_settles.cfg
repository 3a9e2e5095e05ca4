\* Two students tapped at once, two phones: every chain ends.
SPECIFICATION FairSpec
CONSTANTS
    Students = {s1, s2}
    Devices = {d1, d2}
    Accounts = {a1}
    None = None
    Tasks = {t1, t2}
    LastDay = 0
PROPERTIES
    EverySignSettles
    RegisterSpec
CHECK_DEADLOCK FALSE
