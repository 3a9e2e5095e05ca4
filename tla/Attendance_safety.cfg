\* One student, one phone that passes one midnight, three chains: the fewest
\* that show a duplicate which a record of a later day lets through.  The
\* phone's clock may be a day behind when a chain of the later day is stored,
\* since a save is stored at any time after the tap.  One account is enough to be
\* logged in, out and in again under a chain.
SPECIFICATION Spec
CONSTANTS
    Students = {s1}
    Devices = {d1}
    Accounts = {a1}
    None = None
    Tasks = {t1, t2, t3}
    LastDay = 1
SYMMETRY Symmetry
INVARIANTS
    TypeOK
    IInv
    RecordedBeforeTapIsFiltered
    SettledMeansRecorded
    SignTeacherTapped
\* Tasks bounds the taps: when all are spent nobody can tap again.
CHECK_DEADLOCK FALSE
