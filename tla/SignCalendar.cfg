\* Three claims about two students on two days, and room for two records.
\* No deadlock: the page can always be opened or closed.
SPECIFICATION FairSpec
CONSTANTS
    Claims = {k1, k2, k3}
    Students = {wang, li}
    Days = {1, 2}
    None = None
    Limit = 2
INVARIANTS
    ToldIsStarred
    IInv
PROPERTY
    CalendarIsDrawn
