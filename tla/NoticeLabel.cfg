\* Three queries out at once, any of which may fail.
SPECIFICATION FairSpec
CONSTANTS
    Queries = {q1, q2, q3}
    MaxNotices = 2
INVARIANT
    IInv
PROPERTIES
    SoleQueryShowsNewest
    LabelCatchesUp
