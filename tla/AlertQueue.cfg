\* Four alerts, and a user who may touch buttons that still appear.
\* All alerts may have been answered: then nothing is left to happen.
SPECIFICATION FairSpec
CONSTANTS
    w = w
    x = x
    y = y
    z = z
    None = None
    Alerts <- MCAlerts
CHECK_DEADLOCK FALSE
INVARIANTS
    AnimatingEnds
    QueueIsInView
    AnsweredLeaves
    IInv
    OneByOneUnlessHurried
PROPERTIES
    ShownAfresh
    ServiceSpec
    EveryAlertAnswered
