SPECIFICATION FairSpec
CONSTANTS
    Task = {t1, t2}
    Rounds = 2
    Phased = TRUE
    WordSize = 8
CHECK_DEADLOCK FALSE
PROPERTY
    WaitersWakeUp
