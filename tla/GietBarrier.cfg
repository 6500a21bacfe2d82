SPECIFICATION FairSpec
CONSTANTS
    Task = {t1, t2, t3}
    Rounds = 3
    Phased = TRUE
    WordSize = 8
CHECK_DEADLOCK FALSE
INVARIANTS
    CounterCountsMissing
PROPERTIES
    ImplementsService
    WakeUpUnlessOvertaken
