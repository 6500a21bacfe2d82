\* Three tasks that call ctx_switch() while the timer runs.
SPECIFICATION TaskFairSpec
CONSTANTS
    NTasks = 3
    Steps = 2
    Ways = {{"timer", "yield"}}
PROPERTIES EveryTaskRuns
