\* Three tasks switched by a periodic timer, or by their calls of ctx_switch().
SPECIFICATION TaskFairSpec
CONSTANTS
    NTasks = 3
    Steps = 4
    Ways = {{"timer"}, {"yield"}}
PROPERTIES ImplementsTaskService EveryTaskRuns
