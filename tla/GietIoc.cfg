SPECIFICATION FairSpec
CONSTANTS
    t1 = t1
    t2 = t2
    p1 = p1
    Task = {t1, t2}
    Proc = {p1}
    ProcOf <- MCProcOf
    IocProc = p1
    NoTask = NoTask
    NO_HARD_CC = TRUE
INVARIANTS
    ResultIsOwn
    NoStaleCopy
PROPERTIES
    ImplementsService
    TransferCompletes
    LockProgress
