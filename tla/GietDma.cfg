SPECIFICATION DmaFairSpec
CONSTANTS
    Client = {t1, t2}
    NoTask = NoTask
INVARIANTS
    TransferIsOneCall
    CompletedMeansOver
    ResultIsOwn
PROPERTIES
    CallsReturn
