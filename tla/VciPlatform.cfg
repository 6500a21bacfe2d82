\* The three masters of tp2_parallel_top, the clock running.
SPECIFICATION FairSpec
CONSTANTS
    NbComponents = 3
    MaxRand = 7
    Draws <- MCDraws
INVARIANTS OneTransaction NoWriteWhileComputing
PROPERTIES ImplementsService EveryMasterDisplays TakesTurns
