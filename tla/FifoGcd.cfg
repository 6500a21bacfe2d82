\* All pairs of operands from 1 to 16.
SPECIFICATION FairSpec
CONSTANT MaxRand = 15
PROPERTIES ImplementsService EveryRoundDisplays
