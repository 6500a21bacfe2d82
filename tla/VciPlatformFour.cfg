\* Four masters: the arbitration starves two of them.
SPECIFICATION FairSpec
CONSTANTS
    NbComponents = 4
    MaxRand = 7
    Draws <- MCDraws
PROPERTIES RequestsAreGranted
