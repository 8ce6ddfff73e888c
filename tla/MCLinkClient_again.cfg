CONSTANTS
    Dials = {a1, a2, a3}
    NoDial = NoDial
    MaxStarts = 2
    MaxCuts = 0
    MaxOutages = 1
    MayShutDown = FALSE
SPECIFICATION FairSpec
PROPERTIES PairingAgainWorks
CHECK_DEADLOCK FALSE
