CONSTANTS
    Dials = {a1, a2}
    NoDial = NoDial
    MaxStarts = 2
    MaxCuts = 1
    MaxOutages = 1
    MayShutDown = TRUE
SPECIFICATION FairSpec
INVARIANTS OneChain ReportsWhatItDoes
PROPERTIES LinkRecovers
CHECK_DEADLOCK FALSE
