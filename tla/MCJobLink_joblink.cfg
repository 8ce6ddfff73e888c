SPECIFICATION Spec
CONSTANTS
    Jobs = {j1}
    MaxConns = 2
    MaxReported = 1
    MaxCancels = 1
    MaxCuts = 1
    MaxCrashes = 0
    MaxRestarts = 1
    MaxUnpairs = 1
    MaxEvents = 2
CHECK_DEADLOCK FALSE
INVARIANTS CompletedIsOnPaper NeverLosesItsOwn HelloReconciles
PROPERTIES SlotVacatedByHolder 
