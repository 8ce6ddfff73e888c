SPECIFICATION Spec
CONSTANTS
    Jobs = {j1}
    MaxConns = 2
    MaxReported = 1
    MaxCancels = 0
    MaxCuts = 1
    MaxCrashes = 0
    MaxRestarts = 0
    MaxUnpairs = 0
    MaxEvents = 2
CHECK_DEADLOCK FALSE
PROPERTY LostJobsStayUnprinted
