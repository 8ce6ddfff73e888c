SPECIFICATION FairSpec
CONSTANTS
    Jobs = {j1}
    Capacity = 1
    Callers = 1
    MaxQueues = 2
    MaxPauses = 1
    MaxClears = 1
    MaxFaults = 1
    MaxOfAll = 3
    NoJob = NoJob
PROPERTIES AcceptedIsSettled TeardownEnds
CHECK_DEADLOCK FALSE
