CONSTANTS
    Writers = {w1, w2}
    Cli = {w2}
    Deleters = {d1}
    MaxAttempts = 2
    MaxEvents = 3
    MaxTime = 4
    MaxMishaps = 1
    MaxChecks = 1
SPECIFICATION Spec
INVARIANTS RecordIsWhole VerdictIsJust
 
CHECK_DEADLOCK FALSE
