CONSTANTS
    Deliveries = {d1, d2}
    Passes = {p1, p2}
    Timeout = 1
    Margin = 1
    MaxAttempts = 2
    Backoff = 2
    MaxWait = 3
    Batch = 2
    MaxRecords = 1
    SweepEvery = 1
    MaxFaults = 1
    MaxStalls = 1
    MaxToggles = 0
SPECIFICATION Spec
SYMMETRY Symmetry
INVARIANTS AttemptsTakeTurns
PROPERTIES OutcomeStands SweepKeepsNewest
