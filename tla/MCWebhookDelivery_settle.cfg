CONSTANTS
    Deliveries = {d1, d2}
    Passes = {p1}
    Timeout = 1
    Margin = 1
    MaxAttempts = 2
    Backoff = 2
    MaxWait = 3
    Batch = 1
    MaxRecords = 2
    SweepEvery = 2
    MaxFaults = 1
    MaxStalls = 0
    MaxToggles = 1
SPECIFICATION FairSpec
PROPERTIES DeliveriesSettle
