SPECIFICATION Spec
CONSTANTS
    Procs = {p1, p2}
    Logins = {l1, l2}
    MaxWaits = 1
    Retriers = {p1}
    MaxAttempts = 3
    InitialDelay = 10
    MaxDelay = 15
    JitterPercent = 20
INVARIANTS
    ResultsRight
    RetriesRight
    StartLeavesNothing
PROPERTY WaitsReturn
CHECK_DEADLOCK FALSE
