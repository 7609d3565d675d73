SPECIFICATION Spec
CONSTANTS
    Procs = {p1}
    Logins = {l1}
    MaxWaits = 1
    Retriers = {p1}
    MaxAttempts = 3
    InitialDelay = 20
    MaxDelay = 15
    JitterPercent = 20
INVARIANTS
    RetriesRight
CHECK_DEADLOCK FALSE
