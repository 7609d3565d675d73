CONSTANTS
    p1 = p1  p2 = p2  t1 = t1  e1 = e1  e2 = e2
    Nobody = Nobody  NoEntry = NoEntry
    Threads = {t1}
    Procs = {p1, p2}
    Entries = {e1, e2}
SPECIFICATION Spec
INVARIANTS OwnerKeepsRoute
CHECK_DEADLOCK FALSE
