CONSTANTS
    p1 = p1  p2 = p2  t1 = t1  e1 = e1  e2 = e2
    Nobody = Nobody  NoEntry = NoEntry
    Threads = {t1}
    Procs = {p1, p2}
    Entries = {e1, e2}
SPECIFICATION FairSpec
INVARIANTS MutualExclusion TurnExcludesGoal OneOwner CompactionKeepsRoute
PROPERTIES OperationsReturn
CHECK_DEADLOCK FALSE
