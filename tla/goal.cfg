CONSTANTS
    t1 = t1  t2 = t2  t3 = t3
    Turns = {t1, t2, t3}
    NoTurn = NoTurn
    Scripts <- MCScripts
    GivesUp = TRUE
    Cancels = TRUE
    Shared <- MCShared
    Breaks = TRUE
SPECIFICATION FairSpec
INVARIANTS InOrder CancelStopsTurns
PROPERTIES StartFindsTurn GoalEnds
