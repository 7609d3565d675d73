CONSTANTS
    t1 = t1  t2 = t2  t3 = t3
    Turns = {t1, t2, t3}
    NoTurn = NoTurn
    Scripts <- MCScripts
    GivesUp = FALSE
    Cancels = FALSE
    Shared = {}
    Breaks = FALSE
SPECIFICATION FairSpec
INVARIANTS StartObservesTurn
