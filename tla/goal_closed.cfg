CONSTANTS
    t1 = t1  t2 = t2  t3 = t3
    Turns = {t1, t2, t3}
    NoTurn = NoTurn
    Scripts <- MCStarted
    GivesUp = FALSE
    Cancels = TRUE
    Shared <- MCStarted
    Breaks = FALSE
SPECIFICATION FairSpec
PROPERTIES CallerEnds
