CONSTANTS
    t1 = t1  t2 = t2  t3 = t3
    Turns = {t1, t2, t3}
    NoTurn = NoTurn
    Scripts <- MCAnnounced
    GivesUp = FALSE
    Cancels = FALSE
    Shared = {}
    Breaks = TRUE
SPECIFICATION FairSpec
PROPERTIES GoalEnds
