CONSTANTS
    MaxSent = 3  RouteLimit = 2  MaxEnds = 2
SPECIFICATION FairSpec
INVARIANTS InOrder StableEnd ResultRight
PROPERTIES RunReturns
CHECK_DEADLOCK FALSE
