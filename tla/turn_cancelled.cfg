CONSTANTS
    MaxSent = 3  RouteLimit = 2  MaxEnds = 2
SPECIFICATION FairSpec
PROPERTIES CancelSparesClient
CHECK_DEADLOCK FALSE
