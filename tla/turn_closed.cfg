CONSTANTS
    MaxSent = 1  RouteLimit = 1  MaxEnds = 1
SPECIFICATION Spec
PROPERTIES ClosedStreamsSaySo
CHECK_DEADLOCK FALSE
