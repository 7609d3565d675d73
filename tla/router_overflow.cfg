CONSTANTS
    t1 = t1  c1 = c1  c2 = c2
    None = None  NoState = NoState  Global = Global
    Keys <- MCKeys
    Notifications <- MCNotifications
    Consumers = {c1, c2}
    Serves <- MCServes
    Refs = {1, 2}
    MaxRouteEvents = 2  MaxRouteBytes = 3
    MaxGlobalEvents = 1  MaxGlobalBytes = 2
    MaxTotalEvents = 2  MaxTotalBytes = 3
    MaxRead = 2
SPECIFICATION Spec
INVARIANTS OverflowIsolatesRoute
CHECK_DEADLOCK FALSE
