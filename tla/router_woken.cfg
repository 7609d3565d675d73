CONSTANTS
    t1 = t1  c1 = c1  c2 = c2
    None = None  NoState = NoState  Global = Global
    Keys <- MCKeys
    Notifications <- MCAnyNotifications
    Consumers = {c1, c2}
    Serves <- MCServesGlobal
    Refs = {1, 2}
    MaxRouteEvents = 1  MaxRouteBytes = 1
    MaxGlobalEvents = 1  MaxGlobalBytes = 1
    MaxTotalEvents = 2  MaxTotalBytes = 2
    MaxRead = 2
SPECIFICATION FairSpec
PROPERTIES FailAllWakesAll
CHECK_DEADLOCK FALSE
