CONSTANTS
    MaxCalls = 2  MaxOwn = 1
SPECIFICATION CompactionFairSpec
INVARIANTS ConfirmsNew
PROPERTIES CallsReturn
CHECK_DEADLOCK FALSE
