CONSTANTS
    MaxCalls = 1  MaxOwn = 1
SPECIFICATION CompactionFairSpec
INVARIANTS ConfirmsFresh
CHECK_DEADLOCK FALSE
