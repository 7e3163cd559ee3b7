SPECIFICATION PagesSpec
CONSTANTS
    Keys = {1, 2, 3, 4}
    NBoxes = 3
    BoxOf <- MCBoxOf
    Near = {1, 3, 4}
    Count = 2
    Limits = {0, 3}
    MaxWrites = 2
    MaxFaults = 2
INVARIANTS EachRowOnce RowsKept PagesHoldCount
PROPERTIES EventuallyOver
CHECK_DEADLOCK FALSE
