SPECIFICATION FairSpec
CONSTANTS
    orderA = orderA
    orderB = orderB
    N = 2
    Consumers = {1, 2, 3}
    Sorted <- MCSorted
    Keys = {orderA}
    NoKey = NoKey
    Hashed <- MCHashed
    MaxPoll = 2
    MaxRecords = 3
    MaxMoves = 4
    MaxSeeks = 1
INVARIANTS
    OneOwner LagCoversBacklog KeyOrder
PROPERTIES
    PromiseSpec AllConsumed
CHECK_DEADLOCK FALSE
