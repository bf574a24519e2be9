SPECIFICATION Spec
CONSTANTS
    FailureThreshold = 2
    RecoveryTimeout = 2
    WindowSize = 3
    BudgetPercent = 20
    BudgetWindow = 3
    MinRetries = 1
    BackoffBase = 1
    MaxDelay = 2
    StoreTTL = 2
    Keys = {k1, k2}
    Params = {burger, salad}
    NoParams = NoParams
    MaxCreated = 4
    Callers = {c1, c2, c3}
    MaxFailures = 4
    MaxLost = 1
    Orders = {o1, o2}
    MaxAttempts = 3
    MaxCalls = 2
    MaxFlips = 2
    MaxTime = 4
    ChainDepth = 5
    RetriesPerHop = 3
    MaxOriginals = 6
    Endpoints = {e1, e2}
    DemoEndpoint = demoEndpoint
    DemoCustomer = demoCustomer
    None = None
    Custom = Custom
    FinalStatus = 2
    Limit = 4096
    Margin = 20
    Notes <- MCNotes
    MaxOrders = 2
    MaxNotes = 1
    MaxPushes = 3
    pat = pat
    kim = kim
    here = here
    there = there
    Pollers = {pat, kim}
    Addresses = {here, there}
    AddressOf <- MCAddressOf
    MaxPolls = 2
    LastStatus = 2
    Unseen = Unseen
    MaxPeeks = 1
    MaxStops = 1
    Consumers = {w1, w2, w3}
    NumMessages = 4
INVARIANTS
    RetriesAreHarmless NoHammering ChainTamed PushFollowsOrder PollsAccounted
PROPERTIES
    CircuitFollowsEvidence Recovers WorkIsShared
CHECK_DEADLOCK FALSE
