SPECIFICATION ServersSpec
CONSTANTS
    Conns = {c1, c2, c3}
    MaxHistory = 3
    MaxChats = 2
    Connections = {m1, m2}
    Patient = {m2}
    MaxLength = 3
    Sizes = {1, 3, 4}
    Framing = 1
    Places = {north}
    Depot = depot
    Preparing = 3
    FinalStatus = 5
    MaxFrames = 3
    Servers = {A, B}
    Lifetime = 1
    MaxLogins = 2
    MaxPlaced = 1
    MaxRestarts = 1
    MaxNow = 2
    ip1 = ip1
    ip2 = ip2
    Addresses = {ip1, ip2}
    Requests <- MCRequests
    Cost = 2
    MaxTokens = 3
    NoBucket = NoBucket
    LastStatus = 1
    MaxTime = 3
    MaxStepBack = 1
SYMMETRY AnyConn
INVARIANTS
    RosterTrue NoGap SenderOrder
    MuxAnswersMatch SessionsKeep RateBounded AnsweredTruly
CHECK_DEADLOCK FALSE
