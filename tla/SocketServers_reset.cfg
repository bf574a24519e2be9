SPECIFICATION SocketsSpec
CONSTANTS
    Clients = {c1, c2}
    NoClient = NoClient
    AcceptQueue = 1
    BufferSize = 4
    SendBuffer = 1
    MaxRequests = 2
INVARIANT
    KeepsListening
CHECK_DEADLOCK FALSE
