SPECIFICATION Spec
CONSTANTS
    Orders = {o1, o2}
    Drivers = {alice}
    NoDriver = NoDriver
    MaxEvents = 4
    MaxRaises = 1
    Clients = {c1, c2}
    NoClient = NoClient
    AcceptQueue = 1
    BufferSize = 4
    SendBuffer = 1
    MaxRequests = 2
INVARIANTS
    OncePerOrder DriversAccounted AnswersMatch
PROPERTIES
    EveryOrderServed EveryoneServed
CHECK_DEADLOCK FALSE
