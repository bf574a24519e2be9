SPECIFICATION FairSpec
CONSTANTS
    billing = billing
    kitchen = kitchen
    analytics = analytics
    Subs = {kitchen, analytics}
    c1 = c1
    Callers = {c1, c2}
    Topics <- MCTopics
    Interest <- MCInterest
    QueueSize = 2
    LogSize = 1
    MaxEvents = 3
INVARIANTS
    BooksBalance
PROPERTIES
    PromiseSpec RemovedWhenDone MCIsolation RemovalEnds
CHECK_DEADLOCK FALSE
