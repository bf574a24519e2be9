SPECIFICATION MCSpec
CONSTANTS
    billing = billing
    kitchen = kitchen
    analytics = analytics
    Subs = {kitchen, analytics}
    c1 = c1
    Callers = {c1, c2}
    Topics <- MCTopics
    Interest <- MCInterest
    QueueSize = 1
    LogSize = 1
    MaxEvents = 1
INVARIANT OnlyAskedRemoved
CHECK_DEADLOCK FALSE
