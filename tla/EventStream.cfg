SPECIFICATION FairSpec
CONSTANTS
    dashboard = dashboard
    script = script
    Clients = {dashboard}
    Browsers = {dashboard}
    Streams = {s1, s2, s3}
    QueueSize = 2
    LogSize = 2
    MaxEvents = 3
    MaxDrops = 2
    MaxRestarts = 1
INVARIANTS
    NothingMissed RepeatsOnlyFromWindow GaugeIsSubscribers
PROPERTIES
    CatchesUp
CHECK_DEADLOCK FALSE
