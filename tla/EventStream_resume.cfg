SPECIFICATION Spec
CONSTANTS
    dashboard = dashboard
    script = script
    Clients = {dashboard, script}
    Browsers = {dashboard}
    Streams = {s1, s2, s3}
    QueueSize = 2
    LogSize = 2
    MaxEvents = 2
    MaxDrops = 1
    MaxRestarts = 0
INVARIANTS
    ResumesFromLastSeen
CHECK_DEADLOCK FALSE
