CONSTANTS
    a1 = a1
    a2 = a2
    b = b
    Jobs = {a1, a2, b}
    CronJobs = {b}
    TimedJobs = {a1, b}
    Id <- MCId
    Period <- MCPeriod
    MaxFailures = 2
    Tickers = {loop, request}
    Loop = loop
    Nobody = nobody
    MaxRequests = 3
    MaxTime = 2
SPECIFICATION Spec
PROPERTY CronOncePerWindow
CHECK_DEADLOCK FALSE
