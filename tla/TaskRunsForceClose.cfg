CONSTANTS
    Queued = {q1}
    Direct = {d1}
    Chats = {c1}
    MaxWorkers = 1
    MaxTasks = 2
    MaxRestarts = 1
SPECIFICATION Spec
PROPERTY ForceCloseOnlyStale
CHECK_DEADLOCK FALSE
