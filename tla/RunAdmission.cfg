CONSTANTS
    Runs = {r1, r2}
    Chats = {c1}
    CapBefore = 1
    CapAfter = 1
SPECIFICATION Spec
INVARIANTS EachQueueWithinCap StreamsReportTheEnd
PROPERTIES ChatRefusalJustified AcceptedRunsEndAnyway
CHECK_DEADLOCK FALSE
