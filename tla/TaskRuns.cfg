CONSTANTS
    Queued = {q1, q2}
    Direct = {d1}
    Chats = {c1}
    MaxWorkers = 1
    MaxTasks = 2
    MaxRestarts = 1
SPECIFICATION Spec
INVARIANTS TypeOK EntryAndRecordAgree RegistryHoldsOpenChats
PROPERTIES RecordedResultIsFinal CancelledChatsAreAnswered RunsAreDecided
CHECK_DEADLOCK FALSE
