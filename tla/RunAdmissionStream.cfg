CONSTANTS
    Runs = {r1, r2}
    Chats = {c1}
    CapBefore = 1
    CapAfter = 1
SPECIFICATION Spec
INVARIANT StreamsAreNotBroken
CHECK_DEADLOCK FALSE
