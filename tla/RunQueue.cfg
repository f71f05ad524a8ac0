CONSTANTS
    Runs = {r1, r2, r3, r4}
    MaxWorkers = 2
SPECIFICATION Spec
INVARIANTS QueueInv WithinCap NoOvertaking
PROPERTIES OutcomeIsFinal AcceptedRunsEnd PoolSpec
CHECK_DEADLOCK FALSE
