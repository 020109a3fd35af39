SPECIFICATION Spec
CONSTANTS
    Users = {alice, bob}
    Bad <- MCBad
    kMaxPendingWrites = 2
    MaxWrites = 3
    MaxFaults = 2
INVARIANTS
    PipelineInv
    ResponsesMatch
    AssertionsHold
PROPERTIES
    WritesAreQueued
    QueueDrains
CHECK_DEADLOCK FALSE
