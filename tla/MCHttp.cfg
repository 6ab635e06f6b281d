CONSTANTS
    Client = {c1}
    None = none
    Parts = 2
    MaxRequests = 3
SPECIFICATION Spec
CHECK_DEADLOCK FALSE
INVARIANTS TypeOK OwnAnswer StopIsBarrier
PROPERTIES Answered
