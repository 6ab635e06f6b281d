SPECIFICATION BasicSpec
CONSTANTS
    User = {u1}
    Worker = {w1}
    Loop = Loop
    Topic = {p1}
    Handle = {h1}
    Self = Self
    None = None
    PipeCapacity = 4
    MaxCalls = 4
CHECK_DEADLOCK FALSE
INVARIANT RemovedStaysAway
