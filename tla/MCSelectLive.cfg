SPECIFICATION FairSpec
CONSTANTS
    User = {u1}
    Worker = {w1}
    Loop = Loop
    Topic = {p1}
    Handle = {h1}
    Self = Self
    None = None
    PipeCapacity = 8
    MaxCalls = 5
CHECK_DEADLOCK FALSE
PROPERTIES
    SignalledIsTaken
    TerminateEnds
