SPECIFICATION Spec
CONSTANTS
    User = {u1, u2}
    Worker = {w1, w2}
    Loop = Loop
    Topic = {p1}
    Handle = {h1, h2}
    Self = Self
    None = None
    PipeCapacity = 3
    MaxCalls = 4
CHECK_DEADLOCK FALSE
SYMMETRY Symmetry
INVARIANTS
    TypeOK
    OnePerTopic
    NeverSleepsOnChange
    Accounted
