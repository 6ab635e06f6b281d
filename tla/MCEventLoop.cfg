SPECIFICATION FairSpec
CONSTANTS
    Looper = {l1, l2}
    Caller = {c1}
    Handler = {h1}
    None = None
    MaxLoops = 2
    MaxStops = 3
CHECK_DEADLOCK FALSE
INVARIANTS
    TypeOK
    ReadyMeansRunning
    EndedMeansQuiet
    NeverThrows
PROPERTY TerminateEndsLoop
