SPECIFICATION FairSpec
CONSTANTS
    Looper = {l1}
    Caller = {c1}
    Handler = {h1}
    None = None
    MaxLoops = 1
    MaxStops = 1
CHECK_DEADLOCK FALSE
PROPERTY TerminateIsHeard
