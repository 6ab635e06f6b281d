SPECIFICATION RestartSpec
CONSTANTS
    User = {u1}
    Timer = {t1, t2}
    None = None
    Interval = {1}
    MaxTime = 2
    MaxCalls = 3
CHECK_DEADLOCK FALSE
INVARIANT OneShotOnce
