SPECIFICATION Spec
CONSTANTS
    Task = {t1, t2, t3}
    Worker = {w1, w2, w3}
    None = None
INVARIANTS
    TypeOK
    WorkConserving
    PlacedOnce
    JoinedMeansQuiet
PROPERTIES
    ServiceSpec
    QueuedRuns
    WaitReturns
