CONSTANTS
    Conn = {c1, c2}
    Acceptor = acceptor
    Worker = {w1}
    User = {u1}
    Free = free
    MaxFd = 3
    MaxData = 1
    MaxCalls = 1
SPECIFICATION Spec
CHECK_DEADLOCK FALSE
INVARIANTS TypeOK ReadsOwn DisconnectedOnce CalledForCause
PROPERTIES EndIsServed
