\* The parts on their own: see MCAlgorithms.tla.
CONSTANTS
    main = main
    thread1 = thread1
    p1 = p1
    p2 = p2
    nowhere = nowhere
    Bufsize = 3
    Putbacksize = 1
    MaxPut = 5
    MaxClears = 2
    MaxPackets = 2
SPECIFICATION AloneSpec
INVARIANTS Conserved StaysInArray Delivers Computes
\* A part ends when its bounds are used up.
CHECK_DEADLOCK FALSE
