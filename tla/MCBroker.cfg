SPECIFICATION Spec
CONSTANTS
    Thread = {t1, t2}
    Object = {o1, o2}
    Topic = {p1, p2}
    Member = {m1}
    Static = {s1}
    Null = Null
    None = None
    MaxDepth = 2
    MaxDup = 2
SYMMETRY Symmetry
INVARIANTS
    TypeOK
    Serialised
    DestroyIsBarrier
    MembersAgree
