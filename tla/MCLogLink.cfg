CONSTANTS
    Callers = {t1, t2}
    Msgs = {m1, m2, m3}
    MaxPieces = 2
    MaxConns = 4
SPECIFICATION Spec
SYMMETRY Symmetry
INVARIANTS
    TypeOK
    AbandonedNeverRead
    SentAtMostOnce
    LeaksAreFailedConnects
