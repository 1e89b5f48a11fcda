CONSTANTS
    Producers = {p1, p2, p3}
    Workers = {w1, w2}
    Destroyers = {d1, d2}
    Jobs = {j1, j2, j3, j4, j5}
    queue_max_num = 2
    NoJob = NoJob
SPECIFICATION Spec
SYMMETRY Symmetry
INVARIANTS
    TypeOK
    ListCounted
    NoLostWakeup
    FifoExactlyOnce
    DrainedBeforeFree
    OneDestroyer
PROPERTY
    RefinesJobPool
