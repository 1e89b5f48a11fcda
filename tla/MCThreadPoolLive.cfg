CONSTANTS
    Producers = {p1, p2}
    Workers = {w1, w2}
    Destroyers = {d1}
    Jobs = {j1, j2, j3, j4}
    queue_max_num = 1
    NoJob = NoJob
SPECIFICATION FairSpec
PROPERTIES
    ImplementsJobPool
    AcceptedFinishes
    DestroyReturns
    FullListMovesOn
