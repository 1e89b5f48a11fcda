CONSTANTS
    Callers = {t1, t2}
    Msgs = {m1, m2}
    MaxPieces = 2
    MaxConns = 3
SPECIFICATION FairSpec
PROPERTY
    CallReturns
