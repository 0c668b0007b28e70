SPECIFICATION FairSpec
CONSTANTS
    Conn = {c1, c2, c3}
    Stopper = {t1, t2}
    MaxConns = 2
CHECK_DEADLOCK FALSE
INVARIANT Safety
PROPERTY StopReturns
