SPECIFICATION FairSpec
CONSTANTS
    Client = {c1, c2, c3}
    NSlots = 1
    MaxCalls = 4
INVARIANT IInv
PROPERTY PerfIsOwn
PROPERTY AcquireReturns
