CONSTANTS
    Cache = {c1, c2, c3}
    Page = {p1, p2}
    PageSize = 2
    MaxSeqLen = 5
    MaxCalls = 4
SPECIFICATION FairSpec
INVARIANT IInv
PROPERTY AllocatorSpec
PROPERTY ReserveReturns
