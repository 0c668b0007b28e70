SPECIFICATION FairSpec
CONSTANTS
    Client = {c1, c2, c3, c4, c5}
    Slots = 2
    Capacity = 2
    MaxCalls = 5
INVARIANT IInv
PROPERTY FifoSpec
PROPERTY CallersAnswered
