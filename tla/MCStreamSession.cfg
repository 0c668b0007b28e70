SPECIFICATION FairSpec
CONSTANTS
    Chunk = 2
    Lookahead = 1
    PromptLen = 1
    Capacity = 26
    MaxNew = 2
    AheadMax = 3
    MaxTotal = 7
INVARIANT IInv
INVARIANT TextInOrder
PROPERTY FollowsProtocol
PROPERTY CallsEnd
