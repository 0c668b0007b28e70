SPECIFICATION FairSpec
CONSTANTS
    Client = {c1, c2, d1}
    Direct = {d1}
    Slots = 1
    Capacity = 1
    MaxCalls = 2
PROPERTY RequestsAnswered
