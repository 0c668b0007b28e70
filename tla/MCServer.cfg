SPECIFICATION Spec
CONSTANTS
    Client = {c1, c2, c3}
    Direct = {}
    Slots = 1
    Capacity = 1
    MaxCalls = 4
SYMMETRY Symmetry
INVARIANT Safety
