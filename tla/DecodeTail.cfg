\* A prompt one row longer than a whole number of prefill chunks.
CONSTANTS
    MaxShards = 1
    Window = 6
    PageSize = 2
    Prompts = {4}
    MaxNews = {2}
    Chunk = 3
    ShapeStep = 2
    Expected = 1
    OutCap = 3
SPECIFICATION Spec
INVARIANTS
    CacheHoldsSequence
