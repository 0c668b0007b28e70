\* A window of three pages, prompts of one and two prefill passes (none with a
\* one-row tail), one that fills the window and one that does not fit, a
\* context on the CPU, on one device and on two.
CONSTANTS
    MaxShards = 1
    Window = 6
    PageSize = 2
    Prompts = {2, 5, 6, 8}
    MaxNews = {2, 5}
    Chunk = 3
    ShapeStep = 2
    Expected = 1
    OutCap = 3
SPECIFICATION FairSpec
INVARIANTS
    RowsInPlace
    AnswersComplete
PROPERTIES
    CallReturns
