SPECIFICATION Spec
CONSTANTS
    Warps = {w1, w2, w3}
    Rings <- MCRings
    Cap = 3
    MicTotal = 4
    MicChunk = 2
    Layers = 3
    MaxPasses = 3
    MaxQueue = 6
    MaxFaults = 1
    Rates <- MCRates
    HalfWidth = 4
    Pushes = {1, 3, 11}
    MaxGiven = 25
    \* Every size of a push leaves a sample in a frame that is not full.
    Frame = 2
    PreCap = 5
    MinSpeech = 4
    Hangover = 4
    MaxSeg = 8
    Sizes = {1, 3, 5}
    MaxIn = 18
    OpenParams <- MCOpenParams
    ChunkRows = 4
    AheadMax = 2
    TokenIds = {0, 1}
    MaxSessions = 3
    MaxChunks = 3
    MaxSteps = 1
    MaxFails = 1
    MaxClones = 2
    Asked = {FALSE}
INVARIANTS
    LoadedAsAsked LinearIsProduct ReadsOwnTile AttendsToAll KvReadBack
    MicLossless SegmentsInOrder StreamIsBatch
    DeltasAreWhole TokensAreText SamplesBest AnswerKept
    FreedOnce RunsOwnWeights EncodesAsWhole SlotLeftClean ReadsWhatWasAsked
    LaunchesRight
PROPERTY OldestGoesOn
\* A part that has done its work stops; RunsOwnWeights says where one may not.
CHECK_DEADLOCK FALSE
