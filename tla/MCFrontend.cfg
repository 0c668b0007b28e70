SPECIFICATION FairSpec
CONSTANTS
    Slot = {s1, s2, s3}
    Cap = 4
    MaxItems = 2
    MaxActive = 2
    Submits <- LiveSubmits
    Runs <- LiveRuns
    MaxCalls = 3
PROPERTY CallsReturn
