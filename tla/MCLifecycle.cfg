CONSTANTS
    Retries = {"r1"}
    Homes <- MCHomes
    MaxFiles = 1
    MaxGen = 2
    MaxFailures = 2
    MaxEdits = 1
    MaxSpoken = 1
SPECIFICATION FairSpec
INVARIANTS
    NothingLeft
PROPERTIES
    UserLayoutKept EventuallyRegistered
CHECK_DEADLOCK FALSE
