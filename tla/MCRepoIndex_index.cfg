\* Two processes that index while two files are edited; failing runs, --full.
CONSTANTS
    w1 = w1
    w2 = w2
    Writers = {w1, w2}
    Readers = {}
    NumFiles = 2
    Tracked = {1}
    MaxAttempts = 2
    MaxEdits = 2
    MaxFull = 1
    MaxFaults = 1
    MaxReads = 0
    MaxRemovals = 1
SPECIFICATION FairRepoSpec
INVARIANTS
    ReadyIsProjected
PROPERTIES
    PublishedWasReal
    IndexCatchesUp
