\* PostgreSQL: two workers, slow handlers, one crash or failed commit.
CONSTANTS
    Workers = {w1, w2}
    w1 = w1
    w2 = w2
    d1 = d1
    d2 = d2
    Targets = {d1, d2}
    Types = {"parse", "benchmark"}
    HandledTypes = {"parse"}
    MaxRetries = 2
    Exclusive = FALSE
    Batches <- OneTargetBatches
    MaxJobs = 2
    MaxFaults = 1
SPECIFICATION FairSpec
INVARIANTS
    SharedOnlyIfRequeued
PROPERTIES
    EveryJobSettles
    OutcomeIsFinal
