\* SQLite: two processes compete for the worker lock, crashes, slow handlers.
CONSTANTS
    Workers = {w1, w2}
    w1 = w1
    w2 = w2
    d1 = d1
    d2 = d2
    Targets = {d1, d2}
    Types = {"parse", "benchmark"}
    HandledTypes = {"parse"}
    MaxRetries = 2
    Exclusive = TRUE
    Batches <- MCBatches
    MaxJobs = 3
    MaxFaults = 2
SPECIFICATION Spec
INVARIANTS
    SuccessNeedsWork
    OneExecutor
    RetryBudget
PROPERTIES
    ImplementsWorkLease
