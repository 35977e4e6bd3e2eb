\* One document with page images: rebuilds and a failing call, or repairs of a failed job.
CONSTANTS
    Workers = {w1}
    w1 = w1
    d1 = d1
    d2 = d2
    coll = coll
    Docs = {d1, d2}
    First = d1
    Wordless = d2
    Stories = {"rebuilds", "repairs", "textless"}
    Collection = coll
    Targets = {d1, d2, coll}
    MaxRetries = 2
    Exclusive = TRUE
    MaxJobs = 60
    MaxFaults = 0
    Visual = TRUE
    Textless = {d2}
    QdrantRequired = FALSE
    Requests = {"upload", "resume", "rebuild"}
    Fallible <- PipelineTypes
    MaxRequests = 3
    MaxErrors = 2
    BatchBound = 3
    Types <- PipelineTypes
    HandledTypes <- PipelineTypes
    Batches <- FollowUps
    CharsPerToken = 4
    MinTokens = 2
    MaxTokens = 3
    OverlapTokens = 1
    Trees <- NoTrees
SPECIFICATION FairStoriesSpec
INVARIANTS
    ReadyIsComplete
    QueueFitsStatus
    NothingIsForgotten
    PublishedIsSearchable
PROPERTIES
    RebuildStartsClean
    RebuildsArrive
