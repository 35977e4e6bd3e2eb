\* A rebuild whose attempts all fail.
CONSTANTS
    Workers = {w1}
    w1 = w1
    d1 = d1
    coll = coll
    Docs = {d1}
    Collection = coll
    Targets = {d1, coll}
    MaxRetries = 2
    Exclusive = TRUE
    MaxJobs = 30
    MaxFaults = 0
    Visual = FALSE
    Textless = {}
    QdrantRequired = TRUE
    Requests = {"upload", "rebuild"}
    Fallible = {"rebuild"}
    MaxRequests = 2
    MaxErrors = 2
    BatchBound = 3
    Types <- PipelineTypes
    HandledTypes <- PipelineTypes
    Batches <- FollowUps
SPECIFICATION PipelineSpec
INVARIANTS
    PublishedIsSearchable
