\* One document with failures, or two documents; page images.  Or the chunks of a text.
CONSTANTS
    Workers = {w1}
    w1 = w1
    d1 = d1
    d2 = d2
    coll = coll
    Docs = {d1, d2}
    First = d1
    Wordless = d2
    Stories = {"faults", "pair", "chunks"}
    Collection = coll
    Targets = {d1, d2, coll}
    MaxRetries = 2
    Exclusive = TRUE
    MaxJobs = 60
    MaxFaults = 1
    Visual = TRUE
    Textless = {}
    QdrantRequired = FALSE
    Requests = {"upload", "reupload", "rebuild"}
    Fallible = {"parse", "embed", "embed_propositions", "embed_summaries", "visual"}
    MaxRequests = 3
    MaxErrors = 2
    BatchBound = 3
    Types <- PipelineTypes
    HandledTypes <- PipelineTypes
    Batches <- FollowUps
    CharsPerToken = 4
    MinTokens = 2
    MaxTokens = 3
    OverlapTokens = 1
    Trees <- MCTrees
SPECIFICATION StoriesSpec
INVARIANTS
    PipelineTypeOK
    ReadyIsComplete
    OnePendingPerStage
    PairIsNotForgotten
    ChunksAreSound
PROPERTIES
    FaultsFollowTable
