\* Memory builds, ingestions and deletions around searches; or failing services.
CONSTANTS
    Workers = {w1, w2}
    w1 = w1
    w2 = w2
    d1 = d1
    coll1 = coll1
    Docs = {d1}
    Collection = coll1
    QdrantRequired = FALSE
    Targets = {d1, coll1}
    MaxRetries = 2
    Exclusive = FALSE
    MaxJobs = 30
    MaxFaults = 1
    Types <- MemoryTypes
    HandledTypes <- MemoryTypes
    Batches <- FollowUps
    s1 = s1
    Searchers = {s1}
    Plans <- MCPlans
    MaxVariants = 3
    Modes = {"factual_local", "global", "multi_hop", "visual"}
    Corpora <- MCCorpora
    Drafts <- MCDrafts
    Opinions <- MCOpinions
    Policies <- MCPolicies
    MapCalls = 2
SPECIFICATION RequestsSpec
CHECK_DEADLOCK FALSE
INVARIANTS
    MemoryIsSound
    EvidenceIsSound
    QdrantFailureIsContained
    AnswerIsSound
    SynthesisReadsEverything
PROPERTIES
    DeletedIsInert
