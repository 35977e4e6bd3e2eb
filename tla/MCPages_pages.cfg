\* The page that imports: two batches, a folder, both databases, one failing
\* request.  The page that asks: two collections, two chats, two questions.
CONSTANTS
    f = f
    g = g
    Files = {f, g}
    Batches <- TwoBatches
    Folder <- FourCandidates
    Backends = {"sqlite", "postgres"}
    Plans <- MCPlans
    Width = 2
    MaxFailures = 1
    Collections = {"c1", "c2"}
    Chats = {"x", "y"}
    Starts <- MCStarts
    Texts = {"p", "q"}
    NoChat = "nochat"
    MaxAsks = 2
    MaxMoves = 2
    MaxUses = 3
    MaxPolls = 1
SPECIFICATION PagesSpec
CHECK_DEADLOCK FALSE
INVARIANTS
    CountersAreSound
    FolderIsSound
PROPERTIES
    UploadsComplete
    LaterCopiesAreRecognized
    ThreadIsSound
    SubmissionsEnd
