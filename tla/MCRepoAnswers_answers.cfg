\* Queries while generations are published and pruned; graphs of edited files;
\* searches of four files while they are edited and indexed again.
CONSTANTS
    w1 = w1
    r1 = r1
    Writers = {w1}
    Readers = {r1}
    NumFiles = 1
    Tracked = {1}
    MaxAttempts = 2
    MaxEdits = 2
    MaxFull = 0
    MaxFaults = 0
    MaxReads = 2
    MaxRemovals = 1
    NumSources = 3
    MaxChanges = 2
    Contents <- MCContents
    Questions <- MCQuestions
    Site <- MCSite
    Content <- MCContent
    Inquiries <- MCInquiries
    Semantic = {TRUE, FALSE}
    MaxTouches = 1
    MaxPublished = 2
SPECIFICATION AnswersSpec
INVARIANTS
    OneGenerationPerAnswer
    GraphIsSound
    WalkIsExact
    ShownIsIndexed
    RankingIsFair
    BestIsKept
