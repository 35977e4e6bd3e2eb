\* One process indexes three files that are edited twice, with and without --full.
CONSTANTS
    NumSources = 3
    MaxChanges = 2
    Contents <- MCContents
    Questions <- MCQuestions
SPECIFICATION GraphSpec
INVARIANTS
    ResolvedIsUnequivocal
