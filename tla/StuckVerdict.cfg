SPECIFICATION JobFairSpec
CONSTANTS
    Requests = {r1, r2}
    RoundPlan <- CodingLastPlan
    StartingDifficulty = 2
    CatalogDifficulties = {1, 2, 3}
    AnswersOnCoding = FALSE
    AbandonMidTurn = FALSE
    ProcessCrashes = FALSE
    None = None
PROPERTY
    VerdictAdvances
CHECK_DEADLOCK FALSE
