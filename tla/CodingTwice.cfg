SPECIFICATION Spec
CONSTANTS
    Requests = {r1, r2}
    RoundPlan <- MixedPlan
    StartingDifficulty = 2
    CatalogDifficulties = {1, 2, 3}
    AnswersOnCoding = TRUE
    AbandonMidTurn = FALSE
    ProcessCrashes = TRUE
    None = None
INVARIANT
    CodingTurnOnce
CHECK_DEADLOCK FALSE
