SPECIFICATION Spec
CONSTANTS
    Requests = {r1, r2}
    RoundPlan <- TextPlan
    StartingDifficulty = 2
    CatalogDifficulties = {1, 2, 3}
    AnswersOnCoding = FALSE
    AbandonMidTurn = TRUE
    ProcessCrashes = TRUE
    None = None
PROPERTY
    AbandonedIsFinal
CHECK_DEADLOCK FALSE
