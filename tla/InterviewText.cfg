SPECIFICATION FairSpec
CONSTANTS
    Requests = {r1, r2}
    RoundPlan <- TextPlan
    StartingDifficulty = 2
    CatalogDifficulties = {1, 2, 3}
    AnswersOnCoding = FALSE
    AbandonMidTurn = FALSE
    ProcessCrashes = TRUE
    None = None
INVARIANTS
    TextTurnOnce
PROPERTIES
    ImplementsProtocol
    InterviewEnds
CHECK_DEADLOCK FALSE
