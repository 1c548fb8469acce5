SPECIFICATION Spec
CONSTANTS
    Requests = {r1, r2}
    RoundPlan <- MixedPlan
    StartingDifficulty = 2
    CatalogDifficulties = {2, 3}
    AnswersOnCoding = FALSE
    AbandonMidTurn = TRUE
    ProcessCrashes = TRUE
    None = None
INVARIANTS
    TypeOK
    TurnsInOrder
    OneQuestionPending
    RoundsInOrder
    QuestionBudget
    CompletedIsWhole
PROPERTIES
    ClosedToAnswers
    AtMostOneLateTurn
    TakesVerdicts
CHECK_DEADLOCK FALSE
