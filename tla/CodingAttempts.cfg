SPECIFICATION FairSpec
CONSTANTS
    Requests = {r1, r2}
    MaxAttempts = 3
    ProcessCrashes = TRUE
    Tests <- MCTests
    SampleTests <- MCSampleTests
    TestWeight <- MCTestWeight
    Programs <- MCPrograms
    Qualities <- MCQualities
INVARIANTS
    TypeOK
    OneEvaluation
PROPERTIES
    AttemptsKept
    ImplementsVerdict
    SlotSettles
CHECK_DEADLOCK FALSE
