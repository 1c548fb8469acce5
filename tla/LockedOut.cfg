SPECIFICATION FairSpec
CONSTANTS
    Requests = {r1, r2}
    MaxAttempts = 3
    ProcessCrashes = TRUE
    Tests <- MCTests
    SampleTests <- MCSampleTests
    TestWeight <- MCTestWeight
    Programs <- MCPrograms
    Qualities <- MCQualities
PROPERTY
    NeverLockedOut
CHECK_DEADLOCK FALSE
