SPECIFICATION FairSpec
CONSTANTS
    Requests = {"refreshing", "form", "other", "another"}
    Links = {"reset", "verify", "oauth"}
    KindOf <- MCKindOf
    NoLink = "no link"
    MaxTokens = 3
    Calls = {"c1"}
    Me = "me"
    Refreshing = "refreshing"
    Form = "form"
    Worlds <- MCWorlds
    Elsewhere = {"other", "another"}
INVARIANTS
    TypeOK
    OneLivePerSession
    ResetEndsSessions
    OnePasswordPerLink
    NoSelfRejection
    SignedInCanRefresh
PROPERTIES
    SessionChecked
    CallsSettle
CHECK_DEADLOCK FALSE
