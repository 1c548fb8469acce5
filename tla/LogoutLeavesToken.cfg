SPECIFICATION Spec
CONSTANTS
    Requests = {"refreshing", "form", "other", "another"}
    Links = {"reset", "verify", "oauth"}
    KindOf <- MCKindOf
    NoLink = "no link"
    MaxTokens = 3
    Calls = {"c1"}
    Me = "me"
    Refreshing = "refreshing"
    Form = "form"
    Worlds <- TabAlone
    Elsewhere = {"other", "another"}
PROPERTIES
    LogoutEndsSession
CHECK_DEADLOCK FALSE
