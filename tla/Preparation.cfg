SPECIFICATION FairSpec
CONSTANTS
    CanonicalOf <- MCCanonicalOf
    Required <- MCRequired
    NiceToHave <- MCNiceToHave
    MaxResumes = 3
    Profiles <- MCProfiles
    NoProfile = NoProfile
    NoGap = NoGap
    NoPlan = NoPlan
    Requests = {"mine", "one", "two"}
    Mine = "mine"
    Worlds <- MCWorlds
    Companies = {"acme"}
    NoCompany = "no company"
    Roles <- MCRoles
    RoleKeyOf <- MCRoleKeyOf
    Templates <- MCTemplates
    Releases <- MCReleases
    PlanRequests <- MCPlanRequests
    MaxPlans = 1
    MaxFetches = 2
    Difficulties = {"auto"}
    Nothing = Nothing
INVARIANTS
    TypeOK
    OneActive
    FilesKept
    ReadinessWhole
    PlansGrounded
PROPERTIES
    PlansStand
    WatchingEnds
CHECK_DEADLOCK FALSE
