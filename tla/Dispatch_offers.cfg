SPECIFICATION LiveSpec
CONSTANTS
    d = d
    other = other
    Driver <- MCDrivers
    App <- MCApps
    Profiles <- MCProfiles
    Ask <- MCAsks
    Required = {"licence"}
    Strict = FALSE
    MaxReach = 1
    HeadStart = 2
    ExpireAfter = 3
    LeadOpens = 1
    GraceEnds = 3
CHECK_DEADLOCK FALSE
INVARIANTS
    OfferedAsAsked
PROPERTIES
    AnsweredInTheEnd
    OverLeavesList
