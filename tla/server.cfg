SPECIFICATION FairServerSpec
CONSTANTS
    w1 = w1
    w2 = w2
    api = api
    none = none
    Workers <- TwoWorkers
    Schemas = 4
    Scenarios <- SomeScenarios
    r1 = r1
    r2 = r2
    office = office
    home = home
    anna = anna
    anonymous = anonymous
    nobody = anonymous
    Requests <- TwoRequests
    Demands <- SomeDemands
    Callers <- SomeCallers
    AuthActions = {"login"}
    EndpointActions = {"upload", "compare"}
    Limit <- Limits
    Window <- Windows
    MaxLoginAttempts = 2
    LockDuration = 2
    Retention = 3
    Patience = 1
    MaxTime = 4
    MaxClears = 1
    MaxMade = 4
INVARIANTS
    LimitPerWindow
    LockComesInTime
    SchemaIsSafe
PROPERTIES
    LockHolds
    StopEnds
CHECK_DEADLOCK FALSE
