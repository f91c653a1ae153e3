\* The route node clears the review it escalates.
SPECIFICATION Spec
CONSTANTS
    Limits <- OneRetryEach
    OnLimitExceeded = "fail"
    BlockPrd = TRUE
    BlockDesign = TRUE
    PrdHitlRequired = FALSE
    DesignHitlRequired = FALSE
    MaxSessions = 1
    AllowForceNew = FALSE
    ReenterValues = {"auto"}
    InvokeRestarts = FALSE
PROPERTY
    EscalationReachesAgent
CHECK_DEADLOCK FALSE
