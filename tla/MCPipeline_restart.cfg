\* continue invokes the graph with an input: it starts again at the PM.
SPECIFICATION Spec
CONSTANTS
    Limits <- OneRetryEach
    OnLimitExceeded = "fail"
    BlockPrd = TRUE
    BlockDesign = TRUE
    PrdHitlRequired = FALSE
    DesignHitlRequired = FALSE
    MaxSessions = 2
    AllowForceNew = FALSE
    ReenterValues = {"auto"}
    InvokeRestarts = TRUE
INVARIANT
    PmWorksBeforeDesign
CHECK_DEADLOCK FALSE
