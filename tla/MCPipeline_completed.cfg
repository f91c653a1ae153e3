\* --reenter takes up a completed task.
SPECIFICATION Spec
CONSTANTS
    Limits <- OneRetryEach
    OnLimitExceeded = "fail"
    BlockPrd = TRUE
    BlockDesign = TRUE
    PrdHitlRequired = FALSE
    DesignHitlRequired = FALSE
    MaxSessions = 2
    AllowForceNew = FALSE
    ReenterValues = {"auto", "qa"}
    InvokeRestarts = FALSE
PROPERTY
    CompletedIsFinal
CHECK_DEADLOCK FALSE
