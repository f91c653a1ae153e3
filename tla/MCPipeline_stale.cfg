\* A name marked stale stays so after the file is written again.
SPECIFICATION Spec
CONSTANTS
    Limits <- NoDesignRetry
    OnLimitExceeded = "fail"
    BlockPrd = TRUE
    BlockDesign = TRUE
    PrdHitlRequired = FALSE
    DesignHitlRequired = FALSE
    MaxSessions = 1
    AllowForceNew = FALSE
    ReenterValues = {"auto"}
    InvokeRestarts = FALSE
INVARIANT
    DesignFailureReenters
CHECK_DEADLOCK FALSE
