\* Processes die and are continued without --reenter; no --force-new.
SPECIFICATION Spec
CONSTANTS
    Limits <- OneRetryEach
    OnLimitExceeded = "escalation_hitl"
    BlockPrd = TRUE
    BlockDesign = TRUE
    PrdHitlRequired = TRUE
    DesignHitlRequired = FALSE
    MaxSessions = 4
    AllowForceNew = FALSE
    ReenterValues = {"auto"}
    InvokeRestarts = FALSE
INVARIANTS
    ReleaseGate
    CrashLosesNothing
    FailedRunContinues
    FailedMeansLimitReached
PROPERTIES
    ImplementsReleaseProtocol
CHECK_DEADLOCK FALSE
