\* An operator who also names reentry nodes and forces new runs.
SPECIFICATION Spec
CONSTANTS
    Limits <- OneRetryEach
    OnLimitExceeded = "fail"
    BlockPrd = TRUE
    BlockDesign = TRUE
    PrdHitlRequired = FALSE
    DesignHitlRequired = FALSE
    MaxSessions = 3
    AllowForceNew = TRUE
    ReenterValues = {"auto", "prd_validate", "design_validate", "qa", "architect", "developer"}
    InvokeRestarts = TRUE
INVARIANTS
    TypeOK
    LoopsBounded
    ReleaseGate
PROPERTIES
    EveryStepNearerTheEnd
    SessionEnds
CHECK_DEADLOCK FALSE
