SPECIFICATION Spec
CONSTANTS
    Tasks <- MCTasks
    TaskIds <- MCTaskIds
    Paths <- MCPaths
    Sorted <- MCSorted
    RequiredPaths <- MCRequired
    DependsOnChoices <- MCGraphs
    Outputs <- MCOutputs
    MaxTasksPerBatch = 1
    MaxRequiredPaths = 2
    MaxFilesPerBatch = 3
    LineHint = 1
    MaxOutputLines = 3
    MaxCalls = 4
    MaxTokens = 3
    MaxAttempts = 2
    RetriesParse = TRUE
    TokenCosts = {0, 2}
    TaskBatchEnabled = TRUE
    Threshold = 5
    DefaultThreshold = 2
    Covered = {3}
    TestPaths = {"test_c"}
    MaxEntries = 3
INVARIANTS
    TypeOK
    BatchesRespectDependencies
    BatchesRunAreDelivered
    DependenciesAreDone
    PartialOnlyOnBudget
    BudgetHolds
    LedgerAgreesWithLog
PROPERTIES
    DeveloperEnds
    EveryDeveloperStepNearerTheEnd
CHECK_DEADLOCK FALSE
