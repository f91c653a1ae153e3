SPECIFICATION Spec
CONSTANTS
    Sources <- MCSources
    Exempt <- MCExempt
    Others <- MCOthers
    TestFiles <- MCTestFiles
    Subject <- MCSubject
    LinesOf <- MCLinesOf
    MaxLines = 5
    MaxFunctions = 3
    MaxFiles = 2
    Profiles <- MCProfiles
    Designs <- MCDesigns
    Leftovers <- MCLeftovers
    Patches <- MCPatches
    Reviews <- MCReviews
    MaxRetries = 2
    MaxRevisions = 1
INVARIANTS
    TypeOK
    DeployedCodeWasTested
    FailuresAreClassified
    RetryIsInformed
    RejectionReachesDeveloper
    ContextWithinBudget
    NothingDroppedSilently
PROPERTIES
    SnapshotsKept
CHECK_DEADLOCK FALSE
