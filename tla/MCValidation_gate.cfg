SPECIFICATION Spec
CONSTANTS
    Within <- MCWithin
    CriterionIds <- MCCriterionIds
    ScopeKeywords <- MCScopeKeywords
    EscapingPaths <- MCEscapingPaths
    ManifestPaths <- MCManifestPaths
    BadDomains <- MCBadDomains
    HitlFlags <- MCHitlFlags
    TaskIds <- MCTaskIds
    TaskPaths <- MCTaskPaths
    Refs <- MCRefs
    RawPrds <- MCRawPrds
    Answers <- MCAnswers
    Policies <- MCPolicies
    MaxRevisions = 1
    MaxCrashes = 1
INVARIANTS
    TypeOK
    PassedDesignIsPlanned
    RejectionsAreExplained
    LenientNeverStricter
    RenderedDesignAgrees
    PassedPrdIsDesignable
    EnrichmentRepairs
    EnrichmentBreaksOnlyOrder
    FlaggedDesignIsReviewed
PROPERTIES
    MarkdownNeverDecides
CHECK_DEADLOCK FALSE
