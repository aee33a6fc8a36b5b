SPECIFICATION FairSpec
CONSTANTS
    Nil = Nil
    MaxAttempts = 3
    Clusters <- MCClusters
    AnalysisTypes <- MCAnalysisTypes
INVARIANTS
    TypeOK
    AlertsSound
    AlertsBounded
    CriticalNotMissed
    AlertMatchesSummary
PROPERTIES
    NothingStartsOnceCancelled
    Terminates
    KeepsContract
