SPECIFICATION FairSpec
CONSTANTS
    Nil = Nil
    QuickAttempts = 2
    Clusters <- MCClusters
    Reasons <- MCReasons
INVARIANTS
    TypeOK
    EventAlertsSound
    CollectedCriticalAlerted
PROPERTIES
    ClosesOrRetriesForever
    CancelEnds
