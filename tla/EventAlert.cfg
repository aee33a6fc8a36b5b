SPECIFICATION Spec
CONSTANTS
    Nil = Nil
    QuickAttempts = 2
    Clusters <- MCClusters
    Reasons <- MCReasons
INVARIANT CriticalEventAlerted
