SPECIFICATION Spec
CONSTANTS
    Nil = Nil
    MaxAttempts = 3
    Clusters <- MCClusters
    AnalysisTypes <- MCAnalysisTypes
INVARIANT CancelHonoured
