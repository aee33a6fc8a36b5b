SPECIFICATION Spec
CONSTANTS
    Nil = Nil
    MaxChanges = 2
    Objects <- MCObjects
    InitialClusters <- MCInitialClusters
    Requests <- MCRequests
    Metrics <- MCMetrics
    Events <- MCEvents
INVARIANT
    CrashLoopsAreTrue
