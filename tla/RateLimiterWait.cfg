SPECIFICATION Spec
CONSTANTS
    Clients = {c1, c2}
    Keys = {k1}
    NoKey = NoKey
    Callable = {k1, NoKey}
    Enabled = TRUE
    MetricsOn = TRUE
    Burst = 1
    Rate = 5
    Token = 10
    Slack = 1
    NumBuckets <- MCNumBuckets
    MaxTime = 1
INVARIANT WaitsForToken
