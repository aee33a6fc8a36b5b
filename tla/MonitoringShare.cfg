SPECIFICATION Spec
CONSTANTS
    None = None
    c1 = c1  p1 = p1  p2 = p2
    full = full
    security = security
    Clusters = {c1}
    Callers = {p1, p2}
    Kinds = {full, security}
    Requests <- MCRequests
    Configs <- MCConfigs
    Pool <- MCPool
INVARIANT
    AnswersItsRequest
