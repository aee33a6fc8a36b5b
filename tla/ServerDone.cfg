SPECIFICATION Spec
CONSTANTS
    Runner = runner
    Callers = {c1, c2}
    Hooks = {h1}
    MaxRequests = 1
INVARIANT DoneMeansDone
