CONSTANTS
    d1 = d1  d2 = d2  d3 = d3  w1 = w1  w2 = w2  q1 = q1  q2 = q2
    None = None
    Deployments = {d1}
    HADeployments = {}
    Unloadable = {}
    Workers = {w1, w2}
    Requests = {q1, q2}
    MaxAttempts = 2
SPECIFICATION Spec
SYMMETRY Symmetry
INVARIANTS TypeOK OneBuilder DoneMeansDecided
PROPERTIES DeletedIsFinal
