CONSTANTS
    d1 = d1  d2 = d2  w1 = w1  q1 = q1  q2 = q2
    None = None
    Deployments = {d1}
    HADeployments = {d1}
    Unloadable = {}
    RemoteDeployments = {}
    Workers = {w1}
    Requests = {q1}
    MaxAttempts = 1
    AutoRestart = TRUE
    SweepFaults = TRUE
SPECIFICATION ServingFairSpec
PROPERTIES DownIsReal FailedUntilOperator DownReplicaIsSeen
