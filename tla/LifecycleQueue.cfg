CONSTANTS
    d1 = d1  d2 = d2  w1 = w1  q1 = q1  q2 = q2
    None = None
    Deployments = {d1, d2}
    HADeployments = {d2}
    Unloadable = {d2}
    RemoteDeployments = {d1}
    Workers = {w1}
    Requests = {}
    MaxAttempts = 2
    AutoRestart = TRUE
    SweepFaults = TRUE
SPECIFICATION LifeFairSpec
PROPERTIES DownIsReal JobsSettle LeaseSpec
