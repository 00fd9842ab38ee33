\* Two backups, a restore and an upgrade of one deployment.
CONSTANTS
    w1 = w1  w2 = w2  r1 = r1  r2 = r2  NoJob = NoJob
    Workers = {w1, w2}
    Requests = {r1}
    MaxBackups = 2
    MaxRestores = 1
    MaxUpgrades = 1
    MaxAttempts = 2
    MaxStarts = 2
    MaxFaults = 1
    Ports = {1, 2, 3}
    LivePorts = {}
    HeldPorts = {}
    Retentions = {1}
    MaxRetries = 2
SYMMETRY Symm
SPECIFICATION UpSpec
CHECK_DEADLOCK FALSE
INVARIANTS CompleteHasArchive ServesThroughout
PROPERTIES PruneKeepsRetention
