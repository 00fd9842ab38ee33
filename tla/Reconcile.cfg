CONSTANTS
    d1 = d1  d2 = d2  w1 = w1  w2 = w2  Reaper = Reaper  None = None
    Deployments = {d1}
    Workers = {w1}
    MaxRuns = 1
    MaxAttempts = 2
    MaxEvents = 3
SPECIFICATION FairSpec
\* every run closed and nothing more to do: the instance may stop
CHECK_DEADLOCK FALSE
INVARIANTS FinalMeansSettled
PROPERTIES RunsFinish CreatesFinish DeletedIsFinal
