\* A local deployment and a remote or adopted one, one custom domain.
CONSTANTS
    d1 = d1  d2 = d2  n1 = n1  r1 = r1  r2 = r2
    Deps = {d1, d2}
    Names = {n1}
    Kinds <- MCKinds
    Requests = {r1}
    TTL = 2
    MaxChanges = 3
    MaxReqs = 2
SPECIFICATION Spec
CHECK_DEADLOCK FALSE
INVARIANTS StaleAtMostTTL InvalidationHolds NoReplicaPassedOver
