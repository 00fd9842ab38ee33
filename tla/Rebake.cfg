\* One deployment, single or HA; two requests at a time.
CONSTANTS
    k1 = k1  k2 = k2  r1 = r1  r2 = r2  d1 = d1
    Domains = {d1}
    Keys = {k1, k2}
    Limits = {0, 1}
    Requests = {r1, r2}
    MaxSecret = 3
    MaxEnv = 2
    MaxStarts = 5
SYMMETRY Symm
SPECIFICATION Spec
CHECK_DEADLOCK FALSE
INVARIANTS ActiveKeysSigned
PROPERTIES RebakeHeals
