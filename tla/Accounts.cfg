\* Two accounts, two requests at a time, seconds of two ticks.
CONSTANTS
    u1 = u1  u2 = u2  k1 = k1  k2 = k2  k3 = k3  r1 = r1  r2 = r2
    None = None
    Emails = {u1, u2}
    Links = {k1, k2, k3}
    Requests = {r1, r2}
    MaxActive = 1
    LinkTTL = 3
    Second = 2
    MaxTime = 3
    MaxStarts = 6
SYMMETRY Symm
SPECIFICATION Spec
CHECK_DEADLOCK FALSE
INVARIANTS OneInstanceAdmin SessionsFollowPassword
PROPERTIES LinksEnd
