\* One name, two requests at a time, a rebuild in the background.
CONSTANTS
    d1 = d1  n1 = n1  c1 = c1  x1 = x1  x2 = x2  g1 = g1
    Deps = {d1}
    Names = {n1}
    Creds = {c1}
    ProjectCreds = {c1}
    Callers = {x1, x2}
    Rebakers = {g1}
    MaxOps = 3
    MaxAge = 0
    MaxEdits = 1
    MaxFaults = 1
    MaxWork = 3
SPECIFICATION DomainsFairSpec
CHECK_DEADLOCK FALSE
INVARIANTS VerdictsFitTheRow RiseIsBaked
PROPERTIES ActivatesWhenVisible
