\* The control plane and one more host, an agent, two deployments, two cells.
CONSTANTS
    h0 = h0  h1 = h1  a1 = a1  t1 = t1  d1 = d1  d2 = d2
    c1 = c1  c2 = c2  r1 = r1  r2 = r2  None = None
    Hosts = {h0, h1}
    Self = h0
    Agents = {a1}
    Tokens = {t1}
    Deployments = {d1, d2}
    Cells = {c1, c2}
    Requests = {r1, r2}
    MaxOps = 2
    MaxEvents = 2
    MaxWork = 3
SPECIFICATION FairSpec
CHECK_DEADLOCK FALSE
INVARIANTS RemovalIsClean AttachedAgree ReportIsTrue
PROPERTIES GoneIsSeen
