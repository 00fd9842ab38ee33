\* Two accounts, two teams, two requests at a time.
CONSTANTS
    u1 = u1  u2 = u2  t1 = t1  t2 = t2  p1 = p1  p2 = p2  d1 = d1
    r1 = r1  r2 = r2  None = None
    Users = {u1, u2}
    Teams = {t1, t2}
    Projects = {p1}
    Deployments = {d1}
    Requests = {r1, r2}
    MaxStarts = 3
    MaxTokens = 1
    Founder = u1  Home = t1  App = p1
SPECIFICATION FairSpec
CHECK_DEADLOCK FALSE
INVARIANTS InviteOnce
PROPERTIES TornDownBeforeErased RequestsEnd
