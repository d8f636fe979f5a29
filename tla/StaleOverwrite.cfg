CONSTANTS
    c1 = c1  c2 = c2  c3 = c3  hub = hub
    n1 = n1  n2 = n2  n3 = n3  s1 = s1  s2 = s2
    e1 = e1  e2 = e2  e3 = e3
    Client    = {c1,c2}
    Hub       = hub
    Path      = {n1,s1}
    Note      = {n1}
    Author    = {c1}
    Edit      = {e1,e2}
    None      = None
    Sidecar   <- MCSidecar
    LocalFS   = {c1,c2}
    Rank      <- MCRank
    Env       = {}
    MaxGen    = 4
    MassFloor = 10
SPECIFICATION Spec
CHECK_DEADLOCK FALSE
PROPERTIES
    NoSilentOverwrite
