CONSTANTS
    c1 = c1  c2 = c2  c3 = c3  hub = hub
    n1 = n1  n2 = n2  n3 = n3  s1 = s1  s2 = s2
    e1 = e1  e2 = e2  e3 = e3
    Client    = {c1}
    Hub       = hub
    Path      = {n1,s1}
    Note      = {n1}
    Author    = {c1,hub}
    Edit      = {e1,e2}
    None      = None
    Sidecar   <- MCSidecar
    LocalFS   = {c1}
    Rank      <- MCRank
    Env       = {"torn", "midrun"}
    MaxGen    = 2
    MassFloor = 10
SPECIFICATION Spec
CHECK_DEADLOCK FALSE
SYMMETRY EditSymmetry
VIEW WithoutHistory
INVARIANTS
    BlobsCoverLedger
    SavedMeansConverged
    ReconcileInv
