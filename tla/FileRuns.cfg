CONSTANTS
    a = a  d = d  dot = dot  b1 = b1  b2 = b2
    Path      <- MCPath
    Body      = {b1, b2}
    Size      <- MCSize
    Torn      = Torn
    None      = None
    Deep      = Deep
    Private   = dot
    Jobs      <- MCJobs
    Window    = 2
    Stamp     <- MCStamp
    Env       = {"stop", "cut", "midrun", "gone"}
    MaxTime   = 4
    MaxWrites = 2
SPECIFICATION Spec
CHECK_DEADLOCK FALSE
SYMMETRY BodySymmetry
INVARIANTS
    TypeOK
    RunMeansCopied
    ConfirmedStays
PROPERTIES
    PrunedIsOnRemote
    KeepLatestHolds
    PrivateStaysOut
