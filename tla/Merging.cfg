CONSTANTS
    x = x  y = y  z = z  w = w  wOpen = wOpen
    Closed = {w, x, y}
    Open   = {wOpen}
    Ended  <- MCEnded
    Marker <- MCMarker
    MaxBase = 2
    MaxSide = 3
SPECIFICATION FairSpec
CHECK_DEADLOCK FALSE
INVARIANTS
    TypeOK
    NothingSkipped
    MergedIsText
    AddedLinesSurvive
    MergesLikeSets
    ConflictsAreDivergent
PROPERTIES
    MergeEnds
