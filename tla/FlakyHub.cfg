CONSTANTS
    b0 = b0  b1 = b1  b2 = b2
    Body           = {b0, b1, b2}
    Blank          = b0
    None           = None
    Corrupt        = Corrupt
    RenameReplaces = TRUE
    Fault          = {"stop", "read", "power"}
    MaxGen         = 4
SPECIFICATION Spec
CHECK_DEADLOCK FALSE
SYMMETRY BodySymmetry
INVARIANTS
    TypeOK
    AtMostOneBehind
    RenamesLand
