SPECIFICATION Spec
CONSTANTS
    c1 = c1
    c2 = c2
    MpuParts = {1, 2}
    Tries <- ThreeUploads
    Completers = {c1, c2}
    MaxGenerations = 1
    Bodies <- PiecedBodies
    MaxPieces = 5
    MaxSection = 5
    ObjectHistory <- OneReplacement
    OddSized = {"b"}
    Storers = {"s1"}
    Sweepers = {"w1"}
SYMMETRY CompleterSymmetry
INVARIANTS
    
    DecodedAsWhole
    RecoveredOfMetaVersion
 
CHECK_DEADLOCK FALSE
