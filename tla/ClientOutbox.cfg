SPECIFICATION Spec
CONSTANTS
    Ids = {j1, j2}
    Legacy = Legacy
    Bodies = {b1}
    Sockets = {s1}
    None = None
    Corrupt = Corrupt
    MaxReceipts = 2
    SavesMayFail = TRUE
    FilesMayRot = FALSE
    MaxStarts = 1
    MaxCrashes = 1
    MaxAged = 0
SYMMETRY Symmetry
INVARIANTS
    SingleExecution
    UnsettledIsKept

    
    
