\* One job whose file, receipts and process may be lost.
SPECIFICATION FairSpec
CONSTANTS
    Ids = {j1}
    Legacy = Legacy
    Bodies = {b1, b2}
    Sockets = {s1}
    None = None
    Corrupt = Corrupt
    MaxReceipts = 1
    SavesMayFail = FALSE
    FilesMayRot = TRUE
    MaxStarts = 2
    MaxCrashes = 1
    MaxAged = 1
INVARIANTS
    RerunOnlyForgotten
PROPERTIES
    AcceptedIsSettled
