\* Three uploads of one job, none of which need come, over two restarts.
SPECIFICATION FairUploadSpec
CONSTANTS
    Requests = {r1, r2, r3}
    NoRequest = NoRequest
    MaxRecoveries = 2
INVARIANTS
    ReadyHasArtifact
    
PROPERTIES
    OwnerMoves
    CreatedSettles
\* The job's life ends.
CHECK_DEADLOCK FALSE
