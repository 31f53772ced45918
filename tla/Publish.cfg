\* One job of four revisions, one page that connects twice, a restart.
SPECIFICATION FairSpec
CONSTANTS
    Jobs = {j1}
    Consoles = {c1}
    MaxRevision = 4
    MaxSockets = 2
    MaxRestarts = 1
INVARIANTS
    
    WorkerAwake

    
    
\* Every commit and connection is bounded, so the run ends.
CHECK_DEADLOCK FALSE
