\* Two connections of one device, two announcements, one restart.
SPECIFICATION FairSpec
CONSTANTS
    Sockets = {s1, s2}
    NoSocket = NoSocket
    MaxAnnounced = 2
    MaxRestarts = 1
INVARIANTS
    ConnectedIsListed
    UpdateIsWatched
PROPERTIES
    PendingSettles
\* Every socket is used once: when all are closed the model may stop.
CHECK_DEADLOCK FALSE
