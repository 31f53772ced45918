\* The teardown of a connection being verified, and its successor.
SPECIFICATION Spec
CONSTANTS
    Sockets = {s1, s2, s3}
    NoSocket = NoSocket
    MaxAnnounced = 1
    MaxRestarts = 0
SYMMETRY Symmetry
INVARIANT NewestOwns
CHECK_DEADLOCK FALSE
