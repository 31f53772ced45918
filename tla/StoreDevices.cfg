\* One job of two devices and a client process that reports what it has seen.
SPECIFICATION Spec
CONSTANTS
    Jobs = {j1}
    Devices = {1, 2}
    Processes = {p1}
    Foreign = {}
    Unidentified = unidentified
    None = none
    CreateTimeout = 1
    AcceptTimeout = 1
    AcceptReconTimeout = 1
    ReconTimeout = 1
    MaxNow = 2
INVARIANTS
    JobStateMatchesRows
PROPERTIES
    StartedNeverRequeued
