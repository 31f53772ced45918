\* Two jobs that queue for one device; a process that may restart with a fence.
SPECIFICATION Spec
CONSTANTS
    Jobs = {j1, j2}
    Devices = {1}
    Processes = {p1}
    Foreign = {}
    Unidentified = unidentified
    None = none
    CreateTimeout = 1
    AcceptTimeout = 1
    AcceptReconTimeout = 1
    ReconTimeout = 1
    MaxNow = 2
SYMMETRY JobSymmetry
INVARIANTS
    OneActivePerDevice
    NoOvertaking
    JobFenceSound
PROPERTIES
    TerminalIsFinal
    ChangesAreRevised
    ImplementsLedger
