\* Two dispatch tasks of one assignment, two registrations.
SPECIFICATION FairSpec
CONSTANTS
    Tasks = {t1, t2}
    None = None
    MaxSessions = 2
INVARIANTS
    LiveWaiterRegistered
    ClaimHasTask
    CommandsBounded
PROPERTIES
    NothingStuck
\* When the registrations are used up the model may stop.
CHECK_DEADLOCK FALSE
