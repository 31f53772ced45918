\* Two networks, a drop, a retry, a second identity lookup and two messages
\* waiting for the looper.
SPECIFICATION FairConnectionSpec
CONSTANTS
    MaxNetworks = 2
    MaxDrops = 1
    MaxRetries = 1
    MaxLookups = 1
    MaxQueue = 2
INVARIANTS
    OneAttempt
    NetworkIsFollowed
    IdentityIsSent
PROPERTIES
    WindowEnds
\* When the events are used up the model may stop.
CHECK_DEADLOCK FALSE
