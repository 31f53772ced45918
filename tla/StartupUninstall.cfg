\* Two uninstalls race their callbacks, timeouts and a change.
SPECIFICATION FairStartupSpec
CONSTANTS
    Apps = {a1}
    NoApp = NoApp
    MaxChanges = 1
    MaxUninstalls = 2
    MaxReconnects = 1
INVARIANTS
    OneResult
PROPERTIES
    OwnerReleases
    EveryUninstallAnswered
CHECK_DEADLOCK FALSE
