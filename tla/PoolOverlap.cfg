\* Two overlapping installs, three dispatches, compete for two slots.
SPECIFICATION FairPoolSpec
CONSTANTS
    d1 = d1
    d2 = d2
    Dispatches <- Overlapping
    NoDispatch = NoDispatch
    Slots = 2
INVARIANTS
    SlotsConserved
    FinalCounts
PROPERTIES
    NoResurrection
    JobsFinish
\* The devices may connect and disconnect for ever, so there is no deadlock.
