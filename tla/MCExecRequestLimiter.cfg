SPECIFICATION FairSpec
CONSTANTS
    Tasks = {t1, t2, t3, t4, t5}
    MaxInFlight = 2
    MaxQueued = 2
INVARIANTS TypeOK CountersExact NoLostWakeup
PROPERTIES ImplementsAdmission FreeSlotIsTaken
