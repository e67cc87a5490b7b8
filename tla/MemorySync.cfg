SPECIFICATION FairSpec
CONSTANTS
    pack = pack
    profile = profile
    Slots <- MCSlots
    Profile = profile
    SlotOrder <- MCOrder
    MaxVersion = 2
    MaxWaiting = 2
    MaxFailed = 1
    MaxCrashes = 1
INVARIANT CacheExplained
PROPERTIES ImplementsAnchor EveryFlushRuns
CHECK_DEADLOCK FALSE
