SPECIFICATION Spec
CONSTANTS
    pack = pack
    profile = profile
    Slots <- MCSlots
    Profile = profile
    SlotOrder <- MCOrder
    MaxVersion = 2
    MaxWaiting = 1
    MaxFailed = 1
    MaxCrashes = 0
INVARIANT SidecarOnlyAnchored
CHECK_DEADLOCK FALSE
