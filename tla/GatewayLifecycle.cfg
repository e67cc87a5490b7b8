SPECIFICATION LiveSpec
CONSTANTS
    p1 = p1
    p2 = p2
    none = none
    persona = persona
    user = user
    NoReq <- none
    Slots <- MCSlots
    Profile <- user
    Reqs <- MCTwo
    MaxTurns = 2
    MaxWrites = 2
    MaxFails = 1
INVARIANTS LockReleased
PROPERTIES SyncCovers ImplementsSession TurnFlushed
CHECK_DEADLOCK FALSE
