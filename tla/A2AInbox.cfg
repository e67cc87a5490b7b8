SPECIFICATION InboxFairSpec
CONSTANTS
    ann = ann
    s1 = s1
    s2 = s2
    none = none
    NoMsg <- none
    Senders <- MCSenders
    Scans <- MCScans
    Safety = 1
    Chunk = 2
    MaxHead = 4
    Setups <- MCSetups
INVARIANTS DeliveredOnce NothingLost
PROPERTIES WakesOnlyContacts QueueDrains EveryMessageRecorded
CHECK_DEADLOCK FALSE
