\* Three turns are on disk, three more come: the first may fold, the third may
\* fold the summary.
SPECIFICATION HistorySpec
CONSTANTS
    MaxTurn = 6
    Earlier = 3
    KeepRecent = 1
    MaxOverlap = 2
    MaxRestarts = 1
    MaxResets = 1
    MaxFaults = 1
INVARIANTS MemoryIsDisk EveryTurnKept ResetSticks RememberedOnce
CHECK_DEADLOCK FALSE
