SPECIFICATION Spec
CONSTANTS
    BufferLimit = 2
    MaxSeq = 5
    MaxDrops = 3
    MaxRestarts = 1
INVARIANTS InOrder MissesOnlyBeyondRing
CHECK_DEADLOCK FALSE
