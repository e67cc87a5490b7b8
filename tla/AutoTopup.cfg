\* The timer's pass and one from the admin endpoint, two days, any restarts.
SPECIFICATION TopupFairSpec
CONSTANTS
    p1 = p1
    p2 = p2
    Passes <- Two
    TopUp = 1
    Reserve = 2
    LowThreshold = 1
    Notify = 2
    MaxPerDay = 1
    DayLength = 1
    InitBackoff = 1
    WalletBackoff = 1
    None = None
    Gas = 1
    MaxLate = 1
    MaxNow = 1
    MaxMoney = 3
INVARIANT CapOvershoot
PROPERTIES ReserveKept RefillOrTold
CHECK_DEADLOCK FALSE
