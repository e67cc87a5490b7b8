\* Two processes that hand the token over, two lives between them, two messages.
SPECIFICATION Spec
CONSTANTS
    g1 = g1
    g2 = g2
    a = a
    b = b
    None = None
    Gates <- TwoGates
    Chats <- OneChat
    ChatOf <- TwoSent
    MaxRetries = 2
    TTL = 1
    MaxLives = 2
INVARIANTS OnePoller LeavesClean InOrder
PROPERTY KeptUntilTurned
CHECK_DEADLOCK FALSE
