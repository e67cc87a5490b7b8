\* Two chats beside the TUI: their turns overlap and swap prompters.
SPECIFICATION Spec
CONSTANTS
    c1 = c1
    c2 = c2
    Tui = "tui"
    Relay = "relay"
    Chats <- MCChats
    Calls <- MCCalls
    MaxPosts = 2
    MaxAsks = 2
    MaxEdits = 1
SYMMETRY MCSymmetry
INVARIANTS WaitsForPending RunsWithConsent ModeKept
CHECK_DEADLOCK FALSE
