------------------------------- MODULE Mutex --------------------------------
(***************************************************************************)
(* What a lock file promises: one holder at a time, until the conditions   *)
(* it relies on are broken, and nothing from then on.  ScopedLock          *)
(* implements it.                                                          *)
(***************************************************************************)
CONSTANT Procs

VARIABLES
    holders,        \* the processes that hold the lock
    void            \* whether the promise has lapsed

vars == <<holders, void>>

Init == holders = {} /\ void = FALSE

Enter(p) == /\ p \notin holders /\ (holders = {} \/ void)
            /\ holders' = holders \cup {p} /\ void' = void

Leave(p) == /\ p \in holders
            /\ holders' = holders \ {p} /\ void' \in {void, TRUE}

\* One may enter as the promise lapses, next to whom it finds.
Lapse == void' = TRUE /\ (holders' = holders \/ \E p \in Procs : holders' = holders \cup {p})

Next == Lapse \/ \E p \in Procs : Enter(p) \/ Leave(p)

Spec == Init /\ [][Next]_vars
=============================================================================
