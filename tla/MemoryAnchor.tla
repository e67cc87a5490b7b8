---------------------------- MODULE MemoryAnchor ----------------------------
(***************************************************************************)
(* What per-turn memory anchoring promises, with no mechanism: the agent   *)
(* writes ever newer content into its memory slots, and the iNFT holds,    *)
(* per slot, some content that was really written.  The anchor may lag     *)
(* and may skip versions, but it never moves back to older content, and    *)
(* several slots may move in one step because they ride on one batched     *)
(* transaction.  MemorySync is shown to implement this module.             *)
(***************************************************************************)
EXTENDS Naturals

CONSTANT Slots          \* the iNFT slots the memory sync owns

VARIABLES
    written,            \* [Slots -> Nat], newest content on the local disk
    anchored            \* [Slots -> Nat], content the iNFT slot points at

Init == /\ written = [s \in Slots |-> 0]
        /\ anchored = [s \in Slots |-> 0]

Write(s) == /\ written' = [written EXCEPT ![s] = @ + 1]
            /\ UNCHANGED anchored

\* Any set of slots may catch up, wholly or partly, in one transaction.
Anchor == /\ UNCHANGED written
          /\ anchored' \in [Slots -> Nat]
          /\ \A s \in Slots : anchored[s] <= anchored'[s] /\ anchored'[s] <= written[s]

Next == Anchor \/ \E s \in Slots : Write(s)

Spec == Init /\ [][Next]_<<written, anchored>>
=============================================================================
