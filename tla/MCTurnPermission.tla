-------------------------- MODULE MCTurnPermission --------------------------
(* A small instance of TurnPermission: two chats beside the TUI.           *)
EXTENDS TurnPermission, TLC

CONSTANTS c1, c2

MCChats    == {c1, c2}
MCSymmetry == Permutations(MCChats)
\* The call that each mode answers differently; harmless calls ask nobody.
MCCalls    == {"danger"}
=============================================================================
