---------------------------- MODULE MCMemorySync ----------------------------
(* Small instances of MemorySync: the profile slot and one of the slots    *)
(* encrypted with the agent's key.                                         *)
EXTENDS MemorySync

CONSTANTS pack, profile

MCSlots == {pack, profile}
MCOrder == <<pack, profile>>
=============================================================================
