--------------------------- MODULE MCBrainHistory ---------------------------
(* Small instances of BrainHistory: a fold keeps one turn of three.        *)
EXTENDS BrainHistory
=============================================================================
