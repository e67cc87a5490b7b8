--------------------------- MODULE MCMemoryRestore ---------------------------
(* Small instances of MemoryRestore.  One run checks all of MCSetups: the  *)
(* agent's own slots without trouble, a pack next to the operator's        *)
(* profile, and the identity when downloads and the chain fail.            *)
EXTENDS MemoryRestore

MCSetups == {
    [slots |-> {"memory-index", "identity", "activity-log"},
        facts |-> 1, failed |-> 0, blips |-> 0, crashes |-> 2],
    [slots |-> {"memory-index", "profile"},
        facts |-> 2, failed |-> 0, blips |-> 0, crashes |-> 1],
    [slots |-> {"memory-index", "identity"},
        facts |-> 0, failed |-> 2, blips |-> 1, crashes |-> 1]}

=============================================================================
