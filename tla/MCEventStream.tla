--------------------------- MODULE MCEventStream ---------------------------
(* Small instances of EventStream: a ring of two events.                   *)
EXTENDS EventStream
=============================================================================
