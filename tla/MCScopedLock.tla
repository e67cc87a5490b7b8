---------------------------- MODULE MCScopedLock ----------------------------
(* Small instances of ScopedLock.                                          *)
EXTENDS ScopedLock

CONSTANTS a, b, c

Two   == {a, b}
=============================================================================
