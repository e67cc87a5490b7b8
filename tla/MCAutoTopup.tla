---------------------------- MODULE MCAutoTopup ----------------------------
(* Small instances of AutoTopup: two passes, one unit of money a top-up.   *)
EXTENDS AutoTopup

CONSTANTS p1, p2
Two == {p1, p2}
=============================================================================
