------------------------------ MODULE MCA2AInbox ------------------------------
(* Small instances of A2AInbox.  One run checks all of MCSetups: a stranger *)
(* and overlapping scans, a friend whose standing is edited around a crash, *)
(* and a friend while reads, fetches and drains fail.                      *)
EXTENDS A2AInbox

CONSTANTS ann, s1, s2, none

MCSenders == {ann}
MCScans   == {s1, s2}

MCSetups == {
    [friends |-> {}, scans |-> {s1, s2}, head |-> 3,
        drops |-> 1, fails |-> 0, edits |-> 0, crashes |-> 0],
    [friends |-> {}, scans |-> {s1}, head |-> 4,
        drops |-> 1, fails |-> 0, edits |-> 0, crashes |-> 0],
    [friends |-> {ann}, scans |-> {s1}, head |-> 2,
        drops |-> 1, fails |-> 0, edits |-> 2, crashes |-> 2],
    [friends |-> {ann}, scans |-> {s1}, head |-> 3,
        drops |-> 1, fails |-> 1, edits |-> 0, crashes |-> 0]}
=============================================================================
