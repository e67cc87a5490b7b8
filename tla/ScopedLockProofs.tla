-------------------------- MODULE ScopedLockProofs --------------------------
(***************************************************************************)
(* Types and HolderNamed of ScopedLock, that it implements Mutex, and who  *)
(* is refused, for any number of processes, any reuse of pids and any TTL. *)
(***************************************************************************)
EXTENDS ScopedLock, FiniteSetTheorems, TLAPS

Steps == {"new", "opening", "judging", "unlinking", "writing", "holding", "refused",
          "reopening", "rewriting", "releasing", "clearing", "gone"}

\* While the path names no file, some inode is held open by nobody.
LEMMA FreshFacts ==
    ASSUME fd \in [Procs -> Inodes \cup {0}], path = 0
    PROVE  Fresh \in Inodes /\ Fresh # 0
<1>. DEFINE open == {fd[p] : p \in Procs}
            n == Cardinality(Procs)
<1>1. IsFiniteSet(open) /\ Cardinality(open) <= n
    <2>1. fd \in Surjection(Procs, open)
        BY DEF Surjection
    <2>. QED
        BY <2>1, LockAssumption, FS_Surjection
<1>2. n \in Nat /\ Cardinality(open) \in Nat
    BY <1>1, LockAssumption, FS_CardinalityType
<1>3. IsFiniteSet(Inodes) /\ Cardinality(Inodes) = n + 1
    <2>1. 1 \in Int /\ n + 1 \in Int /\ ~(1 > n + 1) /\ (n + 1) - 1 + 1 = n + 1
        BY <1>2
    <2>2. IsFiniteSet(1..(n + 1)) /\ Cardinality(1..(n + 1)) = n + 1
        BY <2>1, FS_Interval
    <2>. QED
        BY <2>2 DEF Inodes
<1>4. ~ Inodes \subseteq open
    BY <1>1, <1>2, <1>3, FS_Subset
<1>5. \E i \in Inodes : i # path /\ \A p \in Procs : fd[p] # i
    BY <1>2, <1>4 DEF Inodes
<1>. QED
    BY <1>2, <1>5 DEF Fresh, Inodes
-----------------------------------------------------------------------------
(* Types.                                                                  *)

Flags == overlap \in BOOLEAN /\ late \in BOOLEAN

\* The third attempt of an acquisition is its last.
Values ==
    /\ pc \in [Procs -> Steps] /\ loop \in [Procs -> 0..3]
    /\ path \in Inodes \cup {0} /\ fd \in [Procs -> Inodes \cup {0}]
    /\ pid \in [Inodes -> Procs \cup {NoPid}] /\ age \in [Inodes -> 0..(TTL + 1)]
    /\ \A p \in Procs : pc[p] \in {"writing", "rewriting"} <=> fd[p] # 0
    /\ \A p \in Procs : pc[p] \in {"opening", "judging", "unlinking"} => loop[p] <= 2

LEMMA Constants ==
    /\ TTL \in Nat /\ NoPid \notin Procs
    /\ 0 \in 0..(TTL + 1) /\ 0 \notin Inodes
BY LockAssumption DEF Inodes

LEMMA FlagsStep == Flags /\ [Next]_vars => Flags'
<1> SUFFICES ASSUME Flags, [Next]_vars PROVE Flags'
    OBVIOUS
<1> USE DEF Flags
<1>1. CASE Tick
    <2>1. overlap' = overlap
        BY <1>1 DEF Tick
    <2>2. late' = (late \/ (path # 0 /\ pid[path] # NoPid /\ Holds(pid[path]) /\ age[path] >= TTL))
        BY <1>1 DEF Tick
    <2>. QED
        BY <2>1, <2>2, Zenon
<1>2. ASSUME NEW p \in Procs, NEW there, Goto(p, there) PROVE Flags'
    BY <1>2, Zenon DEF Goto
<1>3. ASSUME NEW p \in Procs,
             \/ Acquire(p) \/ Call(p) \/ Crash(p) \/ RefreshRead(p) \/ ReleaseRead(p) \/ ClearRead(p)
      PROVE  \E there : Goto(p, there)
    BY <1>3, Zenon DEF Acquire, Call, Crash, RefreshRead, ReleaseRead, ClearRead, Open, Judge, Unlink,
       Write, Put, RefreshOpen, RefreshWrite, ReleaseUnlink, ClearUnlink
<1>4. CASE UNCHANGED vars
    BY <1>4 DEF vars
<1>. QED
    BY <1>1, <1>2, <1>3, <1>4, Zenon DEF Next

\* Steps that leave the files as they are.
LEMMA GotoTypes ==
    ASSUME Values, NEW p \in Procs, NEW there \in Steps \ {"writing", "rewriting"}, Goto(p, there),
           pc[p] \notin {"writing", "rewriting"},
           there \in {"opening", "judging", "unlinking"} => loop'[p] <= 2,
           loop' \in [Procs -> 0..3], \A q \in Procs \ {p} : loop'[q] = loop[q],
           path' \in Inodes \cup {0}, UNCHANGED <<fd, pid, age>>
    PROVE  Values'
<1>1. pc' \in [Procs -> Steps] /\ pc'[p] = there /\ \A q \in Procs \ {p} : pc'[q] = pc[q]
    BY DEF Goto, Values
<1>2. \A q \in Procs : pc'[q] \in {"writing", "rewriting"} <=> fd'[q] # 0
    BY <1>1 DEF Values
<1>3. \A q \in Procs : pc'[q] \in {"opening", "judging", "unlinking"} => loop'[q] <= 2
    BY <1>1 DEF Values
<1>. QED
    BY <1>1, <1>2, <1>3 DEF Values

\* A file is opened to be written.
LEMMA OpenTypes ==
    ASSUME Values, NEW p \in Procs, NEW i \in Inodes, NEW there \in {"writing", "rewriting"},
           Goto(p, there), path' = i, fd' = [fd EXCEPT ![p] = i],
           pid' = [pid EXCEPT ![i] = NoPid], age' = age \/ age' = [age EXCEPT ![i] = 0],
           loop' = loop
    PROVE  Values'
<1>1. pc' \in [Procs -> Steps] /\ pc'[p] = there /\ \A q \in Procs \ {p} : pc'[q] = pc[q]
    BY DEF Goto, Values, Steps
<1>2. fd' \in [Procs -> Inodes \cup {0}] /\ fd'[p] = i /\ \A q \in Procs \ {p} : fd'[q] = fd[q]
    BY DEF Values
<1>3. pid' \in [Inodes -> Procs \cup {NoPid}] /\ age' \in [Inodes -> 0..(TTL + 1)]
    BY Constants DEF Values
<1>4. \A q \in Procs : pc'[q] \in {"writing", "rewriting"} <=> fd'[q] # 0
    BY <1>1, <1>2, Constants DEF Values
<1>5. \A q \in Procs : pc'[q] \in {"opening", "judging", "unlinking"} => loop'[q] <= 2
    BY <1>1 DEF Values
<1>. QED
    BY <1>1, <1>2, <1>3, <1>4, <1>5 DEF Values

LEMMA CloseTypes ==
    ASSUME Values, NEW p \in Procs, NEW there \in {"holding", "gone"}, Goto(p, there),
           fd' = [fd EXCEPT ![p] = 0], pid' \in [Inodes -> Procs \cup {NoPid}],
           age' \in [Inodes -> 0..(TTL + 1)], UNCHANGED <<loop, path>>
    PROVE  Values'
<1>1. pc' \in [Procs -> Steps] /\ pc'[p] = there /\ \A q \in Procs \ {p} : pc'[q] = pc[q]
    BY DEF Goto, Values, Steps
<1>2. fd' \in [Procs -> Inodes \cup {0}] /\ fd'[p] = 0 /\ \A q \in Procs \ {p} : fd'[q] = fd[q]
    BY DEF Values
<1>3. \A q \in Procs : pc'[q] \in {"writing", "rewriting"} <=> fd'[q] # 0
    BY <1>1, <1>2 DEF Values
<1>4. \A q \in Procs : pc'[q] \in {"opening", "judging", "unlinking"} => loop'[q] <= 2
    BY <1>1 DEF Values
<1>. QED
    BY <1>1, <1>2, <1>3, <1>4 DEF Values

LEMMA ValuesStep == Values /\ [Next]_vars => Values'
<1> SUFFICES ASSUME Values, [Next]_vars PROVE Values'
    OBVIOUS
<1>0. \A p \in Procs : pc[p] \in Steps /\ loop[p] \in 0..3
    BY DEF Values
<1>1. CASE Tick
    <2>1. /\ age' = [i \in Inodes |-> IF age[i] > TTL THEN age[i] ELSE age[i] + 1]
          /\ UNCHANGED <<pc, loop, fd, path, pid>>
        BY <1>1 DEF Tick
    <2>2. age' \in [Inodes -> 0..(TTL + 1)]
        BY <2>1, Constants DEF Values
    <2>. QED
        BY <2>1, <2>2 DEF Values
<1>2. CASE UNCHANGED vars
    BY <1>2 DEF vars, Values
<1>3. ASSUME NEW p \in Procs, Acquire(p) PROVE Values'
    <2>1. Goto(p, "opening") /\ loop' = [loop EXCEPT ![p] = 0] /\ UNCHANGED <<fd, path, pid, age>>
          /\ pc[p] \notin {"writing", "rewriting"}
        BY <1>3 DEF Acquire
    <2>2. loop' \in [Procs -> 0..3] /\ loop'[p] = 0 /\ \A q \in Procs \ {p} : loop'[q] = loop[q]
        BY <2>1 DEF Values
    <2>. QED
        BY <2>1, <2>2, GotoTypes DEF Values, Steps
<1>4. ASSUME NEW p \in Procs, Open(p) PROVE Values'
    <2>1. CASE path = 0 /\ Goto(p, "writing")
        <3>1. Fresh \in Inodes
            BY <2>1, FreshFacts DEF Values
        <3>. QED
            BY <1>4, <2>1, <3>1, OpenTypes DEF Open, Values
    <2>2. CASE Goto(p, "judging") /\ UNCHANGED <<fd, path, pid, age, loop>>
        BY <1>4, <2>2, GotoTypes DEF Open, Values, Steps, At
    <2>. QED
        BY <1>4, <2>1, <2>2 DEF Open
<1>5. ASSUME NEW p \in Procs, Judge(p) PROVE Values'
    BY <1>5, <1>0, GotoTypes DEF Judge, Values, Steps, At
<1>6. ASSUME NEW p \in Procs, Unlink(p) PROVE Values'
    <2>1. loop[p] <= 2 /\ loop[p] \in 0..3
        BY <1>6 DEF Unlink, At, Values
    <2>2. loop' = [loop EXCEPT ![p] = loop[p] + 1]
        BY <1>6 DEF Unlink
    <2>3. /\ loop' \in [Procs -> 0..3] /\ loop'[p] = loop[p] + 1
          /\ \A q \in Procs \ {p} : loop'[q] = loop[q]
        BY <2>1, <2>2 DEF Values
    <2>4. CASE loop[p] < 2
        BY <1>6, <2>1, <2>3, <2>4, GotoTypes DEF Unlink, At, Steps
    <2>5. CASE ~(loop[p] < 2)
        BY <1>6, <2>3, <2>5, GotoTypes DEF Unlink, At, Steps
    <2>. QED
        BY <2>4, <2>5
<1>7. ASSUME NEW p \in Procs, Put(p) PROVE Values'
    <2>1. pid' \in [Inodes -> Procs \cup {NoPid}] /\ age' \in [Inodes -> 0..(TTL + 1)]
        BY <1>7, Constants DEF Put, Values
    <2>. QED
        BY <1>7, <2>1, CloseTypes DEF Put
<1>8. ASSUME NEW p \in Procs, RefreshRead(p) PROVE Values'
    <2>1. PICK there \in {"gone", "holding", "reopening"} : Goto(p, there)
        BY <1>8 DEF RefreshRead
    <2>. QED
        BY <1>8, <2>1, GotoTypes DEF RefreshRead, Values, Steps, At
<1>9. ASSUME NEW p \in Procs, RefreshOpen(p) PROVE Values'
    <2>1. PICK i : /\ i = IF path = 0 THEN Fresh ELSE path
                   /\ path' = i /\ fd' = [fd EXCEPT ![p] = i] /\ pid' = [pid EXCEPT ![i] = NoPid]
        BY <1>9 DEF RefreshOpen
    <2>2. i \in Inodes
        BY <2>1, FreshFacts DEF Values
    <2>. QED
        BY <1>9, <2>1, <2>2, OpenTypes DEF RefreshOpen
<1>10. ASSUME NEW p \in Procs, ReleaseRead(p) PROVE Values'
    BY <1>10, GotoTypes DEF ReleaseRead, Values, Steps, At
<1>11. ASSUME NEW p \in Procs, ReleaseUnlink(p) PROVE Values'
    BY <1>11, GotoTypes DEF ReleaseUnlink, Values, Steps, At
<1>12. ASSUME NEW p \in Procs, ClearRead(p) PROVE Values'
    BY <1>12, GotoTypes DEF ClearRead, Values, Steps, At
<1>13. ASSUME NEW p \in Procs, ClearUnlink(p) PROVE Values'
    BY <1>13, GotoTypes DEF ClearUnlink, Values, Steps, At
<1>14. ASSUME NEW p \in Procs, Crash(p) PROVE Values'
    BY <1>14, CloseTypes DEF Crash, Values
<1>. QED
    BY <1>1, <1>2, <1>3, <1>4, <1>5, <1>6, <1>7, <1>8, <1>9, <1>10, <1>11, <1>12, <1>13, <1>14
       DEF Next, Call, Write, RefreshWrite

LEMMA TypeInit == Init => Flags /\ Values
<1> SUFFICES ASSUME Init PROVE Flags /\ Values
    OBVIOUS
<1>1. Flags
    BY DEF Init, Flags
<1>2. /\ pc \in [Procs -> Steps] /\ loop \in [Procs -> 0..3] /\ fd \in [Procs -> Inodes \cup {0}]
      /\ path \in Inodes \cup {0}
    BY DEF Init, Steps
<1>3. pid \in [Inodes -> Procs \cup {NoPid}] /\ age \in [Inodes -> 0..(TTL + 1)]
    BY Constants DEF Init
<1>. QED
    BY <1>1, <1>2, <1>3 DEF Init, Values

\* Every reachable state of the lock is well typed: an inode that is opened is
\* one that nobody else has open and the path does not name.
THEOREM TypeCorrect == Spec => []TypeOK
<1>1. Flags /\ Values => TypeOK
    BY DEF Flags, Values, Steps, TypeOK
<1>. QED
    BY <1>1, TypeInit, FlagsStep, ValuesStep, PTL DEF Spec
-----------------------------------------------------------------------------
(* HolderNamed.  Where calls do not overlap and refreshes are on time at   *)
(* most one process is in a call, and what it finds at the path is as it   *)
(* found it.                                                               *)

Undisturbed == ~overlap /\ ~late

OneCall   == \A p, q \in Procs : InCall(p) /\ InCall(q) => p = q
Named     == \A p \in Procs : pc[p] \in {"holding", "reopening", "releasing"} => Names(p)
Opened    == \A p \in Procs : pc[p] \in {"writing", "rewriting"} =>
                 path # 0 /\ fd[p] = path /\ pid[path] = NoPid
Abandoned == \A p \in Procs : pc[p] \in {"unlinking", "clearing"} => \A q \in Procs : ~Holds(q)
Renewed   == path # 0 /\ pid[path] # NoPid /\ Holds(pid[path]) => age[path] <= TTL

Exclusive == Undisturbed => OneCall /\ Named /\ Opened /\ Abandoned /\ Renewed

\* What an undisturbed step of p tells: nobody else is in a call, and who else
\* holds the lock is between two calls and named at the path.
LEMMA Alone ==
    ASSUME Values, Exclusive, NEW p \in Procs, NEW there \in Steps, Goto(p, there), Undisturbed'
    PROVE  /\ Undisturbed
           /\ OneCall /\ Named /\ Opened /\ Abandoned /\ Renewed
           /\ pc' \in [Procs -> Steps] /\ pc'[p] = there
           /\ \A q \in Procs \ {p} :
                 /\ pc'[q] = pc[q] /\ pc[q] \in {"new", "refused", "holding", "gone"}
                 /\ pc[q] = "holding" => Names(q)
           /\ OneCall'
<1>1. /\ pc' = [pc EXCEPT ![p] = there]
      /\ ~overlap /\ ~late /\ \A q \in Procs \ {p} : ~InCall(q)
    BY Zenon DEF Goto, Undisturbed
<1>2. pc' \in [Procs -> Steps] /\ pc'[p] = there /\ \A q \in Procs \ {p} : pc'[q] = pc[q]
    BY <1>1 DEF Values
<1>3. OneCall /\ Named /\ Opened /\ Abandoned /\ Renewed
    BY <1>1 DEF Exclusive, Undisturbed
<1>4. \A q \in Procs \ {p} : pc[q] \in {"new", "refused", "holding", "gone"}
    BY <1>1 DEF InCall
<1>5. OneCall'
    BY <1>2, <1>4 DEF OneCall, InCall
<1>. QED
    BY <1>1, <1>2, <1>3, <1>4, <1>5 DEF Named, Undisturbed

\* Steps that leave path, records and ages as they are.
LEMMA LookStep ==
    ASSUME Values, Exclusive, NEW p \in Procs, NEW there \in Steps, Goto(p, there), Undisturbed',
           UNCHANGED <<path, pid, age>>,
           there \in {"holding", "reopening", "releasing"} => Names(p) /\ Holds(p),
           there \notin {"writing", "rewriting"},
           \A q \in Procs \ {p} : fd'[q] = fd[q],
           there \in {"unlinking", "clearing"} =>
              ~Holds(p) /\ \A q \in Procs \ {p} : pc[q] # "holding"
    PROVE  Exclusive'
<1>1. /\ Named /\ Opened /\ Renewed /\ OneCall'
      /\ pc'[p] = there
      /\ \A q \in Procs \ {p} :
            /\ pc'[q] = pc[q] /\ pc[q] \in {"new", "refused", "holding", "gone"}
            /\ pc[q] = "holding" => Names(q)
    BY Alone
<1>2. Named'
    BY <1>1 DEF Named, Names
<1>3. Opened'
    BY <1>1 DEF Opened
<1>4. Abandoned'
    BY <1>1 DEF Abandoned, Holds
<1>5. Renewed'
    <2>1. ASSUME path # 0, pid[path] # NoPid, Holds(pid[path])' PROVE Holds(pid[path])
        <3>1. pid[path] \in Procs
            BY <2>1 DEF Values
        <3>. QED
            BY <1>1, <2>1, <3>1 DEF Holds
    <2>. QED
        BY <1>1, <2>1 DEF Renewed, Holds
<1>. QED
    BY <1>1, <1>2, <1>3, <1>4, <1>5 DEF Exclusive

\* The path is emptied, by who holds the lock alone or when nobody does.
LEMMA UnlinkStep ==
    ASSUME Values, Exclusive, NEW p \in Procs, NEW there \in {"opening", "refused", "gone"},
           Goto(p, there), Undisturbed', path' = 0, UNCHANGED <<fd, pid, age>>,
           \A q \in Procs \ {p} : pc[q] # "holding"
    PROVE  Exclusive'
<1>1. /\ OneCall' /\ pc'[p] = there
      /\ \A q \in Procs \ {p} : pc'[q] = pc[q] /\ pc[q] \in {"new", "refused", "gone"}
    BY Alone DEF Steps
<1>. QED
    BY <1>1 DEF Exclusive, Named, Opened, Abandoned, Renewed, Holds

\* A file is opened to be written, empty, where nobody else is named.
LEMMA OpenStep ==
    ASSUME Values, Exclusive, NEW p \in Procs, NEW there \in {"writing", "rewriting"}, NEW i \in Inodes,
           Goto(p, there), Undisturbed', path' = i, fd' = [fd EXCEPT ![p] = i],
           pid' = [pid EXCEPT ![i] = NoPid], \A q \in Procs \ {p} : pc[q] # "holding"
    PROVE  Exclusive'
<1>1. /\ OneCall' /\ pc'[p] = there
      /\ \A q \in Procs \ {p} : pc'[q] = pc[q] /\ pc[q] \in {"new", "refused", "gone"}
    BY Alone DEF Steps
<1>2. fd'[p] = i /\ pid'[i] = NoPid /\ i # 0
    BY Constants DEF Values
<1>. QED
    BY <1>1, <1>2 DEF Exclusive, Named, Opened, Abandoned, Renewed, Holds

\* The record is written to the file at the path.
LEMMA PutStep ==
    ASSUME Values, Exclusive, NEW p \in Procs, pc[p] \in {"writing", "rewriting"}, Put(p), Undisturbed'
    PROVE  Exclusive'
<1>1. Goto(p, "holding") /\ "holding" \in Steps
    BY DEF Put, Steps
<1>2. /\ Opened /\ OneCall' /\ pc'[p] = "holding"
      /\ \A q \in Procs \ {p} :
            /\ pc'[q] = pc[q] /\ pc[q] \in {"new", "refused", "holding", "gone"}
            /\ pc[q] = "holding" => Names(q)
    BY <1>1, Alone
<1>3. path # 0 /\ fd[p] = path /\ pid[path] = NoPid /\ path \in Inodes
    BY <1>2 DEF Opened, Values
<1>4. path' = path /\ pid'[path] = p /\ age'[path] = 0
    BY <1>3 DEF Put, Values
<1>5. \A q \in Procs \ {p} : pc[q] # "holding"
    BY <1>2, <1>3, Constants DEF Names
<1>. QED
    BY <1>2, <1>3, <1>4, <1>5, Constants DEF Exclusive, Named, Names, Opened, Abandoned, Renewed

\* A record that is judged stale, or no record, is nobody's who holds the lock.
LEMMA Judgement ==
    ASSUME Values, NEW p \in Procs, NEW q \in Procs, p # q, Renewed, Unreadable \/ IsStale(p),
           pc[q] = "holding" => Names(q)
    PROVE  pc[q] # "holding"
<1> SUFFICES ASSUME pc[q] = "holding" PROVE FALSE
    OBVIOUS
<1>1. path # 0 /\ pid[path] = q /\ q # NoPid /\ Holds(q)
    BY Constants DEF Names, Holds
<1>2. age[path] <= TTL /\ age[path] \in 0..(TTL + 1)
    BY <1>1 DEF Renewed, Values
<1>3. IsStale(p)
    BY <1>1 DEF Unreadable
<1>. QED
    BY <1>1, <1>2, <1>3, Constants DEF IsStale, Stale, Answers

LEMMA ExclusiveStep == Values /\ Values' /\ Exclusive /\ [Next]_vars => Exclusive'
<1> SUFFICES ASSUME Values, Values', Exclusive, [Next]_vars, Undisturbed' PROVE Exclusive'
    BY DEF Exclusive
<1>1. CASE Tick
    <2>1. /\ late' = (late \/ (path # 0 /\ pid[path] # NoPid /\ Holds(pid[path]) /\ age[path] >= TTL))
          /\ age' = [i \in Inodes |-> IF age[i] > TTL THEN age[i] ELSE age[i] + 1]
          /\ UNCHANGED <<pc, loop, fd, path, pid, overlap>>
        BY <1>1 DEF Tick
    <2>2. Undisturbed /\ ~(path # 0 /\ pid[path] # NoPid /\ Holds(pid[path]) /\ age[path] >= TTL)
        BY <2>1, Zenon DEF Undisturbed
    <2>3. OneCall /\ Named /\ Opened /\ Abandoned
        BY <2>2 DEF Exclusive
    <2>4. OneCall' /\ Named' /\ Opened' /\ Abandoned'
        BY <2>1, <2>3 DEF OneCall, InCall, Named, Names, Opened, Abandoned, Holds
    <2>5. Renewed'
        <3>1. ASSUME path # 0, pid[path] # NoPid, Holds(pid[path]) PROVE age'[path] <= TTL
            <4>1. path \in Inodes /\ age[path] \in 0..(TTL + 1) /\ ~(age[path] >= TTL)
                BY <2>2, <3>1 DEF Values
            <4>. QED
                BY <2>1, <4>1, Constants
        <3>. QED
            BY <2>1, <3>1 DEF Renewed, Holds
    <2>. QED
        BY <2>4, <2>5 DEF Exclusive
<1>2. CASE UNCHANGED vars
    BY <1>2 DEF vars, Exclusive, Undisturbed, OneCall, InCall, Named, Names, Opened, Abandoned, Renewed, Holds
<1>3. ASSUME NEW p \in Procs, Acquire(p) PROVE Exclusive'
    BY <1>3, LookStep DEF Acquire, Steps
<1>4. ASSUME NEW p \in Procs, Open(p) PROVE Exclusive'
    <2>1. CASE path = 0 /\ Goto(p, "writing")
        <3>1. Fresh \in Inodes
            BY <2>1, FreshFacts DEF Values
        <3>2. \A q \in Procs \ {p} : pc[q] # "holding"
            BY <2>1, Alone DEF Names, Steps
        <3>. QED
            BY <1>4, <2>1, <3>1, <3>2, OpenStep DEF Open, Goto
    <2>2. CASE Goto(p, "judging") /\ UNCHANGED <<fd, path, pid, age, loop>>
        BY <2>2, LookStep DEF Steps
    <2>. QED
        BY <1>4, <2>1, <2>2 DEF Open
<1>5. ASSUME NEW p \in Procs, Judge(p) PROVE Exclusive'
    <2>1. CASE Unreadable \/ IsStale(p)
        <3>1. Goto(p, "unlinking") /\ UNCHANGED <<fd, path, pid, age>> /\ pc[p] = "judging"
            BY <1>5, <2>1 DEF Judge, At
        <3>2. \A q \in Procs \ {p} : pc[q] # "holding"
            BY <2>1, <3>1, Alone, Judgement DEF Steps
        <3>. QED
            BY <3>1, <3>2, LookStep DEF Steps, Holds
    <2>2. CASE ~(Unreadable \/ IsStale(p))
        BY <1>5, <2>2, LookStep DEF Judge, Steps
    <2>. QED
        BY <2>1, <2>2
<1>6. ASSUME NEW p \in Procs, Unlink(p) PROVE Exclusive'
    <2>1. PICK there \in {"opening", "refused"} : Goto(p, there)
        BY <1>6 DEF Unlink
    <2>2. \A q \in Procs \ {p} : pc[q] # "holding"
        BY <1>6, <2>1, Alone DEF Unlink, At, Abandoned, Holds, Steps
    <2>. QED
        BY <1>6, <2>1, <2>2, UnlinkStep DEF Unlink
<1>7. ASSUME NEW p \in Procs, Write(p) \/ RefreshWrite(p) PROVE Exclusive'
    BY <1>7, PutStep DEF Write, RefreshWrite, At
<1>8. ASSUME NEW p \in Procs, RefreshRead(p) PROVE Exclusive'
    <2>1. PICK there \in {"gone", "holding", "reopening"} : Goto(p, there)
        BY <1>8 DEF RefreshRead
    <2>2. Names(p)
        BY <1>8, <2>1, Alone DEF RefreshRead, At, Named, Steps
    <2>3. Goto(p, "reopening") /\ UNCHANGED <<fd, path, pid, age>> /\ pc[p] = "holding"
        BY <1>8, <2>2 DEF RefreshRead, At
    <2>. QED
        BY <2>2, <2>3, LookStep DEF Steps, Holds
<1>9. ASSUME NEW p \in Procs, RefreshOpen(p) PROVE Exclusive'
    <2>1. Goto(p, "rewriting") /\ pc[p] = "reopening"
        BY <1>9 DEF RefreshOpen, At
    <2>2. Names(p) /\ \A q \in Procs \ {p} : pc[q] = "holding" => Names(q)
        BY <2>1, Alone DEF Named, Steps
    <2>3. path # 0 /\ path \in Inodes /\ \A q \in Procs \ {p} : pc[q] # "holding"
        BY <2>2 DEF Names, Values
    <2>4. path' = path /\ fd' = [fd EXCEPT ![p] = path] /\ pid' = [pid EXCEPT ![path] = NoPid]
        BY <1>9, <2>3 DEF RefreshOpen
    <2>. QED
        BY <2>1, <2>3, <2>4, OpenStep
<1>10. ASSUME NEW p \in Procs, ReleaseRead(p) PROVE Exclusive'
    BY <1>10, LookStep DEF ReleaseRead, At, Steps, Holds
<1>11. ASSUME NEW p \in Procs, ReleaseUnlink(p) PROVE Exclusive'
    <2>1. Goto(p, "gone") /\ pc[p] = "releasing" /\ path' = 0 /\ UNCHANGED <<fd, pid, age>>
        BY <1>11 DEF ReleaseUnlink, At
    <2>2. Names(p) /\ \A q \in Procs \ {p} : pc[q] = "holding" => Names(q)
        BY <2>1, Alone DEF Named, Steps
    <2>. QED
        BY <2>1, <2>2, UnlinkStep DEF Names
<1>12. ASSUME NEW p \in Procs, ClearRead(p) PROVE Exclusive'
    <2>1. CASE IsStale(p)
        <3>1. Goto(p, "clearing") /\ UNCHANGED <<fd, path, pid, age>> /\ pc[p] = "new"
            BY <1>12, <2>1 DEF ClearRead, At
        <3>2. \A q \in Procs \ {p} : pc[q] # "holding"
            BY <2>1, <3>1, Alone, Judgement DEF Steps
        <3>. QED
            BY <3>1, <3>2, LookStep DEF Steps, Holds
    <2>2. CASE ~IsStale(p)
        BY <1>12, <2>2, LookStep DEF ClearRead, Steps
    <2>. QED
        BY <2>1, <2>2
<1>13. ASSUME NEW p \in Procs, ClearUnlink(p) PROVE Exclusive'
    <2>1. Goto(p, "refused") /\ pc[p] = "clearing" /\ path' = 0 /\ UNCHANGED <<fd, pid, age>>
        BY <1>13 DEF ClearUnlink, At
    <2>2. \A q \in Procs \ {p} : pc[q] # "holding"
        BY <2>1, Alone DEF Abandoned, Holds, Steps
    <2>. QED
        BY <2>1, <2>2, UnlinkStep
<1>14. ASSUME NEW p \in Procs, Crash(p) PROVE Exclusive'
    BY <1>14, LookStep DEF Crash, Values, Steps
<1>. QED
    BY <1>1, <1>2, <1>3, <1>4, <1>5, <1>6, <1>7, <1>8, <1>9, <1>10, <1>11, <1>12, <1>13, <1>14
       DEF Next, Call

LEMMA ExclusiveInit == Init => Exclusive
BY DEF Init, Exclusive, OneCall, InCall, Named, Opened, Abandoned, Renewed

\* As long as no two calls overlap and no holder is late, who holds the lock
\* finds its own record at the path.
THEOREM HolderCorrect == Spec => []HolderNamed
<1>1. Exclusive => HolderNamed
    BY DEF Exclusive, Undisturbed, Named, HolderNamed
<1>. QED
    BY <1>1, TypeInit, ValuesStep, ExclusiveInit, ExclusiveStep, PTL DEF Spec
-----------------------------------------------------------------------------
(* The lock implements Mutex: holders are the processes between the write  *)
(* of acquireScopedLock and their release, exit or crash.                  *)

Inside == {"holding", "reopening", "rewriting", "releasing"}
Holders == {p \in Procs : Holds(p)}
Void == overlap \/ late

\* A step of p enters only when none is inside, unless the promise lapses by it.
LEMMA MutexStep ==
    ASSUME Values, NEW p \in Procs, NEW there \in Steps, Goto(p, there),
           Undisturbed' /\ ~Holds(p) /\ there \in Inside => \A q \in Procs : ~Holds(q)
    PROVE  [Promise!Next]_(Promise!vars)
<1>1. pc'[p] = there /\ \A q \in Procs \ {p} : pc'[q] = pc[q]
    BY DEF Goto, Values
<1>2. Holders' = IF there \in Inside THEN Holders \cup {p} ELSE Holders \ {p}
    BY <1>1 DEF Holders, Holds, Inside
<1>3. Void' \in {Void, TRUE}
    BY Zenon DEF Goto, Void
<1>4. Void' = FALSE => Undisturbed' /\ Void = FALSE
    BY Zenon DEF Goto, Void, Undisturbed
<1>5. p \in Holders <=> Holds(p)
    BY DEF Holders
<1>6. CASE Holds(p) /\ there \notin Inside
    <2>1. Promise!Leave(p)
        BY <1>2, <1>3, <1>5, <1>6 DEF Promise!Leave, Holders, Void
    <2>. QED
        BY <2>1 DEF Promise!Next
<1>7. CASE Holds(p) <=> there \in Inside
    <2>1. Holders' = Holders
        BY <1>2, <1>5, <1>7
    <2>2. CASE Void' = Void
        BY <2>1, <2>2 DEF Promise!vars, Holders, Void
    <2>3. CASE Void' = TRUE
        <3>1. Promise!Lapse
            BY <2>1, <2>3 DEF Promise!Lapse, Holders, Void
        <3>. QED
            BY <3>1 DEF Promise!Next
    <2>. QED
        BY <1>3, <2>2, <2>3
<1>8. CASE ~Holds(p) /\ there \in Inside
    <2>1. Holders' = Holders \cup {p} /\ p \notin Holders
        BY <1>2, <1>5, <1>8
    <2>2. CASE Void' = FALSE
        <3>1. Holders = {} /\ Void' = Void
            BY <1>4, <1>8, <2>2 DEF Holders
        <3>2. Promise!Enter(p)
            BY <2>1, <3>1 DEF Promise!Enter, Holders, Void
        <3>. QED
            BY <3>2 DEF Promise!Next
    <2>3. CASE Void' = TRUE
        <3>1. Promise!Lapse
            BY <2>1, <2>3 DEF Promise!Lapse, Holders, Void
        <3>. QED
            BY <3>1 DEF Promise!Next
    <2>. QED
        BY <2>2, <2>3, Zenon DEF Void
<1>. QED
    BY <1>6, <1>7, <1>8

\* Who has created the file and is about to write its record is alone with it.
LEMMA WriterAlone ==
    ASSUME Values, Exclusive, NEW p \in Procs, Write(p), Undisturbed', NEW q \in Procs
    PROVE  ~Holds(q)
<1>1. Goto(p, "holding") /\ "holding" \in Steps /\ pc[p] = "writing"
    BY DEF Write, Put, At, Steps
<1>2. /\ Opened
      /\ \A r \in Procs \ {p} : /\ pc[r] \in {"new", "refused", "holding", "gone"}
                                /\ pc[r] = "holding" => Names(r)
    BY <1>1, Alone
<1>3. path # 0 /\ pid[path] = NoPid
    BY <1>1, <1>2 DEF Opened
<1>. QED
    BY <1>1, <1>2, <1>3, Constants DEF Holds, Names

\* No path through the retry loop, the judgement of a stale record, a refresh or
\* a release lets a process in next to another: until two calls overlap or a
\* holder misses its refreshes, the lock is held by one at a time.
THEOREM Refinement == Spec => ImplementsMutex
<1>1. Init => Promise!Init
    BY DEF Init, Promise!Init, Holds
<1>2. Values /\ Exclusive /\ [Next]_vars => [Promise!Next]_(Promise!vars)
    <2>. SUFFICES ASSUME Values, Exclusive, [Next]_vars PROVE [Promise!Next]_(Promise!vars)
        OBVIOUS
    <2>1. CASE Tick
        <3>1. pc' = pc /\ overlap' = overlap /\ (late => late')
            BY <2>1, Zenon DEF Tick
        <3>2. Holders' = Holders
            BY <3>1 DEF Holders, Holds
        <3>3. Void' \in {Void, TRUE}
            BY <2>1, Zenon DEF Void, Tick
        <3>4. CASE Void' = Void
            BY <3>2, <3>4 DEF Promise!vars, Holders, Void
        <3>5. CASE Void' = TRUE
            <4>1. Promise!Lapse
                BY <3>2, <3>5 DEF Promise!Lapse, Holders, Void
            <4>. QED
                BY <4>1 DEF Promise!Next
        <3>. QED
            BY <3>3, <3>4, <3>5
    <2>2. CASE UNCHANGED vars
        BY <2>2 DEF vars, Promise!vars, Holds
    <2>3. ASSUME NEW p \in Procs, Write(p) PROVE [Promise!Next]_(Promise!vars)
        <3>1. Goto(p, "holding") /\ "holding" \in Steps
            BY <2>3 DEF Write, Put, Steps
        <3>. QED
            BY <2>3, <3>1, WriterAlone, MutexStep
    <2>4. ASSUME NEW p \in Procs, NEW there \in Steps, Goto(p, there), there \in Inside => Holds(p)
          PROVE  [Promise!Next]_(Promise!vars)
        BY <2>4, MutexStep
    <2>5. ASSUME NEW p \in Procs,
                 \/ Acquire(p) \/ Open(p) \/ Judge(p) \/ Unlink(p) \/ ClearRead(p) \/ ClearUnlink(p)
                 \/ ReleaseUnlink(p) \/ Crash(p)
          PROVE  \E there \in Steps \ Inside : Goto(p, there)
        BY <2>5 DEF Acquire, Open, Judge, Unlink, ClearRead, ClearUnlink, ReleaseUnlink, Crash,
           Steps, Inside
    <2>6. ASSUME NEW p \in Procs, RefreshRead(p) \/ RefreshOpen(p) \/ RefreshWrite(p) \/ ReleaseRead(p)
          PROVE  Holds(p) /\ \E there \in Steps : Goto(p, there)
        BY <2>6 DEF RefreshRead, RefreshOpen, RefreshWrite, ReleaseRead, Put, At, Holds, Steps
    <2>. QED
        BY <2>1, <2>2, <2>3, <2>4, <2>5, <2>6 DEF Next, Call
<1>. QED
    BY <1>1, <1>2, TypeInit, ValuesStep, ExclusiveInit, ExclusiveStep, PTL
       DEF Spec, ImplementsMutex, Promise!Spec

\* At no moment before that are two processes inside, whichever of the steps of
\* a refresh or of a release each of them is at.
THEOREM MutualExclusion ==
    Spec => [](~overlap /\ ~late => \A p, q \in Procs : Holds(p) /\ Holds(q) => p = q)
<1> DEFINE Alone1 == ~overlap /\ ~late => \A p, q \in Procs : Holds(p) /\ Holds(q) => p = q
<1>1. Values /\ Exclusive => Alone1
    <2>. SUFFICES ASSUME Values, Exclusive, ~overlap, ~late, NEW p \in Procs, NEW q \in Procs,
                         Holds(p), Holds(q)
                  PROVE  p = q
        OBVIOUS
    <2>1. OneCall /\ Named /\ Opened
        BY DEF Exclusive, Undisturbed
    <2>2. ASSUME NEW r \in Procs, Holds(r)
          PROVE  \/ Names(r)
                 \/ InCall(r) /\ path # 0 /\ pid[path] = NoPid
        BY <2>1, <2>2 DEF Named, Opened, Holds, InCall
    <2>. QED
        BY <2>1, <2>2, Constants DEF OneCall, Names
<1>. QED
    BY <1>1, TypeInit, ValuesStep, ExclusiveInit, ExclusiveStep, PTL DEF Spec
-----------------------------------------------------------------------------
(* Who stands in the way.                                                  *)

\* Whatever overlaps, a record is of a process that holds, or is gone.
Owned == \A i \in Inodes : pid[i] # NoPid => pc[pid[i]] \in Inside \cup {"gone"}

LEMMA OwnedStep ==
    ASSUME Values, Owned, NEW p \in Procs, NEW there, Goto(p, there),
           pc[p] # "gone", pc[p] \in Inside => there \in Inside \cup {"gone"},
           \A i \in Inodes : pid'[i] \in {pid[i], NoPid} \/ (pid'[i] = p /\ there = "holding")
    PROVE  Owned'
<1> SUFFICES ASSUME NEW i \in Inodes, pid'[i] # NoPid PROVE pc'[pid'[i]] \in Inside \cup {"gone"}
    BY DEF Owned
<1>1. pc'[p] = there /\ \A q \in Procs \ {p} : pc'[q] = pc[q]
    BY DEF Goto, Values
<1>2. CASE pid'[i] = p /\ there = "holding"
    BY <1>1, <1>2 DEF Inside
<1>3. CASE pid'[i] = pid[i]
    <2>1. pid[i] \in Procs /\ pc[pid[i]] \in Inside \cup {"gone"}
        BY <1>3 DEF Values, Owned
    <2> QED
        BY <1>1, <1>3, <2>1
<1> QED
    BY <1>2, <1>3

LEMMA OwnedNext == Values /\ Owned /\ [Next]_vars => Owned'
<1> SUFFICES ASSUME Values, Owned, [Next]_vars PROVE Owned'
    OBVIOUS
<1>1. CASE Tick \/ UNCHANGED vars
    BY <1>1 DEF Owned, Tick, vars
<1>2. ASSUME NEW p \in Procs, Acquire(p) PROVE Owned'
    BY <1>2, OwnedStep DEF Acquire, Inside
<1>3. ASSUME NEW p \in Procs, Open(p) PROVE Owned'
    <2>1. pc[p] = "opening"
        BY <1>3 DEF Open, At
    <2>2. \A i \in Inodes : pid'[i] \in {pid[i], NoPid}
        BY <1>3 DEF Open, Values
    <2>3. Goto(p, "writing") \/ Goto(p, "judging")
        BY <1>3, Zenon DEF Open
    <2> QED
        BY <2>1, <2>2, <2>3, OwnedStep DEF Inside
<1>4. ASSUME NEW p \in Procs, Judge(p) \/ Unlink(p) \/ ClearRead(p) \/ ClearUnlink(p) PROVE Owned'
    <2>1. pc[p] \in {"judging", "unlinking", "new", "clearing"} /\ pid' = pid
        BY <1>4 DEF Judge, Unlink, ClearRead, ClearUnlink, At
    <2>2. \E there : Goto(p, there)
        BY <1>4, Zenon DEF Judge, Unlink, ClearRead, ClearUnlink
    <2> QED
        BY <2>1, <2>2, OwnedStep DEF Inside
<1>5. ASSUME NEW p \in Procs, Write(p) \/ RefreshWrite(p) PROVE Owned'
    <2>1. pc[p] # "gone" /\ Goto(p, "holding") /\ pid' = [pid EXCEPT ![fd[p]] = p]
        BY <1>5 DEF Write, RefreshWrite, Put, At
    <2>2. \A i \in Inodes : pid'[i] \in {pid[i], NoPid} \/ pid'[i] = p
        BY <2>1 DEF Values
    <2> QED
        BY <2>1, <2>2, OwnedStep DEF Inside
<1>6. ASSUME NEW p \in Procs, RefreshRead(p) PROVE Owned'
    <2>1. pc[p] = "holding" /\ pid' = pid /\ \E there \in Inside \cup {"gone"} : Goto(p, there)
        BY <1>6, Zenon DEF RefreshRead, At, Inside
    <2> QED
        BY <2>1, OwnedStep
<1>7. ASSUME NEW p \in Procs, RefreshOpen(p) PROVE Owned'
    <2>1. pc[p] = "reopening" /\ Goto(p, "rewriting")
        BY <1>7 DEF RefreshOpen, At
    <2>2. \A i \in Inodes : pid'[i] \in {pid[i], NoPid}
        BY <1>7 DEF RefreshOpen, Values
    <2> QED
        BY <2>1, <2>2, OwnedStep DEF Inside
<1>8. ASSUME NEW p \in Procs, ReleaseRead(p) \/ ReleaseUnlink(p) \/ Crash(p) PROVE Owned'
    <2>1. pc[p] # "gone" /\ pid' = pid
        BY <1>8 DEF ReleaseRead, ReleaseUnlink, Crash, At
    <2>2. \E there \in {"releasing", "gone"} : Goto(p, there)
        BY <1>8, Zenon DEF ReleaseRead, ReleaseUnlink, Crash
    <2> QED
        BY <2>1, <2>2, OwnedStep DEF Inside
<1> QED
    BY <1>1, <1>2, <1>3, <1>4, <1>5, <1>6, <1>7, <1>8 DEF Next, Call

\* Who is refused is refused for a reason that passes: a process that holds the
\* lock, or the record of one that is gone, whose pid somebody else was given,
\* until the TTL is over.  Neither crashes nor overlapping calls leave anything
\* else at the path that is not taken for stale.  With the clock and the retries
\* this is what makes Reclaimed true.  (attemptOnce, isStale, classifyStale)
THEOREM RefusedForCause ==
    Spec => [](\A p \in Procs :
                   At(p, "judging") /\ path # 0 /\ ~(Unreadable \/ IsStale(p)) =>
                       \/ Holds(pid[path])
                       \/ pc[pid[path]] = "gone" /\ pid[path] \in Reused /\ age[path] <= TTL)
<1> DEFINE Cause == \A p \in Procs :
                        At(p, "judging") /\ path # 0 /\ ~(Unreadable \/ IsStale(p)) =>
                            \/ Holds(pid[path])
                            \/ pc[pid[path]] = "gone" /\ pid[path] \in Reused /\ age[path] <= TTL
<1>1. Init => Owned
    BY DEF Init, Owned
<1>2. Spec => []Owned
    BY <1>1, TypeInit, ValuesStep, OwnedNext, PTL DEF Spec
<1>3. Spec => []Values
    BY TypeInit, ValuesStep, PTL DEF Spec
<1>4. Values /\ Owned => Cause
    <2> SUFFICES ASSUME Values, Owned, NEW p \in Procs, At(p, "judging"), path # 0,
                        ~(Unreadable \/ IsStale(p)), ~Holds(pid[path])
                 PROVE  pc[pid[path]] = "gone" /\ pid[path] \in Reused /\ age[path] <= TTL
        OBVIOUS
    <2>1. path \in Inodes /\ pid[path] # NoPid /\ pid[path] \in Procs /\ age[path] \in Nat
        BY LockAssumption DEF Values, Unreadable
    <2>2. pc[pid[path]] = "gone"
        BY <2>1 DEF Owned, Inside, Holds
    <2>3. pid[path] # p
        BY <2>2 DEF At
    <2> QED
        BY <2>1, <2>2, <2>3, LockAssumption DEF IsStale, Stale, Answers
<1> QED
    BY <1>2, <1>3, <1>4, PTL
=============================================================================
