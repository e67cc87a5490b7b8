----------------------------- MODULE ScopedLock -----------------------------
(***************************************************************************)
(* The PID-file locks of packages/core/src/locks.ts: one per bot token for *)
(* the Telegram listener, one per agent for the local gateway.             *)
(*                                                                         *)
(* Every step is one system call.  A file that was unlinked lives on for   *)
(* who holds it open, and what is written to it is not seen by who opens   *)
(* the path: files are inodes, and the path names one of them or none.     *)
(* The age of a record stands for the distance from its updatedAt to now.  *)
(***************************************************************************)
EXTENDS Naturals, FiniteSets

CONSTANTS
    Procs,          \* processes, each with its pid
    Reused,         \* those whose pid answers kill(pid, 0) after they are gone
    TTL,            \* in ticks
    NoPid

ASSUME LockAssumption ==
    IsFiniteSet(Procs) /\ Reused \subseteq Procs /\ NoPid \notin Procs /\ TTL \in Nat

VARIABLES
    pc,             \* [Procs -> where the process is]
    loop,           \* [Procs -> attempts of acquireScopedLock so far]
    fd,             \* [Procs -> the inode it has open to write, or 0]
    path,           \* the inode the lock's path names, or 0
    pid, age,       \* [inode -> the record in it]; NoPid: the file is empty
    overlap,        \* history: a process acted while a call of another was under way
    late            \* history: a live holder missed its refreshes for the whole TTL

vars == <<pc, loop, fd, path, pid, age, overlap, late>>

Inodes == 1..(Cardinality(Procs) + 1)
Fresh == CHOOSE i \in Inodes : i # path /\ \A p \in Procs : fd[p] # i

Init == /\ pc = [p \in Procs |-> "new"] /\ loop = [p \in Procs |-> 0]
        /\ fd = [p \in Procs |-> 0] /\ path = 0
        /\ pid = [i \in Inodes |-> NoPid] /\ age = [i \in Inodes |-> 0]
        /\ overlap = FALSE /\ late = FALSE

Answers(q) == pc[q] # "gone" \/ q \in Reused

\* Mutant: a record is stale from its TTL on.
Stale_AtTtl(p, q, a) == a >= TTL \/ (q # p /\ ~Answers(q))
\* Mutant: it is stale only when its process is gone.
Stale_NoTtl(p, q, a) == q # p /\ ~Answers(q)

\* classifyStale of the record <<q, a>>, as p sees it
Stale(p, q, a) == a > TTL \/ (q # p /\ ~Answers(q))

IsStale(p) == path # 0 /\ pid[path] # NoPid /\ Stale(p, pid[path], age[path])
\* Reading the path fails or yields no JSON.
Unreadable == path # 0 => pid[path] = NoPid
Names(p) == path # 0 /\ pid[path] = p

InCall(q) == pc[q] \notin {"new", "refused", "holding", "gone"}
At(p, here) == pc[p] = here
Goto(p, there) == /\ pc' = [pc EXCEPT ![p] = there] /\ late' = late
                  /\ overlap' = (overlap \/ \E q \in Procs \ {p} : InCall(q))
-----------------------------------------------------------------------------
(* acquireScopedLock.                                                      *)

Acquire(p) ==
    /\ pc[p] \in {"new", "refused"}
    /\ Goto(p, "opening") /\ loop' = [loop EXCEPT ![p] = 0]
    /\ UNCHANGED <<fd, path, pid, age>>

\* Mutant: without the flag 'wx' a file that exists is opened as well.
Open_Existing(p) ==
    /\ At(p, "opening")
    /\ LET i == IF path = 0 THEN Fresh ELSE path
       IN  /\ path' = i /\ fd' = [fd EXCEPT ![p] = i]
           /\ pid' = [pid EXCEPT ![i] = NoPid] /\ age' = [age EXCEPT ![i] = 0]
    /\ Goto(p, "writing") /\ UNCHANGED loop

\* openSync(path, 'wx'): an empty file, or EEXIST.
Open(p) ==
    /\ At(p, "opening")
    /\ \/ /\ path = 0
          /\ path' = Fresh /\ fd' = [fd EXCEPT ![p] = Fresh]
          /\ pid' = [pid EXCEPT ![Fresh] = NoPid] /\ age' = [age EXCEPT ![Fresh] = 0]
          /\ Goto(p, "writing")
       \/ path # 0 /\ Goto(p, "judging") /\ UNCHANGED <<fd, path, pid, age>>
    /\ UNCHANGED loop

\* readLock and isStale: an unreadable record counts as a stale one.
Judge(p) ==
    /\ At(p, "judging")
    /\ Goto(p, IF Unreadable \/ IsStale(p) THEN "unlinking" ELSE "refused")
    /\ UNCHANGED <<loop, fd, path, pid, age>>

\* unlinkSync of whatever the path names by now; the third attempt was the last.
Unlink(p) ==
    /\ At(p, "unlinking")
    /\ path' = 0 /\ loop' = [loop EXCEPT ![p] = @ + 1]
    /\ Goto(p, IF loop[p] < 2 THEN "opening" ELSE "refused")
    /\ UNCHANGED <<fd, pid, age>>

\* The record goes to the open file, whether the path still names it or not.
Put(p) == /\ pid' = [pid EXCEPT ![fd[p]] = p] /\ age' = [age EXCEPT ![fd[p]] = 0]
          /\ fd' = [fd EXCEPT ![p] = 0] /\ Goto(p, "holding")
          /\ UNCHANGED <<loop, path>>

Write(p) == At(p, "writing") /\ Put(p)
-----------------------------------------------------------------------------
(* The handle: refreshFn and releaseFn.                                    *)

\* Told that the lock is lost, the Telegram listener stops; the gateway's timer
\* ignores the answer (local-entrypoint.ts).
RefreshRead(p) ==
    /\ At(p, "holding")
    /\ \E unnamed \in {"gone", "holding"} : Goto(p, IF Names(p) THEN "reopening" ELSE unnamed)
    /\ UNCHANGED <<loop, fd, path, pid, age>>

\* openSync(path, 'w') truncates the file the path names, or creates one.
RefreshOpen(p) ==
    /\ At(p, "reopening")
    /\ LET i == IF path = 0 THEN Fresh ELSE path
       IN  /\ path' = i /\ fd' = [fd EXCEPT ![p] = i] /\ pid' = [pid EXCEPT ![i] = NoPid]
    /\ Goto(p, "rewriting") /\ UNCHANGED <<loop, age>>

RefreshWrite(p) == At(p, "rewriting") /\ Put(p)

\* The process exits after the release.
ReleaseRead(p) ==
    /\ At(p, "holding")
    /\ Goto(p, IF Names(p) THEN "releasing" ELSE "gone")
    /\ UNCHANGED <<loop, fd, path, pid, age>>

ReleaseUnlink(p) ==
    /\ At(p, "releasing")
    /\ path' = 0 /\ Goto(p, "gone") /\ UNCHANGED <<loop, fd, pid, age>>
-----------------------------------------------------------------------------
(* clearStaleScopedLock, at the boot of the gateway.                       *)

ClearRead(p) ==
    /\ At(p, "new")
    /\ Goto(p, IF IsStale(p) THEN "clearing" ELSE "refused")
    /\ UNCHANGED <<loop, fd, path, pid, age>>

ClearUnlink(p) ==
    /\ At(p, "clearing")
    /\ path' = 0 /\ Goto(p, "refused") /\ UNCHANGED <<loop, fd, pid, age>>
-----------------------------------------------------------------------------
(* The environment.                                                        *)

\* The process dies where it is; its descriptors are closed.
Crash(p) ==
    /\ pc[p] \notin {"new", "gone"}
    /\ Goto(p, "gone") /\ fd' = [fd EXCEPT ![p] = 0]
    /\ UNCHANGED <<loop, path, pid, age>>

Holds(p) == pc[p] \in {"holding", "reopening", "rewriting", "releasing"}

Tick ==
    /\ late' = (late \/ (path # 0 /\ pid[path] # NoPid /\ Holds(pid[path]) /\ age[path] >= TTL))
    /\ age' = [i \in Inodes |-> IF age[i] > TTL THEN age[i] ELSE age[i] + 1]
    /\ UNCHANGED <<pc, loop, fd, path, pid, overlap>>

Call(p) == \/ Open(p) \/ Judge(p) \/ Unlink(p) \/ Write(p)
           \/ RefreshOpen(p) \/ RefreshWrite(p) \/ ReleaseUnlink(p) \/ ClearUnlink(p)

Next == \/ Tick
        \/ \E p \in Procs : \/ Acquire(p) \/ Call(p) \/ Crash(p)
                            \/ RefreshRead(p) \/ ReleaseRead(p) \/ ClearRead(p)

Spec == Init /\ [][Next]_vars

\* A call that has begun goes on, the refresh timer runs, time passes, and a
\* refused listener retries (listener.ts: twelve attempts, which outlive the TTL).
Fairness == /\ \A p \in Procs : /\ WF_vars(Call(p)) /\ WF_vars(RefreshRead(p))
                                /\ WF_vars(pc[p] = "refused" /\ Acquire(p))
            /\ WF_vars(Tick)

FairSpec == Spec /\ Fairness
-----------------------------------------------------------------------------
(* Properties.                                                             *)

\* Type invariant: who writes has a file open, and an open file is one of the inodes.
TypeOK ==
    /\ pc \in [Procs -> {"new", "opening", "judging", "unlinking", "writing", "holding", "refused",
                         "reopening", "rewriting", "releasing", "clearing", "gone"}]
    /\ loop \in [Procs -> 0..3] /\ path \in Inodes \cup {0}
    /\ fd \in [Procs -> Inodes \cup {0}] /\ pid \in [Inodes -> Procs \cup {NoPid}]
    /\ age \in [Inodes -> 0..(TTL + 1)]
    /\ overlap \in BOOLEAN /\ late \in BOOLEAN
    /\ \A p \in Procs : pc[p] \in {"writing", "rewriting"} <=> fd[p] # 0

\* As long as no call ran into another process's and refreshes were on time, a
\* process between two calls on its lock finds its own record at the path,
\* whatever crashes left there before: no one else took, cleared or truncated
\* it.  So no two processes hold the lock.  (attemptOnce, refreshFn, releaseFn)
HolderNamed == ~overlap /\ ~late => \A p \in Procs : pc[p] = "holding" => Names(p)

\* Who holds the lock holds it alone, as long as the same conditions hold: a
\* process enters only when none is inside, on no path of the retry loop, of a
\* refresh or of a stale record.  (acquireScopedLock, isStale, refreshFn)
Promise == INSTANCE Mutex WITH holders <- {p \in Procs : Holds(p)}, void <- overlap \/ late
ImplementsMutex == Promise!Spec

\* A lock nobody holds is not lost: while a process keeps asking, it or
\* another comes to hold it, whatever was left at the path: an empty file, the
\* record of a dead process, or of one whose pid was given to another.
Reclaimed == \A p \in Procs :
    pc[p] = "refused" ~> pc[p] = "gone" \/ \E q \in Procs : Holds(q)
=============================================================================
