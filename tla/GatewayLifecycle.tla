-------------------------- MODULE GatewayLifecycle --------------------------
(***************************************************************************)
(* The life of a gateway process: provisioning over HTTP (server.ts,       *)
(* state.ts), the start of the real runtime that follows, chat turns with  *)
(* their background flush of memory and the explicit /sync                 *)
(* (real-runtime.ts), and the shutdown on a signal (entrypoint.ts).        *)
(*                                                                         *)
(* Every step is what runs between two awaits.  How a flush reads, uploads *)
(* and anchors is MemorySync's subject.  Here it takes, in one step, the   *)
(* writes that are on disk and in another it ends; what it leaves behind   *)
(* is the sync manager's: the slots it uploaded stay marked as uploaded,   *)
(* whether or not their anchor followed.                                   *)
(***************************************************************************)
EXTENDS Naturals, FiniteSets

CONSTANTS
    Reqs, NoReq,            \* provision requests, each with an agent key of its own
    Slots, Profile,         \* memory slots; the one whose upload may fail unnoticed
    MaxTurns,               \* bound: chat turns at a time
    MaxWrites,              \* bound: writes to memory
    MaxFails                \* bound: flushes that fail, in whole or for the profile

ASSUME GatewayAssumption ==
    NoReq \notin Reqs /\ Profile \in Slots /\ {MaxTurns, MaxWrites, MaxFails} \subseteq Nat

Writes == 1..MaxWrites

VARIABLES
    state, identity,        \* session.state; whose key, operator and iNFT the session holds
    req,                    \* [Reqs -> progress or HTTP answer of POST /bootstrap/provision]
    starting,               \* RealRuntime.start: "no", "building", "done", "failed"
    runtime, ready,         \* #runtime is set; #ready
    listening,              \* plugin listeners run and hold their token locks
    shutdown,               \* "no", "flush", "dispose", "close", "exited"
    stopped,                \* runtime.stop() has returned
    turns, wrote, slotOf,   \* chat turns that run; writes so far and the slot of each
    asked,                  \* writes there were when a flush was last asked for
    dirty,                  \* writes the next flush would upload
    marked,                 \* writes it would not, nor are they anchored: lastPlaintextHash has them
    flush, captured,        \* #pendingFlush: "idle", "going", "sending"; what it took
    sync,                   \* /sync: "idle", "waiting", "queued" in flushAll, "sending", "200", "500"
    syncMark, taken,        \* `wrote` when /sync was called; what it took
    flushed, fails,
    failed, skipped,        \* history: writes in a flush that failed; those it left marked
    early                   \* history: the signal came while the runtime was being built

session == <<state, identity, req>>
run     == <<starting, runtime, ready, listening>>
stop    == <<shutdown, stopped, early>>
chat    == <<turns, wrote, slotOf, asked>>
store   == <<dirty, marked, flushed, fails, failed, skipped>>
syncing == <<sync, syncMark, taken>>
memory  == <<chat, store, flush, captured, syncing>>
vars    == <<state, identity, req, starting, runtime, ready, listening, shutdown, stopped, turns,
             wrote, slotOf, asked, dirty, marked, flush, captured, sync, syncMark, taken, flushed,
             fails, failed, skipped, early>>

Init == /\ state = "Bootstrapping" /\ identity = NoReq /\ req = [r \in Reqs |-> "idle"]
        /\ starting = "no" /\ runtime = FALSE /\ ready = FALSE /\ listening = FALSE
        /\ shutdown = "no" /\ stopped = FALSE /\ early = FALSE
        /\ turns = 0 /\ wrote = 0 /\ slotOf = [w \in Writes |-> Profile] /\ asked = 0
        /\ dirty = {} /\ marked = {} /\ flushed = {} /\ fails = 0 /\ failed = {} /\ skipped = {}
        /\ flush = "idle" /\ captured = {} /\ sync = "idle" /\ syncMark = 0 /\ taken = {}

Alive == shutdown # "exited"
-----------------------------------------------------------------------------
(* POST /bootstrap/provision.                                              *)

\* The state is checked before the body is read.
Provision(r) ==
    /\ Alive /\ req[r] = "idle"
    /\ req' = [req EXCEPT ![r] = IF state = "Bootstrapping" THEN "reading" ELSE "409"]
    /\ UNCHANGED <<state, identity, run, stop, memory>>

BodyRead(r) ==
    /\ Alive /\ req[r] = "reading"
    /\ \E next \in {"verifying", "400"} : req' = [req EXCEPT ![r] = next]
    /\ UNCHANGED <<state, identity, run, stop, memory>>

\* The signature is wrong, an envelope cannot be opened or holds no key.
Rejected(r) ==
    /\ Alive /\ req[r] \in {"verifying", "unsealing"}
    /\ \E answer \in {"400"} \cup (IF req[r] = "verifying" THEN {"401"} ELSE {}) :
          req' = [req EXCEPT ![r] = answer]
    /\ UNCHANGED <<state, identity, run, stop, memory>>

\* A secrets envelope takes one more await.
Unseal(r) ==
    /\ Alive /\ req[r] = "verifying"
    /\ req' = [req EXCEPT ![r] = "unsealing"]
    /\ UNCHANGED <<state, identity, run, stop, memory>>

\* Mutant: the runtime is started although the transition threw.
Commit_Restarts(r) ==
    /\ Alive /\ req[r] \in {"verifying", "unsealing"} /\ starting' = "building"
    /\ IF state = "Bootstrapping"
          THEN state' = "Provisioned" /\ identity' = r /\ req' = [req EXCEPT ![r] = "200"]
          ELSE req' = [req EXCEPT ![r] = "500"] /\ UNCHANGED <<state, identity>>
    /\ UNCHANGED <<runtime, ready, listening, stop, memory>>

\* transitionToProvisioned, the answer, and the start of the runtime.  The
\* exception it throws in any other state becomes a 500.
Commit(r) ==
    /\ Alive /\ req[r] \in {"verifying", "unsealing"}
    /\ IF state = "Bootstrapping"
          THEN /\ state' = "Provisioned" /\ identity' = r /\ req' = [req EXCEPT ![r] = "200"]
               /\ starting' = "building"
          ELSE /\ req' = [req EXCEPT ![r] = "500"] /\ UNCHANGED <<state, identity, starting>>
    /\ UNCHANGED <<runtime, ready, listening, stop, memory>>
-----------------------------------------------------------------------------
(* RealRuntime.start.  Its awaits precede the start of the listeners.      *)

\* transitionToReady throws, and is logged, unless the state is Provisioned.
StartDone ==
    /\ Alive /\ starting = "building" /\ starting' = "done"
    /\ runtime' = TRUE /\ listening' = TRUE /\ ready' = TRUE
    /\ state' = (IF state = "Provisioned" THEN "Ready" ELSE state)
    /\ UNCHANGED <<identity, req, stop, memory>>

StartFails ==
    /\ Alive /\ starting = "building" /\ starting' = "failed"
    /\ UNCHANGED <<session, runtime, ready, listening, stop, memory>>
-----------------------------------------------------------------------------
(* Chat turns and flushes.                                                 *)

\* The state is checked before the body is read and the signature verified: the
\* turn may begin after the signal.
BeginTurn ==
    /\ Alive /\ (state = "Ready" \/ (state = "ShuttingDown" /\ ~early)) /\ runtime
    /\ turns < MaxTurns /\ turns' = turns + 1
    /\ UNCHANGED <<session, run, stop, wrote, slotOf, asked, store, flush, captured, syncing>>

\* A tool of the turn, or the activity log, changes a slot's content: its next
\* upload carries what the mark had hidden.
Write(s) ==
    /\ Alive /\ turns > 0 /\ wrote < MaxWrites /\ wrote' = wrote + 1
    /\ slotOf' = [slotOf EXCEPT ![wrote'] = s]
    /\ dirty' = dirty \cup {wrote'} \cup {w \in marked : slotOf[w] = s}
    /\ marked' = {w \in marked : slotOf[w] # s}
    /\ UNCHANGED <<session, run, stop, turns, asked, flushed, fails, failed, skipped, flush, captured,
                   syncing>>

\* Mutant: only the first turn of the daemon fires a flush.
EndTurn_First ==
    /\ Alive /\ turns > 0 /\ turns' = turns - 1
    /\ flush' = (IF flush = "idle" /\ runtime /\ flushed = {} THEN "going" ELSE flush)
    /\ asked' = (IF flush = "sending" THEN asked ELSE wrote)
    /\ UNCHANGED <<session, run, stop, wrote, slotOf, store, captured, syncing>>

\* The reply, and #fireBackgroundFlush.  While a flush is in flight it asks for
\* none: one that has yet to read the disk covers the turn, one that has does not.
EndTurn ==
    /\ Alive /\ turns > 0 /\ turns' = turns - 1
    /\ flush' = (IF flush = "idle" /\ runtime THEN "going" ELSE flush)
    /\ asked' = (IF flush = "sending" THEN asked ELSE wrote)
    /\ UNCHANGED <<session, run, stop, wrote, slotOf, store, captured, syncing>>

\* brain.infer or the activity log throws, or the message was a bypass command:
\* the turn is over and fires no flush.
LeaveTurn ==
    /\ Alive /\ turns > 0 /\ turns' = turns - 1
    /\ UNCHANGED <<session, run, stop, wrote, slotOf, asked, store, flush, captured, syncing>>

\* The sync manager runs one flush at a time, in the order they were asked for.
FlushReads ==
    /\ Alive /\ flush = "going" /\ sync \notin {"queued", "sending"}
    /\ flush' = "sending" /\ captured' = dirty /\ dirty' = {}
    /\ UNCHANGED <<session, run, stop, chat, marked, flushed, fails, failed, skipped, syncing>>

\* A flush of the writes W is anchored.
Anchors(W) == flushed' = flushed \cup W /\ UNCHANGED <<dirty, marked, fails, failed, skipped>>

\* The same, but for the profile, whose failed upload is swallowed.
AnchorsButProfile(W) ==
    LET profile == {w \in W : slotOf[w] = Profile}
    IN  /\ fails < MaxFails /\ fails' = fails + 1
        /\ flushed' = flushed \cup (W \ profile) /\ dirty' = dirty \cup profile
        /\ failed' = failed \cup profile /\ UNCHANGED <<marked, skipped>>

\* An upload or the anchor fails.  The slots that were
\* uploaded by then stay marked: what was read from them counts as uploaded until
\* they change, unless they have changed already.  The profile comes last.
Breaks(W) ==
    \E uploaded \in SUBSET Slots :
        LET hidden == {w \in W : slotOf[w] \in uploaded /\ \A v \in dirty : slotOf[v] # slotOf[w]}
        IN  /\ Profile \in uploaded => uploaded = Slots
            /\ fails < MaxFails /\ fails' = fails + 1
            /\ marked' = marked \cup hidden /\ dirty' = dirty \cup (W \ hidden)
            /\ failed' = failed \cup W /\ skipped' = skipped \cup hidden /\ UNCHANGED flushed

\* The background flush ends; a stop() or a /sync that awaited it goes on.
FlushDone ==
    /\ Alive /\ flush = "sending" /\ flush' = "idle" /\ captured' = {}
    /\ Anchors(captured) \/ AnchorsButProfile(captured) \/ Breaks(captured)
    /\ shutdown' = (IF shutdown = "flush" THEN "dispose" ELSE shutdown)
    /\ sync' = (IF sync = "waiting" THEN "queued" ELSE sync)
    /\ UNCHANGED <<session, run, stopped, early, chat, syncMark, taken>>

\* POST /sync: flushSync awaits the background flush in flight, if there is
\* one, then asks for a flush of its own.
Sync ==
    /\ Alive /\ state = "Ready" /\ runtime /\ sync \in {"idle", "200", "500"} /\ syncMark' = wrote
    /\ sync' = (IF flush = "idle" THEN "queued" ELSE "waiting")
    /\ UNCHANGED <<session, run, stop, chat, store, flush, captured, taken>>

\* Mutant: flushSync neither waits for the flush in flight nor queues behind it.
SyncReads_Overlaps ==
    /\ Alive /\ sync \in {"waiting", "queued"}
    /\ sync' = "sending" /\ taken' = dirty /\ dirty' = {}
    /\ UNCHANGED <<session, run, stop, chat, marked, flushed, fails, failed, skipped, flush, captured,
                   syncMark>>

SyncReads ==
    /\ Alive /\ sync = "queued" /\ flush # "sending"
    /\ sync' = "sending" /\ taken' = dirty /\ dirty' = {}
    /\ UNCHANGED <<session, run, stop, chat, marked, flushed, fails, failed, skipped, flush, captured,
                   syncMark>>

\* The swallowed upload of the profile does not change the answer.
SyncDone ==
    /\ Alive /\ sync = "sending" /\ taken' = {}
    /\ \/ (Anchors(taken) \/ AnchorsButProfile(taken)) /\ sync' = "200"
       \/ Breaks(taken) /\ sync' = "500"
    /\ UNCHANGED <<session, run, stop, chat, flush, captured, syncMark>>
-----------------------------------------------------------------------------
(* SIGTERM, SIGINT.                                                        *)

\* runtime.stop() up to its first await.
Signal ==
    /\ shutdown = "no" /\ state' = "ShuttingDown" /\ ready' = FALSE /\ early' = (starting = "building")
    /\ shutdown' = (CASE flush # "idle" -> "flush"
                      [] flush = "idle" /\ runtime -> "dispose"
                      [] flush = "idle" /\ ~runtime -> "close")
    /\ stopped' = (shutdown' = "close")
    /\ UNCHANGED <<identity, req, starting, runtime, listening, memory>>

\* Mutant: stop() returns although a listener is still stopping.
Disposed_Hasty ==
    /\ shutdown = "dispose" /\ shutdown' = "close" /\ stopped' = TRUE
    /\ listening' \in {listening, FALSE} /\ runtime' = FALSE
    /\ UNCHANGED <<session, starting, ready, early, memory>>

\* Every listener has stopped; stop() returns.
Disposed ==
    /\ shutdown = "dispose" /\ shutdown' = "close" /\ stopped' = TRUE
    /\ listening' = FALSE /\ runtime' = FALSE
    /\ UNCHANGED <<session, starting, ready, early, memory>>

\* server.close has seen the last connection end.
Close ==
    /\ shutdown = "close" /\ shutdown' = "exited"
    /\ UNCHANGED <<session, run, stopped, early, memory>>

\* The ten-second backstop.
ForceExit ==
    /\ shutdown \in {"flush", "dispose", "close"} /\ shutdown' = "exited"
    /\ UNCHANGED <<session, run, stopped, early, memory>>
-----------------------------------------------------------------------------
Next == \/ \E r \in Reqs : Provision(r) \/ BodyRead(r) \/ Rejected(r) \/ Unseal(r) \/ Commit(r)
        \/ StartDone \/ StartFails
        \/ BeginTurn \/ EndTurn \/ LeaveTurn \/ \E s \in Slots : Write(s)
        \/ FlushReads \/ FlushDone \/ Sync \/ SyncReads \/ SyncDone
        \/ Signal \/ Disposed \/ Close \/ ForceExit

Spec == Init /\ [][Next]_vars

\* A flush that was asked for reads the disk and ends.
Fairness == WF_vars(FlushReads) /\ WF_vars(FlushDone) /\ WF_vars(SyncReads) /\ WF_vars(SyncDone)
LiveSpec == Spec /\ Fairness
-----------------------------------------------------------------------------
States == {"Bootstrapping", "Provisioned", "Ready", "ShuttingDown"}

TypeOK ==
    /\ state \in States /\ identity \in Reqs \cup {NoReq}
    /\ req \in [Reqs -> {"idle", "reading", "verifying", "unsealing", "200", "400", "401", "409", "500"}]
    /\ starting \in {"no", "building", "done", "failed"}
    /\ {runtime, ready, listening, stopped, early} \subseteq BOOLEAN
    /\ shutdown \in {"no", "flush", "dispose", "close", "exited"}
    /\ turns \in 0..MaxTurns /\ {wrote, asked, syncMark} \subseteq 0..MaxWrites
    /\ slotOf \in [Writes -> Slots]
    /\ {dirty, marked, captured, taken, flushed, failed, skipped} \subseteq SUBSET Writes
    /\ flush \in {"idle", "going", "sending"}
    /\ sync \in {"idle", "waiting", "queued", "sending", "200", "500"} /\ fails \in 0..MaxFails
    /\ dirty \cup marked \cup captured \cup taken \cup flushed = 1..wrote  \* none is anywhere else

\* Of several provisions that race past the state check only one is told 200,
\* and the session holds that one's key.
OneWinner == \A r \in Reqs : req[r] = "200" <=> identity = r

\* When /sync answers 200, everything written before it was called is anchored,
\* whatever the background flush it found in flight came to, but for what a failed
\* flush had left marked and a profile whose upload is still to be done.
SyncCovers ==
    [][sync = "sending" /\ sync' = "200" =>
         1..syncMark \subseteq flushed' \cup skipped' \cup {w \in dirty' : slotOf[w] = Profile}]_vars

\* Once runtime.stop() has returned no listener runs and no lock of theirs is
\* left behind, unless the signal fell into the runtime's start.
LockReleased == (stopped /\ ~early) => ~listening

\* The session keeps its promise: whatever provisions race or come late and
\* whenever the signal comes, it is claimed once, started once, ready only after
\* that start, and never again once it shuts down.  (state.ts, server.ts)
Promise == INSTANCE Session WITH Owners <- Reqs, NoOwner <- NoReq,
                                 phase <- state, owner <- identity, start <- starting
ImplementsSession == Promise!Spec

\* What a turn that completed had written when its flush was asked for is anchored,
\* even if it was the last turn, or was in a flush that failed, or the process was
\* told to stop.  A turn that ends while a flush is being sent asks for none, nor
\* does one that throws.
TurnFlushed ==
    \A w \in Writes : (asked >= w) ~> (w \in flushed \/ w \in failed \/ shutdown # "no")
=============================================================================
