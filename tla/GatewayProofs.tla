--------------------------- MODULE GatewayProofs ---------------------------
(***************************************************************************)
(* Proofs about the gateway: GatewayLifecycle, for any provisions, turns   *)
(* and bounds, and BrainHistory, for any number of turns, a conversation   *)
(* of an earlier life, overlaps, resets, restarts and faults.              *)
(***************************************************************************)
EXTENDS GatewayLifecycle, BrainHistory, FiniteSetTheorems, SequenceTheorems, TLAPS

(* The invariants behind the properties.                                   *)

\* A session that bootstraps is nobody's, and nothing has been started for it.
Unclaimed == state = "Bootstrapping" => identity = NoReq /\ starting = "no"

\* What stop() can rely on.  A start that outlives the signal was under way
\* when it came, because no session is claimed any more.
Stopping ==
    /\ shutdown # "no" => state = "ShuttingDown"
    /\ shutdown # "no" /\ starting = "building" => early
    /\ stopped => shutdown \in {"close", "exited"}
    /\ shutdown = "no" => (listening => runtime)

\* Flushes overlap nowhere, so that the one of /sync has everything written
\* before it was asked for: on the chain, in its own hands, or behind a mark that
\* a failed flush left.
Covering ==
    /\ flush # "sending" => captured = {}
    /\ sync # "sending" => taken = {}
    /\ marked \subseteq skipped /\ skipped \subseteq failed
    /\ syncMark <= wrote
    /\ sync = "sending" => 1..syncMark \subseteq flushed \cup taken \cup skipped

\* The steps of provisioning, of chat turns, and of the shutdown after the signal.
Provisioning == \E r \in Reqs : Provision(r) \/ BodyRead(r) \/ Rejected(r) \/ Unseal(r) \/ Commit(r)
Turning      == BeginTurn \/ EndTurn \/ LeaveTurn \/ \E s \in Slots : Write(s)
Flushing     == FlushReads \/ FlushDone \/ Sync \/ SyncReads \/ SyncDone
Ending       == Disposed \/ Close \/ ForceExit

LEMMA GatewayCases ==
    ASSUME [Next]_vars
    PROVE  Provisioning \/ StartDone \/ StartFails \/ Turning \/ Flushing \/ Signal \/ Ending \/ UNCHANGED vars
BY DEF Next, Provisioning, Turning, Flushing, Ending
-----------------------------------------------------------------------------
LEMMA InitType == Init => TypeOK /\ Covering
<1> SUFFICES ASSUME Init PROVE TypeOK /\ Covering
    OBVIOUS
<1>1. 1..0 = {}
    OBVIOUS
<1>2. /\ {wrote, asked, syncMark} \subseteq 0..MaxWrites
      /\ turns \in 0..MaxTurns /\ fails \in 0..MaxFails
    BY GatewayAssumption DEF Init
<1>3. /\ {dirty, marked, captured, taken, flushed, failed, skipped} \subseteq SUBSET Writes
      /\ dirty \cup marked \cup captured \cup taken \cup flushed = 1..wrote
    BY <1>1 DEF Init
<1>4. Covering
    BY <1>1 DEF Init, Covering
<1>5. {runtime, ready, listening, stopped, early} \subseteq BOOLEAN
    BY DEF Init
<1>6. slotOf \in [Writes -> Slots]
    BY GatewayAssumption DEF Init
<1> QED
    BY <1>2, <1>3, <1>4, <1>5, <1>6 DEF Init, TypeOK, States

\* What TypeOK says of the memory, apart from the rest.
Kept ==
    /\ turns \in 0..MaxTurns /\ {wrote, asked, syncMark} \subseteq 0..MaxWrites
    /\ slotOf \in [Writes -> Slots]
    /\ {dirty, marked, captured, taken, flushed, failed, skipped} \subseteq SUBSET Writes
    /\ flush \in {"idle", "going", "sending"}
    /\ sync \in {"idle", "waiting", "queued", "sending", "200", "500"} /\ fails \in 0..MaxFails
    /\ dirty \cup marked \cup captured \cup taken \cup flushed = 1..wrote

\* How a flush of the writes W may end: it puts them where the chain has them,
\* or the next flush will find them, or the marks hide them.
LEMMA Ends ==
    ASSUME Kept, Covering, NEW W \in SUBSET Writes,
           Anchors(W) \/ AnchorsButProfile(W) \/ Breaks(W)
    PROVE  /\ {dirty', marked', flushed', failed', skipped'} \subseteq SUBSET Writes
           /\ fails' \in 0..MaxFails
           /\ dirty' \cup marked' \cup flushed' = dirty \cup marked \cup flushed \cup W
           /\ dirty' \subseteq dirty \cup (W \cap failed')
           /\ flushed \subseteq flushed' /\ skipped \subseteq skipped' /\ failed \subseteq failed'
           /\ marked' \subseteq skipped' /\ skipped' \subseteq failed'
<1>1. CASE Anchors(W)
    BY <1>1 DEF Anchors, Kept, Covering
<1>2. CASE AnchorsButProfile(W)
    <2>. DEFINE profile == {w \in W : slotOf[w] = Profile}
    <2>1. /\ fails < MaxFails /\ fails' = fails + 1
          /\ flushed' = flushed \cup (W \ profile) /\ dirty' = dirty \cup profile
          /\ failed' = failed \cup profile /\ UNCHANGED <<marked, skipped>> /\ profile \subseteq W
        BY <1>2 DEF AnchorsButProfile
    <2>. HIDE DEF profile
    <2>. QED
        BY <2>1, GatewayAssumption DEF Kept, Covering
<1>3. CASE Breaks(W)
    <2>1. PICK hidden \in SUBSET W :
              /\ fails < MaxFails /\ fails' = fails + 1
              /\ marked' = marked \cup hidden /\ dirty' = dirty \cup (W \ hidden)
              /\ failed' = failed \cup W /\ skipped' = skipped \cup hidden /\ UNCHANGED flushed
        <3>1. PICK uploaded \in SUBSET Slots :
                  LET hidden == {w \in W : slotOf[w] \in uploaded /\ \A v \in dirty : slotOf[v] # slotOf[w]}
                  IN  /\ fails < MaxFails /\ fails' = fails + 1
                      /\ marked' = marked \cup hidden /\ dirty' = dirty \cup (W \ hidden)
                      /\ failed' = failed \cup W /\ skipped' = skipped \cup hidden /\ UNCHANGED flushed
            BY <1>3 DEF Breaks
        <3>. DEFINE hidden == {w \in W : slotOf[w] \in uploaded /\ \A v \in dirty : slotOf[v] # slotOf[w]}
        <3>2. hidden \in SUBSET W
            OBVIOUS
        <3>3. /\ fails < MaxFails /\ fails' = fails + 1
              /\ marked' = marked \cup hidden /\ dirty' = dirty \cup (W \ hidden)
              /\ failed' = failed \cup W /\ skipped' = skipped \cup hidden /\ UNCHANGED flushed
            BY <3>1
        <3>. HIDE DEF hidden
        <3>. QED
            BY <3>2, <3>3
    <2>. QED
        BY <2>1, GatewayAssumption DEF Kept, Covering
<1>. QED
    BY <1>1, <1>2, <1>3

LEMMA StepKept == Kept /\ Covering /\ [Next]_vars => Kept'
<1> SUFFICES ASSUME Kept, Covering, [Next]_vars PROVE Kept'
    OBVIOUS
<1>1. CASE Provisioning
    BY <1>1 DEF Kept, Provisioning, Provision, BodyRead, Rejected, Unseal, Commit, memory, chat, store, syncing
<1>2. CASE StartDone \/ StartFails
    BY <1>2 DEF Kept, StartDone, StartFails, memory, chat, store, syncing
<1>3. CASE Signal \/ Ending
    BY <1>3 DEF Kept, Signal, Ending, Disposed, Close, ForceExit, memory, chat, store, syncing
<1>4. CASE BeginTurn
    BY <1>4, GatewayAssumption DEF Kept, BeginTurn, store, syncing
<1>5. CASE EndTurn \/ LeaveTurn
    BY <1>5, GatewayAssumption DEF Kept, EndTurn, LeaveTurn, store, syncing
<1>6. ASSUME NEW s \in Slots, Write(s) PROVE Kept'
    <2>. DEFINE found == {w \in marked : slotOf[w] = s}
    <2>1. /\ wrote < MaxWrites /\ wrote' = wrote + 1 /\ slotOf' = [slotOf EXCEPT ![wrote'] = s]
          /\ dirty' = dirty \cup {wrote'} \cup found /\ marked' = marked \ found /\ found \subseteq marked
          /\ UNCHANGED <<turns, asked, flushed, fails, failed, skipped, flush, captured, sync, syncMark, taken>>
        BY <1>6 DEF Write, syncing
    <2>. HIDE DEF found
    <2>2. wrote \in Nat /\ wrote' \in 1..MaxWrites /\ 1..wrote' = 1..wrote \cup {wrote'}
        BY <2>1, GatewayAssumption DEF Kept
    <2>3. slotOf' \in [Writes -> Slots]
        BY <2>1 DEF Kept
    <2>4. dirty' \cup marked' \cup captured' \cup taken' \cup flushed' = 1..wrote'
        BY <2>1, <2>2 DEF Kept
    <2>5. {dirty', marked'} \subseteq SUBSET Writes
        BY <2>1, <2>2 DEF Kept, Writes
    <2>6. {wrote', asked', syncMark'} \subseteq 0..MaxWrites
        BY <2>1, <2>2 DEF Kept
    <2>. QED
        BY <2>1, <2>3, <2>4, <2>5, <2>6 DEF Kept
<1>7. CASE FlushReads
    BY <1>7 DEF Kept, FlushReads, Covering, chat, syncing
<1>8. CASE Sync
    BY <1>8 DEF Kept, Sync, chat, store
<1>9. CASE SyncReads
    BY <1>9 DEF Kept, SyncReads, Covering, chat
<1>10. CASE FlushDone
    <2>1. captured \in SUBSET Writes
          /\ (Anchors(captured) \/ AnchorsButProfile(captured) \/ Breaks(captured))
        BY <1>10 DEF Kept, FlushDone
    <2>2. /\ flush' = "idle" /\ captured' = {} /\ sync' \in {sync, "queued"}
          /\ UNCHANGED <<turns, wrote, slotOf, asked, syncMark, taken>>
        BY <1>10 DEF FlushDone, chat
    <2>. QED
        BY <2>1, <2>2, Ends DEF Kept
<1>11. CASE SyncDone
    <2>1. taken \in SUBSET Writes /\ (Anchors(taken) \/ AnchorsButProfile(taken) \/ Breaks(taken))
        BY <1>11 DEF Kept, SyncDone
    <2>2. /\ taken' = {} /\ sync' \in {"200", "500"}
          /\ UNCHANGED <<turns, wrote, slotOf, asked, flush, captured, syncMark>>
        BY <1>11 DEF SyncDone, chat
    <2>. QED
        BY <2>1, <2>2, Ends DEF Kept
<1>12. CASE UNCHANGED vars
    BY <1>12 DEF Kept, vars
<1> QED
    BY <1>1, <1>2, <1>3, <1>4, <1>5, <1>6, <1>7, <1>8, <1>9, <1>10, <1>11, <1>12, GatewayCases
       DEF Turning, Flushing

\* What TypeOK says of the rest.
Posted ==
    /\ state \in States /\ identity \in Reqs \cup {NoReq}
    /\ req \in [Reqs -> {"idle", "reading", "verifying", "unsealing", "200", "400", "401", "409", "500"}]
    /\ starting \in {"no", "building", "done", "failed"}
    /\ {runtime, ready, listening, stopped, early} \subseteq BOOLEAN
    /\ shutdown \in {"no", "flush", "dispose", "close", "exited"}

LEMMA TypeParts == TypeOK <=> Posted /\ Kept
BY DEF TypeOK, Posted, Kept

LEMMA StepPosted == Posted /\ [Next]_vars => Posted'
<1> SUFFICES ASSUME Posted, [Next]_vars PROVE Posted'
    OBVIOUS
<1> USE DEF Posted, States
<1>1. ASSUME NEW r \in Reqs, Provision(r) PROVE Posted'
    BY <1>1 DEF Provision, run, stop
<1>2. ASSUME NEW r \in Reqs, BodyRead(r) PROVE Posted'
    BY <1>2 DEF BodyRead, run, stop
<1>3. ASSUME NEW r \in Reqs, Rejected(r) PROVE Posted'
    BY <1>3 DEF Rejected, run, stop
<1>4. ASSUME NEW r \in Reqs, Unseal(r) PROVE Posted'
    BY <1>4 DEF Unseal, run, stop
<1>5. ASSUME NEW r \in Reqs, Commit(r) PROVE Posted'
    BY <1>5 DEF Commit, stop
<1>6. CASE StartDone \/ StartFails
    BY <1>6 DEF StartDone, StartFails, session, stop
<1>7. CASE Turning
    BY <1>7 DEF Turning, BeginTurn, EndTurn, LeaveTurn, Write, session, run, stop
<1>8. CASE FlushReads \/ Sync \/ SyncReads \/ SyncDone
    BY <1>8 DEF FlushReads, Sync, SyncReads, SyncDone, session, run, stop
<1>9. CASE FlushDone
    BY <1>9 DEF FlushDone, session, run
<1>10. CASE Signal
    BY <1>10 DEF Signal
<1>11. CASE Disposed
    BY <1>11 DEF Disposed, session
<1>12. CASE Close \/ ForceExit
    BY <1>12 DEF Close, ForceExit, session, run
<1>13. CASE UNCHANGED vars
    BY <1>13 DEF vars
<1> QED
    BY <1>1, <1>2, <1>3, <1>4, <1>5, <1>6, <1>7, <1>8, <1>9, <1>10, <1>11, <1>12, <1>13, GatewayCases
       DEF Provisioning, Flushing, Ending

LEMMA StepCovering == Kept /\ Covering /\ [Next]_vars => Covering'
<1> SUFFICES ASSUME Kept, Covering, [Next]_vars PROVE Covering'
    OBVIOUS
<1>1. CASE UNCHANGED memory
    BY <1>1 DEF Covering, memory, chat, store, syncing
<1>2. CASE Provisioning
    BY <1>1, <1>2 DEF Provisioning, Provision, BodyRead, Rejected, Unseal, Commit
<1>3. CASE StartDone \/ StartFails \/ Signal \/ Ending
    BY <1>1, <1>3 DEF StartDone, StartFails, Signal, Ending, Disposed, Close, ForceExit
<1>4. CASE BeginTurn \/ LeaveTurn
    BY <1>4 DEF Covering, BeginTurn, LeaveTurn, store, syncing
<1>5. CASE EndTurn
    BY <1>5 DEF Covering, EndTurn, store, syncing
<1>6. ASSUME NEW s \in Slots, Write(s) PROVE Covering'
    <2>1. /\ wrote' = wrote + 1 /\ marked' \subseteq marked
          /\ UNCHANGED <<flushed, failed, skipped, flush, captured, sync, syncMark, taken>>
        BY <1>6 DEF Write, syncing
    <2>2. wrote \in Nat /\ syncMark \in Nat
        BY GatewayAssumption DEF Kept
    <2>. QED
        BY <2>1, <2>2 DEF Covering
<1>7. CASE FlushReads
    BY <1>7 DEF Covering, FlushReads, chat, syncing
<1>8. CASE Sync
    BY <1>8, GatewayAssumption DEF Covering, Kept, Sync, chat, store
<1>9. CASE SyncReads
    <2>1. /\ captured = {} /\ taken = {} /\ sync' = "sending" /\ taken' = dirty
          /\ UNCHANGED <<wrote, marked, flushed, failed, skipped, flush, captured, syncMark>>
        BY <1>9 DEF Covering, SyncReads, chat
    <2>2. 1..syncMark \subseteq 1..wrote
        BY GatewayAssumption DEF Covering, Kept
    <2>. QED
        BY <2>1, <2>2 DEF Covering, Kept
<1>10. CASE FlushDone
    <2>1. captured \in SUBSET Writes
          /\ (Anchors(captured) \/ AnchorsButProfile(captured) \/ Breaks(captured))
        BY <1>10 DEF Kept, FlushDone
    <2>2. /\ flush' = "idle" /\ captured' = {} /\ (sync' = sync \/ (sync' = "queued" /\ sync = "waiting"))
          /\ UNCHANGED <<wrote, syncMark, taken>>
        BY <1>10 DEF FlushDone, chat
    <2>3. /\ marked' \subseteq skipped' /\ skipped' \subseteq failed'
          /\ flushed \subseteq flushed' /\ skipped \subseteq skipped'
        BY <2>1, Ends
    <2>. QED
        BY <2>2, <2>3 DEF Covering
<1>11. CASE SyncDone
    <2>1. taken \in SUBSET Writes /\ (Anchors(taken) \/ AnchorsButProfile(taken) \/ Breaks(taken))
        BY <1>11 DEF Kept, SyncDone
    <2>2. taken' = {} /\ sync' \in {"200", "500"} /\ UNCHANGED <<wrote, flush, captured, syncMark>>
        BY <1>11 DEF SyncDone, chat
    <2>3. marked' \subseteq skipped' /\ skipped' \subseteq failed'
        BY <2>1, Ends
    <2>. QED
        BY <2>2, <2>3 DEF Covering
<1>12. CASE UNCHANGED vars
    BY <1>1, <1>12 DEF vars, memory, chat, store, syncing
<1> QED
    BY <1>2, <1>3, <1>4, <1>5, <1>6, <1>7, <1>8, <1>9, <1>10, <1>11, <1>12, GatewayCases
       DEF Turning, Flushing

LEMMA TypeInvariant == Spec => [](TypeOK /\ Covering)
<1>1. Kept' /\ Posted' => TypeOK'
    BY DEF TypeOK, Posted, Kept
<1>2. TypeOK /\ Covering /\ [Next]_vars => TypeOK' /\ Covering'
    BY <1>1, StepKept, StepPosted, StepCovering, TypeParts
<1> QED
    BY <1>2, InitType, PTL DEF Spec

\* The gateway's variables keep their types, and every write is where the next
\* flush will find it, in a flush in flight, anchored, or behind the mark that a
\* failed flush left on its slot: there is no other place for it to get lost.
\* (real-runtime.ts, sync-manager.ts)
THEOREM TypeCorrect == Spec => []TypeOK
BY TypeInvariant, PTL

\* A /sync answered 200 has anchored everything written before it was called,
\* whatever became of the background flush it met, but for what a failed flush had
\* left marked and for a profile that is still to be uploaded.  (flushSync)
THEOREM SyncCorrect == Spec => SyncCovers
<1> DEFINE Answers == sync = "sending" /\ sync' = "200" =>
                1..syncMark \subseteq flushed' \cup skipped' \cup {w \in dirty' : slotOf[w] = Profile}
<1>1. ASSUME TypeOK, Covering, [Next]_vars, sync = "sending", sync' = "200"
      PROVE  1..syncMark \subseteq flushed' \cup skipped' \cup {w \in dirty' : slotOf[w] = Profile}
    <2>1. CASE SyncDone
        <3>1. 1..syncMark \subseteq flushed \cup taken \cup skipped
            BY <1>1 DEF Covering
        <3>2. CASE Anchors(taken)
            BY <3>1, <3>2 DEF Anchors
        <3>3. CASE AnchorsButProfile(taken)
            BY <3>1, <3>3 DEF AnchorsButProfile
        <3>. QED
            BY <1>1, <2>1, <3>2, <3>3 DEF SyncDone
    <2>2. CASE Turning
        BY <1>1, <2>2 DEF Turning, BeginTurn, EndTurn, LeaveTurn, Write, syncing
    <2>3. CASE FlushReads \/ FlushDone \/ Sync \/ SyncReads
        BY <1>1, <2>3 DEF FlushReads, FlushDone, Sync, SyncReads, syncing
    <2>4. CASE Provisioning
        BY <1>1, <2>4 DEF Provisioning, Provision, BodyRead, Rejected, Unseal, Commit, memory, syncing
    <2>5. CASE StartDone \/ StartFails \/ Signal \/ Ending
        BY <1>1, <2>5 DEF StartDone, StartFails, Signal, Ending, Disposed, Close, ForceExit, memory, syncing
    <2>6. CASE UNCHANGED vars
        BY <1>1, <2>6 DEF vars
    <2> QED BY <1>1, <2>1, <2>2, <2>3, <2>4, <2>5, <2>6, GatewayCases DEF Flushing
<1>2. TypeOK /\ Covering /\ [Next]_vars => [Answers]_vars
    BY <1>1
<1> QED BY <1>2, TypeInvariant, PTL DEF Spec, SyncCovers
-----------------------------------------------------------------------------
LEMMA StepUnclaimed == Unclaimed /\ [Next]_vars => Unclaimed'
<1> SUFFICES ASSUME Unclaimed, [Next]_vars PROVE Unclaimed'
    OBVIOUS
<1> USE DEF Unclaimed
<1>1. ASSUME NEW r \in Reqs, Provision(r) \/ BodyRead(r) \/ Rejected(r) \/ Unseal(r) \/ Commit(r)
      PROVE Unclaimed'
    BY <1>1 DEF Provision, BodyRead, Rejected, Unseal, Commit, run
<1>2. CASE StartDone \/ StartFails \/ Signal \/ Disposed \/ Close \/ ForceExit
    BY <1>2 DEF StartDone, StartFails, Signal, Disposed, Close, ForceExit, session, run
<1>3. CASE Turning \/ FlushReads \/ Sync \/ SyncReads
    BY <1>3 DEF Turning, BeginTurn, EndTurn, LeaveTurn, Write, FlushReads, Sync, SyncReads, session, run
<1>4. CASE FlushDone \/ SyncDone
    BY <1>4 DEF FlushDone, SyncDone, session, run
<1>5. CASE UNCHANGED vars
    BY <1>5 DEF vars
<1> QED
    BY <1>1, <1>2, <1>3, <1>4, <1>5 DEF Next, Turning

LEMMA StepStopping == Unclaimed /\ Stopping /\ [Next]_vars => Stopping'
<1> SUFFICES ASSUME Unclaimed, Stopping, [Next]_vars PROVE Stopping'
    OBVIOUS
<1> USE DEF Stopping
<1>1. ASSUME NEW r \in Reqs, Provision(r) \/ BodyRead(r) \/ Rejected(r) \/ Unseal(r)
      PROVE Stopping'
    BY <1>1 DEF Provision, BodyRead, Rejected, Unseal, run, stop
<1>2. ASSUME NEW r \in Reqs, Commit(r) PROVE Stopping'
    BY <1>2 DEF Commit, stop
<1>3. CASE StartDone \/ StartFails
    BY <1>3 DEF StartDone, StartFails, session, stop
<1>4. CASE Turning \/ FlushReads \/ Sync \/ SyncReads
    BY <1>4 DEF Turning, BeginTurn, EndTurn, LeaveTurn, Write, FlushReads, Sync, SyncReads, session, run, stop
<1>5. CASE FlushDone
    BY <1>5 DEF FlushDone, session, run
<1>6. CASE SyncDone
    BY <1>6 DEF SyncDone, session, run, stop
<1>7. CASE Signal
    BY <1>7 DEF Signal
<1>8. CASE Disposed \/ Close \/ ForceExit
    BY <1>8 DEF Disposed, Close, ForceExit, session, run
<1>9. CASE UNCHANGED vars
    BY <1>9 DEF vars
<1> QED
    BY <1>1, <1>2, <1>3, <1>4, <1>5, <1>6, <1>7, <1>8, <1>9 DEF Next, Turning
\* When stop() has returned, no listener runs and no token lock is held, unless
\* the signal fell into the runtime's start.  (real-runtime.ts stop)
THEOREM LockCorrect == Spec => []LockReleased
<1>1. Init => Unclaimed /\ Stopping /\ LockReleased
    BY DEF Init, Unclaimed, Stopping, LockReleased
<1>2. Unclaimed /\ [Next]_vars => Unclaimed'
    BY StepUnclaimed
<1>3. Unclaimed /\ Stopping /\ LockReleased /\ [Next]_vars => LockReleased'
    <2> SUFFICES ASSUME Unclaimed, Stopping, LockReleased, [Next]_vars PROVE LockReleased'
        OBVIOUS
    <2> USE DEF LockReleased, Stopping
    <2>1. CASE StartDone
        BY <2>1 DEF StartDone, stop
    <2>2. CASE Signal
        BY <2>2 DEF Signal
    <2>3. CASE Disposed
        BY <2>3 DEF Disposed
    <2>4. CASE Close \/ ForceExit
        BY <2>4 DEF Close, ForceExit, run
    <2>5. ASSUME NEW r \in Reqs, Provision(r) \/ BodyRead(r) \/ Rejected(r) \/ Unseal(r) \/ Commit(r)
          PROVE LockReleased'
        BY <2>5 DEF Provision, BodyRead, Rejected, Unseal, Commit, run, stop
    <2>6. CASE StartFails \/ Turning \/ FlushReads \/ Sync \/ SyncReads
        BY <2>6 DEF StartFails, Turning, BeginTurn, EndTurn, LeaveTurn, Write, FlushReads, Sync, SyncReads, run, stop
    <2>7. CASE FlushDone \/ SyncDone
        BY <2>7 DEF FlushDone, SyncDone, run, stop
    <2>8. CASE UNCHANGED vars
        BY <2>8 DEF vars
    <2> QED BY <2>1, <2>2, <2>3, <2>4, <2>5, <2>6, <2>7, <2>8 DEF Next, Turning
<1> QED BY <1>1, <1>2, <1>3, StepStopping, PTL DEF Spec
-----------------------------------------------------------------------------
\* However many provisions get past the state check, one at most is told 200,
\* and the session is its.  (server.ts, transitionToProvisioned)
THEOREM OneWinnerCorrect == Spec => []OneWinner
<1>1. Init => Unclaimed /\ OneWinner
    BY GatewayAssumption DEF Init, Unclaimed, OneWinner
<1>2. Unclaimed /\ TypeOK /\ OneWinner /\ [Next]_vars => OneWinner'
    <2> SUFFICES ASSUME Unclaimed, TypeOK, OneWinner, [Next]_vars PROVE OneWinner'
        OBVIOUS
    <2> USE DEF OneWinner
    <2>1. ASSUME NEW r \in Reqs, Provision(r) PROVE OneWinner'
        BY <2>1 DEF Provision, TypeOK
    <2>2. ASSUME NEW r \in Reqs, BodyRead(r) PROVE OneWinner'
        BY <2>2 DEF BodyRead, TypeOK
    <2>3. ASSUME NEW r \in Reqs, Rejected(r) PROVE OneWinner'
        BY <2>3 DEF Rejected, TypeOK
    <2>4. ASSUME NEW r \in Reqs, Unseal(r) PROVE OneWinner'
        BY <2>4 DEF Unseal, TypeOK
    <2>5. ASSUME NEW r \in Reqs, Commit(r) PROVE OneWinner'
        BY <2>5, GatewayAssumption DEF Commit, Unclaimed, TypeOK
    <2>6. CASE UNCHANGED <<req, identity>>
        BY <2>6
    <2>7. CASE StartDone \/ StartFails \/ Signal \/ Disposed \/ Close \/ ForceExit
        BY <2>7 DEF StartDone, StartFails, Signal, Disposed, Close, ForceExit, session
    <2>8. CASE Turning \/ FlushReads \/ Sync \/ SyncReads
        BY <2>8 DEF Turning, BeginTurn, EndTurn, LeaveTurn, Write, FlushReads, Sync, SyncReads, session
    <2>9. CASE FlushDone \/ SyncDone
        BY <2>9 DEF FlushDone, SyncDone, session
    <2>10. CASE UNCHANGED vars
        BY <2>10 DEF vars
    <2> QED BY <2>1, <2>2, <2>3, <2>4, <2>5, <2>6, <2>7, <2>8, <2>9, <2>10 DEF Next, Turning
<1> QED BY <1>1, <1>2, StepUnclaimed, TypeCorrect, PTL DEF Spec

\* The gateway implements the session its clients rely on.
THEOREM Refinement == Spec => ImplementsSession
<1> DEFINE Abstract == <<state, identity, starting>>
           Moves    == Promise!Claim \/ Promise!Started \/ Promise!NotStarted \/ Promise!End
<1>1. Init => Unclaimed /\ Promise!Init
    BY DEF Init, Unclaimed, Promise!Init
<1>2. Unclaimed /\ [Next]_vars => [Moves]_Abstract
    <2> SUFFICES ASSUME Unclaimed, [Next]_vars PROVE Moves \/ UNCHANGED Abstract
        OBVIOUS
    <2>1. ASSUME NEW r \in Reqs, Commit(r) PROVE Moves \/ UNCHANGED Abstract
        <3>1. CASE state = "Bootstrapping"
            BY <2>1, <3>1 DEF Commit, Unclaimed, Promise!Claim
        <3>2. CASE state # "Bootstrapping"
            BY <2>1, <3>2 DEF Commit
        <3> QED BY <3>1, <3>2
    <2>2. CASE StartDone
        BY <2>2 DEF StartDone, Unclaimed, Promise!Started
    <2>3. CASE StartFails
        BY <2>3 DEF StartFails, session, Promise!NotStarted
    <2>4. CASE Signal
        BY <2>4 DEF Signal, Promise!End
    <2>5. ASSUME NEW r \in Reqs, Provision(r) \/ BodyRead(r) \/ Rejected(r) \/ Unseal(r)
          PROVE UNCHANGED Abstract
        BY <2>5 DEF Provision, BodyRead, Rejected, Unseal, run
    <2>6. CASE Disposed \/ Close \/ ForceExit
        BY <2>6 DEF Disposed, Close, ForceExit, session, run
    <2>7. CASE Turning \/ FlushReads \/ Sync \/ SyncReads
        BY <2>7 DEF Turning, BeginTurn, EndTurn, LeaveTurn, Write, FlushReads, Sync, SyncReads, session, run
    <2>8. CASE FlushDone \/ SyncDone
        BY <2>8 DEF FlushDone, SyncDone, session, run
    <2>9. CASE UNCHANGED vars
        BY <2>9 DEF vars
    <2> QED BY <2>1, <2>2, <2>3, <2>4, <2>5, <2>6, <2>7, <2>8, <2>9 DEF Next, Turning
<1> QED BY <1>1, <1>2, StepUnclaimed, PTL DEF Spec, ImplementsSession, Promise!Spec
-----------------------------------------------------------------------------
(* What a turn wrote is in a flush's hands.                                *)

\* A turn that runs has a runtime to fire the flush its end asks for, and what is
\* on disk although a flush was asked for is what that flush will take, or what
\* one that failed gave back.
InHand ==
    /\ asked <= wrote
    /\ shutdown = "no" => (turns > 0 => runtime)
    /\ shutdown = "no" => \A w \in dirty : w <= asked => flush = "going" \/ w \in failed

LEMMA InitInHand == Init => InHand
  BY DEF Init, InHand

LEMMA StepInHand == TypeOK /\ Covering /\ InHand /\ [Next]_vars => InHand'
<1> SUFFICES ASSUME TypeOK, Covering, InHand, [Next]_vars PROVE InHand'
    OBVIOUS
<1>t. /\ Kept /\ wrote \in Nat /\ asked \in Nat /\ turns \in Nat
      /\ \A w \in dirty : w \in Nat
    BY TypeParts, GatewayAssumption DEF Kept, Writes
<1>1. CASE Provisioning
    BY <1>1 DEF InHand, Provisioning, Provision, BodyRead, Rejected, Unseal, Commit, run, stop, memory,
                chat, store
<1>2. CASE StartDone \/ StartFails
    BY <1>2 DEF InHand, StartDone, StartFails, session, stop, memory, chat, store
<1>3. CASE BeginTurn \/ LeaveTurn
    BY <1>3, <1>t DEF InHand, BeginTurn, LeaveTurn, session, run, stop, store
\* A write comes after what was asked for, and what it finds behind a mark had failed.
<1>4. ASSUME NEW s \in Slots, Write(s) PROVE InHand'
    <2>1. /\ wrote' = wrote + 1 /\ dirty' \subseteq dirty \cup {wrote'} \cup marked
          /\ UNCHANGED <<asked, flush, failed, shutdown, runtime, turns>>
        BY <1>4 DEF Write, session, run, stop
    <2>2. ASSUME shutdown' = "no", NEW w \in dirty', w <= asked' PROVE flush' = "going" \/ w \in failed'
        <3>1. CASE w \in dirty
            BY <2>1, <2>2, <3>1 DEF InHand
        <3>2. CASE w \in marked
            BY <2>1, <3>2 DEF Covering
        <3>3. w # wrote'
            BY <1>t, <2>1, <2>2 DEF InHand
        <3> QED
            BY <2>1, <3>1, <3>2, <3>3
    <2>3. asked' <= wrote'
        BY <1>t, <2>1 DEF InHand
    <2> QED
        BY <2>1, <2>2, <2>3 DEF InHand
\* The end of a turn that finds no flush in flight starts one.
<1>5. CASE EndTurn
    <2>1. /\ wrote' = wrote /\ dirty' = dirty /\ failed' = failed /\ shutdown' = shutdown
          /\ runtime' = runtime /\ turns > 0 /\ turns' = turns - 1
          /\ flush' = (IF flush = "idle" /\ runtime THEN "going" ELSE flush)
          /\ asked' = (IF flush = "sending" THEN asked ELSE wrote)
        BY <1>5 DEF EndTurn, session, run, stop, store
    <2>2. ASSUME shutdown' = "no", NEW w \in dirty', w <= asked' PROVE flush' = "going" \/ w \in failed'
        <3>1. CASE flush = "sending"
            BY <2>1, <2>2, <3>1 DEF InHand
        <3>2. CASE flush # "sending"
            BY <1>t, <2>1, <2>2, <3>2 DEF InHand, Kept
        <3> QED
            BY <3>1, <3>2
    <2>3. shutdown' = "no" => (turns' > 0 => runtime')
        BY <2>1 DEF InHand
    <2>4. asked' <= wrote'
        BY <1>t, <2>1 DEF InHand
    <2> QED
        BY <2>2, <2>3, <2>4 DEF InHand
<1>6. CASE FlushReads \/ SyncReads
    BY <1>6 DEF InHand, FlushReads, SyncReads, session, run, stop, chat
<1>7. CASE Sync
    BY <1>7 DEF InHand, Sync, session, run, stop, chat, store
\* What a flush gives back is in a flush that failed.
<1>8. ASSUME NEW W \in SUBSET Writes, Anchors(W) \/ AnchorsButProfile(W) \/ Breaks(W),
             UNCHANGED <<wrote, asked, turns, runtime>>, flush' = flush \/ flush # "going",
             shutdown' = "no" => shutdown = "no"
      PROVE  InHand'
    <2>1. dirty' \subseteq dirty \cup (W \cap failed') /\ failed \subseteq failed'
        BY <1>t, <1>8, Ends
    <2>2. ASSUME shutdown' = "no", NEW w \in dirty', w <= asked' PROVE flush' = "going" \/ w \in failed'
        <3>1. CASE w \in failed'
            BY <3>1
        <3>2. CASE w \in dirty
            BY <1>8, <2>1, <2>2, <3>2 DEF InHand
        <3> QED
            BY <2>1, <3>1, <3>2
    <2> QED
        BY <1>8, <2>2 DEF InHand
<1>9. CASE FlushDone
    <2>1. captured \in SUBSET Writes
          /\ (Anchors(captured) \/ AnchorsButProfile(captured) \/ Breaks(captured))
        BY <1>t, <1>9 DEF Kept, FlushDone
    <2>2. /\ UNCHANGED <<wrote, asked, turns, runtime>> /\ flush # "going"
          /\ (shutdown' = "no" => shutdown = "no")
        BY <1>9 DEF FlushDone, run, chat
    <2> QED
        BY <1>8, <2>1, <2>2
<1>10. CASE SyncDone
    <2>1. taken \in SUBSET Writes /\ (Anchors(taken) \/ AnchorsButProfile(taken) \/ Breaks(taken))
        BY <1>t, <1>10 DEF Kept, SyncDone
    <2>2. UNCHANGED <<wrote, asked, turns, runtime, flush, shutdown>>
        BY <1>10 DEF SyncDone, run, stop, chat
    <2> QED
        BY <1>8, <2>1, <2>2
<1>11. CASE Signal \/ Ending
    BY <1>11 DEF InHand, Signal, Ending, Disposed, Close, ForceExit, session, run, memory, chat, store
<1>12. CASE UNCHANGED vars
    BY <1>12 DEF InHand, vars
<1> QED
    BY <1>1, <1>2, <1>3, <1>4, <1>5, <1>6, <1>7, <1>9, <1>10, <1>11, <1>12, GatewayCases
       DEF Turning, Flushing

\* What was on disk when a turn that completed asked for its flush is never left
\* lying about: it is anchored, in the hands of a flush, was in one that failed, or
\* a background flush that has not read the disk yet is under way, until the
\* process stops.  This is what remains of TurnFlushed without time: the flush it
\* names has only to run.  A turn that throws, or ends while a flush is being sent,
\* asks for none, and nothing is claimed for it.  (#fireBackgroundFlush)
THEOREM HandedOver ==
    Spec => [](shutdown = "no" =>
                   \A w \in 1..asked : w \in flushed \cup captured \cup taken \cup failed \/ flush = "going")
<1>1. TypeOK /\ Covering /\ InHand /\ shutdown = "no" =>
          \A w \in 1..asked : w \in flushed \cup captured \cup taken \cup failed \/ flush = "going"
    <2> SUFFICES ASSUME TypeOK, Covering, InHand, shutdown = "no", NEW w \in 1..asked,
                        w \notin flushed \cup captured \cup taken \cup failed
                 PROVE  flush = "going"
        OBVIOUS
    <2>1. {wrote, asked, syncMark} \subseteq 0..MaxWrites
          /\ dirty \cup marked \cup captured \cup taken \cup flushed = 1..wrote
        BY DEF TypeOK
    <2>2. w \in 1..wrote /\ w <= asked
        BY <2>1, GatewayAssumption DEF InHand
    <2> QED
        BY <2>1, <2>2 DEF InHand, Covering
<1>2. Spec => []InHand
    BY InitInHand, StepInHand, TypeInvariant, PTL DEF Spec
<1> QED
    BY <1>1, <1>2, TypeInvariant, PTL
-----------------------------------------------------------------------------
(* The conversation of a channel: the invariants behind the properties.    *)

\* The lines that the messages of h tell of, and the lines of a turn.
Told(h) == UNION {h[i].lines : i \in DOMAIN h}
Own(t)  == {<<t, "user">>, <<t, "assistant">>}

\* No line is told by two messages of h.
Once(h) == \A i, j \in DOMAIN h : h[i].lines \cap h[j].lines # {} => i = j

Writing == {"rewriting", "renaming", "folded"}

\* A fold and another turn that meet excuse each other.
Meet ==
    \A t, s \in Turns : t # s /\ pc[t] \in UnderWay =>
        /\ pc[s] \in Compacting => t \in excused /\ tangled
        /\ pc[s] \in UnderWay => overlap

\* Who met no fold and no reset holds the current array, and the current file.
Attached ==
    /\ \A t \in Turns : pc[t] = "asking" /\ t \notin excused => ref[t] = Len(arrays)
    /\ \A t \in Turns : pc[t] = "writing" /\ t \notin excused => linked[t]

\* A turn that has not been answered is told of nowhere; one that waits to be
\* appended is told of by both its lines, and not by what will become the file.
Unsaid == {"new", "asking"} \cup Compacting

Unheard(t) ==
    /\ Own(t) \cap Told(file) = {}
    /\ \A k \in DOMAIN arrays : Own(t) \cap Told(arrays[k]) = {}
    /\ \A s \in Turns : Own(t) \cap Told(made[s]) = {}

Whole(t) ==
    /\ \A k \in DOMAIN arrays : Own(t) \subseteq Told(arrays[k]) \/ Own(t) \cap Told(arrays[k]) = {}
    /\ \A s \in Turns : Own(t) \subseteq Told(made[s]) \/ Own(t) \cap Told(made[s]) = {}

Fresh == \A t \in Turns : /\ pc[t] \in Unsaid => Unheard(t)
                          /\ pc[t] \in Appending => Whole(t)

AllOnce == /\ Once(file) /\ \A k \in DOMAIN arrays : Once(arrays[k])
           /\ \A s \in Turns : Once(made[s])

Unwritten(t) == /\ Own(t) \cap Told(file) = {}
                /\ \A s \in Turns : pc[s] = "renaming" => Own(t) \cap Told(made[s]) = {}

Single == ~twofold => AllOnce /\ \A t \in Turns : pc[t] \in Appending => Unwritten(t)

\* What is, or is about to become, the memory or the file of the channel.
Staging   == {"folding", "rewriting", "renaming"}
Staged(s) == IF pc[s] = "rewriting" THEN Told(arrays[ref[s]]) ELSE Told(made[s])
Live      == {Told(Current), Told(file)} \cup {Staged(s) : s \in In(Staging)}

\* A turn that no fold, reset or failure met is remembered, and once it is
\* appended every live copy tells of it.
Lasting == \A t \in Turns \ (excused \cup cleared) :
    /\ pc[t] \in Appending => <<t, "assistant">> \in Told(Current)
    /\ pc[t] = "done" => \A X \in Live : <<t, "assistant">> \in X

\* A turn that a reset forgot is over, and no live copy tells of it.
Finished ==
    /\ \A t \in cleared : pc[t] \in Appending \cup {"done", "failed"}
    /\ \A t \in gone : pc[t] \in {"done", "failed"} /\ \A X \in Live : Own(t) \cap X = {}

\* The messages that are yet to be appended.
Lacking == UNION {Range(Pair(t)) : t \in In(Appending)}

Synced == ~tangled =>
    /\ \A t \in Turns : pc[t] = "asking" => ref[t] = Len(arrays)
    /\ \A t \in Turns : pc[t] = "writing" => linked[t]
    /\ \A s \in Turns : pc[s] = "rewriting" => ref[s] = Len(arrays)
    /\ \A s \in Turns : pc[s] = "renaming" => made[s] = Current
    /\ In({"rewriting", "renaming"}) = {} =>
          /\ Range(Current) = Range(file) \cup Lacking
          /\ ~overlap => /\ In(Appending) = {} => Current = file
                         /\ \A t \in In(Appending) : Current = file \o Pair(t)
-----------------------------------------------------------------------------
(* Messages and what they tell of.                                         *)

Histories == Seq(Messages)

LEMMA ToldOf ==
    ASSUME NEW h, NEW l
    PROVE  l \in Told(h) <=> \E i \in DOMAIN h : l \in h[i].lines
BY DEF Told

LEMMA LineIs ==
    ASSUME NEW t \in Turns, NEW r \in {"user", "assistant"}
    PROVE  Line(t, r) \in Messages /\ Line(t, r).lines = {<<t, r>>} /\ Line(t, r).summary = FALSE
<1>1. <<t, r>> \in Lines
    BY DEF Lines
<1>. QED
    BY <1>1 DEF Line, Messages

LEMMA EmptyHistory == <<>> \in Histories /\ Told(<<>>) = {} /\ Once(<<>>) /\ Len(<<>>) = 0
BY DEF Histories, Told, Once

LEMMA OneLine ==
    ASSUME NEW t \in Turns, NEW r \in {"user", "assistant"}
    PROVE  /\ <<Line(t, r)>> \in Histories /\ Told(<<Line(t, r)>>) = {<<t, r>>} /\ Once(<<Line(t, r)>>)
           /\ <<Line(t, r)>> # <<>>
<1> DEFINE m == Line(t, r)
           h == <<m>>
<1>1. m \in Messages /\ m.lines = {<<t, r>>}
    BY LineIs
<1> HIDE DEF m
<1>2. h \in Histories /\ DOMAIN h = {1} /\ h[1] = m
    BY <1>1 DEF Histories
<1>3. Once(h)
    BY <1>2 DEF Once
<1>4. \A l : l \in Told(h) <=> l \in m.lines
    BY <1>2, ToldOf
<1>. QED
    BY <1>1, <1>2, <1>3, <1>4 DEF m

LEMMA CatIs ==
    ASSUME NEW a \in Histories, NEW b \in Histories
    PROVE  /\ a \o b \in Histories /\ Len(a \o b) = Len(a) + Len(b)
           /\ DOMAIN (a \o b) = 1..(Len(a) + Len(b))
           /\ \A i \in 1..Len(a) : (a \o b)[i] = a[i]
           /\ \A i \in 1..Len(b) : (a \o b)[Len(a) + i] = b[i]
           /\ DOMAIN a = 1..Len(a) /\ DOMAIN b = 1..Len(b) /\ Len(a) \in Nat /\ Len(b) \in Nat
BY DEF Histories

LEMMA CatPlaces ==
    ASSUME NEW a \in Histories, NEW b \in Histories, NEW i \in DOMAIN (a \o b)
    PROVE  \/ i \in DOMAIN a /\ (a \o b)[i] = a[i]
           \/ \E j \in DOMAIN b : i = Len(a) + j /\ (a \o b)[i] = b[j]
<1> DEFINE c == a \o b
           n == Len(a)
           k == Len(b)
<1>1. /\ DOMAIN c = 1..(n + k) /\ DOMAIN a = 1..n /\ DOMAIN b = 1..k /\ n \in Nat /\ k \in Nat
      /\ \A x \in 1..n : c[x] = a[x]
      /\ \A x \in 1..k : c[n + x] = b[x]
    BY CatIs
<1> HIDE DEF c, n, k
<1>2. CASE i <= n
    BY <1>1, <1>2 DEF c
<1>3. CASE i > n
    <2>1. i \in Nat /\ i - n \in 1..k /\ i = n + (i - n)
        BY <1>1, <1>3 DEF c
    <2>2. c[i] = b[i - n]
        BY <1>1, <2>1
    <2>. QED
        BY <1>1, <2>1, <2>2 DEF c, n
<1>. QED
    BY <1>1, <1>2, <1>3 DEF c

LEMMA CatKeeps ==
    ASSUME NEW a \in Histories, NEW b \in Histories
    PROVE  /\ \A i \in DOMAIN a : i \in DOMAIN (a \o b) /\ (a \o b)[i] = a[i]
           /\ \A i \in DOMAIN b : Len(a) + i \in DOMAIN (a \o b) /\ (a \o b)[Len(a) + i] = b[i]
<1> DEFINE c == a \o b
           n == Len(a)
           k == Len(b)
<1>1. /\ DOMAIN c = 1..(n + k) /\ DOMAIN a = 1..n /\ DOMAIN b = 1..k /\ n \in Nat /\ k \in Nat
      /\ \A x \in 1..n : c[x] = a[x]
      /\ \A x \in 1..k : c[n + x] = b[x]
    BY CatIs
<1> HIDE DEF c, n, k
<1>2. ASSUME NEW i \in DOMAIN a PROVE i \in DOMAIN c /\ c[i] = a[i]
    BY <1>1
<1>3. ASSUME NEW i \in DOMAIN b PROVE n + i \in DOMAIN c /\ c[n + i] = b[i]
    BY <1>1
<1>. QED
    BY <1>2, <1>3 DEF c, n

LEMMA CatTold ==
    ASSUME NEW a \in Histories, NEW b \in Histories
    PROVE  Told(a \o b) = Told(a) \cup Told(b)
<1> DEFINE c == a \o b
<1>1. ASSUME NEW l, l \in Told(c) PROVE l \in Told(a) \cup Told(b)
    <2>1. PICK i \in DOMAIN c : l \in c[i].lines
        BY <1>1, ToldOf
    <2>. QED
        BY <2>1, CatPlaces, ToldOf
<1>2. ASSUME NEW l, l \in Told(a) PROVE l \in Told(c)
    <2>1. PICK i \in DOMAIN a : l \in a[i].lines
        BY <1>2, ToldOf
    <2>2. i \in DOMAIN c /\ c[i] = a[i]
        BY CatKeeps
    <2>. QED
        BY <2>1, <2>2, ToldOf
<1>3. ASSUME NEW l, l \in Told(b) PROVE l \in Told(c)
    <2>1. PICK i \in DOMAIN b : l \in b[i].lines
        BY <1>3, ToldOf
    <2>2. Len(a) + i \in DOMAIN c /\ c[Len(a) + i] = b[i]
        BY CatKeeps
    <2>. QED
        BY <2>1, <2>2, ToldOf
<1>. QED
    BY <1>1, <1>2, <1>3

LEMMA CatOnce ==
    ASSUME NEW a \in Histories, NEW b \in Histories, Once(a), Once(b), Told(a) \cap Told(b) = {}
    PROVE  Once(a \o b)
<1> DEFINE c == a \o b
<1>1. SUFFICES ASSUME NEW i \in DOMAIN c, NEW j \in DOMAIN c, NEW l, l \in c[i].lines, l \in c[j].lines
               PROVE  i = j
    BY DEF Once
<1>2. CASE i \in DOMAIN a /\ c[i] = a[i]
    <2>1. l \in Told(a)
        BY <1>1, <1>2, ToldOf
    <2>2. CASE j \in DOMAIN a /\ c[j] = a[j]
        BY <1>1, <1>2, <2>2 DEF Once
    <2>3. CASE \E x \in DOMAIN b : j = Len(a) + x /\ c[j] = b[x]
        BY <1>1, <2>1, <2>3, ToldOf
    <2>. QED
        BY <2>2, <2>3, CatPlaces
<1>3. ASSUME NEW y \in DOMAIN b, i = Len(a) + y, c[i] = b[y] PROVE i = j
    <2>1. l \in Told(b)
        BY <1>1, <1>3, ToldOf
    <2>2. CASE j \in DOMAIN a /\ c[j] = a[j]
        BY <1>1, <2>1, <2>2, ToldOf
    <2>3. ASSUME NEW x \in DOMAIN b, j = Len(a) + x, c[j] = b[x] PROVE i = j
        <3>1. x = y
            BY <1>1, <1>3, <2>3 DEF Once
        <3>. QED
            BY <1>3, <2>3, <3>1
    <2>. QED
        BY <2>2, <2>3, CatPlaces
<1>. QED
    BY <1>2, <1>3, CatPlaces

LEMMA RangeIs ==
    ASSUME NEW h, NEW m
    PROVE  m \in Range(h) <=> \E i \in DOMAIN h : m = h[i]
BY DEF Range

LEMMA CatRange ==
    ASSUME NEW a \in Histories, NEW b \in Histories
    PROVE  Range(a \o b) = Range(a) \cup Range(b)
<1> DEFINE c == a \o b
<1>1. ASSUME NEW m, m \in Range(c) PROVE m \in Range(a) \cup Range(b)
    <2>1. PICK i \in DOMAIN c : m = c[i]
        BY <1>1, RangeIs
    <2>. QED
        BY <2>1, CatPlaces, RangeIs
<1>2. ASSUME NEW m, m \in Range(a) PROVE m \in Range(c)
    <2>1. PICK i \in DOMAIN a : m = a[i]
        BY <1>2, RangeIs
    <2>2. i \in DOMAIN c /\ c[i] = a[i]
        BY CatKeeps
    <2>. QED
        BY <2>1, <2>2, RangeIs
<1>3. ASSUME NEW m, m \in Range(b) PROVE m \in Range(c)
    <2>1. PICK i \in DOMAIN b : m = b[i]
        BY <1>3, RangeIs
    <2>2. Len(a) + i \in DOMAIN c /\ c[Len(a) + i] = b[i]
        BY CatKeeps
    <2>. QED
        BY <2>1, <2>2, RangeIs
<1>. QED
    BY <1>1, <1>2, <1>3

LEMMA PairIs ==
    ASSUME NEW t \in Turns
    PROVE  /\ Pair(t) \in Histories /\ Told(Pair(t)) = Own(t) /\ Once(Pair(t)) /\ Pair(t) # <<>>
           /\ Tail(Pair(t)) = <<Line(t, "assistant")>>
           /\ SubSeq(Pair(t), 1, 0) = <<>> /\ SubSeq(Pair(t), 1, 1) = <<Line(t, "user")>>
<1> DEFINE u == Line(t, "user")
           v == Line(t, "assistant")
<1>0. u \in Messages /\ v \in Messages /\ Pair(t) = <<u, v>>
    BY LineIs DEF Pair
<1>1. u \in Messages /\ v \in Messages /\ Pair(t) = <<u, v>> /\ Pair(t) = <<u>> \o <<v>>
    <2>. HIDE DEF u, v
    <2>1. /\ <<u, v>> \in Seq(Messages) /\ Len(<<u, v>>) = 2
          /\ <<u, v>>[1] = u /\ <<u, v>>[2] = v
          /\ <<u>> \in Seq(Messages) /\ <<v>> \in Seq(Messages)
          /\ Len(<<u>>) = 1 /\ Len(<<v>>) = 1 /\ <<u>>[1] = u /\ <<v>>[1] = v
        BY <1>0
    <2>2. /\ <<u>> \o <<v>> \in Seq(Messages) /\ Len(<<u>> \o <<v>>) = 2
          /\ \A i \in 1..2 : (<<u>> \o <<v>>)[i] = IF i <= 1 THEN <<u>>[1] ELSE <<v>>[1]
        BY <2>1, ConcatProperties
    <2>3. (<<u>> \o <<v>>)[1] = u /\ (<<u>> \o <<v>>)[2] = v
        BY <2>1, <2>2
    <2>4. <<u, v>> = <<u>> \o <<v>>
        <3> DEFINE x == <<u, v>>
                   y == <<u>> \o <<v>>
        <3>1. x \in Seq(Messages) /\ y \in Seq(Messages) /\ Len(x) = 2 /\ Len(y) = 2
              /\ x[1] = y[1] /\ x[2] = y[2]
            BY <2>1, <2>2, <2>3
        <3>. HIDE DEF x, y
        <3>2. \A i \in 1..Len(x) : x[i] = y[i]
            BY <3>1
        <3>3. x = y
            BY <3>1, <3>2, SeqEqual
        <3>. QED
            BY <3>3 DEF x, y
    <2>. QED
        BY <1>0, <2>4
<1>2. Told(Pair(t)) = Own(t) /\ Once(Pair(t)) /\ Pair(t) \in Histories
    <2>1. Told(<<u>>) = {<<t, "user">>} /\ Told(<<v>>) = {<<t, "assistant">>} /\ Once(<<u>>) /\ Once(<<v>>)
          /\ <<u>> \in Histories /\ <<v>> \in Histories
        BY OneLine
    <2>2. Told(<<u>>) \cap Told(<<v>>) = {}
        BY <2>1
    <2>. HIDE DEF u, v
    <2>3. Told(<<u>> \o <<v>>) = Told(<<u>>) \cup Told(<<v>>) /\ Once(<<u>> \o <<v>>)
        BY <2>1, <2>2, CatTold, CatOnce
    <2>. QED
        BY <1>1, <2>1, <2>3, CatIs DEF Own
<1>. HIDE DEF u, v
<1>3. Pair(t) \in Seq(Messages) /\ Len(Pair(t)) = 2 /\ Pair(t)[1] = u /\ Pair(t)[2] = v
    BY <1>1
<1>4. Tail(Pair(t)) = <<v>>
    <2>1. Tail(Pair(t)) = SubSeq(Pair(t), 2, 2)
        BY <1>1, <1>3, TailIsSubSeq
    <2>2. /\ SubSeq(Pair(t), 2, 2) \in Seq(Messages) /\ Len(SubSeq(Pair(t), 2, 2)) = 1
          /\ SubSeq(Pair(t), 2, 2)[1] = v
        BY <1>1, <1>3, SubSeqProperties
    <2>. QED
        BY <1>1, <2>1, <2>2, SeqEqual
<1>5. SubSeq(Pair(t), 1, 0) = <<>>
    BY SubSeqEmpty
<1>6. SubSeq(Pair(t), 1, 1) = <<u>>
    <2>1. /\ SubSeq(Pair(t), 1, 1) \in Seq(Messages) /\ Len(SubSeq(Pair(t), 1, 1)) = 1
          /\ SubSeq(Pair(t), 1, 1)[1] = u
        BY <1>1, <1>3, SubSeqProperties
    <2>2. <<u>> \in Seq(Messages) /\ Len(<<u>>) = 1 /\ <<u>>[1] = u
        BY <1>1
    <2>3. \A i \in 1..1 : SubSeq(Pair(t), 1, 1)[i] = <<u>>[i]
        BY <2>1, <2>2
    <2>. QED
        BY <2>1, <2>2, <2>3, SeqEqual
<1>7. Pair(t) # <<>>
    BY <1>3
<1>. QED
    BY <1>2, <1>4, <1>5, <1>6, <1>7 DEF u, v

LEMMA OnceParts ==
    ASSUME NEW a \in Histories, NEW b \in Histories, Once(a \o b)
    PROVE  Once(b) /\ Told(a) \cap Told(b) = {}
<1> DEFINE c == a \o b
<1>1. /\ \A i \in DOMAIN a : i \in DOMAIN c /\ c[i] = a[i]
      /\ \A i \in DOMAIN b : Len(a) + i \in DOMAIN c /\ c[Len(a) + i] = b[i]
      /\ DOMAIN a = 1..Len(a) /\ DOMAIN b = 1..Len(b) /\ Len(a) \in Nat /\ Len(b) \in Nat
    BY CatKeeps, CatIs
<1>2. \A i, j \in DOMAIN c : c[i].lines \cap c[j].lines # {} => i = j
    BY DEF Once
<1> HIDE DEF c
<1>3. ASSUME NEW i \in DOMAIN b, NEW j \in DOMAIN b, b[i].lines \cap b[j].lines # {} PROVE i = j
    <2>1. Len(a) + i = Len(a) + j
        BY <1>1, <1>2, <1>3
    <2>. QED
        BY <1>1, <2>1
<1>4. ASSUME NEW l, l \in Told(a), l \in Told(b) PROVE FALSE
    <2>1. PICK i \in DOMAIN a : l \in a[i].lines
        BY <1>4, ToldOf
    <2>2. PICK j \in DOMAIN b : l \in b[j].lines
        BY <1>4, ToldOf
    <2>3. i = Len(a) + j
        BY <1>1, <1>2, <2>1, <2>2
    <2>. QED
        BY <1>1, <2>3
<1>5. Once(b)
    BY <1>3 DEF Once
<1>. QED
    BY <1>4, <1>5

LEMMA SummaryIs ==
    ASSUME NEW h \in Histories
    PROVE  /\ SummaryOf(h) \in Messages /\ <<SummaryOf(h)>> \in Histories
           /\ Told(<<SummaryOf(h)>>) = Told(h) /\ Once(<<SummaryOf(h)>>)
<1> DEFINE m == SummaryOf(h)
           ls == UNION {x.lines : x \in Range(h)}
<1>1. \A x \in Range(h) : x \in Messages
    BY RangeIs DEF Histories
<1>2. ls \subseteq Lines
    BY <1>1 DEF Messages
<1>3. m \in Messages /\ m.lines = ls
    BY <1>2 DEF SummaryOf, Messages
<1>4. \A l : l \in ls <=> \E x \in Range(h) : l \in x.lines
    OBVIOUS
<1>5. \A l : l \in ls <=> l \in Told(h)
    BY <1>4, RangeIs, ToldOf
<1> HIDE DEF m
<1>6. <<m>> \in Histories /\ DOMAIN <<m>> = {1} /\ <<m>>[1] = m
    BY <1>3 DEF Histories
<1>7. Once(<<m>>)
    BY <1>6 DEF Once
<1>8. \A l : l \in Told(<<m>>) <=> l \in m.lines
    BY <1>6, ToldOf
<1>. QED
    BY <1>3, <1>5, <1>6, <1>7, <1>8 DEF m

\* A fold tells of what it folded, and no line becomes told twice.
LEMMA FoldIs ==
    ASSUME NEW h \in Histories, MayCompact(h)
    PROVE  Fold(h) \in Histories /\ Told(Fold(h)) = Told(h) /\ (Once(h) => Once(Fold(h)))
<1> DEFINE n == Len(h) - RecentCount
           a == SubSeq(h, 1, n)
           b == SubSeq(h, n + 1, Len(h))
<1>1. Len(h) \in Nat /\ RecentCount \in Nat /\ n \in 0..Len(h) /\ h \in Seq(Messages)
    BY HistoryAssumption DEF Histories, MayCompact, RecentCount
<1>2. \A i \in 1..Len(h) : h[i] \in Messages
    BY <1>1
<1>3. h = a \o b
    <2>1. SubSeq(h, 1, n) \o SubSeq(h, n + 1, Len(h)) = SubSeq(h, 1, Len(h))
        <3>. HIDE DEF n
        <3>1. 1 \in 1..Len(h) + 1 /\ n \in (1 - 1)..Len(h) /\ Len(h) \in n..Len(h)
            BY <1>1
        <3>. QED
            BY <1>1, <3>1, ConcatAdjacentSubSeq
    <2>2. SubSeq(h, 1, Len(h)) = h
        BY <1>1, SubSeqFull
    <2>. QED
        BY <2>1, <2>2
<1>4. a \in Histories /\ b \in Histories
    <2>. HIDE DEF n
    <2>1. (\A i \in 1..n : h[i] \in Messages) /\ (\A i \in n + 1..Len(h) : h[i] \in Messages)
        BY <1>1, <1>2
    <2>. QED
        BY <1>1, <2>1, SubSeqProperties DEF Histories
<1>5. Fold(h) = <<SummaryOf(a)>> \o b
    BY DEF Fold
<1> HIDE DEF a, b
<1>6. Told(h) = Told(a) \cup Told(b)
    BY <1>3, <1>4, CatTold
<1>7. Told(Fold(h)) = Told(h) /\ Fold(h) \in Histories
    <2>1. <<SummaryOf(a)>> \in Histories /\ Told(<<SummaryOf(a)>>) = Told(a)
        BY <1>4, SummaryIs
    <2> DEFINE d == <<SummaryOf(a)>>
    <2>2. Fold(h) = d \o b /\ d \in Histories /\ Told(d) = Told(a)
        BY <1>5, <2>1
    <2>. HIDE DEF d
    <2>3. d \o b \in Histories /\ Told(d \o b) = Told(d) \cup Told(b)
        BY <1>4, <2>2, CatTold, CatIs
    <2>. QED
        BY <1>6, <2>2, <2>3
<1>8. ASSUME Once(h) PROVE Once(Fold(h))
    <2>1. Once(b) /\ Told(a) \cap Told(b) = {}
        BY <1>3, <1>4, <1>8, OnceParts
    <2>2. <<SummaryOf(a)>> \in Histories /\ Once(<<SummaryOf(a)>>) /\ Told(<<SummaryOf(a)>>) = Told(a)
        BY <1>4, SummaryIs
    <2>. QED
        BY <1>4, <1>5, <2>1, <2>2, CatOnce
<1>. QED
    BY <1>7, <1>8
-----------------------------------------------------------------------------
(* The arrays of the channel.                                              *)

Arrays == Seq(Histories) \ {<<>>}

LEMMA ArraysAre ==
    ASSUME NEW a \in Arrays
    PROVE  /\ Len(a) \in Nat \ {0} /\ DOMAIN a = 1..Len(a) /\ Len(a) \in DOMAIN a
           /\ \A k \in DOMAIN a : a[k] \in Histories
           /\ Last(a) = a[Len(a)] /\ Last(a) \in Histories
<1>1. a \in Seq(Histories) /\ a # <<>>
    BY DEF Arrays
<1>2. Len(a) \in Nat \ {0} /\ DOMAIN a = 1..Len(a)
    BY <1>1, EmptySeq, LenProperties
<1>3. \A k \in 1..Len(a) : a[k] \in Histories
    BY <1>1, ElementOfSeq
<1>. QED
    BY <1>2, <1>3 DEF Last

LEMMA Appended ==
    ASSUME NEW a \in Arrays, NEW h \in Histories
    PROVE  /\ Append(a, h) \in Arrays /\ Len(Append(a, h)) = Len(a) + 1 /\ Last(Append(a, h)) = h
           /\ DOMAIN Append(a, h) = 1..(Len(a) + 1) /\ Append(a, h)[Len(a) + 1] = h
           /\ \A k \in DOMAIN a : k \in DOMAIN Append(a, h) /\ Append(a, h)[k] = a[k]
           /\ \A k \in DOMAIN Append(a, h) : k \in DOMAIN a \/ k = Len(a) + 1
<1> DEFINE b == Append(a, h)
<1>1. a \in Seq(Histories) /\ DOMAIN a = 1..Len(a) /\ Len(a) \in Nat \ {0}
    BY ArraysAre DEF Arrays
<1>2. /\ b \in Seq(Histories) /\ b # <<>> /\ Len(b) = Len(a) + 1
      /\ \A i \in 1..Len(a) : b[i] = a[i]
      /\ b[Len(a) + 1] = h
    BY <1>1, AppendProperties
<1> HIDE DEF b
<1>3. DOMAIN b = 1..(Len(a) + 1)
    BY <1>2, LenProperties
<1>4. /\ b \in Arrays /\ Len(b) = Len(a) + 1 /\ Last(b) = h
      /\ DOMAIN b = 1..(Len(a) + 1) /\ b[Len(a) + 1] = h
      /\ \A k \in DOMAIN a : k \in DOMAIN b /\ b[k] = a[k]
      /\ \A k \in DOMAIN b : k \in DOMAIN a \/ k = Len(a) + 1
    BY <1>1, <1>2, <1>3 DEF Arrays, Last
<1>. QED
    BY <1>4 DEF b

LEMMA Pushed ==
    ASSUME NEW a \in Arrays, NEW h \in Histories, NEW k \in DOMAIN a
    PROVE  /\ [a EXCEPT ![k] = h] \in Arrays /\ Len([a EXCEPT ![k] = h]) = Len(a)
           /\ DOMAIN [a EXCEPT ![k] = h] = DOMAIN a
           /\ [a EXCEPT ![k] = h][k] = h
           /\ \A i \in DOMAIN a : i # k => [a EXCEPT ![k] = h][i] = a[i]
<1> DEFINE b == [a EXCEPT ![k] = h]
<1>1. a \in Seq(Histories) /\ DOMAIN a = 1..Len(a) /\ Len(a) \in Nat \ {0} /\ k \in 1..Len(a)
    BY ArraysAre DEF Arrays
<1>2. /\ b \in Seq(Histories) /\ Len(b) = Len(a)
      /\ \A j \in 1..Len(a) : b[j] = IF j = k THEN h ELSE a[j]
    BY <1>1, ExceptSeq
<1> HIDE DEF b
<1>3. DOMAIN b = 1..Len(a) /\ b # <<>>
    BY <1>1, <1>2, EmptySeq, LenProperties
<1>4. /\ b \in Arrays /\ Len(b) = Len(a) /\ DOMAIN b = DOMAIN a
      /\ b[k] = h /\ \A i \in DOMAIN a : i # k => b[i] = a[i]
    BY <1>1, <1>2, <1>3 DEF Arrays
<1>. QED
    BY <1>4 DEF b

LEMMA Alone ==
    ASSUME NEW h \in Histories, NEW b, b = <<h>>
    PROVE  b \in Arrays /\ Len(b) = 1 /\ Last(b) = h /\ DOMAIN b = {1} /\ b[1] = h
<1>1. b \in Seq(Histories) /\ Len(b) = 1 /\ b[1] = h /\ DOMAIN b = {1}
    OBVIOUS
<1>2. b # <<>>
    BY <1>1, EmptySeq
<1>. QED
    BY <1>1, <1>2 DEF Arrays, Last
-----------------------------------------------------------------------------
(* What is said before the first turn.                                     *)

LEMMA HydratedIs ==
    /\ Hydrated \in Histories /\ Once(Hydrated)
    /\ \A t \in Turns : t <= Earlier => <<t, "assistant">> \in Told(Hydrated)
    /\ \A t \in Turns : ~(t <= Earlier) => Own(t) \cap Told(Hydrated) = {}
<1> DEFINE turn(i) == (i + 1) \div 2
           role(i) == IF i % 2 = 1 THEN "user" ELSE "assistant"
           n == 2 * Earlier
<1>1. MaxTurn \in Nat /\ Earlier \in Nat /\ Earlier <= MaxTurn /\ n \in Nat
    BY HistoryAssumption
<1>2. ASSUME NEW i \in 1..n
      PROVE  /\ turn(i) \in Turns /\ turn(i) <= Earlier /\ role(i) \in {"user", "assistant"}
             /\ i = IF role(i) = "user" THEN 2 * turn(i) - 1 ELSE 2 * turn(i)
    BY <1>1 DEF Turns
<1>3. Hydrated = [i \in 1..n |-> Line(turn(i), role(i))]
    BY DEF Hydrated
<1> HIDE DEF turn, role
<1>4. \A i \in 1..n : Line(turn(i), role(i)) \in Messages /\ Line(turn(i), role(i)).lines = {<<turn(i), role(i)>>}
    BY <1>2, LineIs
<1>5. DOMAIN Hydrated = 1..n /\ \A i \in 1..n : Hydrated[i].lines = {<<turn(i), role(i)>>}
    BY <1>3, <1>4
<1>6. Hydrated \in Histories
    <2>1. Hydrated \in [1..n -> Messages]
        BY <1>3, <1>4
    <2>. QED
        BY <1>1, <2>1 DEF Histories
<1>7. Once(Hydrated)
    <2>1. ASSUME NEW i \in 1..n, NEW j \in 1..n, Hydrated[i].lines \cap Hydrated[j].lines # {} PROVE i = j
        <3>1. turn(i) = turn(j) /\ role(i) = role(j)
            BY <1>5, <2>1
        <3>. QED
            BY <1>2, <3>1
    <2>. QED
        BY <1>5, <2>1 DEF Once
<1>8. ASSUME NEW t \in Turns, t <= Earlier PROVE <<t, "assistant">> \in Told(Hydrated)
    <2>1. t \in 1..Earlier /\ 2 * t \in 1..n
        BY <1>1, <1>8 DEF Turns
    <2>2. turn(2 * t) = t /\ role(2 * t) = "assistant"
        BY <1>1, <2>1 DEF turn, role
    <2>. QED
        BY <1>5, <2>1, <2>2, ToldOf
<1>9. ASSUME NEW t \in Turns, ~(t <= Earlier) PROVE Own(t) \cap Told(Hydrated) = {}
    <2>1. ASSUME NEW r, <<t, r>> \in Told(Hydrated) PROVE FALSE
        <3>1. PICK i \in 1..n : <<t, r>> \in Hydrated[i].lines
            BY <1>5, <2>1, ToldOf
        <3>2. turn(i) = t
            BY <1>5, <3>1
        <3>. QED
            BY <1>2, <1>9, <3>2
    <2>. QED
        BY <2>1 DEF Own
<1>. QED
    BY <1>6, <1>7, <1>8, <1>9
-----------------------------------------------------------------------------
(* The steps.                                                              *)

LEMMA TwoMembers ==
    ASSUME NEW S, S \subseteq Turns, NEW x \in S, NEW y \in S, x # y
    PROVE  Cardinality(S) > 1
<1>1. IsFiniteSet(Turns)
    BY HistoryAssumption, FS_Interval DEF Turns
<1>2. IsFiniteSet(S) /\ Cardinality(S) \in Nat
    BY <1>1, FS_Subset, FS_CardinalityType
<1>3. Cardinality({x}) = 1 /\ IsFiniteSet({x})
    BY FS_Singleton
<1>4. {x} \subseteq S /\ {x} # S
    OBVIOUS
<1>5. Cardinality({x}) <= Cardinality(S) /\ (Cardinality({x}) = Cardinality(S) => {x} = S)
    BY <1>2, <1>4, FS_Subset
<1>. QED
    BY <1>2, <1>3, <1>4, <1>5

Types ==
    /\ arrays \in Arrays /\ ref \in [Turns -> Nat] /\ \A t \in Turns : ref[t] \in 0..Len(arrays)
    /\ pc \in [Turns -> UnderWay \cup {"new", "done", "failed"}]
    /\ made \in [Turns -> Histories] /\ linked \in [Turns -> BOOLEAN]
    /\ file \in Histories /\ torn \in BOOLEAN
    /\ overlap \in BOOLEAN /\ tangled \in BOOLEAN /\ twofold \in BOOLEAN
    /\ excused \in SUBSET Turns /\ cleared \in SUBSET Turns /\ gone \in SUBSET Turns

Counts == restarts \in 0..MaxRestarts /\ resets \in 0..MaxResets /\ faults \in 0..MaxFaults

Held == \A t \in Turns : pc[t] \in Writing \cup {"asking"} => ref[t] > 0

\* A step of one turn, as it shows in the history variables.
LEMMA GotoIs ==
    ASSUME Types, NEW t \in Turns, NEW there \in UnderWay \cup {"done", "failed"}, Goto(t, there)
    PROVE  /\ pc' = [pc EXCEPT ![t] = there] /\ pc'[t] = there
           /\ \A s \in Turns : s # t => pc'[s] = pc[s]
           /\ overlap' \in BOOLEAN /\ tangled' \in BOOLEAN /\ excused' \in SUBSET Turns
           /\ (overlap => overlap') /\ (tangled => tangled') /\ excused \subseteq excused'
           /\ \A s \in Turns : s # t /\ there \in UnderWay /\ pc[s] \in UnderWay => overlap'
           /\ \A s \in Turns : /\ s # t /\ there \in UnderWay /\ pc[s] \in UnderWay
                               /\ there \in Compacting \/ pc[s] \in Compacting
                               => tangled' /\ t \in excused' /\ s \in excused'
<1> DEFINE active == (In(UnderWay) \ {t}) \cup (IF there \in UnderWay THEN {t} ELSE {})
           fold   == In(Compacting) \ {t} # {} \/ there \in Compacting
           two    == Cardinality(active) > 1
<1>1. /\ pc' = [pc EXCEPT ![t] = there]
      /\ overlap' = (overlap \/ two)
      /\ tangled' = (tangled \/ (fold /\ two))
      /\ excused' = (IF fold /\ two THEN excused \cup active ELSE excused)
    BY DEF Goto
<1>2. active \subseteq Turns
    BY DEF In
<1>3. ASSUME NEW s \in Turns, s # t, there \in UnderWay, pc[s] \in UnderWay
      PROVE  s \in active /\ t \in active
    BY <1>3 DEF In
<1>4. ASSUME NEW s \in Turns, s # t, there \in Compacting \/ pc[s] \in Compacting
      PROVE  fold
    BY <1>4 DEF In
<1> HIDE DEF active, fold
<1>5. ASSUME NEW s \in Turns, s # t, there \in UnderWay, pc[s] \in UnderWay
      PROVE  two
    BY <1>2, <1>3, <1>5, TwoMembers
<1> HIDE DEF two
<1>6. pc'[t] = there /\ \A s \in Turns : s # t => pc'[s] = pc[s]
    BY <1>1 DEF Types
<1>7. /\ overlap' \in BOOLEAN /\ tangled' \in BOOLEAN /\ excused' \in SUBSET Turns
      /\ (overlap => overlap') /\ (tangled => tangled') /\ excused \subseteq excused'
    BY <1>1, <1>2 DEF Types
<1>8. ASSUME NEW s \in Turns, s # t, there \in UnderWay, pc[s] \in UnderWay PROVE overlap'
    BY <1>1, <1>5, <1>8
<1>9. ASSUME NEW s \in Turns, s # t, there \in UnderWay, pc[s] \in UnderWay,
             there \in Compacting \/ pc[s] \in Compacting
      PROVE  tangled' /\ t \in excused' /\ s \in excused'
    <2>1. two /\ fold /\ s \in active /\ t \in active
        BY <1>3, <1>4, <1>5, <1>9
    <2>. QED
        BY <1>1, <2>1
<1>. QED
    BY <1>1, <1>6, <1>7, <1>8, <1>9

LEMMA PairParts ==
    ASSUME NEW t \in Turns, NEW x \in {<<>>, Pair(t), <<Line(t, "user")>>, <<Line(t, "assistant")>>}
    PROVE  x \in Histories /\ Told(x) \subseteq Own(t) /\ Once(x)
<1>1. CASE x = <<>>
    BY <1>1, EmptyHistory
<1>2. CASE x = Pair(t)
    BY <1>2, PairIs
<1>3. CASE x = <<Line(t, "user")>>
    BY <1>3, OneLine DEF Own
<1>4. CASE x = <<Line(t, "assistant")>>
    BY <1>4, OneLine DEF Own
<1>. QED
    BY <1>1, <1>2, <1>3, <1>4

\* What an append does to the file.
LEMMA PutIs ==
    ASSUME Types, NEW t \in Turns, NEW x \in {Pair(t), <<>>, <<Line(t, "user")>>}, NEW cut \in BOOLEAN,
           Put(t, x, cut)
    PROVE  /\ file' \in Histories /\ torn' \in BOOLEAN
           /\ \E y \in {<<>>, Pair(t), <<Line(t, "user")>>, <<Line(t, "assistant")>>} : file' = file \o y
<1> DEFINE Ys == {<<>>, Pair(t), <<Line(t, "user")>>, <<Line(t, "assistant")>>}
<1>1. file \in Histories /\ torn \in BOOLEAN /\ file \o <<>> = file
    BY ConcatEmptySeq DEF Types, Histories
<1>2. CASE ~linked[t]
    BY <1>1, <1>2 DEF Put, disk
<1>3. CASE linked[t]
    <2> DEFINE y == IF torn /\ x # <<>> THEN Tail(x) ELSE x
    <2>1. file' = file \o y /\ torn' \in BOOLEAN
        BY <1>1, <1>3 DEF Put
    <2>2. y \in Ys
        <3>1. Tail(Pair(t)) = <<Line(t, "assistant")>>
            BY PairIs
        <3>2. Tail(<<Line(t, "user")>>) = <<>>
            <4> DEFINE m == Line(t, "user")
            <4>1. <<m>> \in Seq(Messages) /\ <<m>> # <<>> /\ Len(<<m>>) = 1
                BY OneLine DEF Histories
            <4> HIDE DEF m
            <4>2. Tail(<<m>>) \in Seq(Messages) /\ Len(Tail(<<m>>)) = 0
                BY <4>1, HeadTailProperties
            <4>. QED
                BY <4>2, EmptySeq DEF m
        <3>. QED
            BY <3>1, <3>2
    <2> HIDE DEF y
    <2>3. y \in Histories
        BY <2>2, PairParts
    <2>. QED
        BY <1>1, <2>1, <2>2, <2>3, CatIs
<1>. QED
    BY <1>2, <1>3

Appends(t) == AppendWrite(t) \/ AppendFails(t)

LEMMA AppendsIs ==
    ASSUME Types, NEW t \in Turns, Appends(t)
    PROVE  /\ file' \in Histories /\ torn' \in BOOLEAN
           /\ \E y \in {<<>>, Pair(t), <<Line(t, "user")>>, <<Line(t, "assistant")>>} : file' = file \o y
<1>1. CASE AppendWrite(t)
    BY <1>1, PutIs DEF AppendWrite
<1>2. CASE AppendFails(t)
    <2>1. CASE UNCHANGED disk
        <3>1. file \in Histories /\ torn \in BOOLEAN /\ file \o <<>> = file
            BY ConcatEmptySeq DEF Types, Histories
        <3>. QED
            BY <2>1, <3>1 DEF disk
    <2>2. ASSUME NEW n \in 0..1, NEW cut \in BOOLEAN, Put(t, SubSeq(Pair(t), 1, n), cut)
          PROVE  /\ file' \in Histories /\ torn' \in BOOLEAN
                 /\ \E y \in {<<>>, Pair(t), <<Line(t, "user")>>, <<Line(t, "assistant")>>} : file' = file \o y
        <3>1. SubSeq(Pair(t), 1, n) \in {Pair(t), <<>>, <<Line(t, "user")>>}
            <4>1. n = 0 \/ n = 1
                OBVIOUS
            <4>. QED
                BY <4>1, PairIs
        <3>. QED
            BY <2>2, <3>1, PutIs
    <2>. QED
        BY <1>2, <2>1, <2>2 DEF AppendFails
<1>. QED
    BY <1>1, <1>2 DEF Appends

\* An append adds nothing but lines of its turn, each once.
LEMMA AppendsTold ==
    ASSUME Types, NEW t \in Turns, Appends(t)
    PROVE  /\ Told(file) \subseteq Told(file') /\ Told(file') \subseteq Told(file) \cup Own(t)
           /\ Once(file) /\ Own(t) \cap Told(file) = {} => Once(file')
<1>1. PICK y \in {<<>>, Pair(t), <<Line(t, "user")>>, <<Line(t, "assistant")>>} : file' = file \o y
    BY AppendsIs
<1>2. y \in Histories /\ Told(y) \subseteq Own(t) /\ Once(y) /\ file \in Histories
    BY PairParts DEF Types
<1>3. Told(file') = Told(file) \cup Told(y)
    BY <1>1, <1>2, CatTold
<1>4. Once(file) /\ Told(file) \cap Told(y) = {} => Once(file')
    BY <1>1, <1>2, CatOnce
<1>. QED
    BY <1>2, <1>3, <1>4

\* One that returns has written the answer, behind a part of a line or not.
LEMMA WriteTold ==
    ASSUME Types, NEW t \in Turns, AppendWrite(t), linked[t]
    PROVE  <<t, "assistant">> \in Told(file') /\ (~torn => file' = file \o Pair(t))
<1>1. file' = file \o (IF torn THEN Tail(Pair(t)) ELSE Pair(t))
    <2>1. Pair(t) # <<>>
        BY PairIs
    <2>. QED
        BY <2>1 DEF AppendWrite, Put
<1>2. file \in Histories /\ Tail(Pair(t)) \in Histories /\ Pair(t) \in Histories
    BY PairIs, OneLine DEF Types
<1>3. <<t, "assistant">> \in Told(Tail(Pair(t))) /\ <<t, "assistant">> \in Told(Pair(t))
    BY PairIs, OneLine DEF Own
<1>. QED
    BY <1>1, <1>2, <1>3, CatTold
-----------------------------------------------------------------------------
(* Types.                                                                  *)

LEMMA NextCases ==
    ASSUME HistoryNext
    PROVE  Reset \/ ResetFails \/ Restart
           \/ \E t \in Turns : \/ Begin(t) \/ Folded(t) \/ FoldFails(t) \/ WriteTemp(t) \/ Rename(t)
                               \/ RewriteFails(t) \/ Compacted(t) \/ Answer(t) \/ TurnFails(t)
                               \/ AppendOpen(t) \/ AppendWrite(t) \/ AppendFails(t)
BY DEF HistoryNext, Step

RefGoes(t) ==
    /\ ref' \in [Turns -> Nat] /\ \A s \in Turns : ref'[s] \in 0..Len(arrays')
    /\ \A s \in Turns : s # t => ref'[s] = ref[s]

LEMMA RefGo ==
    ASSUME Types, NEW t \in Turns, NEW k \in Nat, ref' = [ref EXCEPT ![t] = k],
           arrays' \in Arrays, Len(arrays') >= Len(arrays), k <= Len(arrays')
    PROVE  RefGoes(t) /\ ref'[t] = k
<1>1. Len(arrays') \in Nat /\ Len(arrays) \in Nat
    BY ArraysAre DEF Types
<1>2. ref \in [Turns -> Nat] /\ \A s \in Turns : ref[s] \in 0..Len(arrays)
    BY DEF Types
<1>3. ref' \in [Turns -> Nat] /\ ref'[t] = k /\ \A s \in Turns : s # t => ref'[s] = ref[s]
    BY <1>2
<1>. QED
    BY <1>1, <1>2, <1>3 DEF RefGoes

LEMMA RefStays ==
    ASSUME Types, NEW t \in Turns, ref' = ref, arrays' = arrays
    PROVE  RefGoes(t)
BY DEF Types, RefGoes

\* What a step that goes on to where leaves of the types, and what it must show.
LEMMA GoTypes ==
    ASSUME Types, Held, NEW t \in Turns, NEW there \in UnderWay \cup {"done", "failed"}, Goto(t, there),
           twofold' \in BOOLEAN, cleared' = cleared, gone' = gone,
           arrays' \in Arrays, linked' \in [Turns -> BOOLEAN],
           made' \in [Turns -> Histories], file' \in Histories, torn' \in BOOLEAN,
           RefGoes(t), there \in Writing \cup {"asking"} => ref'[t] > 0
    PROVE  Types' /\ Held'
<1>1. /\ pc' \in [Turns -> UnderWay \cup {"new", "done", "failed"}]
      /\ pc'[t] = there /\ \A s \in Turns : s # t => pc'[s] = pc[s]
      /\ overlap' \in BOOLEAN /\ tangled' \in BOOLEAN /\ excused' \in SUBSET Turns
    BY GotoIs DEF Types
<1>2. Held'
    BY <1>1 DEF Held, RefGoes
<1>. QED
    BY <1>1, <1>2 DEF Types, RefGoes

LEMMA CurrentIs ==
    ASSUME Types
    PROVE  /\ Current \in Histories /\ Current = arrays[Len(arrays)] /\ Len(arrays) \in DOMAIN arrays
           /\ Len(arrays) \in Nat \ {0} /\ DOMAIN arrays = 1..Len(arrays)
           /\ \A k \in DOMAIN arrays : arrays[k] \in Histories
BY ArraysAre DEF Types, Current

LEMMA BeginTypes ==
    ASSUME Types, Held, NEW t \in Turns, Begin(t)
    PROVE  Types' /\ Held'
<1>1. /\ arrays' = arrays /\ linked' = linked /\ file' = file /\ torn' = torn
      /\ cleared' = cleared /\ gone' = gone /\ twofold' = twofold
    BY DEF Begin, disk
<1>2. Len(arrays) \in 1..Len(arrays) /\ Len(arrays) \in Nat
    BY CurrentIs
<1>3. CASE Hold(t) /\ UNCHANGED made
    <2>1. ref' = [ref EXCEPT ![t] = Len(arrays)] /\ Goto(t, "asking") /\ made' = made
        BY <1>3 DEF Hold
    <2>2. ref'[t] > 0 /\ RefGoes(t)
        <3>1. Len(arrays) \in Nat /\ arrays' \in Arrays /\ Len(arrays') >= Len(arrays) /\ Len(arrays) <= Len(arrays')
            BY <1>1, <1>2, <2>1 DEF Types
        <3>2. RefGoes(t) /\ ref'[t] = Len(arrays)
            BY <2>1, <3>1, RefGo, Zenon
        <3>. QED
            BY <1>2, <3>2
    <2>3. "asking" \in UnderWay \cup {"done", "failed"}
        BY DEF UnderWay
    <2>. QED
        BY <1>1, <1>2, <2>1, <2>2, <2>3, GoTypes DEF Types
<1>4. CASE /\ MayCompact(Current)
           /\ made' = [made EXCEPT ![t] = Fold(Current)]
           /\ Goto(t, "folding") /\ UNCHANGED ref
    <2>1. Fold(Current) \in Histories
        BY <1>4, FoldIs, CurrentIs
    <2>2. made' \in [Turns -> Histories]
        BY <1>4, <2>1 DEF Types
    <2>4. RefGoes(t)
        BY <1>1, <1>4, RefStays
    <2>3. "folding" \in UnderWay \cup {"done", "failed"} /\ "folding" \notin Writing \cup {"asking"}
        BY DEF UnderWay, Compacting, Writing
    <2>. QED
        BY <1>1, <1>2, <1>4, <2>2, <2>3, <2>4, GoTypes DEF Types
<1>. QED
    BY <1>3, <1>4 DEF Begin

LEMMA FoldTypes ==
    ASSUME Types, Held, NEW t \in Turns, Folded(t) \/ FoldFails(t)
    PROVE  Types' /\ Held'
<1>1. /\ linked' = linked /\ file' = file /\ torn' = torn
      /\ cleared' = cleared /\ gone' = gone /\ twofold' = twofold
    BY DEF Folded, FoldFails, disk
<1>2. Len(arrays) \in 1..Len(arrays) /\ Len(arrays) \in Nat
    BY CurrentIs
<1>3. CASE Folded(t)
    <2>1. /\ arrays' = Append(arrays, made[t]) /\ ref' = [ref EXCEPT ![t] = Len(arrays')]
          /\ Goto(t, "rewriting") /\ made' = made
        BY <1>3 DEF Folded
    <2>2. arrays' \in Arrays /\ Len(arrays') = Len(arrays) + 1
        BY <2>1, Appended DEF Types
    <2>3. ref'[t] > 0 /\ RefGoes(t)
        <3>1. Len(arrays') \in Nat /\ Len(arrays') >= Len(arrays) /\ Len(arrays') <= Len(arrays')
            BY <1>2, <2>2
        <3>2. RefGoes(t) /\ ref'[t] = Len(arrays')
            BY <2>1, <2>2, <3>1, RefGo, Zenon
        <3>. QED
            BY <1>2, <2>2, <3>2
    <2>4. "rewriting" \in UnderWay \cup {"done", "failed"}
        BY DEF UnderWay, Compacting
    <2>. QED
        BY <1>1, <2>1, <2>2, <2>3, <2>4, GoTypes DEF Types
<1>4. CASE FoldFails(t)
    <2>1. /\ arrays' = arrays /\ ref' = [ref EXCEPT ![t] = Len(arrays)]
          /\ Goto(t, "asking") /\ made' = [made EXCEPT ![t] = <<>>]
        BY <1>4 DEF FoldFails, Hold
    <2>2. ref'[t] > 0 /\ RefGoes(t)
        <3>1. Len(arrays) \in Nat /\ arrays' \in Arrays /\ Len(arrays') >= Len(arrays) /\ Len(arrays) <= Len(arrays')
            BY <1>1, <1>2, <2>1 DEF Types
        <3>2. RefGoes(t) /\ ref'[t] = Len(arrays)
            BY <2>1, <3>1, RefGo, Zenon
        <3>. QED
            BY <1>2, <3>2
    <2>3. "asking" \in UnderWay \cup {"done", "failed"}
        BY DEF UnderWay
    <2>4. made' \in [Turns -> Histories]
        BY <2>1, EmptyHistory DEF Types
    <2>. QED
        BY <1>1, <1>2, <2>1, <2>2, <2>3, <2>4, GoTypes DEF Types
<1>. QED
    BY <1>3, <1>4

LEMMA RewriteTypes ==
    ASSUME Types, Held, NEW t \in Turns, WriteTemp(t) \/ Rename(t) \/ Compacted(t)
    PROVE  Types' /\ Held'
<1>1. arrays' = arrays /\ cleared' = cleared /\ gone' = gone
    BY DEF WriteTemp, Rename, Compacted
<1>2. Len(arrays) \in 1..Len(arrays) /\ Len(arrays) \in Nat
    BY CurrentIs
<1>3. CASE WriteTemp(t)
    <2>1. /\ ref' = ref /\ linked' = linked /\ file' = file /\ torn' = torn
          /\ made' = [made EXCEPT ![t] = arrays[ref[t]]] /\ Goto(t, "renaming")
          /\ twofold' = (twofold \/ \E s \in In(Appending) : Telling(<<s, "assistant">>, made'[t]) # {})
          /\ pc[t] = "rewriting"
        BY <1>3 DEF WriteTemp, disk, At
    <2>2. ref[t] \in DOMAIN arrays /\ ref[t] > 0
        BY <1>2, <2>1, CurrentIs DEF Types, Held, Writing
    <2>3. made' \in [Turns -> Histories]
        BY <2>1, <2>2, CurrentIs DEF Types
    <2>4. "renaming" \in UnderWay \cup {"done", "failed"}
        BY DEF UnderWay, Compacting
    <2>5. twofold' \in BOOLEAN /\ RefGoes(t)
        BY <1>1, <2>1, RefStays DEF Types
    <2>. QED
        BY <1>1, <1>2, <2>1, <2>2, <2>3, <2>4, <2>5, GoTypes DEF Types
<1>4. CASE Rename(t)
    <2>1. /\ ref' = ref /\ linked' = [s \in Turns |-> FALSE] /\ file' = made[t] /\ torn' = FALSE
          /\ made' = [made EXCEPT ![t] = <<>>] /\ Goto(t, "folded") /\ twofold' = twofold
          /\ pc[t] = "renaming"
        BY <1>4 DEF Rename, disk, At
    <2>2. ref[t] > 0 /\ RefGoes(t)
        BY <1>1, <2>1, RefStays DEF Held, Writing
    <2>3. made' \in [Turns -> Histories]
        BY <2>1, EmptyHistory DEF Types
    <2>4. "folded" \in UnderWay \cup {"done", "failed"}
        BY DEF UnderWay, Compacting
    <2>5. file' \in Histories /\ linked' \in [Turns -> BOOLEAN] /\ torn' \in BOOLEAN
        BY <2>1 DEF Types
    <2>. QED
        BY <1>1, <1>2, <2>1, <2>2, <2>3, <2>4, <2>5, GoTypes DEF Types
<1>5. CASE Compacted(t)
    <2>1. /\ ref' = [ref EXCEPT ![t] = Len(arrays)] /\ linked' = linked /\ file' = file /\ torn' = torn
          /\ made' = made /\ Goto(t, "asking") /\ twofold' = twofold
        BY <1>5 DEF Compacted, Hold, disk
    <2>2. ref'[t] > 0 /\ RefGoes(t)
        <3>1. Len(arrays) \in Nat /\ arrays' \in Arrays /\ Len(arrays') >= Len(arrays) /\ Len(arrays) <= Len(arrays')
            BY <1>1, <1>2, <2>1 DEF Types
        <3>2. RefGoes(t) /\ ref'[t] = Len(arrays)
            BY <2>1, <3>1, RefGo, Zenon
        <3>. QED
            BY <1>2, <3>2
    <2>3. "asking" \in UnderWay \cup {"done", "failed"}
        BY DEF UnderWay
    <2>. QED
        BY <1>1, <1>2, <2>1, <2>2, <2>3, GoTypes DEF Types
<1>. QED
    BY <1>3, <1>4, <1>5

\* The array the turn holds is the one it is pushed to.
LEMMA AnswerIs ==
    ASSUME Types, Held, NEW t \in Turns, Answer(t)
    PROVE  /\ pc[t] = "asking" /\ ref[t] \in DOMAIN arrays
           /\ arrays' \in Arrays /\ Len(arrays') = Len(arrays) /\ DOMAIN arrays' = DOMAIN arrays
           /\ arrays'[ref[t]] = arrays[ref[t]] \o Pair(t)
           /\ \A k \in DOMAIN arrays : k # ref[t] => arrays'[k] = arrays[k]
           /\ Current' = IF ref[t] = Len(arrays) THEN Current \o Pair(t) ELSE Current
           /\ ref' = [ref EXCEPT ![t] = 0] /\ Goto(t, "opening")
           /\ made' = made /\ linked' = linked /\ file' = file /\ torn' = torn
           /\ cleared' = cleared /\ gone' = gone /\ twofold' = twofold
<1>1. /\ pc[t] = "asking" /\ arrays' = [arrays EXCEPT ![ref[t]] = arrays[ref[t]] \o Pair(t)]
      /\ ref' = [ref EXCEPT ![t] = 0] /\ Goto(t, "opening")
      /\ made' = made /\ linked' = linked /\ file' = file /\ torn' = torn
      /\ cleared' = cleared /\ gone' = gone /\ twofold' = twofold
    BY DEF Answer, At, disk
<1>2. ref[t] \in DOMAIN arrays
    BY <1>1, CurrentIs DEF Types, Held
<1>3. arrays[ref[t]] \o Pair(t) \in Histories
    BY <1>2, CurrentIs, PairIs, CatIs
<1>4. /\ arrays' \in Arrays /\ Len(arrays') = Len(arrays) /\ DOMAIN arrays' = DOMAIN arrays
      /\ arrays'[ref[t]] = arrays[ref[t]] \o Pair(t)
      /\ \A k \in DOMAIN arrays : k # ref[t] => arrays'[k] = arrays[k]
      /\ ref[t] = Len(arrays) => Last(arrays') = arrays[ref[t]] \o Pair(t)
      /\ ref[t] # Len(arrays) => Last(arrays') = Last(arrays)
    <2> DEFINE h == arrays[ref[t]] \o Pair(t)
    <2>1. h \in Histories /\ arrays' = [arrays EXCEPT ![ref[t]] = h] /\ arrays \in Arrays
        BY <1>1, <1>3 DEF Types
    <2> HIDE DEF h
    <2>2. /\ arrays' \in Arrays /\ Len(arrays') = Len(arrays) /\ DOMAIN arrays' = DOMAIN arrays
          /\ arrays'[ref[t]] = h
          /\ \A k \in DOMAIN arrays : k # ref[t] => arrays'[k] = arrays[k]
        BY <1>2, <2>1, Pushed
    <2>3. /\ ref[t] = Len(arrays) => Last(arrays') = h
          /\ ref[t] # Len(arrays) => Last(arrays') = Last(arrays)
        BY <1>2, <2>1, <2>2, ArraysAre
    <2>. QED
        BY <2>2, <2>3 DEF h
<1>5. Current' = Last(arrays') /\ Current = Last(arrays) /\ Current = arrays[Len(arrays)]
    BY CurrentIs DEF Current
<1>. QED
    BY <1>1, <1>2, <1>4, <1>5

LEMMA AskingTypes ==
    ASSUME Types, Held, NEW t \in Turns, Answer(t) \/ TurnFails(t)
    PROVE  Types' /\ Held'
<1>1. CASE Answer(t)
    <2>1. /\ arrays' \in Arrays /\ Len(arrays') = Len(arrays) /\ ref' = [ref EXCEPT ![t] = 0]
          /\ Goto(t, "opening") /\ made' = made /\ linked' = linked /\ file' = file /\ torn' = torn
          /\ cleared' = cleared /\ gone' = gone /\ twofold' = twofold
        BY <1>1, AnswerIs
    <2>2. Len(arrays') >= Len(arrays) /\ 0 <= Len(arrays') /\ 0 \in Nat
        BY <2>1, CurrentIs
    <2>3. RefGoes(t)
        BY <2>1, <2>2, RefGo, Zenon
    <2>4. "opening" \in UnderWay \cup {"done", "failed"} /\ "opening" \notin Writing \cup {"asking"}
        BY DEF UnderWay, Appending, Writing
    <2>. QED
        BY <2>1, <2>3, <2>4, GoTypes DEF Types
<1>2. CASE TurnFails(t)
    <2>1. /\ arrays' = arrays /\ ref' = [ref EXCEPT ![t] = 0]
          /\ Goto(t, "failed") /\ made' = made /\ linked' = linked /\ file' = file /\ torn' = torn
          /\ cleared' = cleared /\ gone' = gone /\ twofold' = twofold
        BY <1>2 DEF TurnFails, disk
    <2>2. arrays' \in Arrays /\ Len(arrays') >= Len(arrays) /\ 0 <= Len(arrays') /\ 0 \in Nat
        BY <2>1, CurrentIs DEF Types
    <2>3. RefGoes(t)
        BY <2>1, <2>2, RefGo, Zenon
    <2>4. "failed" \in UnderWay \cup {"done", "failed"} /\ "failed" \notin Writing \cup {"asking"}
        BY DEF Writing
    <2>. QED
        BY <2>1, <2>3, <2>4, GoTypes DEF Types
<1>. QED
    BY <1>1, <1>2

\* A failing file operation, and the append that does not go by Goto.
LEMMA FailsIs ==
    ASSUME Types, NEW t \in Turns, NEW there \in {"folded", "done"}, Fails(t, there)
    PROVE  /\ pc' = [pc EXCEPT ![t] = there] /\ pc'[t] = there
           /\ \A s \in Turns : s # t => pc'[s] = pc[s]
           /\ overlap' = overlap /\ tangled' = TRUE /\ excused' = excused \cup {t}
           /\ pc' \in [Turns -> UnderWay \cup {"new", "done", "failed"}]
           /\ overlap' \in BOOLEAN /\ tangled' \in BOOLEAN /\ excused' \in SUBSET Turns
BY DEF Fails, Types, UnderWay, Compacting

LEMMA FailTypes ==
    ASSUME Types, Held, NEW t \in Turns, RewriteFails(t)
    PROVE  Types' /\ Held'
<1>1. /\ pc[t] \in {"rewriting", "renaming"} /\ made' = [made EXCEPT ![t] = <<>>]
      /\ arrays' = arrays /\ ref' = ref /\ linked' = linked /\ file' = file /\ torn' = torn
      /\ cleared' = cleared /\ gone' = gone /\ twofold' = twofold /\ Fails(t, "folded")
    BY DEF RewriteFails, disk
<1>2. made' \in [Turns -> Histories]
    BY <1>1, EmptyHistory DEF Types
<1>3. Held'
    BY <1>1, FailsIs DEF Held, Writing
<1>. QED
    BY <1>1, <1>2, <1>3, FailsIs DEF Types

LEMMA AppendTypes ==
    ASSUME Types, Held, NEW t \in Turns, AppendOpen(t) \/ AppendWrite(t) \/ AppendFails(t)
    PROVE  Types' /\ Held'
<1>1. /\ arrays' = arrays /\ ref' = ref /\ made' = made
      /\ cleared' = cleared /\ gone' = gone /\ twofold' = twofold
    BY DEF AppendOpen, AppendWrite, AppendFails
<1>2. RefGoes(t)
    BY <1>1, RefStays
<1>3. CASE AppendOpen(t)
    <2>1. linked' = [linked EXCEPT ![t] = TRUE] /\ Goto(t, "writing") /\ file' = file /\ torn' = torn
        BY <1>3 DEF AppendOpen, disk
    <2>2. "writing" \in UnderWay \cup {"done", "failed"} /\ "writing" \notin Writing \cup {"asking"}
        BY DEF UnderWay, Appending, Writing
    <2>3. linked' \in [Turns -> BOOLEAN]
        BY <2>1 DEF Types
    <2>. QED
        BY <1>1, <1>2, <2>1, <2>2, <2>3, GoTypes DEF Types
<1>4. CASE AppendWrite(t) \/ AppendFails(t)
    <2>1. linked' \in [Turns -> BOOLEAN]
        BY <1>4 DEF AppendWrite, AppendFails, Types
    <2>2. file' \in Histories /\ torn' \in BOOLEAN
        BY <1>4, AppendsIs DEF Appends
    <2>3. CASE Goto(t, "done")
        <3>1. "done" \notin Writing \cup {"asking"}
            BY DEF Writing
        <3>. QED
            BY <1>1, <1>2, <2>1, <2>2, <2>3, <3>1, GoTypes DEF Types
    <2>4. CASE pc' = [pc EXCEPT ![t] = "done"] /\ tangled' = TRUE /\ UNCHANGED <<overlap, excused>>
        <3>1. /\ pc' \in [Turns -> UnderWay \cup {"new", "done", "failed"}]
              /\ pc'[t] = "done" /\ \A s \in Turns : s # t => pc'[s] = pc[s]
            BY <2>4 DEF Types
        <3>2. Held'
            BY <1>1, <3>1 DEF Held, Writing
        <3>. QED
            BY <1>1, <2>1, <2>2, <2>4, <3>1, <3>2 DEF Types
    <2>5. CASE Fails(t, "done")
        <3>1. Held'
            BY <1>1, <2>5, FailsIs DEF Held, Writing
        <3>. QED
            BY <1>1, <2>1, <2>2, <2>5, <3>1, FailsIs DEF Types
    <2>. QED
        BY <1>4, <2>3, <2>4, <2>5 DEF AppendWrite, AppendFails
<1>. QED
    BY <1>3, <1>4

LEMMA ResetIs ==
    ASSUME Types, Reset \/ ResetFails
    PROVE  /\ arrays' \in Arrays /\ Len(arrays') = Len(arrays) + 1 /\ Current' = <<>>
           /\ \A k \in DOMAIN arrays : k \in DOMAIN arrays' /\ arrays'[k] = arrays[k]
           /\ \A k \in DOMAIN arrays' : k \in DOMAIN arrays \/ arrays'[k] = <<>>
           /\ pc' = pc /\ ref' = ref /\ made' = made /\ twofold' = twofold /\ overlap' = overlap
           /\ cleared' = cleared \cup Said /\ excused' = excused \cup In(UnderWay)
           /\ \/ Reset /\ file' = <<>> /\ torn' = FALSE /\ linked' = [s \in Turns |-> FALSE]
              \/ ResetFails /\ file' = file /\ torn' = torn /\ linked' = linked
<1>1. /\ arrays' = Append(arrays, <<>>)
      /\ pc' = pc /\ ref' = ref /\ made' = made /\ twofold' = twofold /\ overlap' = overlap
      /\ cleared' = cleared \cup Said /\ excused' = excused \cup In(UnderWay)
    BY DEF Reset, ResetFails, Cleared
<1>2. /\ arrays' \in Arrays /\ Len(arrays') = Len(arrays) + 1 /\ Last(arrays') = <<>>
      /\ \A k \in DOMAIN arrays : k \in DOMAIN arrays' /\ arrays'[k] = arrays[k]
      /\ \A k \in DOMAIN arrays' : k \in DOMAIN arrays \/ arrays'[k] = <<>>
    <2> DEFINE e == <<>>
    <2>1. arrays' = Append(arrays, e) /\ arrays \in Arrays /\ e \in Histories
        BY <1>1, EmptyHistory DEF Types
    <2> HIDE DEF e
    <2>2. /\ arrays' \in Arrays /\ Len(arrays') = Len(arrays) + 1 /\ Last(arrays') = e
          /\ arrays'[Len(arrays) + 1] = e
          /\ \A k \in DOMAIN arrays : k \in DOMAIN arrays' /\ arrays'[k] = arrays[k]
          /\ \A k \in DOMAIN arrays' : k \in DOMAIN arrays \/ k = Len(arrays) + 1
        BY <2>1, Appended
    <2>. QED
        BY <2>2 DEF e
<1>3. \/ Reset /\ file' = <<>> /\ torn' = FALSE /\ linked' = [s \in Turns |-> FALSE]
      \/ ResetFails /\ file' = file /\ torn' = torn /\ linked' = linked
    BY DEF Reset, ResetFails, disk
<1>. QED
    BY <1>1, <1>2, <1>3 DEF Current

LEMMA ResetTypes ==
    ASSUME Types, Held, Reset \/ ResetFails
    PROVE  Types' /\ Held'
<1>1. cleared' \in SUBSET Turns /\ excused' \in SUBSET Turns /\ gone' \in SUBSET Turns
    <2>1. /\ cleared' = cleared \cup Said /\ excused' = excused \cup In(UnderWay)
          /\ gone' = cleared' \/ gone' = gone
        BY DEF Reset, ResetFails, Cleared
    <2>2. Said \subseteq Turns /\ In(UnderWay) \subseteq Turns
        BY DEF Said, In
    <2>. QED
        BY <2>1, <2>2 DEF Types
<1>2. tangled' \in BOOLEAN
    BY DEF Reset, ResetFails, Cleared, Types
<1>3. file' \in Histories /\ torn' \in BOOLEAN /\ linked' \in [Turns -> BOOLEAN]
    BY ResetIs, EmptyHistory DEF Types
<1>4. \A s \in Turns : ref'[s] \in 0..Len(arrays')
    <2>1. ref' = ref /\ Len(arrays') = Len(arrays) + 1 /\ Len(arrays) \in Nat
        BY ResetIs, CurrentIs
    <2>. QED
        BY <2>1 DEF Types
<1>5. Held'
    BY ResetIs DEF Held
<1>. QED
    BY <1>1, <1>2, <1>3, <1>4, <1>5, ResetIs DEF Types

LEMMA RestartIs ==
    ASSUME Types, Restart
    PROVE  /\ arrays' \in Arrays /\ Len(arrays') = 1 /\ Current' = file /\ DOMAIN arrays' = {1} /\ arrays'[1] = file
           /\ pc' \in [Turns -> {"new", "done", "failed"}]
           /\ \A s \in Turns : pc'[s] = IF pc[s] \in UnderWay THEN "failed" ELSE pc[s]
           /\ ref' = [s \in Turns |-> 0] /\ made' = [s \in Turns |-> <<>>] /\ linked' = [s \in Turns |-> FALSE]
           /\ file' = file /\ torn' = torn /\ overlap' = FALSE /\ tangled' = FALSE
           /\ excused' = excused /\ cleared' = cleared /\ gone' = gone /\ twofold' = twofold
<1>1. /\ arrays' = <<file>>
      /\ ref' = [s \in Turns |-> 0] /\ made' = [s \in Turns |-> <<>>] /\ linked' = [s \in Turns |-> FALSE]
      /\ file' = file /\ torn' = torn /\ overlap' = FALSE /\ tangled' = FALSE
      /\ excused' = excused /\ cleared' = cleared /\ gone' = gone /\ twofold' = twofold
      /\ pc' = [t \in Turns |-> IF pc[t] \in UnderWay THEN "failed" ELSE pc[t]]
    BY DEF Restart, disk
<1>2. arrays' \in Arrays /\ Len(arrays') = 1 /\ Last(arrays') = file /\ DOMAIN arrays' = {1} /\ arrays'[1] = file
    BY <1>1, Alone DEF Types
<1>3. \A s \in Turns : pc'[s] = IF pc[s] \in UnderWay THEN "failed" ELSE pc[s]
    BY <1>1
<1>4. \A s \in Turns : pc[s] \in UnderWay \cup {"new", "done", "failed"}
    BY DEF Types
<1>5. pc' \in [Turns -> {"new", "done", "failed"}]
    BY <1>1, <1>4
<1>. QED
    BY <1>1, <1>2, <1>3, <1>5 DEF Current

LEMMA RestartTypes ==
    ASSUME Types, Held, Restart
    PROVE  Types' /\ Held'
<1>1. \A x \in {"new", "done", "failed"} : x \notin UnderWay /\ x \notin Writing /\ x # "asking"
    BY DEF UnderWay, Compacting, Appending, Writing
<1>2. made' \in [Turns -> Histories] /\ ref' \in [Turns -> Nat] /\ linked' \in [Turns -> BOOLEAN]
    <2>1. /\ ref' = [s \in Turns |-> 0] /\ linked' = [s \in Turns |-> FALSE]
          /\ made' = [s \in Turns |-> <<>>]
        BY RestartIs, Zenon
    <2>2. ref' \in [Turns -> Nat] /\ linked' \in [Turns -> BOOLEAN]
        BY <2>1
    <2>3. made' \in [Turns -> Histories]
        BY <2>1, EmptyHistory, Zenon
    <2>. QED
        BY <2>2, <2>3
<1>3. \A s \in Turns : ref'[s] \in 0..Len(arrays')
    BY RestartIs
<1>4. pc' \in [Turns -> UnderWay \cup {"new", "done", "failed"}] /\ Held'
    BY <1>1, RestartIs DEF Held
<1>. QED
    BY <1>2, <1>3, <1>4, RestartIs DEF Types

LEMMA TypesStep ==
    ASSUME Types, Held, [HistoryNext]_historyVars
    PROVE  Types' /\ Held'
<1>1. CASE UNCHANGED historyVars
    BY <1>1 DEF historyVars, Types, Held
<1>2. ASSUME NEW t \in Turns, Begin(t) PROVE Types' /\ Held'
    BY <1>2, BeginTypes
<1>3. ASSUME NEW t \in Turns, Folded(t) \/ FoldFails(t) PROVE Types' /\ Held'
    BY <1>3, FoldTypes
<1>4. ASSUME NEW t \in Turns, WriteTemp(t) \/ Rename(t) \/ Compacted(t) PROVE Types' /\ Held'
    BY <1>4, RewriteTypes
<1>5. ASSUME NEW t \in Turns, RewriteFails(t) PROVE Types' /\ Held'
    BY <1>5, FailTypes
<1>6. ASSUME NEW t \in Turns, Answer(t) \/ TurnFails(t) PROVE Types' /\ Held'
    BY <1>6, AskingTypes
<1>7. ASSUME NEW t \in Turns, AppendOpen(t) \/ AppendWrite(t) \/ AppendFails(t) PROVE Types' /\ Held'
    BY <1>7, AppendTypes
<1>8. CASE Reset \/ ResetFails
    BY <1>8, ResetTypes
<1>9. CASE Restart
    BY <1>9, RestartTypes
<1>. QED
    BY <1>1, <1>2, <1>3, <1>4, <1>5, <1>6, <1>7, <1>8, <1>9, NextCases

LEMMA CountsStep ==
    ASSUME Counts, [HistoryNext]_historyVars
    PROVE  Counts'
<1>. USE HistoryAssumption DEF Counts
<1>1. CASE UNCHANGED historyVars
    BY <1>1 DEF historyVars
<1>2. ASSUME NEW t \in Turns, Begin(t) \/ Folded(t) \/ FoldFails(t) \/ WriteTemp(t) \/ Rename(t) \/ Compacted(t)
      PROVE  Counts'
    BY <1>2 DEF Begin, Folded, FoldFails, WriteTemp, Rename, Compacted, bounds
<1>3. ASSUME NEW t \in Turns, Answer(t) \/ TurnFails(t) \/ AppendOpen(t) \/ AppendWrite(t)
      PROVE  Counts'
    BY <1>3 DEF Answer, TurnFails, AppendOpen, AppendWrite, bounds
<1>4. ASSUME NEW t \in Turns, RewriteFails(t) \/ AppendFails(t) PROVE Counts'
    BY <1>4 DEF RewriteFails, AppendFails, Fails
<1>5. CASE Reset \/ ResetFails
    BY <1>5 DEF Reset, ResetFails, Cleared
<1>6. CASE Restart
    BY <1>6 DEF Restart
<1>. QED
    BY <1>1, <1>2, <1>3, <1>4, <1>5, <1>6, NextCases

LEMMA TypesInit == HistoryInit => Types /\ Held /\ Counts
<1>. SUFFICES ASSUME HistoryInit PROVE Types /\ Held /\ Counts
    OBVIOUS
<1>1. file = Hydrated /\ torn = FALSE /\ arrays = <<file>>
    BY DEF HistoryInit
<1>2. file \in Histories /\ arrays \in Arrays /\ Len(arrays) = 1
    BY <1>1, HydratedIs, Alone
<1>3. /\ pc \in [Turns -> {"new", "done"}] /\ ref = [t \in Turns |-> 0]
      /\ made = [t \in Turns |-> <<>>] /\ linked = [t \in Turns |-> FALSE]
    BY DEF HistoryInit
<1>4. made \in [Turns -> Histories] /\ ref \in [Turns -> Nat] /\ \A t \in Turns : ref[t] \in 0..Len(arrays)
    BY <1>2, <1>3, EmptyHistory
<1>5. Held
    BY <1>3 DEF Held, Writing
<1>6. Counts
    BY HistoryAssumption DEF HistoryInit, Counts
<1>7. /\ overlap \in BOOLEAN /\ tangled \in BOOLEAN /\ twofold \in BOOLEAN
      /\ excused \in SUBSET Turns /\ cleared \in SUBSET Turns /\ gone \in SUBSET Turns
    BY DEF HistoryInit
<1>. QED
    BY <1>1, <1>2, <1>3, <1>4, <1>5, <1>6, <1>7 DEF Types

LEMMA TypesAre == Types /\ Held /\ Counts => HistoryTypeOK
<1>. SUFFICES ASSUME Types, Held, Counts PROVE HistoryTypeOK
    OBVIOUS
<1>1. arrays \in Seq(Seq(Messages)) /\ arrays # <<>> /\ file \in Seq(Messages) /\ made \in [Turns -> Seq(Messages)]
    BY DEF Types, Arrays, Histories
<1>2. ref \in [Turns -> 0..Len(arrays)] /\ \A t \in Turns : At(t, "asking") => ref[t] > 0
    BY DEF Types, Held, At
<1>. QED
    BY <1>1, <1>2 DEF Types, Counts, HistoryTypeOK

LEMMA TypesCorrect == HistorySpec => [](Types /\ Held)
<1>1. HistoryInit => Types /\ Held
    BY TypesInit
<1>2. (Types /\ Held) /\ [HistoryNext]_historyVars => (Types /\ Held)'
    BY TypesStep
<1>. QED
    BY <1>1, <1>2, PTL DEF HistorySpec
-----------------------------------------------------------------------------
(* What each step does, turn by turn.                                      *)

\* getOrCreateHistory, at the beginning or after a compaction
Holding(t) == (Begin(t) /\ Hold(t) /\ UNCHANGED made) \/ FoldFails(t) \/ Compacted(t)

\* The compaction at the beginning
Folding(t) == Begin(t) /\ MayCompact(Current) /\ made' = [made EXCEPT ![t] = Fold(Current)]
              /\ Goto(t, "folding") /\ UNCHANGED ref

LEMMA Steps ==
    ASSUME [HistoryNext]_historyVars
    PROVE  UNCHANGED historyVars \/ Reset \/ ResetFails \/ Restart
           \/ \E t \in Turns : \/ Holding(t) \/ Folding(t) \/ Folded(t) \/ WriteTemp(t) \/ Rename(t)
                               \/ RewriteFails(t) \/ Answer(t) \/ TurnFails(t)
                               \/ AppendOpen(t) \/ Appends(t)
<1>1. ASSUME NEW t \in Turns, Begin(t) PROVE Holding(t) \/ Folding(t)
    BY <1>1 DEF Begin, Holding, Folding
<1>2. ASSUME HistoryNext
      PROVE  Reset \/ ResetFails \/ Restart
             \/ \E t \in Turns : \/ Holding(t) \/ Folding(t) \/ Folded(t) \/ WriteTemp(t) \/ Rename(t)
                                 \/ RewriteFails(t) \/ Answer(t) \/ TurnFails(t)
                                 \/ AppendOpen(t) \/ Appends(t)
    BY <1>1, <1>2, NextCases DEF Holding, Appends
<1>. QED
    BY <1>2

Frame == cleared' = cleared /\ gone' = gone

LEMMA HoldingIs ==
    ASSUME Types, NEW t \in Turns, Holding(t)
    PROVE  /\ pc[t] \in {"new", "folding", "folded"} /\ Goto(t, "asking")
           /\ ref'[t] = Len(arrays) /\ \A s \in Turns : s # t => ref'[s] = ref[s]
           /\ made'[t] \in {made[t], <<>>} /\ \A s \in Turns : s # t => made'[s] = made[s]
           /\ arrays' = arrays /\ linked' = linked /\ file' = file /\ torn' = torn
           /\ Frame /\ twofold' = twofold
<1>1. /\ pc[t] \in {"new", "folding", "folded"} /\ Goto(t, "asking")
      /\ ref' = [ref EXCEPT ![t] = Len(arrays)]
      /\ made' = made \/ made' = [made EXCEPT ![t] = <<>>]
      /\ arrays' = arrays /\ linked' = linked /\ file' = file /\ torn' = torn
      /\ Frame /\ twofold' = twofold
    BY DEF Holding, Begin, FoldFails, Compacted, Hold, At, disk, Frame
<1>. QED
    BY <1>1 DEF Types

LEMMA FoldingIs ==
    ASSUME Types, NEW t \in Turns, Folding(t)
    PROVE  /\ pc[t] = "new" /\ Goto(t, "folding") /\ ref' = ref
           /\ made'[t] \in Histories /\ Told(made'[t]) = Told(Current) /\ (Once(Current) => Once(made'[t]))
           /\ \A s \in Turns : s # t => made'[s] = made[s]
           /\ arrays' = arrays /\ linked' = linked /\ file' = file /\ torn' = torn
           /\ Frame /\ twofold' = twofold
<1>1. /\ pc[t] = "new" /\ Goto(t, "folding") /\ ref' = ref
      /\ made' = [made EXCEPT ![t] = Fold(Current)] /\ MayCompact(Current)
      /\ arrays' = arrays /\ linked' = linked /\ file' = file /\ torn' = torn
      /\ Frame /\ twofold' = twofold
    BY DEF Folding, Begin, At, disk, Frame
<1>2. made'[t] = Fold(Current) /\ \A s \in Turns : s # t => made'[s] = made[s]
    BY <1>1 DEF Types
<1>. QED
    BY <1>1, <1>2, FoldIs, CurrentIs

LEMMA FoldedIs ==
    ASSUME Types, NEW t \in Turns, Folded(t)
    PROVE  /\ pc[t] = "folding" /\ Goto(t, "rewriting")
           /\ arrays' \in Arrays /\ Len(arrays') = Len(arrays) + 1 /\ Current' = made[t]
           /\ arrays'[Len(arrays')] = made[t] /\ ref'[t] = Len(arrays')
           /\ \A k \in DOMAIN arrays : k \in DOMAIN arrays' /\ arrays'[k] = arrays[k]
           /\ \A k \in DOMAIN arrays' : k \in DOMAIN arrays \/ arrays'[k] = made[t]
           /\ \A s \in Turns : s # t => ref'[s] = ref[s]
           /\ made' = made /\ linked' = linked /\ file' = file /\ torn' = torn
           /\ Frame /\ twofold' = twofold
<1>1. /\ pc[t] = "folding" /\ Goto(t, "rewriting")
      /\ arrays' = Append(arrays, made[t]) /\ ref' = [ref EXCEPT ![t] = Len(arrays')]
      /\ made' = made /\ linked' = linked /\ file' = file /\ torn' = torn
      /\ Frame /\ twofold' = twofold
    BY DEF Folded, At, disk, Frame
<1>2. ref'[t] = Len(arrays') /\ \A s \in Turns : s # t => ref'[s] = ref[s]
    BY <1>1 DEF Types
<1>3. arrays \in Arrays /\ made[t] \in Histories
    BY DEF Types
<1>4. /\ arrays' \in Arrays /\ Len(arrays') = Len(arrays) + 1 /\ Last(arrays') = made[t]
      /\ arrays'[Len(arrays) + 1] = made[t]
      /\ \A k \in DOMAIN arrays : k \in DOMAIN arrays' /\ arrays'[k] = arrays[k]
      /\ \A k \in DOMAIN arrays' : k \in DOMAIN arrays \/ k = Len(arrays) + 1
    BY <1>1, <1>3, Appended
<1>. QED
    BY <1>1, <1>2, <1>4 DEF Current

LEMMA WriteTempIs ==
    ASSUME Types, Held, NEW t \in Turns, WriteTemp(t)
    PROVE  /\ pc[t] = "rewriting" /\ Goto(t, "renaming") /\ ref[t] \in DOMAIN arrays
           /\ made'[t] = arrays[ref[t]] /\ \A s \in Turns : s # t => made'[s] = made[s]
           /\ \A s \in Turns : pc[s] \in Appending /\ <<s, "assistant">> \in Told(made'[t]) => twofold'
           /\ (twofold => twofold') /\ ref' = ref
           /\ arrays' = arrays /\ linked' = linked /\ file' = file /\ torn' = torn /\ Frame
<1>1. /\ pc[t] = "rewriting" /\ Goto(t, "renaming") /\ ref' = ref
      /\ made' = [made EXCEPT ![t] = arrays[ref[t]]]
      /\ twofold' = (twofold \/ \E s \in In(Appending) : Telling(<<s, "assistant">>, made'[t]) # {})
      /\ arrays' = arrays /\ linked' = linked /\ file' = file /\ torn' = torn /\ Frame
    BY DEF WriteTemp, At, disk, Frame
<1>2. made'[t] = arrays[ref[t]] /\ \A s \in Turns : s # t => made'[s] = made[s]
    BY <1>1 DEF Types
<1>3. ref[t] \in DOMAIN arrays
    <2>1. ref[t] > 0
        BY <1>1 DEF Held, Writing
    <2>. QED
        BY <2>1, CurrentIs DEF Types
<1>4. ASSUME NEW s \in Turns, pc[s] \in Appending, <<s, "assistant">> \in Told(made'[t]) PROVE twofold'
    <2>1. s \in In(Appending)
        BY <1>4 DEF In
    <2>2. Telling(<<s, "assistant">>, made'[t]) # {}
        BY <1>4, ToldOf DEF Telling
    <2>. QED
        BY <1>1, <2>1, <2>2
<1>. QED
    BY <1>1, <1>2, <1>3, <1>4

LEMMA RenameIs ==
    ASSUME Types, NEW t \in Turns, Rename(t)
    PROVE  /\ pc[t] = "renaming" /\ Goto(t, "folded") /\ file' = made[t] /\ torn' = FALSE
           /\ made'[t] = <<>> /\ \A s \in Turns : s # t => made'[s] = made[s]
           /\ arrays' = arrays /\ ref' = ref /\ Frame /\ twofold' = twofold
<1>1. /\ pc[t] = "renaming" /\ Goto(t, "folded") /\ file' = made[t] /\ torn' = FALSE
      /\ made' = [made EXCEPT ![t] = <<>>]
      /\ arrays' = arrays /\ ref' = ref /\ Frame /\ twofold' = twofold
    BY DEF Rename, At, Frame
<1>. QED
    BY <1>1 DEF Types

LEMMA RewriteFailsIs ==
    ASSUME Types, NEW t \in Turns, RewriteFails(t)
    PROVE  /\ pc[t] \in {"rewriting", "renaming"} /\ Fails(t, "folded")
           /\ made'[t] = <<>> /\ \A s \in Turns : s # t => made'[s] = made[s]
           /\ arrays' = arrays /\ ref' = ref /\ linked' = linked /\ file' = file /\ torn' = torn
           /\ Frame /\ twofold' = twofold
<1>1. /\ pc[t] \in {"rewriting", "renaming"} /\ Fails(t, "folded") /\ made' = [made EXCEPT ![t] = <<>>]
      /\ arrays' = arrays /\ ref' = ref /\ linked' = linked /\ file' = file /\ torn' = torn
      /\ Frame /\ twofold' = twofold
    BY DEF RewriteFails, disk, Frame
<1>. QED
    BY <1>1 DEF Types

LEMMA TurnFailsIs ==
    ASSUME Types, NEW t \in Turns, TurnFails(t)
    PROVE  /\ pc[t] = "asking" /\ Goto(t, "failed") /\ \A s \in Turns : s # t => ref'[s] = ref[s]
           /\ arrays' = arrays /\ made' = made /\ linked' = linked /\ file' = file /\ torn' = torn
           /\ Frame /\ twofold' = twofold
BY DEF TurnFails, At, disk, Frame, Types

LEMMA AppendOpenIs ==
    ASSUME Types, NEW t \in Turns, AppendOpen(t)
    PROVE  /\ pc[t] = "opening" /\ Goto(t, "writing") /\ linked'[t] = TRUE
           /\ \A s \in Turns : s # t => linked'[s] = linked[s]
           /\ arrays' = arrays /\ ref' = ref /\ made' = made /\ file' = file /\ torn' = torn
           /\ Frame /\ twofold' = twofold
BY DEF AppendOpen, At, disk, Frame, Types

\* The end of an append, which excuses its turn unless it returns in time.
LEMMA AppendsEnd ==
    ASSUME Types, NEW t \in Turns, Appends(t)
    PROVE  /\ pc[t] \in Appending /\ pc'[t] = "done" /\ \A s \in Turns : s # t => pc'[s] = pc[s]
           /\ \A s \in Turns : s # t => linked'[s] = linked[s]
           /\ (overlap => overlap') /\ (tangled => tangled') /\ excused \subseteq excused'
           /\ arrays' = arrays /\ ref' = ref /\ made' = made /\ Frame /\ twofold' = twofold
           /\ t \notin excused' => AppendWrite(t)
           /\ ~tangled' => AppendWrite(t) /\ pc[t] = "writing" /\ ~(linked[t] /\ torn)
           /\ AppendWrite(t) => pc[t] = "writing"
<1>1. /\ pc[t] \in Appending /\ linked' = [linked EXCEPT ![t] = FALSE]
      /\ arrays' = arrays /\ ref' = ref /\ made' = made /\ Frame /\ twofold' = twofold
    BY DEF Appends, AppendWrite, AppendFails, At, Appending, Frame
<1>2. \A s \in Turns : s # t => linked'[s] = linked[s]
    BY <1>1 DEF Types
<1>3. CASE AppendFails(t)
    <2>1. Fails(t, "done")
        BY <1>3 DEF AppendFails
    <2>. QED
        BY <1>1, <1>2, <2>1, FailsIs, <1>3 DEF AppendWrite, At
<1>4. CASE AppendWrite(t)
    <2>1. pc[t] = "writing"
        BY <1>4 DEF AppendWrite, At
    <2>2. CASE linked[t] /\ torn
        <3>1. pc' = [pc EXCEPT ![t] = "done"] /\ tangled' = TRUE /\ overlap' = overlap /\ excused' = excused
            BY <1>4, <2>2 DEF AppendWrite
        <3>2. pc'[t] = "done" /\ \A s \in Turns : s # t => pc'[s] = pc[s]
            BY <3>1 DEF Types
        <3>. QED
            BY <1>1, <1>2, <1>4, <2>1, <3>1, <3>2
    <2>3. CASE ~(linked[t] /\ torn)
        <3>1. Goto(t, "done")
            BY <1>4, <2>3 DEF AppendWrite
        <3>. QED
            BY <1>1, <1>2, <1>4, <2>1, <2>3, <3>1, GotoIs
    <2>. QED
        BY <2>2, <2>3
<1>. QED
    BY <1>3, <1>4 DEF Appends
-----------------------------------------------------------------------------
(* Who meets whom.                                                         *)

LEMMA Stages ==
    /\ Compacting \subseteq UnderWay /\ Appending \subseteq UnderWay /\ "asking" \in UnderWay
    /\ Compacting \cap Appending = {} /\ "asking" \notin Compacting \cup Appending
    /\ "folding" \in Compacting /\ "rewriting" \in Compacting /\ "renaming" \in Compacting /\ "folded" \in Compacting
    /\ "opening" \in Appending /\ "writing" \in Appending
    /\ "new" \notin UnderWay /\ "done" \notin UnderWay /\ "failed" \notin UnderWay
BY DEF UnderWay, Compacting, Appending

LEMMA MeetGo ==
    ASSUME Types, Meet, NEW t \in Turns, NEW there \in UnderWay \cup {"done", "failed"}, Goto(t, there)
    PROVE  Meet'
<1>1. SUFFICES ASSUME NEW u \in Turns, NEW s \in Turns, u # s, pc'[u] \in UnderWay
               PROVE  /\ pc'[s] \in Compacting => u \in excused' /\ tangled'
                      /\ pc'[s] \in UnderWay => overlap'
    BY DEF Meet
<1>2. /\ pc'[t] = there /\ \A x \in Turns : x # t => pc'[x] = pc[x]
      /\ (overlap => overlap') /\ (tangled => tangled') /\ excused \subseteq excused'
      /\ \A x \in Turns : x # t /\ there \in UnderWay /\ pc[x] \in UnderWay => overlap'
      /\ \A x \in Turns : /\ x # t /\ there \in UnderWay /\ pc[x] \in UnderWay
                          /\ there \in Compacting \/ pc[x] \in Compacting
                          => tangled' /\ t \in excused' /\ x \in excused'
    BY GotoIs
<1>3. CASE u = t
    BY <1>1, <1>2, <1>3, Stages
<1>4. CASE s = t
    BY <1>1, <1>2, <1>4, Stages
<1>5. CASE u # t /\ s # t
    BY <1>1, <1>2, <1>5 DEF Meet
<1>. QED
    BY <1>3, <1>4, <1>5

\* A step that takes nobody under way nor into a compaction.
LEMMA MeetStays ==
    ASSUME Meet, \A s \in Turns : /\ pc'[s] \in UnderWay => pc[s] \in UnderWay
                                  /\ pc'[s] \in Compacting => pc[s] \in Compacting,
           overlap => overlap', tangled => tangled', excused \subseteq excused'
    PROVE  Meet'
<1>1. SUFFICES ASSUME NEW u \in Turns, NEW s \in Turns, u # s, pc'[u] \in UnderWay
               PROVE  /\ pc'[s] \in Compacting => u \in excused' /\ tangled'
                      /\ pc'[s] \in UnderWay => overlap'
    BY DEF Meet
<1>2. /\ pc[u] \in UnderWay /\ (pc'[s] \in UnderWay => pc[s] \in UnderWay)
      /\ (pc'[s] \in Compacting => pc[s] \in Compacting)
    BY <1>1
<1>. QED
    BY <1>1, <1>2 DEF Meet

LEMMA MeetStep ==
    ASSUME Types, Held, Meet, [HistoryNext]_historyVars
    PROVE  Meet'
<1>1. CASE UNCHANGED historyVars
    BY <1>1 DEF historyVars, Meet
<1>2. ASSUME NEW t \in Turns, Holding(t) \/ Folding(t) \/ Folded(t) \/ WriteTemp(t) \/ Rename(t)
      PROVE  Meet'
    <2>1. \E there \in UnderWay : Goto(t, there)
        BY <1>2, HoldingIs, FoldingIs, FoldedIs, WriteTempIs, RenameIs, Stages
    <2>. QED
        BY <2>1, MeetGo
<1>3. ASSUME NEW t \in Turns, Answer(t) \/ TurnFails(t) \/ AppendOpen(t)
      PROVE  Meet'
    <2>1. \E there \in UnderWay \cup {"failed"} : Goto(t, there)
        BY <1>3, AnswerIs, TurnFailsIs, AppendOpenIs, Stages
    <2>. QED
        BY <2>1, MeetGo
<1>4. ASSUME NEW t \in Turns, RewriteFails(t)
      PROVE  Meet'
    <2>1. /\ pc[t] \in {"rewriting", "renaming"} /\ pc'[t] = "folded" /\ \A s \in Turns : s # t => pc'[s] = pc[s]
          /\ overlap' = overlap /\ tangled' = TRUE /\ excused \subseteq excused'
        BY <1>4, RewriteFailsIs, FailsIs
    <2>2. \A s \in Turns : /\ pc'[s] \in UnderWay => pc[s] \in UnderWay
                           /\ pc'[s] \in Compacting => pc[s] \in Compacting
        BY <2>1, Stages
    <2>. QED
        BY <2>1, <2>2, MeetStays
<1>5. ASSUME NEW t \in Turns, Appends(t)
      PROVE  Meet'
    <2>1. /\ pc'[t] = "done" /\ \A s \in Turns : s # t => pc'[s] = pc[s]
          /\ (overlap => overlap') /\ (tangled => tangled') /\ excused \subseteq excused'
        BY <1>5, AppendsEnd
    <2>2. \A s \in Turns : /\ pc'[s] \in UnderWay => pc[s] \in UnderWay
                           /\ pc'[s] \in Compacting => pc[s] \in Compacting
        BY <2>1, Stages
    <2>. QED
        BY <2>1, <2>2, MeetStays
<1>6. CASE Reset \/ ResetFails
    <2>1. pc' = pc /\ overlap' = overlap /\ excused \subseteq excused'
        BY <1>6, ResetIs
    <2>2. tangled => tangled'
        BY <1>6 DEF Reset, ResetFails, Cleared
    <2>. QED
        BY <2>1, <2>2, MeetStays
<1>7. CASE Restart
    <2>1. \A s \in Turns : pc'[s] \notin UnderWay
        BY <1>7, RestartIs, Stages
    <2>. QED
        BY <2>1 DEF Meet
<1>. QED
    BY <1>1, <1>2, <1>3, <1>4, <1>5, <1>6, <1>7, Steps

LEMMA AttachedStep ==
    ASSUME Types, Held, Meet, Attached, [HistoryNext]_historyVars
    PROVE  Attached'
<1>. USE DEF Attached
<1>1. CASE UNCHANGED historyVars
    BY <1>1 DEF historyVars
<1>2. ASSUME NEW t \in Turns, Holding(t) PROVE Attached'
    BY <1>2, HoldingIs, GotoIs, Stages
<1>3. ASSUME NEW t \in Turns, Folding(t) PROVE Attached'
    BY <1>3, FoldingIs, GotoIs, Stages
<1>4. ASSUME NEW t \in Turns, Folded(t) PROVE Attached'
    <2>1. /\ pc[t] = "folding" /\ pc'[t] = "rewriting" /\ \A s \in Turns : s # t => pc'[s] = pc[s]
          /\ excused \subseteq excused' /\ linked' = linked
        BY <1>4, FoldedIs, GotoIs, Stages
    <2>2. \A s \in Turns : s # t /\ pc[s] \in UnderWay => s \in excused
        BY <2>1, Stages DEF Meet
    <2>. QED
        BY <2>1, <2>2, Stages
<1>5. ASSUME NEW t \in Turns, WriteTemp(t) PROVE Attached'
    BY <1>5, WriteTempIs, GotoIs, Stages
<1>6. ASSUME NEW t \in Turns, Rename(t) PROVE Attached'
    <2>1. /\ pc[t] = "renaming" /\ pc'[t] = "folded" /\ \A s \in Turns : s # t => pc'[s] = pc[s]
          /\ excused \subseteq excused' /\ arrays' = arrays /\ ref' = ref
        BY <1>6, RenameIs, GotoIs, Stages
    <2>2. \A s \in Turns : s # t /\ pc[s] \in UnderWay => s \in excused
        BY <2>1, Stages DEF Meet
    <2>. QED
        BY <2>1, <2>2, Stages
<1>7. ASSUME NEW t \in Turns, RewriteFails(t) PROVE Attached'
    <2>1. /\ pc[t] \in {"rewriting", "renaming"} /\ Fails(t, "folded")
          /\ arrays' = arrays /\ ref' = ref /\ linked' = linked
        BY <1>7, RewriteFailsIs
    <2>2. /\ pc'[t] = "folded" /\ \A s \in Turns : s # t => pc'[s] = pc[s]
          /\ excused' = excused \cup {t}
        BY <2>1, FailsIs
    <2>. QED
        BY <2>1, <2>2
<1>8. ASSUME NEW t \in Turns, Answer(t) PROVE Attached'
    <2>1. /\ pc'[t] = "opening" /\ \A s \in Turns : s # t => pc'[s] = pc[s] /\ ref'[s] = ref[s]
          /\ excused \subseteq excused' /\ Len(arrays') = Len(arrays) /\ linked' = linked
        BY <1>8, AnswerIs, GotoIs, Stages DEF Types
    <2>. QED
        BY <2>1
<1>9. ASSUME NEW t \in Turns, TurnFails(t) PROVE Attached'
    BY <1>9, TurnFailsIs, GotoIs
<1>10. ASSUME NEW t \in Turns, AppendOpen(t) PROVE Attached'
    BY <1>10, AppendOpenIs, GotoIs, Stages
<1>11. ASSUME NEW t \in Turns, Appends(t) PROVE Attached'
    BY <1>11, AppendsEnd
<1>12. CASE Reset \/ ResetFails
    <2>1. pc' = pc /\ excused' = excused \cup In(UnderWay)
        BY <1>12, ResetIs
    <2>. QED
        BY <2>1, Stages DEF In
<1>13. CASE Restart
    BY <1>13, RestartIs
<1>. QED
    BY <1>1, <1>2, <1>3, <1>4, <1>5, <1>6, <1>7, <1>8, <1>9, <1>10, <1>11, <1>12, <1>13, Steps
-----------------------------------------------------------------------------
(* What is told twice.                                                     *)

Memories == {{}} \cup {Told(arrays[k]) : k \in DOMAIN arrays} \cup {Told(made[s]) : s \in Turns}

\* A step that makes up nothing.
Copied ==
    /\ Told(file') \in Memories \cup {Told(file)}
    /\ \A k \in DOMAIN arrays' : Told(arrays'[k]) \in Memories
    /\ \A s \in Turns : Told(made'[s]) \in Memories
    /\ \A t \in Turns : /\ pc'[t] \in Unsaid => pc[t] \in Unsaid
                        /\ pc'[t] \in Appending => pc[t] \in Appending
    /\ AllOnce => AllOnce'

LEMMA MemoriesAre ==
    /\ {} \in Memories
    /\ \A k \in DOMAIN arrays : Told(arrays[k]) \in Memories
    /\ \A s \in Turns : Told(made[s]) \in Memories
    /\ \A X \in Memories : \/ X = {} \/ \E k \in DOMAIN arrays : X = Told(arrays[k])
                           \/ \E s \in Turns : X = Told(made[s])
BY DEF Memories

LEMMA UnsaidAre ==
    /\ "new" \in Unsaid /\ "asking" \in Unsaid /\ Compacting \subseteq Unsaid
    /\ Appending \cap Unsaid = {} /\ "done" \notin Unsaid /\ "failed" \notin Unsaid
BY DEF Unsaid, Compacting, Appending

LEMMA CopiedFresh ==
    ASSUME Fresh, Copied
    PROVE  Fresh'
<1>1. ASSUME NEW t \in Turns, pc'[t] \in Unsaid PROVE Unheard(t)'
    <2>1. Unheard(t)
        BY <1>1 DEF Copied, Fresh
    <2>2. \A X \in Memories \cup {Told(file)} : Own(t) \cap X = {}
        BY <2>1, MemoriesAre DEF Unheard
    <2>. QED
        BY <2>2 DEF Copied, Unheard
<1>2. ASSUME NEW t \in Turns, pc'[t] \in Appending PROVE Whole(t)'
    <2>1. Whole(t)
        BY <1>2 DEF Copied, Fresh
    <2>2. \A X \in Memories : Own(t) \subseteq X \/ Own(t) \cap X = {}
        BY <2>1, MemoriesAre DEF Whole
    <2>. QED
        BY <2>2 DEF Copied, Whole
<1>. QED
    BY <1>1, <1>2 DEF Fresh

LEMMA CopyHolding ==
    ASSUME Types, NEW t \in Turns, Holding(t)
    PROVE  Copied
<1>1. /\ pc[t] \in {"new", "folding", "folded"} /\ Goto(t, "asking")
      /\ made'[t] \in {made[t], <<>>} /\ \A s \in Turns : s # t => made'[s] = made[s]
      /\ arrays' = arrays /\ file' = file
    BY HoldingIs
<1>2. pc'[t] = "asking" /\ \A s \in Turns : s # t => pc'[s] = pc[s]
    BY <1>1, GotoIs, Stages
<1>3. \A s \in Turns : made'[s] \in {made[s], <<>>}
    BY <1>1
<1>4. \A s \in Turns : Told(made'[s]) \in Memories /\ (Once(made[s]) => Once(made'[s]))
    BY <1>3, MemoriesAre, EmptyHistory
<1>5. AllOnce => AllOnce'
    BY <1>1, <1>4 DEF AllOnce
<1>6. \A s \in Turns : /\ pc'[s] \in Unsaid => pc[s] \in Unsaid
                       /\ pc'[s] \in Appending => pc[s] \in Appending
    BY <1>1, <1>2, UnsaidAre, Stages
<1>. QED
    BY <1>1, <1>4, <1>5, <1>6, MemoriesAre DEF Copied

LEMMA CopyFolding ==
    ASSUME Types, NEW t \in Turns, Folding(t)
    PROVE  Copied
<1>1. /\ pc[t] = "new" /\ Goto(t, "folding")
      /\ Told(made'[t]) = Told(Current) /\ (Once(Current) => Once(made'[t]))
      /\ \A s \in Turns : s # t => made'[s] = made[s]
      /\ arrays' = arrays /\ file' = file
    BY FoldingIs
<1>2. pc'[t] = "folding" /\ \A s \in Turns : s # t => pc'[s] = pc[s]
    BY <1>1, GotoIs, Stages
<1>3. Current = arrays[Len(arrays)] /\ Len(arrays) \in DOMAIN arrays
    BY CurrentIs
<1>4. \A s \in Turns : Told(made'[s]) \in Memories
    BY <1>1, <1>3, MemoriesAre
<1>5. AllOnce => AllOnce'
    BY <1>1, <1>3 DEF AllOnce
<1>6. \A s \in Turns : /\ pc'[s] \in Unsaid => pc[s] \in Unsaid
                       /\ pc'[s] \in Appending => pc[s] \in Appending
    BY <1>1, <1>2, UnsaidAre, Stages
<1>. QED
    BY <1>1, <1>4, <1>5, <1>6, MemoriesAre DEF Copied

LEMMA CopyFolded ==
    ASSUME Types, NEW t \in Turns, Folded(t)
    PROVE  Copied
<1>1. /\ pc[t] = "folding" /\ Goto(t, "rewriting")
      /\ \A k \in DOMAIN arrays : k \in DOMAIN arrays' /\ arrays'[k] = arrays[k]
      /\ \A k \in DOMAIN arrays' : k \in DOMAIN arrays \/ arrays'[k] = made[t]
      /\ made' = made /\ file' = file
    BY FoldedIs
<1>2. pc'[t] = "rewriting" /\ \A s \in Turns : s # t => pc'[s] = pc[s]
    BY <1>1, GotoIs, Stages
<1>3. \A k \in DOMAIN arrays' : Told(arrays'[k]) \in Memories
    BY <1>1, MemoriesAre
<1>4. AllOnce => AllOnce'
    BY <1>1 DEF AllOnce
<1>5. \A s \in Turns : /\ pc'[s] \in Unsaid => pc[s] \in Unsaid
                       /\ pc'[s] \in Appending => pc[s] \in Appending
    BY <1>1, <1>2, UnsaidAre, Stages
<1>. QED
    BY <1>1, <1>3, <1>4, <1>5, MemoriesAre DEF Copied

LEMMA CopyRewrite ==
    ASSUME Types, Held, NEW t \in Turns, WriteTemp(t) \/ Rename(t)
    PROVE  Copied
<1>1. CASE WriteTemp(t)
    <2>1. /\ pc[t] = "rewriting" /\ Goto(t, "renaming") /\ ref[t] \in DOMAIN arrays
          /\ made'[t] = arrays[ref[t]] /\ \A s \in Turns : s # t => made'[s] = made[s]
          /\ arrays' = arrays /\ file' = file
        BY <1>1, WriteTempIs
    <2>2. pc'[t] = "renaming" /\ \A s \in Turns : s # t => pc'[s] = pc[s]
        BY <2>1, GotoIs, Stages
    <2>3. \A s \in Turns : Told(made'[s]) \in Memories
        BY <2>1, MemoriesAre
    <2>4. AllOnce => AllOnce'
        BY <2>1 DEF AllOnce
    <2>5. \A s \in Turns : /\ pc'[s] \in Unsaid => pc[s] \in Unsaid
                           /\ pc'[s] \in Appending => pc[s] \in Appending
        BY <2>1, <2>2, UnsaidAre, Stages
    <2>. QED
        BY <2>1, <2>3, <2>4, <2>5, MemoriesAre DEF Copied
<1>2. CASE Rename(t)
    <2>1. /\ pc[t] = "renaming" /\ Goto(t, "folded") /\ file' = made[t]
          /\ made'[t] = <<>> /\ \A s \in Turns : s # t => made'[s] = made[s]
          /\ arrays' = arrays
        BY <1>2, RenameIs
    <2>2. pc'[t] = "folded" /\ \A s \in Turns : s # t => pc'[s] = pc[s]
        BY <2>1, GotoIs, Stages
    <2>3. \A s \in Turns : Told(made'[s]) \in Memories
        BY <2>1, MemoriesAre, EmptyHistory
    <2>4. AllOnce => AllOnce'
        BY <2>1, EmptyHistory DEF AllOnce
    <2>5. \A s \in Turns : /\ pc'[s] \in Unsaid => pc[s] \in Unsaid
                           /\ pc'[s] \in Appending => pc[s] \in Appending
        BY <2>1, <2>2, UnsaidAre, Stages
    <2>. QED
        BY <2>1, <2>3, <2>4, <2>5, MemoriesAre DEF Copied
<1>. QED
    BY <1>1, <1>2

LEMMA CopyOthers ==
    ASSUME Types, NEW t \in Turns, RewriteFails(t) \/ TurnFails(t) \/ AppendOpen(t)
    PROVE  Copied
<1>1. /\ made'[t] \in {made[t], <<>>} /\ \A s \in Turns : s # t => made'[s] = made[s]
      /\ arrays' = arrays /\ file' = file
    BY RewriteFailsIs, TurnFailsIs, AppendOpenIs
<1>2. /\ \A s \in Turns : s # t => pc'[s] = pc[s]
      /\ \/ pc[t] \in {"rewriting", "renaming"} /\ pc'[t] = "folded"
         \/ pc[t] = "asking" /\ pc'[t] = "failed"
         \/ pc[t] = "opening" /\ pc'[t] = "writing"
    <2>1. CASE RewriteFails(t)
        <3>1. pc[t] \in {"rewriting", "renaming"} /\ Fails(t, "folded")
            BY <2>1, RewriteFailsIs
        <3>. QED
            BY <3>1, FailsIs
    <2>2. CASE TurnFails(t)
        BY <2>2, TurnFailsIs, GotoIs
    <2>3. CASE AppendOpen(t)
        BY <2>3, AppendOpenIs, GotoIs, Stages
    <2>. QED
        BY <2>1, <2>2, <2>3
<1>3. \A s \in Turns : made'[s] \in {made[s], <<>>}
    BY <1>1
<1>4. \A s \in Turns : Told(made'[s]) \in Memories /\ (Once(made[s]) => Once(made'[s]))
    BY <1>3, MemoriesAre, EmptyHistory
<1>5. AllOnce => AllOnce'
    BY <1>1, <1>4 DEF AllOnce
<1>6. \A s \in Turns : /\ pc'[s] \in Unsaid => pc[s] \in Unsaid
                       /\ pc'[s] \in Appending => pc[s] \in Appending
    BY <1>2, UnsaidAre, Stages
<1>. QED
    BY <1>1, <1>4, <1>5, <1>6, MemoriesAre DEF Copied

LEMMA CopyReset ==
    ASSUME Types, Reset \/ ResetFails
    PROVE  Copied
<1>1. /\ \A k \in DOMAIN arrays : k \in DOMAIN arrays' /\ arrays'[k] = arrays[k]
      /\ \A k \in DOMAIN arrays' : k \in DOMAIN arrays \/ arrays'[k] = <<>>
      /\ pc' = pc /\ made' = made /\ file' \in {file, <<>>}
    BY ResetIs
<1>2. \A k \in DOMAIN arrays' : Told(arrays'[k]) \in Memories
    BY <1>1, MemoriesAre, EmptyHistory
<1>3. AllOnce => AllOnce'
    BY <1>1, EmptyHistory DEF AllOnce
<1>4. Told(file') \in Memories \cup {Told(file)}
    BY <1>1, MemoriesAre, EmptyHistory
<1>. QED
    BY <1>1, <1>2, <1>3, <1>4, MemoriesAre DEF Copied

LEMMA OwnApart == \A s, t \in Turns : s # t => Own(s) \cap Own(t) = {}
BY DEF Own

LEMMA CopySteps ==
    ASSUME Types, Held, [HistoryNext]_historyVars,
           \A t \in Turns : ~Answer(t) /\ ~Appends(t), ~Restart
    PROVE  Copied
<1>1. CASE UNCHANGED historyVars
    <2>1. arrays' = arrays /\ made' = made /\ file' = file /\ pc' = pc
        BY <1>1 DEF historyVars
    <2>2. AllOnce => AllOnce'
        BY <2>1 DEF AllOnce
    <2>. QED
        BY <2>1, <2>2, MemoriesAre DEF Copied
<1>2. ASSUME NEW t \in Turns, Holding(t) \/ Folding(t) \/ Folded(t) PROVE Copied
    BY <1>2, CopyHolding, CopyFolding, CopyFolded
<1>3. ASSUME NEW t \in Turns, WriteTemp(t) \/ Rename(t) PROVE Copied
    BY <1>3, CopyRewrite
<1>4. ASSUME NEW t \in Turns, RewriteFails(t) \/ TurnFails(t) \/ AppendOpen(t) PROVE Copied
    BY <1>4, CopyOthers
<1>5. CASE Reset \/ ResetFails
    BY <1>5, CopyReset
<1>. QED
    BY <1>1, <1>2, <1>3, <1>4, <1>5, Steps

\* An answer adds its own lines to one array, where they are new.
LEMMA AnswerTold ==
    ASSUME Types, Held, Fresh, NEW t \in Turns, Answer(t)
    PROVE  /\ Unheard(t) /\ pc[t] = "asking" /\ pc'[t] = "opening" /\ \A s \in Turns : s # t => pc'[s] = pc[s]
           /\ file' = file /\ made' = made /\ twofold' = twofold
           /\ DOMAIN arrays' = DOMAIN arrays /\ ref[t] \in DOMAIN arrays
           /\ Told(arrays'[ref[t]]) = Told(arrays[ref[t]]) \cup Own(t)
           /\ Once(arrays[ref[t]]) => Once(arrays'[ref[t]])
           /\ \A k \in DOMAIN arrays : k # ref[t] => arrays'[k] = arrays[k]
<1>1. /\ pc[t] = "asking" /\ ref[t] \in DOMAIN arrays /\ DOMAIN arrays' = DOMAIN arrays
      /\ arrays'[ref[t]] = arrays[ref[t]] \o Pair(t)
      /\ \A k \in DOMAIN arrays : k # ref[t] => arrays'[k] = arrays[k]
      /\ Goto(t, "opening") /\ file' = file /\ made' = made /\ twofold' = twofold
    BY AnswerIs
<1>2. Unheard(t)
    BY <1>1, UnsaidAre DEF Fresh
<1>3. arrays[ref[t]] \in Histories /\ Pair(t) \in Histories /\ Told(Pair(t)) = Own(t) /\ Once(Pair(t))
    BY <1>1, CurrentIs, PairIs
<1>4. Told(arrays[ref[t]] \o Pair(t)) = Told(arrays[ref[t]]) \cup Own(t)
    BY <1>3, CatTold
<1>5. Told(arrays[ref[t]]) \cap Told(Pair(t)) = {}
    BY <1>1, <1>2, <1>3 DEF Unheard
<1>6. Once(arrays[ref[t]]) => Once(arrays[ref[t]] \o Pair(t))
    BY <1>3, <1>5, CatOnce
<1>7. pc'[t] = "opening" /\ \A s \in Turns : s # t => pc'[s] = pc[s]
    BY <1>1, GotoIs, Stages
<1>. QED
    BY <1>1, <1>2, <1>4, <1>6, <1>7

LEMMA FreshStep ==
    ASSUME Types, Held, Fresh, [HistoryNext]_historyVars
    PROVE  Fresh'
<1>1. CASE (\A t \in Turns : ~Answer(t) /\ ~Appends(t)) /\ ~Restart
    BY <1>1, CopySteps, CopiedFresh
<1>2. ASSUME NEW t \in Turns, Answer(t) PROVE Fresh'
    <2>1. /\ Unheard(t) /\ pc[t] = "asking" /\ pc'[t] = "opening" /\ \A s \in Turns : s # t => pc'[s] = pc[s]
          /\ file' = file /\ made' = made
          /\ DOMAIN arrays' = DOMAIN arrays /\ ref[t] \in DOMAIN arrays
          /\ Told(arrays'[ref[t]]) = Told(arrays[ref[t]]) \cup Own(t)
          /\ \A k \in DOMAIN arrays : k # ref[t] => arrays'[k] = arrays[k]
        BY <1>2, AnswerTold
    <2>2. ASSUME NEW s \in Turns, pc'[s] \in Unsaid PROVE Unheard(s)'
        <3>1. s # t /\ Unheard(s) /\ Own(s) \cap Own(t) = {}
            BY <2>1, <2>2, UnsaidAre, Stages, OwnApart DEF Fresh
        <3>. QED
            BY <2>1, <3>1 DEF Unheard
    <2>3. ASSUME NEW s \in Turns, s # t, pc'[s] \in Appending PROVE Whole(s)'
        <3>1. Whole(s) /\ Own(s) \cap Own(t) = {}
            BY <2>1, <2>3, OwnApart DEF Fresh
        <3>2. \/ Own(s) \subseteq Told(arrays[ref[t]]) \cup Own(t)
              \/ Own(s) \cap (Told(arrays[ref[t]]) \cup Own(t)) = {}
            BY <2>1, <3>1 DEF Whole
        <3>. QED
            BY <2>1, <3>1, <3>2 DEF Whole
    <2>4. Whole(t)'
        <3>1. Own(t) \subseteq Told(arrays[ref[t]]) \cup Own(t)
            OBVIOUS
        <3>. QED
            BY <2>1, <3>1 DEF Whole, Unheard
    <2>. QED
        BY <2>2, <2>3, <2>4 DEF Fresh
<1>3. ASSUME NEW t \in Turns, Appends(t) PROVE Fresh'
    <2>1. /\ pc[t] \in Appending /\ pc'[t] = "done" /\ \A s \in Turns : s # t => pc'[s] = pc[s]
          /\ arrays' = arrays /\ made' = made
        BY <1>3, AppendsEnd
    <2>2. Told(file') \subseteq Told(file) \cup Own(t)
        BY <1>3, AppendsTold
    <2>3. ASSUME NEW s \in Turns, pc'[s] \in Unsaid PROVE Unheard(s)'
        <3>1. s # t /\ Unheard(s) /\ Own(s) \cap Own(t) = {}
            BY <2>1, <2>3, UnsaidAre, OwnApart DEF Fresh
        <3>. QED
            BY <2>1, <2>2, <3>1 DEF Unheard
    <2>4. ASSUME NEW s \in Turns, pc'[s] \in Appending PROVE Whole(s)'
        <3>1. s # t /\ Whole(s)
            BY <2>1, <2>4, Stages DEF Fresh
        <3>. QED
            BY <2>1, <3>1 DEF Whole
    <2>. QED
        BY <2>3, <2>4 DEF Fresh
<1>4. CASE Restart
    <2>1. /\ DOMAIN arrays' = {1} /\ arrays'[1] = file /\ file' = file
          /\ pc' \in [Turns -> {"new", "done", "failed"}]
          /\ \A s \in Turns : pc'[s] = IF pc[s] \in UnderWay THEN "failed" ELSE pc[s]
        BY <1>4, RestartIs
    <2>2. \A s \in Turns : made'[s] = <<>>
        BY <1>4, RestartIs, Zenon
    <2>3. ASSUME NEW s \in Turns, pc'[s] \in Unsaid PROVE Unheard(s)'
        <3>1. Unheard(s)
            BY <2>1, <2>3, UnsaidAre DEF Fresh
        <3>. QED
            BY <2>1, <2>2, <3>1, EmptyHistory DEF Unheard
    <2>4. \A s \in Turns : pc'[s] \notin Appending
        BY <2>1, Stages
    <2>. QED
        BY <2>3, <2>4 DEF Fresh
<1>. QED
    BY <1>1, <1>2, <1>3, <1>4

\* Which packs await a rename, and what the file has become.
LEMMA RenamingIs ==
    ASSUME Types, Held, [HistoryNext]_historyVars, \A t \in Turns : ~Appends(t), NEW s \in Turns
    PROVE  /\ file' = file \/ file' = <<>> \/ \E t \in Turns : pc[t] = "renaming" /\ file' = made[t]
           /\ pc'[s] = "renaming" => \/ pc[s] = "renaming" /\ made'[s] = made[s]
                                     \/ WriteTemp(s)
<1>1. CASE UNCHANGED historyVars
    BY <1>1 DEF historyVars
<1>2. ASSUME NEW t \in Turns, Holding(t)
      PROVE  file' = file /\ (pc'[s] = "renaming" => pc[s] = "renaming" /\ made'[s] = made[s])
    BY <1>2, HoldingIs, GotoIs, Stages
<1>3. ASSUME NEW t \in Turns, Folding(t)
      PROVE  file' = file /\ (pc'[s] = "renaming" => pc[s] = "renaming" /\ made'[s] = made[s])
    BY <1>3, FoldingIs, GotoIs, Stages
<1>4. ASSUME NEW t \in Turns, Folded(t)
      PROVE  file' = file /\ (pc'[s] = "renaming" => pc[s] = "renaming" /\ made'[s] = made[s])
    BY <1>4, FoldedIs, GotoIs, Stages
<1>5. ASSUME NEW t \in Turns, WriteTemp(t)
      PROVE  file' = file /\ (pc'[s] = "renaming" => s = t \/ (pc[s] = "renaming" /\ made'[s] = made[s]))
    BY <1>5, WriteTempIs, GotoIs, Stages
<1>6. ASSUME NEW t \in Turns, Rename(t)
      PROVE  /\ pc[t] = "renaming" /\ file' = made[t]
             /\ pc'[s] = "renaming" => pc[s] = "renaming" /\ made'[s] = made[s]
    BY <1>6, RenameIs, GotoIs, Stages
<1>7. ASSUME NEW t \in Turns, RewriteFails(t)
      PROVE  file' = file /\ (pc'[s] = "renaming" => pc[s] = "renaming" /\ made'[s] = made[s])
    <2>1. Fails(t, "folded") /\ file' = file /\ \A x \in Turns : x # t => made'[x] = made[x]
        BY <1>7, RewriteFailsIs
    <2>2. pc'[t] = "folded" /\ \A x \in Turns : x # t => pc'[x] = pc[x]
        BY <2>1, FailsIs
    <2>. QED
        BY <2>1, <2>2
<1>8. ASSUME NEW t \in Turns, Answer(t)
      PROVE  file' = file /\ (pc'[s] = "renaming" => pc[s] = "renaming" /\ made'[s] = made[s])
    BY <1>8, AnswerIs, GotoIs, Stages
<1>9. ASSUME NEW t \in Turns, TurnFails(t)
      PROVE  file' = file /\ (pc'[s] = "renaming" => pc[s] = "renaming" /\ made'[s] = made[s])
    <2>1. Goto(t, "failed") /\ made' = made /\ file' = file
        BY <1>9, TurnFailsIs
    <2>2. \A x \in Turns : pc'[x] = "renaming" => pc[x] = "renaming"
        BY <2>1, GotoIs
    <2>. QED
        BY <2>1, <2>2
<1>10. ASSUME NEW t \in Turns, AppendOpen(t)
      PROVE  file' = file /\ (pc'[s] = "renaming" => pc[s] = "renaming" /\ made'[s] = made[s])
    <2>1. Goto(t, "writing") /\ made' = made /\ file' = file
        BY <1>10, AppendOpenIs
    <2>2. \A x \in Turns : pc'[x] = "renaming" => pc[x] = "renaming"
        BY <2>1, GotoIs, Stages
    <2>. QED
        BY <2>1, <2>2
<1>11. CASE Reset \/ ResetFails
    BY <1>11, ResetIs
<1>12. CASE Restart
    BY <1>12, RestartIs
<1>. QED
    BY <1>1, <1>2, <1>3, <1>4, <1>5, <1>6, <1>7, <1>8, <1>9, <1>10, <1>11, <1>12, Steps

LEMMA TwofoldStays ==
    ASSUME Types, Held, [HistoryNext]_historyVars, twofold
    PROVE  twofold'
<1>1. CASE UNCHANGED historyVars
    BY <1>1 DEF historyVars
<1>2. ASSUME NEW t \in Turns,
             \/ Holding(t) \/ Folding(t) \/ Folded(t) \/ WriteTemp(t) \/ Rename(t)
             \/ RewriteFails(t) \/ Answer(t) \/ TurnFails(t) \/ AppendOpen(t) \/ Appends(t)
      PROVE  twofold'
    BY <1>2, HoldingIs, FoldingIs, FoldedIs, WriteTempIs, RenameIs, RewriteFailsIs, AnswerIs, TurnFailsIs,
       AppendOpenIs, AppendsEnd
<1>3. CASE Reset \/ ResetFails \/ Restart
    BY <1>3, ResetIs, RestartIs
<1>. QED
    BY <1>1, <1>2, <1>3, Steps

LEMMA SingleStep ==
    ASSUME Types, Held, Fresh, Single, [HistoryNext]_historyVars
    PROVE  Single'
<1>1. SUFFICES ASSUME ~twofold' PROVE AllOnce' /\ \A s \in Turns : pc'[s] \in Appending => Unwritten(s)'
    BY DEF Single
<1>2. ~twofold /\ AllOnce /\ \A s \in Turns : pc[s] \in Appending => Unwritten(s)
    BY <1>1, TwofoldStays DEF Single
<1>3. ASSUME \A t \in Turns : ~Appends(t), NEW s \in Turns, pc'[s] \in Appending, Unwritten(s),
             Whole(s), pc[s] \in Appending
      PROVE  Unwritten(s)'
    <2>1. Own(s) \cap Told(file') = {}
        <3>1. file' = file \/ file' = <<>> \/ \E t \in Turns : pc[t] = "renaming" /\ file' = made[t]
            BY <1>3, RenamingIs
        <3>. QED
            BY <1>3, <3>1, EmptyHistory DEF Unwritten
    <2>2. ASSUME NEW x \in Turns, pc'[x] = "renaming" PROVE Own(s) \cap Told(made'[x]) = {}
        <3>1. CASE pc[x] = "renaming" /\ made'[x] = made[x]
            BY <1>3, <3>1 DEF Unwritten
        <3>2. CASE WriteTemp(x)
            <4>1. /\ ref[x] \in DOMAIN arrays /\ made'[x] = arrays[ref[x]]
                  /\ <<s, "assistant">> \notin Told(made'[x])
                BY <1>1, <1>3, <3>2, WriteTempIs
            <4>2. <<s, "assistant">> \in Own(s)
                BY DEF Own
            <4>. QED
                BY <1>3, <4>1, <4>2 DEF Whole
        <3>. QED
            BY <1>3, <2>2, <3>1, <3>2, RenamingIs
    <2>. QED
        BY <2>1, <2>2 DEF Unwritten
<1>4. CASE (\A t \in Turns : ~Answer(t) /\ ~Appends(t)) /\ ~Restart
    <2>1. Copied
        BY <1>4, CopySteps
    <2>2. ASSUME NEW s \in Turns, pc'[s] \in Appending PROVE Unwritten(s)'
        <3>1. pc[s] \in Appending /\ Unwritten(s) /\ Whole(s)
            BY <1>2, <2>1, <2>2 DEF Copied, Fresh
        <3>. QED
            BY <1>3, <1>4, <2>2, <3>1
    <2>. QED
        BY <1>2, <2>1, <2>2 DEF Copied
<1>5. ASSUME NEW t \in Turns, Answer(t) PROVE AllOnce' /\ \A s \in Turns : pc'[s] \in Appending => Unwritten(s)'
    <2>1. /\ Unheard(t) /\ pc[t] = "asking" /\ pc'[t] = "opening" /\ \A s \in Turns : s # t => pc'[s] = pc[s]
          /\ file' = file /\ made' = made
          /\ DOMAIN arrays' = DOMAIN arrays /\ ref[t] \in DOMAIN arrays
          /\ Once(arrays[ref[t]]) => Once(arrays'[ref[t]])
          /\ \A k \in DOMAIN arrays : k # ref[t] => arrays'[k] = arrays[k]
        BY <1>5, AnswerTold
    <2>2. AllOnce'
        BY <1>2, <2>1 DEF AllOnce
    <2>3. \A s \in Turns : pc'[s] = "renaming" => pc[s] = "renaming"
        BY <2>1
    <2>4. ASSUME NEW s \in Turns, s # t, pc'[s] \in Appending PROVE Unwritten(s)'
        BY <1>2, <2>1, <2>3, <2>4 DEF Unwritten
    <2>5. Unwritten(t)'
        BY <2>1 DEF Unwritten, Unheard
    <2>. QED
        BY <2>2, <2>4, <2>5
<1>6. ASSUME NEW t \in Turns, Appends(t) PROVE AllOnce' /\ \A s \in Turns : pc'[s] \in Appending => Unwritten(s)'
    <2>1. /\ pc[t] \in Appending /\ pc'[t] = "done" /\ \A s \in Turns : s # t => pc'[s] = pc[s]
          /\ arrays' = arrays /\ made' = made
        BY <1>6, AppendsEnd
    <2>2. /\ Told(file') \subseteq Told(file) \cup Own(t)
          /\ Once(file) /\ Own(t) \cap Told(file) = {} => Once(file')
        BY <1>6, AppendsTold
    <2>3. Unwritten(t)
        BY <1>2, <2>1
    <2>4. AllOnce'
        BY <1>2, <2>1, <2>2, <2>3 DEF AllOnce, Unwritten
    <2>5. ASSUME NEW s \in Turns, pc'[s] \in Appending PROVE Unwritten(s)'
        <3>1. s # t /\ Unwritten(s) /\ Own(s) \cap Own(t) = {}
            BY <1>2, <2>1, <2>5, Stages, OwnApart
        <3>2. \A x \in Turns : pc'[x] = "renaming" => pc[x] = "renaming"
            BY <2>1
        <3>. QED
            BY <2>1, <2>2, <3>1, <3>2 DEF Unwritten
    <2>. QED
        BY <2>4, <2>5
<1>7. CASE Restart
    <2>1. /\ DOMAIN arrays' = {1} /\ arrays'[1] = file /\ file' = file
          /\ pc' \in [Turns -> {"new", "done", "failed"}]
        BY <1>7, RestartIs
    <2>2. \A s \in Turns : made'[s] = <<>>
        BY <1>7, RestartIs, Zenon
    <2>3. AllOnce'
        BY <1>2, <2>1, <2>2, EmptyHistory DEF AllOnce
    <2>. QED
        BY <2>1, <2>3, Stages
<1>. QED
    BY <1>4, <1>5, <1>6, <1>7

\* In the memory of a channel, as in its file, no line is told twice.
LEMMA OnceCount ==
    ASSUME NEW h, NEW l, Once(h)
    PROVE  Cardinality(Telling(l, h)) <= 1
<1>1. CASE Telling(l, h) = {}
    BY <1>1, FS_EmptySet
<1>2. ASSUME NEW i \in Telling(l, h)
      PROVE  Cardinality(Telling(l, h)) <= 1
    <2>1. ASSUME NEW j \in Telling(l, h) PROVE j = i
        <3>1. i \in DOMAIN h /\ j \in DOMAIN h /\ l \in h[i].lines /\ l \in h[j].lines
            BY <1>2, <2>1 DEF Telling
        <3>2. h[j].lines \cap h[i].lines # {}
            BY <3>1
        <3>. QED
            BY <3>1, <3>2 DEF Once
    <2>2. Telling(l, h) = {i}
        BY <1>2, <2>1
    <2>. QED
        BY <2>2, FS_Singleton
<1>. QED
    BY <1>1, <1>2

LEMMA SingleIs ==
    ASSUME Types, Single
    PROVE  RememberedOnce
<1>1. Current = arrays[Len(arrays)] /\ Len(arrays) \in DOMAIN arrays
    BY CurrentIs
<1>. QED
    BY <1>1, OnceCount DEF Single, AllOnce, RememberedOnce

LEMMA FirstState ==
    ASSUME HistoryInit
    PROVE  /\ file = Hydrated /\ Current = Hydrated /\ DOMAIN arrays = {1} /\ arrays[1] = Hydrated
           /\ \A t \in Turns : /\ pc[t] = IF t <= Earlier THEN "done" ELSE "new"
                               /\ pc[t] \notin UnderWay /\ made[t] = <<>>
           /\ excused = {} /\ cleared = {} /\ gone = {}
<1>1. file = Hydrated /\ arrays = <<file>> /\ excused = {} /\ cleared = {} /\ gone = {}
    BY DEF HistoryInit
<1>2. /\ pc = [t \in Turns |-> IF t <= Earlier THEN "done" ELSE "new"]
      /\ made = [t \in Turns |-> <<>>]
    BY DEF HistoryInit
<1>3. \A t \in Turns : made[t] = <<>>
    BY <1>2, Zenon
<1>4. \A t \in Turns : pc[t] = (IF t <= Earlier THEN "done" ELSE "new") /\ pc[t] \notin UnderWay
    BY <1>2, Stages
<1>5. Current = Hydrated /\ DOMAIN arrays = {1} /\ arrays[1] = Hydrated
    BY <1>1, HydratedIs, Alone DEF Current
<1>. QED
    BY <1>1, <1>3, <1>4, <1>5

LEMMA FirstMeet == HistoryInit => Meet /\ Attached
<1> SUFFICES ASSUME HistoryInit PROVE Meet /\ Attached
    OBVIOUS
<1>. QED
    BY FirstState, Stages DEF Meet, Attached

LEMMA FirstFresh == HistoryInit => Fresh /\ Single
<1> SUFFICES ASSUME HistoryInit PROVE Fresh /\ Single
    OBVIOUS
<1>1. ASSUME NEW t \in Turns, pc[t] \in Unsaid PROVE Unheard(t)
    <2>1. Own(t) \cap Told(Hydrated) = {}
        BY <1>1, FirstState, UnsaidAre, HydratedIs
    <2>. QED
        BY <2>1, FirstState, EmptyHistory DEF Unheard
<1>2. \A t \in Turns : pc[t] \notin Appending
    BY FirstState, Stages
<1>3. AllOnce
    BY FirstState, HydratedIs, EmptyHistory DEF AllOnce
<1>. QED
    BY <1>1, <1>2, <1>3 DEF Fresh, Single
-----------------------------------------------------------------------------
(* The copies of the conversation that matter.                             *)

LEMMA StagingAre ==
    /\ Staging \subseteq Compacting /\ Staging \subseteq UnderWay /\ Staging \cap Appending = {}
    /\ "folding" \in Staging /\ "rewriting" \in Staging /\ "renaming" \in Staging
    /\ "folded" \notin Staging /\ "asking" \notin Staging /\ "failed" \notin Staging
    /\ "done" \notin Staging /\ "new" \notin Staging
BY DEF Staging, Compacting, Appending, UnderWay

\* From a copy to another: nothing is lost, and nothing is added that is not of a
\* turn under way.
From(Y) == \E X \in Live : X \subseteq Y /\ \A t \in Turns : pc[t] \notin UnderWay => Own(t) \cap Y \subseteq X

LEMMA FromIs ==
    /\ Told(Current) \in Live /\ Told(file) \in Live
    /\ \A s \in Turns : pc[s] = "rewriting" => Told(arrays[ref[s]]) \in Live
    /\ \A s \in Turns : pc[s] \in {"folding", "renaming"} => Told(made[s]) \in Live
    /\ \A X \in Live : From(X)
<1>1. \A X \in Live : From(X)
    BY DEF From
<1>2. ASSUME NEW s \in Turns, pc[s] \in Staging PROVE Staged(s) \in Live
    BY <1>2 DEF Live, In
<1>3. ASSUME NEW s \in Turns, pc[s] = "rewriting" PROVE Told(arrays[ref[s]]) \in Live
    <2>1. Staged(s) = Told(arrays[ref[s]])
        BY <1>3 DEF Staged
    <2>. QED
        BY <1>2, <1>3, <2>1, StagingAre
<1>4. ASSUME NEW s \in Turns, pc[s] \in {"folding", "renaming"} PROVE Told(made[s]) \in Live
    <2>1. Staged(s) = Told(made[s])
        BY <1>4 DEF Staged
    <2>. QED
        BY <1>2, <1>4, <2>1, StagingAre
<1>. QED
    BY <1>1, <1>3, <1>4 DEF Live

\* Every live copy after a step, from those before.
LEMMA LiveFrom ==
    ASSUME From(Told(Current')), From(Told(file')),
           \A s \in Turns : /\ pc'[s] = "rewriting" => From(Told(arrays'[ref'[s]]))
                            /\ pc'[s] \in {"folding", "renaming"} => From(Told(made'[s])),
           NEW Y \in Live'
    PROVE  From(Y)
<1>1. Y = Told(Current') \/ Y = Told(file') \/ \E s \in Turns : pc'[s] \in Staging /\ Y = Staged(s)'
    BY DEF Live, In
<1>2. ASSUME NEW s \in Turns, pc'[s] \in Staging, Y = Staged(s)' PROVE From(Y)
    <2>1. CASE pc'[s] = "rewriting"
        BY <1>2, <2>1 DEF Staged
    <2>2. CASE pc'[s] # "rewriting"
        BY <1>2, <2>2 DEF Staged, Staging
    <2>. QED
        BY <2>1, <2>2
<1>. QED
    BY <1>1, <1>2

LEMMA LiveHolding ==
    ASSUME Types, Held, NEW u \in Turns, Holding(u) \/ Folding(u), NEW Y \in Live'
    PROVE  From(Y)
<1>1. arrays' = arrays /\ file' = file /\ Current' = Current
    BY HoldingIs, FoldingIs DEF Current
<1>2. CASE Holding(u)
    <2>1. Goto(u, "asking") /\ \A s \in Turns : s # u => made'[s] = made[s] /\ ref'[s] = ref[s]
        BY <1>2, HoldingIs
    <2>2. pc'[u] = "asking" /\ \A s \in Turns : s # u => pc'[s] = pc[s]
        BY <2>1, GotoIs, Stages
    <2>3. \A s \in Turns : /\ pc'[s] = "rewriting" => From(Told(arrays'[ref'[s]]))
                           /\ pc'[s] \in {"folding", "renaming"} => From(Told(made'[s]))
        BY <1>1, <2>1, <2>2, FromIs
    <2>. QED
        BY <1>1, <2>3, FromIs, LiveFrom
<1>3. CASE Folding(u)
    <2>1. /\ Goto(u, "folding") /\ ref' = ref /\ Told(made'[u]) = Told(Current)
          /\ \A s \in Turns : s # u => made'[s] = made[s]
        BY <1>3, FoldingIs
    <2>2. pc'[u] = "folding" /\ \A s \in Turns : s # u => pc'[s] = pc[s]
        BY <2>1, GotoIs, Stages
    <2>3. \A s \in Turns : /\ pc'[s] = "rewriting" => From(Told(arrays'[ref'[s]]))
                           /\ pc'[s] \in {"folding", "renaming"} => From(Told(made'[s]))
        BY <1>1, <2>1, <2>2, FromIs
    <2>. QED
        BY <1>1, <2>3, FromIs, LiveFrom
<1>. QED
    BY <1>2, <1>3

LEMMA LiveFolded ==
    ASSUME Types, Held, NEW u \in Turns, Folded(u), NEW Y \in Live'
    PROVE  From(Y)
<1>1. /\ pc[u] = "folding" /\ Goto(u, "rewriting") /\ Current' = made[u]
      /\ arrays'[Len(arrays')] = made[u] /\ ref'[u] = Len(arrays')
      /\ \A k \in DOMAIN arrays : k \in DOMAIN arrays' /\ arrays'[k] = arrays[k]
      /\ \A s \in Turns : s # u => ref'[s] = ref[s]
      /\ made' = made /\ file' = file
    BY FoldedIs
<1>2. pc'[u] = "rewriting" /\ \A s \in Turns : s # u => pc'[s] = pc[s]
    BY <1>1, GotoIs, Stages
<1>3. \A s \in Turns : pc[s] = "rewriting" => ref[s] \in DOMAIN arrays
    BY CurrentIs DEF Types, Held, Writing
<1>4. \A s \in Turns : /\ pc'[s] = "rewriting" => From(Told(arrays'[ref'[s]]))
                       /\ pc'[s] \in {"folding", "renaming"} => From(Told(made'[s]))
    BY <1>1, <1>2, <1>3, FromIs
<1>. QED
    BY <1>1, <1>4, FromIs, LiveFrom

LEMMA LiveRewrite ==
    ASSUME Types, Held, NEW u \in Turns, WriteTemp(u) \/ Rename(u), NEW Y \in Live'
    PROVE  From(Y)
<1>1. CASE WriteTemp(u)
    <2>1. /\ pc[u] = "rewriting" /\ Goto(u, "renaming")
          /\ made'[u] = arrays[ref[u]] /\ \A s \in Turns : s # u => made'[s] = made[s]
          /\ ref' = ref /\ arrays' = arrays /\ file' = file /\ Current' = Current
        BY <1>1, WriteTempIs DEF Current
    <2>2. pc'[u] = "renaming" /\ \A s \in Turns : s # u => pc'[s] = pc[s]
        BY <2>1, GotoIs, Stages
    <2>3. \A s \in Turns : /\ pc'[s] = "rewriting" => From(Told(arrays'[ref'[s]]))
                           /\ pc'[s] \in {"folding", "renaming"} => From(Told(made'[s]))
        BY <2>1, <2>2, FromIs
    <2>. QED
        BY <2>1, <2>3, FromIs, LiveFrom
<1>2. CASE Rename(u)
    <2>1. /\ pc[u] = "renaming" /\ Goto(u, "folded") /\ file' = made[u]
          /\ \A s \in Turns : s # u => made'[s] = made[s]
          /\ ref' = ref /\ arrays' = arrays /\ Current' = Current
        BY <1>2, RenameIs DEF Current
    <2>2. pc'[u] = "folded" /\ \A s \in Turns : s # u => pc'[s] = pc[s]
        BY <2>1, GotoIs, Stages
    <2>3. \A s \in Turns : /\ pc'[s] = "rewriting" => From(Told(arrays'[ref'[s]]))
                           /\ pc'[s] \in {"folding", "renaming"} => From(Told(made'[s]))
        BY <2>1, <2>2, FromIs
    <2>. QED
        BY <2>1, <2>3, FromIs, LiveFrom
<1>. QED
    BY <1>1, <1>2

LEMMA LiveOthers ==
    ASSUME Types, Held, NEW u \in Turns, RewriteFails(u) \/ TurnFails(u) \/ AppendOpen(u), NEW Y \in Live'
    PROVE  From(Y)
<1>1. /\ \A s \in Turns : s # u => made'[s] = made[s] /\ ref'[s] = ref[s]
      /\ arrays' = arrays /\ file' = file /\ Current' = Current
    BY RewriteFailsIs, TurnFailsIs, AppendOpenIs DEF Current
<1>2. pc'[u] \in {"folded", "failed", "writing"} /\ \A s \in Turns : s # u => pc'[s] = pc[s]
    <2>1. CASE RewriteFails(u)
        <3>1. Fails(u, "folded")
            BY <2>1, RewriteFailsIs
        <3>. QED
            BY <3>1, FailsIs
    <2>2. CASE TurnFails(u)
        BY <2>2, TurnFailsIs, GotoIs
    <2>3. CASE AppendOpen(u)
        BY <2>3, AppendOpenIs, GotoIs, Stages
    <2>. QED
        BY <2>1, <2>2, <2>3
<1>3. \A s \in Turns : /\ pc'[s] = "rewriting" => From(Told(arrays'[ref'[s]]))
                       /\ pc'[s] \in {"folding", "renaming"} => From(Told(made'[s]))
    BY <1>1, <1>2, FromIs
<1>. QED
    BY <1>1, <1>3, FromIs, LiveFrom

\* What a turn under way adds of its own comes from the copy that was there.
LEMMA OwnFrom ==
    ASSUME NEW u \in Turns, pc[u] \in UnderWay, NEW X \in Live, NEW Y, X \subseteq Y, Y \subseteq X \cup Own(u)
    PROVE  From(Y)
<1>1. \A t \in Turns : pc[t] \notin UnderWay => Own(t) \cap Own(u) = {}
    BY OwnApart
<1>. QED
    BY <1>1 DEF From

LEMMA LiveAnswer ==
    ASSUME Types, Held, NEW u \in Turns, Answer(u), NEW Y \in Live'
    PROVE  From(Y)
<1>1. /\ pc[u] = "asking" /\ ref[u] \in DOMAIN arrays /\ Goto(u, "opening")
      /\ arrays'[ref[u]] = arrays[ref[u]] \o Pair(u)
      /\ \A k \in DOMAIN arrays : k # ref[u] => arrays'[k] = arrays[k]
      /\ Current' = IF ref[u] = Len(arrays) THEN Current \o Pair(u) ELSE Current
      /\ ref' = [ref EXCEPT ![u] = 0] /\ made' = made /\ file' = file
    BY AnswerIs
<1>2. pc'[u] = "opening" /\ \A s \in Turns : s # u => pc'[s] = pc[s]
    BY <1>1, GotoIs, Stages
<1>3. \A s \in Turns : s # u => ref'[s] = ref[s]
    BY <1>1 DEF Types
<1>4. \A k \in DOMAIN arrays : arrays[k] \in Histories
    BY CurrentIs
<1>5. \A h \in Histories : Told(h \o Pair(u)) = Told(h) \cup Own(u)
    BY PairIs, CatTold
<1>6. From(Told(Current'))
    <2>1. Told(Current) \subseteq Told(Current') /\ Told(Current') \subseteq Told(Current) \cup Own(u)
        BY <1>1, <1>5, CurrentIs
    <2>. QED
        BY <1>1, <2>1, FromIs, OwnFrom, Stages
<1>7. ASSUME NEW s \in Turns, pc'[s] = "rewriting" PROVE From(Told(arrays'[ref'[s]]))
    <2>1. s # u /\ pc[s] = "rewriting" /\ ref'[s] = ref[s] /\ ref[s] \in DOMAIN arrays
        BY <1>2, <1>3, <1>7, CurrentIs DEF Types, Held, Writing
    <2>2. /\ Told(arrays[ref[s]]) \subseteq Told(arrays'[ref[s]])
          /\ Told(arrays'[ref[s]]) \subseteq Told(arrays[ref[s]]) \cup Own(u)
        BY <1>1, <1>4, <1>5, <2>1
    <2>. QED
        BY <1>1, <2>1, <2>2, FromIs, OwnFrom, Stages
<1>8. ASSUME NEW s \in Turns, pc'[s] \in {"folding", "renaming"} PROVE From(Told(made'[s]))
    BY <1>1, <1>2, <1>8, FromIs
<1>9. From(Told(file'))
    BY <1>1, FromIs
<1>. QED
    BY <1>6, <1>7, <1>8, <1>9, LiveFrom

LEMMA LiveAppends ==
    ASSUME Types, Held, NEW u \in Turns, Appends(u), NEW Y \in Live'
    PROVE  From(Y)
<1>1. /\ pc[u] \in Appending /\ pc'[u] = "done" /\ \A s \in Turns : s # u => pc'[s] = pc[s]
      /\ arrays' = arrays /\ ref' = ref /\ made' = made /\ Current' = Current
    BY AppendsEnd DEF Current
<1>2. Told(file) \subseteq Told(file') /\ Told(file') \subseteq Told(file) \cup Own(u)
    BY AppendsTold
<1>3. From(Told(file'))
    BY <1>1, <1>2, FromIs, OwnFrom, Stages
<1>4. From(Told(Current'))
    BY <1>1, FromIs
<1>5. \A s \in Turns : /\ pc'[s] = "rewriting" => From(Told(arrays'[ref'[s]]))
                       /\ pc'[s] \in {"folding", "renaming"} => From(Told(made'[s]))
    BY <1>1, FromIs
<1>. QED
    BY <1>3, <1>4, <1>5, LiveFrom

LEMMA LiveRestart ==
    ASSUME Types, Restart, NEW Y \in Live'
    PROVE  From(Y)
<1>1. Current' = file /\ file' = file /\ pc' \in [Turns -> {"new", "done", "failed"}]
    BY RestartIs
<1>2. \A s \in Turns : pc'[s] \notin {"folding", "rewriting", "renaming"}
    BY <1>1
<1>. QED
    BY <1>1, <1>2, FromIs, LiveFrom

LEMMA LiveStep ==
    ASSUME Types, Held, [HistoryNext]_historyVars, ~(Reset \/ ResetFails), NEW Y \in Live'
    PROVE  From(Y)
<1>1. CASE UNCHANGED historyVars
    <2>1. arrays' = arrays /\ ref' = ref /\ pc' = pc /\ made' = made /\ file' = file
        BY <1>1 DEF historyVars
    <2>2. Y \in Live
        BY <2>1 DEF Live, Staged, In, Current
    <2>. QED
        BY <2>2, FromIs
<1>. QED
    BY <1>1, LiveHolding, LiveFolded, LiveRewrite, LiveOthers, LiveAnswer, LiveAppends, LiveRestart, Steps

\* A reset leaves the copies that others are about to put in the file.
LEMMA LiveReset ==
    ASSUME Types, Held, Reset \/ ResetFails, NEW Y \in Live'
    PROVE  Y = {} \/ Y \in Live
<1>1. /\ Current' = <<>> /\ pc' = pc /\ ref' = ref /\ made' = made /\ file' \in {file, <<>>}
      /\ \A k \in DOMAIN arrays : k \in DOMAIN arrays' /\ arrays'[k] = arrays[k]
    BY ResetIs
<1>2. Y = Told(Current') \/ Y = Told(file') \/ \E s \in Turns : pc'[s] \in Staging /\ Y = Staged(s)'
    BY DEF Live, In
<1>3. ASSUME NEW s \in Turns, pc'[s] \in Staging, Y = Staged(s)' PROVE Y \in Live
    <2>1. CASE pc[s] = "rewriting"
        <3>1. ref[s] \in DOMAIN arrays
            BY <2>1, CurrentIs DEF Types, Held, Writing
        <3>. QED
            BY <1>1, <1>3, <2>1, <3>1, FromIs DEF Staged
    <2>2. CASE pc[s] # "rewriting"
        BY <1>1, <1>3, <2>2, FromIs DEF Staged, Staging
    <2>. QED
        BY <2>1, <2>2
<1>. QED
    BY <1>1, <1>2, <1>3, FromIs, EmptyHistory
-----------------------------------------------------------------------------
(* What stays remembered, and what stays forgotten.                        *)

LEMMA OwnIs ==
    /\ \A t \in Turns : <<t, "assistant">> \in Own(t)
    /\ \A t \in Turns, r \in {"user", "assistant"} : <<t, r>> \in Own(t)
BY DEF Own

\* A turn does not go back.
LEMMA Onward ==
    ASSUME Types, Held, [HistoryNext]_historyVars, NEW t \in Turns
    PROVE  /\ excused \subseteq excused' /\ cleared \subseteq cleared'
           /\ pc[t] \in {"done", "failed"} => pc'[t] = pc[t]
           /\ pc[t] \in Appending => pc'[t] \in Appending \cup {"done", "failed"}
<1>1. CASE UNCHANGED historyVars
    BY <1>1 DEF historyVars
<1>2. ASSUME NEW u \in Turns, NEW there \in UnderWay \cup {"done", "failed"}, Goto(u, there), cleared' = cleared,
             \/ pc[u] \notin Appending \cup {"done", "failed"}
             \/ there \in Appending /\ pc[u] \notin {"done", "failed"}
      PROVE  /\ excused \subseteq excused' /\ cleared \subseteq cleared'
             /\ pc[t] \in {"done", "failed"} => pc'[t] = pc[t]
             /\ pc[t] \in Appending => pc'[t] \in Appending \cup {"done", "failed"}
    <2>1. pc'[u] = there /\ (\A s \in Turns : s # u => pc'[s] = pc[s]) /\ excused \subseteq excused'
        BY <1>2, GotoIs
    <2>. QED
        BY <1>2, <2>1
<1>3. ASSUME NEW u \in Turns,
             \/ Holding(u) \/ Folding(u) \/ Folded(u) \/ WriteTemp(u) \/ Rename(u)
             \/ Answer(u) \/ TurnFails(u) \/ AppendOpen(u)
      PROVE  /\ cleared' = cleared
             /\ \E there \in UnderWay \cup {"done", "failed"} :
                    /\ Goto(u, there)
                    /\ \/ pc[u] \notin Appending \cup {"done", "failed"}
                       \/ there \in Appending /\ pc[u] \notin {"done", "failed"}
    <2>1. CASE Holding(u)
        BY <2>1, HoldingIs, Stages DEF Frame
    <2>2. CASE Folding(u)
        BY <2>2, FoldingIs, Stages DEF Frame
    <2>3. CASE Folded(u)
        BY <2>3, FoldedIs, Stages DEF Frame
    <2>4. CASE WriteTemp(u)
        BY <2>4, WriteTempIs, Stages DEF Frame
    <2>5. CASE Rename(u)
        BY <2>5, RenameIs, Stages DEF Frame
    <2>6. CASE Answer(u)
        BY <2>6, AnswerIs, Stages
    <2>7. CASE TurnFails(u)
        BY <2>7, TurnFailsIs, Stages DEF Frame
    <2>8. CASE AppendOpen(u)
        BY <2>8, AppendOpenIs, Stages DEF Frame
    <2>. QED
        BY <1>3, <2>1, <2>2, <2>3, <2>4, <2>5, <2>6, <2>7, <2>8
<1>4. ASSUME NEW u \in Turns, RewriteFails(u)
      PROVE  /\ excused \subseteq excused' /\ cleared \subseteq cleared'
             /\ pc[t] \in {"done", "failed"} => pc'[t] = pc[t]
             /\ pc[t] \in Appending => pc'[t] \in Appending \cup {"done", "failed"}
    <2>1. pc[u] \in {"rewriting", "renaming"} /\ Fails(u, "folded") /\ cleared' = cleared
        BY <1>4, RewriteFailsIs DEF Frame
    <2>2. (\A s \in Turns : s # u => pc'[s] = pc[s]) /\ excused \subseteq excused'
        BY <2>1, FailsIs
    <2>. QED
        BY <2>1, <2>2, Stages
<1>5. ASSUME NEW u \in Turns, Appends(u)
      PROVE  /\ excused \subseteq excused' /\ cleared \subseteq cleared'
             /\ pc[t] \in {"done", "failed"} => pc'[t] = pc[t]
             /\ pc[t] \in Appending => pc'[t] \in Appending \cup {"done", "failed"}
    BY <1>5, AppendsEnd, Stages DEF Frame
<1>6. CASE Reset \/ ResetFails
    BY <1>6, ResetIs
<1>7. CASE Restart
    BY <1>7, RestartIs, Stages
<1>. QED
    BY <1>1, <1>2, <1>3, <1>4, <1>5, <1>6, <1>7, Steps

LEMMA LastingStep ==
    ASSUME Types, Held, Meet, Attached, Lasting, [HistoryNext]_historyVars
    PROVE  Lasting'
<1>1. SUFFICES ASSUME NEW t \in Turns, t \notin excused', t \notin cleared'
               PROVE  /\ pc'[t] \in Appending => <<t, "assistant">> \in Told(Current')
                      /\ pc'[t] = "done" => \A X \in Live' : <<t, "assistant">> \in X
    BY DEF Lasting
<1>2. t \notin excused /\ t \notin cleared
    BY <1>1, Onward
<1>3. /\ pc[t] \in Appending => <<t, "assistant">> \in Told(Current)
      /\ pc[t] = "done" => \A X \in Live : <<t, "assistant">> \in X
    BY <1>2 DEF Lasting
<1>4. CASE Reset \/ ResetFails
    BY <1>1, <1>4, ResetIs DEF Said, In
<1>5. CASE pc[t] = "done" /\ ~(Reset \/ ResetFails)
    <2>1. pc'[t] = "done"
        BY <1>5, Onward
    <2>2. ASSUME NEW Y \in Live' PROVE <<t, "assistant">> \in Y
        <3>1. PICK X \in Live : X \subseteq Y
            BY <1>5, <2>2, LiveStep DEF From
        <3>. QED
            BY <1>3, <1>5, <3>1
    <2>. QED
        BY <2>1, <2>2, Stages
<1>6. ASSUME pc[t] # "done", pc'[t] = "done", ~(Reset \/ ResetFails), NEW Y \in Live'
      PROVE  <<t, "assistant">> \in Y
    <2>1. Appends(t)
        <3>1. ASSUME NEW u \in Turns,
                     \/ Holding(u) \/ Folding(u) \/ Folded(u) \/ WriteTemp(u) \/ Rename(u)
                     \/ Answer(u) \/ TurnFails(u) \/ AppendOpen(u)
              PROVE  FALSE
            <4>1. \E there \in UnderWay \cup {"failed"} : Goto(u, there)
                BY <3>1, HoldingIs, FoldingIs, FoldedIs, WriteTempIs, RenameIs, AnswerIs, TurnFailsIs,
                   AppendOpenIs, Stages
            <4>2. pc'[u] # "done" /\ \A s \in Turns : s # u => pc'[s] = pc[s]
                BY <4>1, GotoIs, Stages
            <4>. QED
                BY <1>6, <4>2
        <3>2. ASSUME NEW u \in Turns, RewriteFails(u) PROVE FALSE
            <4>1. Fails(u, "folded")
                BY <3>2, RewriteFailsIs
            <4>2. pc'[u] = "folded" /\ \A s \in Turns : s # u => pc'[s] = pc[s]
                BY <4>1, FailsIs
            <4>. QED
                BY <1>6, <4>2
        <3>3. ASSUME NEW u \in Turns, Appends(u) PROVE u = t
            BY <1>6, <3>3, AppendsEnd
        <3>4. ~Restart
            BY <1>6, RestartIs
        <3>5. ~UNCHANGED historyVars
            BY <1>6 DEF historyVars
        <3>. QED
            BY <1>6, <3>1, <3>2, <3>3, <3>4, <3>5, Steps
    <2>2. /\ pc[t] \in Appending /\ \A s \in Turns : s # t => pc'[s] = pc[s]
          /\ arrays' = arrays /\ AppendWrite(t) /\ pc[t] = "writing"
        BY <1>1, <2>1, AppendsEnd
    <2>3. <<t, "assistant">> \in Told(file')
        <3>1. linked[t]
            BY <1>2, <2>2 DEF Attached
        <3>. QED
            BY <2>2, <3>1, WriteTold
    <2>4. Told(Current') = Told(Current)
        BY <2>2 DEF Current
    <2>5. \A s \in Turns : pc'[s] \notin Staging
        BY <1>2, <1>6, <2>2, Stages, StagingAre DEF Meet
    <2>6. Y = Told(Current') \/ Y = Told(file')
        BY <1>6, <2>5 DEF Live, In
    <2>. QED
        BY <1>3, <2>2, <2>3, <2>4, <2>6
<1>7. ASSUME pc'[t] \in Appending, ~(Reset \/ ResetFails)
      PROVE  <<t, "assistant">> \in Told(Current')
    <2>1. ~Restart
        BY <1>7, RestartIs, Stages
    <2>2. ASSUME NEW u \in Turns, Holding(u) \/ Folding(u) \/ WriteTemp(u) \/ Rename(u) \/ TurnFails(u)
          PROVE  pc[t] \in Appending /\ Current' = Current
        <3>1. arrays' = arrays /\ \E there \in Compacting \cup {"asking", "failed"} : Goto(u, there)
            BY <2>2, HoldingIs, FoldingIs, WriteTempIs, RenameIs, TurnFailsIs, Stages
        <3>2. pc'[u] \notin Appending /\ \A s \in Turns : s # u => pc'[s] = pc[s]
            BY <3>1, GotoIs, Stages
        <3>. QED
            BY <1>7, <3>1, <3>2 DEF Current
    <2>3. ASSUME NEW u \in Turns, RewriteFails(u)
          PROVE  pc[t] \in Appending /\ Current' = Current
        <3>1. Fails(u, "folded") /\ arrays' = arrays
            BY <2>3, RewriteFailsIs
        <3>2. pc'[u] = "folded" /\ \A s \in Turns : s # u => pc'[s] = pc[s]
            BY <3>1, FailsIs
        <3>. QED
            BY <1>7, <3>1, <3>2, Stages DEF Current
    <2>4. ASSUME NEW u \in Turns, Folded(u) PROVE FALSE
        <3>1. pc[u] = "folding" /\ Goto(u, "rewriting")
            BY <2>4, FoldedIs
        <3>2. pc'[u] = "rewriting" /\ \A s \in Turns : s # u => pc'[s] = pc[s]
            BY <3>1, GotoIs, Stages
        <3>3. t # u /\ pc[t] \in UnderWay
            BY <1>7, <3>2, Stages
        <3>. QED
            BY <1>2, <3>1, <3>3, Stages DEF Meet
    <2>5. ASSUME NEW u \in Turns, AppendOpen(u) \/ Appends(u)
          PROVE  pc[t] \in Appending /\ Current' = Current
        <3>1. pc[u] \in Appending /\ (\A s \in Turns : s # u => pc'[s] = pc[s]) /\ arrays' = arrays
            <4>1. CASE AppendOpen(u)
                BY <4>1, AppendOpenIs, GotoIs, Stages
            <4>2. CASE Appends(u)
                BY <4>2, AppendsEnd
            <4>. QED
                BY <2>5, <4>1, <4>2
        <3>. QED
            BY <1>7, <3>1 DEF Current
    <2>6. ASSUME NEW u \in Turns, Answer(u)
          PROVE  <<t, "assistant">> \in Told(Current')
        <3>1. /\ pc[u] = "asking" /\ Goto(u, "opening")
              /\ Current' = IF ref[u] = Len(arrays) THEN Current \o Pair(u) ELSE Current
            BY <2>6, AnswerIs
        <3>2. \A s \in Turns : s # u => pc'[s] = pc[s]
            BY <3>1, GotoIs, Stages
        <3>3. Told(Current \o Pair(u)) = Told(Current) \cup Own(u)
            BY CurrentIs, PairIs, CatTold
        <3>4. CASE t = u
            BY <1>2, <3>1, <3>3, <3>4, OwnIs DEF Attached
        <3>5. CASE t # u
            BY <1>3, <1>7, <3>1, <3>2, <3>3, <3>5
        <3>. QED
            BY <3>4, <3>5
    <2>7. CASE UNCHANGED historyVars
        BY <1>3, <1>7, <2>7 DEF historyVars, Current
    <2>. QED
        BY <1>3, <1>7, <2>1, <2>2, <2>3, <2>4, <2>5, <2>6, <2>7, Steps
<1>. QED
    BY <1>4, <1>5, <1>6, <1>7

LEMMA FinishedStep ==
    ASSUME Types, Held, Finished, [HistoryNext]_historyVars
    PROVE  Finished'
<1>1. CASE Reset \/ ResetFails
    <2>1. /\ pc' = pc /\ cleared' = cleared \cup Said /\ Current' = <<>>
          /\ \/ Reset /\ file' = <<>>
             \/ ResetFails /\ file' = file
        BY <1>1, ResetIs
    <2>2. \A t \in cleared' : pc'[t] \in Appending \cup {"done", "failed"}
        BY <2>1 DEF Finished, Said, In
    <2>3. CASE gone' = gone
        <3>1. \A Y \in Live' : Y = {} \/ Y \in Live
            BY <1>1, LiveReset
        <3>. QED
            BY <2>1, <2>2, <2>3, <3>1 DEF Finished
    <2>4. CASE gone' = cleared' /\ Reset /\ In(Compacting \cup Appending) = {}
        <3>1. \A t \in Turns : pc'[t] \notin Compacting /\ pc'[t] \notin Appending
            BY <2>1, <2>4 DEF In
        <3>2. \A t \in gone' : pc'[t] \in {"done", "failed"}
            <4>1. gone' \subseteq Turns
                BY <2>1, <2>4 DEF Types, Said, In
            <4>. QED
                BY <2>2, <2>4, <3>1, <4>1
        <3>3. \A t \in Turns : pc'[t] \notin Staging
            BY <3>1, StagingAre
        <3>4. file' = <<>>
            BY <2>4 DEF Reset
        <3>5. \A Y \in Live' : Y = {}
            <4>1. \A Y \in Live' : Y = Told(Current') \/ Y = Told(file') \/ \E s \in Turns : pc'[s] \in Staging
                BY DEF Live, In
            <4>. QED
                BY <2>1, <3>3, <3>4, <4>1, EmptyHistory
        <3>. QED
            BY <2>2, <3>2, <3>5 DEF Finished
    <2>. QED
        BY <1>1, <2>3, <2>4 DEF Reset, ResetFails, Cleared
<1>2. CASE ~(Reset \/ ResetFails)
    <2>1. cleared' = cleared /\ gone' = gone
        <3>1. ASSUME NEW u \in Turns,
                     \/ Holding(u) \/ Folding(u) \/ Folded(u) \/ WriteTemp(u) \/ Rename(u) \/ RewriteFails(u)
                     \/ TurnFails(u) \/ AppendOpen(u) \/ Appends(u) \/ Answer(u)
              PROVE  cleared' = cleared /\ gone' = gone
            BY <3>1, HoldingIs, FoldingIs, FoldedIs, WriteTempIs, RenameIs, RewriteFailsIs, TurnFailsIs,
               AppendOpenIs, AppendsEnd, AnswerIs DEF Frame
        <3>2. CASE Restart
            BY <3>2, RestartIs
        <3>3. CASE UNCHANGED historyVars
            BY <3>3 DEF historyVars
        <3>. QED
            BY <1>2, <3>1, <3>2, <3>3, Steps
    <2>2. cleared \subseteq Turns /\ gone \subseteq Turns
        BY DEF Types
    <2>3. \A t \in cleared' : pc'[t] \in Appending \cup {"done", "failed"}
        BY <2>1, <2>2, Onward DEF Finished
    <2>4. \A t \in gone' : pc'[t] \in {"done", "failed"}
        BY <2>1, <2>2, Onward DEF Finished
    <2>5. ASSUME NEW t \in gone', NEW Y \in Live' PROVE Own(t) \cap Y = {}
        <3>1. t \in Turns /\ t \in gone /\ pc[t] \notin UnderWay
            BY <2>1, <2>2, Stages DEF Finished
        <3>2. PICK X \in Live : Own(t) \cap Y \subseteq X
            BY <1>2, <3>1, LiveStep DEF From
        <3>3. Own(t) \cap X = {}
            BY <3>1 DEF Finished
        <3>. QED
            BY <3>2, <3>3
    <2>. QED
        BY <2>3, <2>4, <2>5 DEF Finished
<1>. QED
    BY <1>1, <1>2
-----------------------------------------------------------------------------
(* The memory and the file.                                                *)

\* Before a fold or a reset met a turn, whoever folds is alone.
LEMMA FoldsAlone ==
    ASSUME Meet, ~tangled, NEW u \in Turns, NEW s \in Turns, u # s, pc[u] \in UnderWay
    PROVE  pc[s] \notin Compacting /\ (pc[u] \in Compacting => pc[s] \notin UnderWay)
           /\ (~overlap => pc[s] \notin UnderWay)
BY Stages DEF Meet

LEMMA LackingIs ==
    \A m : m \in Lacking <=> \E t \in Turns : pc[t] \in Appending /\ m \in Range(Pair(t))
BY DEF Lacking, In

\* A step that leaves the memory, the file and those who rewrite it as they are.
LEMMA SyncedKeeps ==
    ASSUME Synced, ~tangled, ~overlap' => ~overlap,
           arrays' = arrays, file' = file, linked' = linked,
           \A t \in Turns : /\ pc'[t] = "asking" => ref'[t] = Len(arrays)
                            /\ pc'[t] = "writing" => pc[t] = "writing"
                            /\ pc'[t] = "rewriting" <=> pc[t] = "rewriting"
                            /\ pc'[t] = "rewriting" => ref'[t] = ref[t]
                            /\ pc'[t] = "renaming" <=> pc[t] = "renaming"
                            /\ pc'[t] = "renaming" => made'[t] = made[t]
                            /\ pc'[t] \in Appending <=> pc[t] \in Appending
    PROVE  Synced'
<1>1. Current' = Current
    BY DEF Current
<1>2. In({"rewriting", "renaming"})' = In({"rewriting", "renaming"}) /\ In(Appending)' = In(Appending)
    BY DEF In
<1>3. Lacking' = Lacking
    BY <1>2 DEF Lacking
<1>. QED
    BY <1>1, <1>2, <1>3 DEF Synced

\* Nobody is under way, or only one who has just brought them into line.
LEMMA SyncedAfresh ==
    ASSUME Types', Current' = file',
           \A t \in Turns : pc'[t] \notin Appending \cup {"asking", "rewriting", "renaming"}
    PROVE  Synced'
<1>1. In(Appending)' = {}
    BY DEF In
<1>2. Lacking' = {}
    BY <1>1 DEF Lacking
<1>3. \A t \in Turns : pc'[t] # "writing"
    BY Stages
<1>. QED
    BY <1>1, <1>2, <1>3 DEF Synced

LEMMA SyncedTurns ==
    ASSUME Types, Held, Meet, Synced, ~tangled, ~tangled', NEW u \in Turns,
           Holding(u) \/ Folding(u) \/ TurnFails(u)
    PROVE  Synced'
<1>1. arrays' = arrays /\ file' = file /\ linked' = linked
    BY HoldingIs, FoldingIs, TurnFailsIs
<1>2. \A s \in Turns : pc[s] = "asking" => ref[s] = Len(arrays)
    BY DEF Synced
<1>3. /\ pc[u] \in {"new", "folding", "folded", "asking"} /\ pc'[u] \in {"asking", "folding", "failed"}
      /\ (\A s \in Turns : s # u => pc'[s] = pc[s]) /\ (overlap => overlap')
    <2>1. /\ pc[u] \in {"new", "folding", "folded", "asking"}
          /\ \E there \in {"asking", "folding", "failed"} : Goto(u, there)
        BY HoldingIs, FoldingIs, TurnFailsIs
    <2>. QED
        BY <2>1, GotoIs, Stages
<1>4. /\ \A s \in Turns : s # u => ref'[s] = ref[s] /\ made'[s] = made[s]
      /\ pc'[u] = "asking" => ref'[u] = Len(arrays)
    <2>1. CASE Holding(u)
        BY <2>1, HoldingIs
    <2>2. CASE Folding(u)
        BY <2>2, FoldingIs, GotoIs, Stages
    <2>3. CASE TurnFails(u)
        BY <2>3, TurnFailsIs, GotoIs
    <2>. QED
        BY <2>1, <2>2, <2>3
<1>5. \A t \in Turns : /\ pc'[t] = "asking" => ref'[t] = Len(arrays)
                       /\ pc'[t] = "writing" => pc[t] = "writing"
                       /\ pc'[t] = "rewriting" <=> pc[t] = "rewriting"
                       /\ pc'[t] = "rewriting" => ref'[t] = ref[t]
                       /\ pc'[t] = "renaming" <=> pc[t] = "renaming"
                       /\ pc'[t] = "renaming" => made'[t] = made[t]
                       /\ pc'[t] \in Appending <=> pc[t] \in Appending
    BY <1>2, <1>3, <1>4 DEF Appending
<1>. QED
    BY <1>1, <1>3, <1>5, SyncedKeeps

LEMMA SyncedOpen ==
    ASSUME Types, Held, Synced, ~tangled, NEW u \in Turns, AppendOpen(u)
    PROVE  Synced'
<1>1. /\ pc[u] = "opening" /\ Goto(u, "writing") /\ linked'[u] = TRUE
      /\ \A s \in Turns : s # u => linked'[s] = linked[s]
      /\ arrays' = arrays /\ ref' = ref /\ made' = made /\ file' = file
    BY AppendOpenIs
<1>2. pc'[u] = "writing" /\ (\A s \in Turns : s # u => pc'[s] = pc[s]) /\ (overlap => overlap')
    BY <1>1, GotoIs, Stages
<1>3. In({"rewriting", "renaming"})' = In({"rewriting", "renaming"}) /\ In(Appending)' = In(Appending)
    BY <1>1, <1>2 DEF In, Appending
<1>4. Lacking' = Lacking /\ Current' = Current
    BY <1>1, <1>3 DEF Lacking, Current
<1>. QED
    BY <1>1, <1>2, <1>3, <1>4 DEF Synced

LEMMA SyncedRewrite ==
    ASSUME Types, Held, Meet, Synced, ~tangled, NEW u \in Turns, Folded(u) \/ WriteTemp(u) \/ Rename(u)
    PROVE  Synced'
<1>1. /\ pc[u] \in Compacting /\ \A s \in Turns : s # u => pc'[s] = pc[s]
      /\ pc'[u] \in {"rewriting", "renaming", "folded"}
    <2>1. pc[u] \in Compacting /\ \E there \in {"rewriting", "renaming", "folded"} : Goto(u, there)
        BY FoldedIs, WriteTempIs, RenameIs, Stages
    <2>. QED
        BY <2>1, GotoIs, Stages
<1>2. \A s \in Turns : s # u => pc'[s] \notin UnderWay
    BY <1>1, FoldsAlone, Stages
<1>3. CASE Folded(u)
    <2>1. Goto(u, "rewriting") /\ ref'[u] = Len(arrays')
        BY <1>3, FoldedIs
    <2>2. pc'[u] = "rewriting"
        BY <2>1, GotoIs, Stages
    <2>3. In({"rewriting", "renaming"})' # {}
        BY <2>2 DEF In
    <2>. QED
        BY <1>2, <2>1, <2>2, <2>3, Stages DEF Synced
<1>4. CASE WriteTemp(u)
    <2>1. /\ Goto(u, "renaming") /\ made'[u] = arrays[ref[u]] /\ pc[u] = "rewriting" /\ arrays' = arrays
        BY <1>4, WriteTempIs
    <2>2. made'[u] = Current'
        BY <2>1, CurrentIs DEF Synced, Current
    <2>3. pc'[u] = "renaming"
        BY <2>1, GotoIs, Stages
    <2>4. In({"rewriting", "renaming"})' # {}
        BY <2>3 DEF In
    <2>. QED
        BY <1>2, <2>2, <2>3, <2>4, Stages DEF Synced
<1>5. CASE Rename(u)
    <2>1. pc[u] = "renaming" /\ Goto(u, "folded") /\ file' = made[u] /\ arrays' = arrays
        BY <1>5, RenameIs
    <2>2. Current' = file'
        BY <2>1 DEF Synced, Current
    <2>3. pc'[u] = "folded"
        BY <2>1, GotoIs, Stages
    <2>4. \A t \in Turns : pc'[t] \notin Appending \cup {"asking", "rewriting", "renaming"}
        BY <1>2, <2>3, Stages
    <2>5. Types'
        BY <1>5, RewriteTypes
    <2>. QED
        BY <2>2, <2>4, <2>5, SyncedAfresh
<1>. QED
    BY <1>3, <1>4, <1>5

LEMMA SyncedAnswer ==
    ASSUME Types, Held, Meet, Synced, ~tangled, NEW u \in Turns, Answer(u)
    PROVE  Synced'
<1>1. /\ pc[u] = "asking" /\ Goto(u, "opening") /\ Len(arrays') = Len(arrays)
      /\ Current' = IF ref[u] = Len(arrays) THEN Current \o Pair(u) ELSE Current
      /\ ref' = [ref EXCEPT ![u] = 0] /\ made' = made /\ linked' = linked /\ file' = file
    BY AnswerIs
<1>2. pc'[u] = "opening" /\ (\A s \in Turns : s # u => pc'[s] = pc[s]) /\ (overlap => overlap')
    BY <1>1, GotoIs, Stages
<1>3. \A s \in Turns : s # u => ref'[s] = ref[s]
    BY <1>1 DEF Types
<1>4. Current' = Current \o Pair(u)
    BY <1>1 DEF Synced
<1>5. \A s \in Turns : s # u => pc[s] \notin Compacting /\ (~overlap => pc[s] \notin UnderWay)
    BY <1>1, FoldsAlone, Stages
<1>6. In({"rewriting", "renaming"}) = {} /\ \A s \in Turns : pc'[s] # "rewriting" /\ pc'[s] # "renaming"
    BY <1>1, <1>2, <1>5, Stages DEF In
<1>7. In(Appending)' = In(Appending) \cup {u}
    BY <1>1, <1>2, Stages DEF In
<1>8. Lacking' = Lacking \cup Range(Pair(u))
    BY <1>7 DEF Lacking
<1>9. Range(Current') = Range(file') \cup Lacking'
    <2>1. Range(Current \o Pair(u)) = Range(Current) \cup Range(Pair(u))
        BY CurrentIs, PairIs, CatRange
    <2>2. Range(Current) = Range(file) \cup Lacking
        BY <1>6 DEF Synced
    <2>. QED
        BY <1>1, <1>4, <1>8, <2>1, <2>2
<1>10. ~overlap' => /\ In(Appending)' = {} => Current' = file'
                    /\ \A t \in In(Appending)' : Current' = file' \o Pair(t)
    <2>1. SUFFICES ASSUME ~overlap' PROVE In(Appending)' = {u} /\ Current' = file' \o Pair(u)
        OBVIOUS
    <2>2. In(Appending) = {}
        BY <1>1, <1>2, <1>5, <2>1, Stages DEF In
    <2>3. Current = file
        BY <1>2, <1>6, <2>1, <2>2 DEF Synced
    <2>. QED
        BY <1>1, <1>4, <1>7, <2>2, <2>3
<1>11. /\ \A t \in Turns : pc'[t] = "asking" => ref'[t] = Len(arrays')
       /\ \A t \in Turns : pc'[t] = "writing" => linked'[t]
    BY <1>1, <1>2, <1>3 DEF Synced
<1>. QED
    BY <1>6, <1>9, <1>10, <1>11 DEF Synced

LEMMA SyncedAppends ==
    ASSUME Types, Held, Meet, Synced, ~tangled, ~tangled', NEW u \in Turns, Appends(u)
    PROVE  Synced'
<1>1. /\ pc[u] = "writing" /\ pc'[u] = "done" /\ \A s \in Turns : s # u => pc'[s] = pc[s]
      /\ \A s \in Turns : s # u => linked'[s] = linked[s]
      /\ (overlap => overlap') /\ arrays' = arrays /\ ref' = ref /\ made' = made /\ Current' = Current
      /\ AppendWrite(u) /\ ~(linked[u] /\ torn)
    BY AppendsEnd DEF Current
<1>2. file' = file \o Pair(u)
    <2>1. linked[u] /\ ~torn
        BY <1>1 DEF Synced
    <2>. QED
        BY <1>1, <2>1, WriteTold
<1>3. \A s \in Turns : s # u => pc[s] \notin Compacting /\ (~overlap => pc[s] \notin UnderWay)
    BY <1>1, FoldsAlone, Stages
<1>4. In({"rewriting", "renaming"}) = {} /\ \A s \in Turns : pc'[s] # "rewriting" /\ pc'[s] # "renaming"
    BY <1>1, <1>3, Stages DEF In
<1>5. In(Appending) = In(Appending)' \cup {u} /\ u \notin In(Appending)'
    BY <1>1, Stages DEF In
<1>6. Lacking = Lacking' \cup Range(Pair(u))
    BY <1>5 DEF Lacking
<1>7. Range(Current') = Range(file') \cup Lacking'
    <2>1. Range(file \o Pair(u)) = Range(file) \cup Range(Pair(u))
        BY PairIs, CatRange DEF Types
    <2>2. Range(Current) = Range(file) \cup Lacking
        BY <1>4 DEF Synced
    <2>. QED
        BY <1>1, <1>2, <1>6, <2>1, <2>2
<1>8. ~overlap' => In(Appending)' = {} /\ Current' = file'
    <2>1. SUFFICES ASSUME ~overlap' PROVE In(Appending)' = {} /\ Current' = file'
        OBVIOUS
    <2>2. In(Appending)' = {}
        BY <1>1, <1>3, <2>1, Stages DEF In
    <2>3. Current = file \o Pair(u)
        BY <1>1, <1>4, <1>5, <2>1 DEF Synced
    <2>. QED
        BY <1>1, <1>2, <2>2, <2>3
<1>9. /\ \A t \in Turns : pc'[t] = "asking" => ref'[t] = Len(arrays')
      /\ \A t \in Turns : pc'[t] = "writing" => linked'[t]
    BY <1>1 DEF Synced
<1>. QED
    BY <1>4, <1>7, <1>8, <1>9 DEF Synced

LEMMA SyncedStep ==
    ASSUME Types, Held, Meet, Synced, [HistoryNext]_historyVars
    PROVE  Synced'
<1>1. SUFFICES ASSUME ~tangled' PROVE Synced'
    BY DEF Synced
<1>2. Types'
    BY TypesStep
<1>3. CASE UNCHANGED historyVars
    BY <1>3 DEF historyVars, Synced, Current, Lacking, In
<1>4. CASE Restart
    <2>1. Current' = file' /\ pc' \in [Turns -> {"new", "done", "failed"}]
        BY <1>4, RestartIs
    <2>2. \A t \in Turns : pc'[t] \notin Appending \cup {"asking", "rewriting", "renaming"}
        BY <2>1 DEF Appending
    <2>. QED
        BY <1>2, <2>1, <2>2, SyncedAfresh
<1>5. CASE Reset \/ ResetFails
    <2>1. In(UnderWay) = {} /\ Reset
        BY <1>1, <1>5 DEF Reset, ResetFails, Cleared
    <2>2. pc' = pc /\ Current' = <<>> /\ file' = <<>>
        BY <1>5, <2>1, ResetIs DEF Reset
    <2>3. \A t \in Turns : pc'[t] \notin Appending \cup {"asking", "rewriting", "renaming"}
        BY <2>1, <2>2, Stages DEF In
    <2>. QED
        BY <1>2, <2>2, <2>3, SyncedAfresh
<1>6. ASSUME NEW u \in Turns,
             \/ Holding(u) \/ Folding(u) \/ Folded(u) \/ WriteTemp(u) \/ Rename(u)
             \/ Answer(u) \/ TurnFails(u) \/ AppendOpen(u)
      PROVE  ~tangled
    <2>1. \E there \in UnderWay \cup {"failed"} : Goto(u, there)
        BY <1>6, HoldingIs, FoldingIs, FoldedIs, WriteTempIs, RenameIs, AnswerIs, TurnFailsIs,
           AppendOpenIs, Stages
    <2>. QED
        BY <1>1, <2>1, GotoIs
<1>7. ASSUME NEW u \in Turns, RewriteFails(u) PROVE FALSE
    <2>1. Fails(u, "folded")
        BY <1>7, RewriteFailsIs
    <2>. QED
        BY <1>1, <2>1, FailsIs
<1>8. ASSUME NEW u \in Turns, Appends(u) PROVE Synced'
    BY <1>1, <1>8, AppendsEnd, SyncedAppends
<1>. QED
    BY <1>1, <1>3, <1>4, <1>5, <1>6, <1>7, <1>8, SyncedTurns, SyncedOpen, SyncedRewrite, SyncedAnswer, Steps

LEMMA SyncedIs ==
    ASSUME Types, Synced
    PROVE  MemoryIsDisk
<1>1. SUFFICES ASSUME In(UnderWay) = {}, ~tangled
               PROVE  Range(file) = Range(Current) /\ (~overlap => file = Current)
    BY DEF MemoryIsDisk
<1>2. In({"rewriting", "renaming"}) = {} /\ In(Appending) = {}
    BY <1>1, Stages DEF In
<1>3. Lacking = {}
    BY <1>2 DEF Lacking
<1>. QED
    BY <1>1, <1>2, <1>3 DEF Synced
-----------------------------------------------------------------------------
(* Theorems.                                                               *)

HistoryInv == Meet /\ Attached /\ Fresh /\ Single /\ Lasting /\ Finished /\ Synced

LEMMA FirstCopies == HistoryInit => Lasting /\ Finished /\ Synced
<1> SUFFICES ASSUME HistoryInit PROVE Lasting /\ Finished /\ Synced
    OBVIOUS
<1>1. /\ file = Hydrated /\ Current = Hydrated
      /\ \A t \in Turns : /\ pc[t] = IF t <= Earlier THEN "done" ELSE "new"
                          /\ pc[t] \notin UnderWay
      /\ cleared = {} /\ gone = {}
    BY FirstState
<1>2. \A X \in Live : X = Told(Hydrated)
    BY <1>1, StagingAre DEF Live, In
<1>3. Lasting
    BY <1>1, <1>2, HydratedIs, Stages DEF Lasting
<1>4. Finished
    BY <1>1 DEF Finished
<1>5. In(Appending) = {} /\ \A t \in Turns : pc[t] \notin {"asking", "writing", "rewriting", "renaming"}
    BY <1>1, Stages DEF In
<1>6. Lacking = {}
    BY <1>5 DEF Lacking
<1>7. Synced
    BY <1>1, <1>5, <1>6 DEF Synced
<1>. QED
    BY <1>3, <1>4, <1>7

LEMMA HistoryCorrect == HistorySpec => [](Types /\ Held /\ HistoryInv)
<1>1. HistoryInit => Types /\ Held /\ HistoryInv
    BY TypesInit, FirstMeet, FirstFresh, FirstCopies DEF HistoryInv
<1>2. Types /\ Held /\ HistoryInv /\ [HistoryNext]_historyVars => (Types /\ Held /\ HistoryInv)'
    BY TypesStep, MeetStep, AttachedStep, FreshStep, SingleStep, LastingStep, FinishedStep, SyncedStep
       DEF HistoryInv
<1>. QED
    BY <1>1, <1>2, PTL DEF HistorySpec

\* The variables of a conversation keep their types, and a turn that asks holds an
\* array that was made (getOrCreateHistory, infer).
THEOREM HistoryTypeCorrect == HistorySpec => []HistoryTypeOK
<1>1. HistoryInit => Types /\ Held /\ Counts
    BY TypesInit
<1>2. Types /\ Held /\ Counts /\ [HistoryNext]_historyVars => (Types /\ Held /\ Counts)'
    BY TypesStep, CountsStep
<1>3. Types /\ Held /\ Counts => HistoryTypeOK
    BY TypesAre
<1>. QED
    BY <1>1, <1>2, <1>3, PTL DEF HistorySpec

\* Between two turns the file holds what the agent remembers, in the same order if no
\* two turns overlapped, as long as since the last start of the process no fold and
\* no reset met a turn and no file operation failed.  (rewriteChannel, appendTurn,
\* clearChannel)
THEOREM MemoryIsDiskCorrect == HistorySpec => []MemoryIsDisk
<1>1. Types /\ HistoryInv => MemoryIsDisk
    BY SyncedIs DEF HistoryInv
<1>. QED
    BY <1>1, HistoryCorrect, PTL

\* A turn that was answered and saved stays in the agent's memory, however often the
\* channel is compacted and the daemon killed (compactHistory, loadAll).
THEOREM EveryTurnKeptCorrect == HistorySpec => []EveryTurnKept
<1>1. Types /\ HistoryInv => EveryTurnKept
    <2> SUFFICES ASSUME Types, HistoryInv, NEW t \in Turns \ (excused \cup cleared), pc[t] = "done"
                 PROVE  Telling(<<t, "assistant">>, Current) # {}
        BY DEF EveryTurnKept, At
    <2>1. <<t, "assistant">> \in Told(Current)
        BY FromIs DEF HistoryInv, Lasting
    <2>. QED
        BY <2>1, ToldOf DEF Telling
<1>. QED
    BY <1>1, HistoryCorrect, PTL

\* What was said before a reset that met no fold and no append never comes back
\* (clearChannel).
THEOREM ResetSticksCorrect == HistorySpec => []ResetSticks
<1>1. Types /\ HistoryInv => ResetSticks
    <2> SUFFICES ASSUME Types, HistoryInv, NEW l \in Lines, l[1] \in gone, NEW h \in {Current, file}
                 PROVE  Telling(l, h) = {}
        BY DEF ResetSticks
    <2>1. l \in Own(l[1])
        BY DEF Lines, Own
    <2>2. Own(l[1]) \cap Told(h) = {}
        BY FromIs DEF HistoryInv, Finished
    <2>. QED
        BY <2>1, <2>2, ToldOf DEF Telling
<1>. QED
    BY <1>1, HistoryCorrect, PTL

\* No turn is remembered twice, unless a rewrite took along a turn that was yet to be
\* appended (compactHistory, rewriteChannel, appendTurn).
THEOREM RememberedOnceCorrect == HistorySpec => []RememberedOnce
<1>1. Types /\ HistoryInv => RememberedOnce
    BY SingleIs DEF HistoryInv
<1>. QED
    BY <1>1, HistoryCorrect, PTL
=============================================================================
