---------------------------- MODULE EventStream ----------------------------
(***************************************************************************)
(* The gateway's event stream: EventHub with its ring of recent events     *)
(* (gateway/src/events.ts), the SSE handler (server.ts) and the client     *)
(* that reconnects with the last id it saw (cli/src/sandbox/client.ts).    *)
(*                                                                         *)
(* Publishing reaches the subscriber synchronously; what was written to    *)
(* the connection reaches the client in order, or is lost with it.  The    *)
(* sequence numbers start at one again when the daemon restarts.           *)
(***************************************************************************)
EXTENDS Naturals, Sequences, Functions

CONSTANTS
    BufferLimit,            \* bufferLimit, 256 in the code
    MaxSeq,                 \* bound: events per life of the daemon
    MaxDrops,               \* bound: connections that break
    MaxRestarts             \* bound: restarts of the daemon

ASSUME StreamAssumption ==
    BufferLimit \in Nat \ {0} /\ {MaxSeq, MaxDrops, MaxRestarts} \subseteq Nat

Lives  == 0..MaxRestarts
Events == [life : Lives, seq : 1..MaxSeq]

VARIABLES
    life, seq, buffer,      \* the daemon: lives before this one, #seq, #buffer
    conn, wire,             \* the connection: "off", "on"; events written, not read
    lastSeq,                \* the client's lastSeq, 0 for undefined
    got,                    \* events it yielded, in order
    drops,
    opened,                 \* history: life and seq when it first connected
    blind,                  \* history: it was disconnected before it had read an id
    behind                  \* history: an event it did not have was shifted out of the ring

vars == <<life, seq, buffer, conn, wire, lastSeq, got, drops, opened, blind, behind>>

None == [life |-> 0, seq |-> MaxSeq]

Init == /\ life = 0 /\ seq = 0 /\ buffer = <<>> /\ conn = "off" /\ wire = <<>>
        /\ lastSeq = 0 /\ got = <<>> /\ drops = 0
        /\ opened = None /\ blind = FALSE /\ behind = FALSE

Event(n) == [life |-> life, seq |-> n]
-----------------------------------------------------------------------------
\* Mutant: a full ring drops the new event.
Push_Full(b, e) == IF Len(b) >= BufferLimit THEN b ELSE Append(b, e)

\* The ring forgets its oldest event when it is full.
Push(b, e) == IF Len(b) >= BufferLimit THEN Append(Tail(b), e) ELSE Append(b, e)

Publish ==
    /\ seq < MaxSeq /\ seq' = seq + 1
    /\ buffer' = Push(buffer, Event(seq'))
    /\ wire' = (IF conn = "on" THEN Append(wire, Event(seq')) ELSE wire)
    /\ behind' = (behind \/ (conn = "off" /\ Len(buffer) >= BufferLimit /\ Head(buffer).seq > lastSeq))
    /\ UNCHANGED <<life, conn, lastSeq, got, drops, opened, blind>>

\* Mutant: the replay includes the event the client saw last.
Newer_Inclusive(e) == lastSeq > 0 /\ e.seq >= lastSeq

\* What subscribe replays to a client that sends its last id.
Newer(e) == lastSeq > 0 /\ e.seq > lastSeq

\* GET /events: the replay, the newer events at the end of the ring, and the
\* subscription are one synchronous step.
Connect ==
    /\ conn = "off" /\ conn' = "on"
    /\ \E k \in 0..Len(buffer) : /\ \A i \in DOMAIN buffer : Newer(buffer[i]) <=> i > k
                                 /\ wire' = SubSeq(buffer, k + 1, Len(buffer))
    /\ opened' = (IF opened = None THEN Event(seq) ELSE opened)
    /\ UNCHANGED <<life, seq, buffer, lastSeq, got, drops, blind, behind>>

Read ==
    /\ conn = "on" /\ wire # <<>>
    /\ lastSeq' = Head(wire).seq /\ got' = Append(got, Head(wire)) /\ wire' = Tail(wire)
    /\ UNCHANGED <<life, seq, buffer, conn, drops, opened, blind, behind>>

Cut == /\ conn' = "off" /\ wire' = <<>> /\ blind' = (blind \/ (conn = "on" /\ lastSeq = 0))
       /\ behind' = (behind \/ ~ Range(wire) \subseteq Range(buffer))

Drop ==
    /\ conn = "on" /\ drops < MaxDrops /\ drops' = drops + 1 /\ Cut
    /\ UNCHANGED <<life, seq, buffer, lastSeq, got, opened>>

Restart ==
    /\ life < MaxRestarts /\ life' = life + 1 /\ seq' = 0 /\ buffer' = <<>> /\ Cut
    /\ UNCHANGED <<lastSeq, got, drops, opened>>
-----------------------------------------------------------------------------
Next == Publish \/ Connect \/ Read \/ Drop \/ Restart

Spec == Init /\ [][Next]_vars

-----------------------------------------------------------------------------
TypeOK ==
    /\ life \in Lives /\ seq \in 0..MaxSeq /\ conn \in {"off", "on"} /\ lastSeq \in 0..MaxSeq
    /\ buffer \in Seq(Events) /\ Len(buffer) <= BufferLimit
    /\ wire \in Seq(Events) /\ got \in Seq(Events) /\ drops \in 0..MaxDrops
    /\ opened \in [life : Lives, seq : 0..MaxSeq] /\ {blind, behind} \subseteq BOOLEAN

\* A client never yields an event twice, nor two events of one life out of order.
InOrder ==
    \A i, j \in 1..Len(got) :
        (i < j /\ got[i].life = got[j].life) => got[i].seq < got[j].seq

\* Events of this life, published since the client first connected, that it
\* neither has nor can still get.
Reachable == Range(got) \cup Range(wire)
                \cup {e \in Range(buffer) : conn = "off" /\ Newer(e)}
Missed == {n \in 1..seq : /\ opened # None /\ (life = opened.life => n > opened.seq)
                          /\ Event(n) \notin Reachable}

\* While the daemon lives, a client that has read an id misses nothing,
\* however often and wherever its connection breaks, unless it is away for
\* more events than the ring holds.
MissesOnlyBeyondRing == (life = 0 /\ ~blind /\ ~behind) => Missed = {}

=============================================================================
