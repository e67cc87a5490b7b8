--------------------------- MODULE DeliveryProofs ----------------------------
(***************************************************************************)
(* What is handed on at most once and in order: the events of EventStream  *)
(* to the operator's client, for a ring of any size and any number of      *)
(* events, broken connections and restarts, and the messages of A2AInbox   *)
(* to the brain, for any senders, scans and files, whatever is lost, fails *)
(* or is edited on the way.                                                *)
(***************************************************************************)
EXTENDS EventStream, A2AInbox, SequenceTheorems, WellFoundedInduction, TLAPS

-----------------------------------------------------------------------------
(* The event stream: types, InOrder and MissesOnlyBeyondRing.              *)

\* The events of s are of life l and at most the n-th of it, in the order published.
Ordered(s, l, n) ==
    /\ \A i \in 1..Len(s) : s[i].life = l /\ s[i].seq <= n
    /\ \A i, j \in 1..Len(s) : i < j => s[i].seq < s[j].seq

\* What the client has of this life is older than its last id at the latest, and
\* than all that is on the wire.
Known ==
    \A i \in 1..Len(got) :
        /\ got[i].life <= life
        /\ got[i].life = life => /\ got[i].seq <= lastSeq /\ got[i].seq <= seq
                                 /\ \A j \in 1..Len(wire) : got[i].seq < wire[j].seq

IInv == TypeOK /\ Ordered(buffer, life, seq) /\ Ordered(wire, life, seq) /\ Known /\ InOrder

LEMMA Constants ==
    /\ BufferLimit \in Nat /\ BufferLimit > 0
    /\ MaxSeq \in Nat /\ MaxDrops \in Nat /\ MaxRestarts \in Nat
    /\ \A l \in Lives : l \in Nat
    /\ \A e \in Events : e.life \in Lives /\ e.life \in Nat /\ e.seq \in 1..MaxSeq /\ e.seq \in Nat
BY StreamAssumption DEF Lives, Events
-----------------------------------------------------------------------------
(* Sequences of events.                                                    *)

LEMMA OrderedEmpty ==
    ASSUME NEW l, NEW n
    PROVE  <<>> \in Seq(Events) /\ Len(<<>>) = 0 /\ Ordered(<<>>, l, n)
BY DEF Ordered

LEMMA OrderedAppend ==
    ASSUME NEW s \in Seq(Events), NEW l \in Lives, NEW n \in Nat, n + 1 \in 1..MaxSeq,
           Ordered(s, l, n)
    PROVE  LET t == Append(s, [life |-> l, seq |-> n + 1])
           IN  t \in Seq(Events) /\ Len(t) = Len(s) + 1 /\ Ordered(t, l, n + 1)
<1>. DEFINE e == [life |-> l, seq |-> n + 1]
            t == Append(s, e)
<1>1. e \in Events /\ e.life = l /\ e.seq = n + 1
    BY DEF Events
<1>. HIDE DEF e
<1>2. /\ t \in Seq(Events) /\ Len(s) \in Nat /\ Len(t) = Len(s) + 1
      /\ \A i \in 1..Len(s) : t[i] = s[i]
      /\ t[Len(s) + 1] = e
    BY <1>1
<1>. HIDE DEF t
<1>3. \A i \in 1..Len(s) : s[i].seq \in Nat /\ s[i].life = l /\ s[i].seq <= n
    BY Constants DEF Ordered
<1>4. \A i \in 1..Len(t) : t[i].life = l /\ t[i].seq <= n + 1
    BY <1>1, <1>2, <1>3
<1>5. ASSUME NEW i \in 1..Len(t), NEW j \in 1..Len(t), i < j PROVE t[i].seq < t[j].seq
    <2>1. i \in 1..Len(s)
        BY <1>2, <1>5
    <2>2. CASE j \in 1..Len(s)
        BY <1>2, <1>5, <2>1, <2>2 DEF Ordered
    <2>3. CASE j = Len(s) + 1
        BY <1>1, <1>2, <1>3, <2>1, <2>3
    <2>. QED
        BY <1>2, <2>2, <2>3
<1>6. Ordered(t, l, n + 1)
    BY <1>4, <1>5 DEF Ordered
<1>. QED
    BY <1>2, <1>6 DEF t, e

LEMMA OrderedTail ==
    ASSUME NEW s \in Seq(Events), s # <<>>, NEW l, NEW n, Ordered(s, l, n)
    PROVE  /\ Tail(s) \in Seq(Events) /\ Len(Tail(s)) = Len(s) - 1 /\ Ordered(Tail(s), l, n)
           /\ Len(s) \in Nat /\ Len(s) > 0 /\ Head(s) = s[1] /\ s[1] \in Events
           /\ \A i \in 1..Len(Tail(s)) : i + 1 \in 1..Len(s) /\ Tail(s)[i] = s[i + 1]
<1>1. /\ Tail(s) \in Seq(Events) /\ Len(Tail(s)) = Len(s) - 1 /\ Head(s) = s[1] /\ s[1] \in Events
      /\ Len(s) \in Nat /\ Len(s) > 0
      /\ \A i \in 1..Len(Tail(s)) : i + 1 \in 1..Len(s) /\ Tail(s)[i] = s[i + 1]
    OBVIOUS
<1>2. Ordered(Tail(s), l, n)
    BY <1>1 DEF Ordered
<1>. QED
    BY <1>1, <1>2

\* The ring keeps its newest events.
LEMMA PushFacts ==
    ASSUME NEW b \in Seq(Events), Len(b) <= BufferLimit, NEW l \in Lives, NEW n \in Nat,
           n + 1 \in 1..MaxSeq, Ordered(b, l, n)
    PROVE  LET t == Push(b, [life |-> l, seq |-> n + 1])
           IN  t \in Seq(Events) /\ Len(t) <= BufferLimit /\ Ordered(t, l, n + 1)
<1>1. CASE Len(b) >= BufferLimit
    <2>1. b # <<>>
        BY <1>1, Constants
    <2>2. Tail(b) \in Seq(Events) /\ Len(Tail(b)) = Len(b) - 1 /\ Ordered(Tail(b), l, n)
        BY <2>1, OrderedTail
    <2>3. LET t == Append(Tail(b), [life |-> l, seq |-> n + 1])
          IN  t \in Seq(Events) /\ Len(t) = Len(b) - 1 + 1 /\ Ordered(t, l, n + 1)
        BY <2>2, OrderedAppend
    <2>4. Len(b) \in Nat
        OBVIOUS
    <2>. QED
        BY <1>1, <2>3, <2>4, Constants DEF Push
<1>2. CASE ~(Len(b) >= BufferLimit)
    <2>1. LET t == Append(b, [life |-> l, seq |-> n + 1])
          IN  t \in Seq(Events) /\ Len(t) = Len(b) + 1 /\ Ordered(t, l, n + 1)
        BY OrderedAppend
    <2>2. Len(b) \in Nat
        OBVIOUS
    <2>. QED
        BY <1>2, <2>1, <2>2, Constants DEF Push
<1>. QED
    BY <1>1, <1>2

LEMMA SuffixFacts ==
    ASSUME NEW s \in Seq(Events), NEW k \in 0..Len(s), NEW l, NEW n, Ordered(s, l, n)
    PROVE  LET t == SubSeq(s, k + 1, Len(s))
           IN  /\ t \in Seq(Events) /\ Ordered(t, l, n) /\ Len(t) = Len(s) - k
               /\ \A i \in 1..Len(t) : k + i \in 1..Len(s) /\ k + i > k /\ t[i] = s[k + i]
<1>. DEFINE t == SubSeq(s, k + 1, Len(s))
<1>1. Len(s) \in Nat /\ k \in Nat
    OBVIOUS
<1>2. \A i \in (k + 1)..Len(s) : s[i] \in Events
    BY <1>1
<1>3. /\ t \in Seq(Events) /\ Len(t) = Len(s) - k
      /\ \A i \in 1..Len(t) : t[i] = s[k + i]
    <2>1. k + 1 \in Int /\ Len(s) \in Int
        BY <1>1
    <2>2. /\ t \in Seq(Events)
          /\ Len(t) = IF k + 1 <= Len(s) THEN Len(s) - (k + 1) + 1 ELSE 0
          /\ \A i \in 1..(Len(s) - (k + 1) + 1) : t[i] = s[(k + 1) + i - 1]
        BY <1>2, <2>1, SubSeqProperties
    <2>. HIDE DEF t
    <2>3. Len(t) = Len(s) - k
        BY <1>1, <2>2
    <2>4. \A i \in 1..Len(t) : t[i] = s[k + i]
        BY <1>1, <2>2, <2>3
    <2>. QED
        BY <2>2, <2>3, <2>4
<1>. HIDE DEF t
<1>4. \A i \in 1..Len(t) : k + i \in 1..Len(s) /\ k + i > k /\ t[i] = s[k + i]
    BY <1>1, <1>3
<1>5. ASSUME NEW i \in 1..Len(t), NEW j \in 1..Len(t), i < j PROVE t[i].seq < t[j].seq
    <2>1. k + i < k + j /\ k + i \in 1..Len(s) /\ k + j \in 1..Len(s)
        BY <1>1, <1>3, <1>4, <1>5
    <2>. QED
        BY <2>1, <1>4 DEF Ordered
<1>6. Ordered(t, l, n)
    BY <1>4, <1>5 DEF Ordered
<1>. QED
    BY <1>3, <1>4, <1>6 DEF t
-----------------------------------------------------------------------------
(* The steps.                                                              *)

LEMMA InvInit == Init => IInv
<1> SUFFICES ASSUME Init PROVE IInv
    OBVIOUS
<1>1. 0 \in Lives /\ 0 \in Nat /\ 0 \in 0..MaxSeq /\ 0 \in 0..MaxDrops /\ 0 <= BufferLimit
    BY Constants DEF Lives
<1>2. None \in [life : Lives, seq : 0..MaxSeq]
    BY <1>1, Constants DEF None
<1>3. TypeOK
    BY <1>1, <1>2, OrderedEmpty DEF Init, TypeOK
<1>. QED
    BY <1>3, OrderedEmpty DEF Init, IInv, Known, InOrder

LEMMA PublishStep ==
    ASSUME IInv, Publish
    PROVE  IInv'
<1>1. /\ seq < MaxSeq /\ seq' = seq + 1
      /\ buffer' = Push(buffer, [life |-> life, seq |-> seq + 1])
      /\ \/ wire' = Append(wire, [life |-> life, seq |-> seq + 1])
         \/ wire' = wire
      /\ UNCHANGED <<life, conn, lastSeq, got, drops, opened, blind>>
    BY DEF Publish, Event
<1>2. /\ life \in Lives /\ seq \in Nat /\ seq + 1 \in 1..MaxSeq /\ seq' \in 0..MaxSeq
      /\ wire \in Seq(Events) /\ buffer \in Seq(Events) /\ Len(buffer) <= BufferLimit
      /\ Ordered(wire, life, seq) /\ Ordered(buffer, life, seq)
    BY <1>1, Constants DEF IInv, TypeOK
<1>3. buffer' \in Seq(Events) /\ Len(buffer') <= BufferLimit /\ Ordered(buffer', life', seq')
    BY <1>1, <1>2, PushFacts
<1>4. /\ wire' \in Seq(Events) /\ Ordered(wire', life', seq')
      /\ \A j \in 1..Len(wire') : (j \in 1..Len(wire) /\ wire'[j] = wire[j]) \/ wire'[j].seq = seq + 1
    <2>1. CASE wire' = wire
        BY <1>1, <1>2, <2>1, Constants DEF Ordered
    <2>2. CASE wire' = Append(wire, [life |-> life, seq |-> seq + 1])
        <3>1. wire' \in Seq(Events) /\ Len(wire') = Len(wire) + 1 /\ Ordered(wire', life, seq + 1)
            BY <1>2, <2>2, OrderedAppend
        <3>2. \A j \in 1..Len(wire') :
                    (j \in 1..Len(wire) /\ wire'[j] = wire[j]) \/ wire'[j].seq = seq + 1
            BY <1>2, <2>2
        <3>. QED
            BY <1>1, <3>1, <3>2
    <2>. QED
        BY <1>1, <2>1, <2>2
<1>5. behind' \in BOOLEAN
    <2>1. behind' = (behind \/ (conn = "off" /\ Len(buffer) >= BufferLimit /\ Head(buffer).seq > lastSeq))
        BY DEF Publish
    <2>. QED
        BY <2>1, Zenon DEF IInv, TypeOK
<1>6. TypeOK'
    BY <1>1, <1>2, <1>3, <1>4, <1>5 DEF IInv, TypeOK
<1>7. Known'
    <2>1. ASSUME NEW i \in 1..Len(got), got[i].life = life
          PROVE  /\ got[i].seq <= lastSeq /\ got[i].seq <= seq + 1
                 /\ \A j \in 1..Len(wire') : got[i].seq < wire'[j].seq
        <3>1. /\ got[i].seq <= lastSeq /\ got[i].seq <= seq /\ got[i].seq \in Nat
              /\ \A j \in 1..Len(wire) : got[i].seq < wire[j].seq
            BY <2>1, Constants DEF IInv, Known, TypeOK
        <3>2. ASSUME NEW j \in 1..Len(wire') PROVE got[i].seq < wire'[j].seq
            <4>1. CASE j \in 1..Len(wire) /\ wire'[j] = wire[j]
                BY <3>1, <4>1
            <4>2. CASE wire'[j].seq = seq + 1
                BY <1>2, <3>1, <4>2
            <4>. QED
                BY <1>4, <4>1, <4>2
        <3>3. got[i].seq <= seq + 1
            BY <1>2, <3>1
        <3>. QED
            BY <3>1, <3>2, <3>3
    <2>. QED
        BY <1>1, <2>1 DEF IInv, Known
<1>8. InOrder'
    BY <1>1 DEF IInv, InOrder
<1>. QED
    BY <1>3, <1>4, <1>6, <1>7, <1>8 DEF IInv

LEMMA ConnectStep ==
    ASSUME IInv, Connect
    PROVE  IInv'
<1>1. PICK k \in 0..Len(buffer) : /\ \A i \in DOMAIN buffer : Newer(buffer[i]) <=> i > k
                                  /\ wire' = SubSeq(buffer, k + 1, Len(buffer))
    BY DEF Connect
<1>2. UNCHANGED <<life, seq, buffer, lastSeq, got, drops, blind, behind>> /\ conn' = "on"
      /\ opened' = (IF opened = None THEN [life |-> life, seq |-> seq] ELSE opened)
    BY DEF Connect, Event
<1>3. /\ wire' \in Seq(Events) /\ Ordered(wire', life, seq)
      /\ \A j \in 1..Len(wire') : k + j \in 1..Len(buffer) /\ k + j > k /\ wire'[j] = buffer[k + j]
    BY <1>1, SuffixFacts DEF IInv, TypeOK
<1>4. \A j \in 1..Len(wire') : wire'[j].seq > lastSeq
    <2>1. DOMAIN buffer = 1..Len(buffer)
        BY DEF IInv, TypeOK
    <2>. QED
        BY <1>1, <1>3, <2>1 DEF Newer
<1>5. TypeOK'
    BY <1>2, <1>3 DEF IInv, TypeOK
<1>6. Known'
    <2>1. ASSUME NEW i \in 1..Len(got), got[i].life = life, NEW j \in 1..Len(wire')
          PROVE  got[i].seq < wire'[j].seq
        <3>1. got[i].seq <= lastSeq
            BY <2>1 DEF IInv, Known
        <3>2. got[i].seq \in Nat /\ wire'[j].seq \in Nat /\ lastSeq \in Nat
            BY <1>3, Constants DEF IInv, TypeOK
        <3>. QED
            BY <1>4, <3>1, <3>2
    <2>. QED
        BY <1>2, <2>1 DEF IInv, Known
<1>. QED
    BY <1>2, <1>3, <1>5, <1>6 DEF IInv, InOrder

LEMMA ReadStep ==
    ASSUME IInv, Read
    PROVE  IInv'
<1>. DEFINE e == wire[1]
            n == Len(got)
<1>1. /\ wire # <<>> /\ wire' = Tail(wire) /\ lastSeq' = Head(wire).seq /\ got' = Append(got, Head(wire))
      /\ UNCHANGED <<life, seq, buffer, conn, drops, opened, blind, behind>>
    BY DEF Read
<1>2. /\ wire' \in Seq(Events) /\ Len(wire') = Len(wire) - 1 /\ Ordered(wire', life, seq)
      /\ Len(wire) \in Nat /\ Len(wire) > 0 /\ Head(wire) = e /\ e \in Events
      /\ \A j \in 1..Len(wire') : j + 1 \in 1..Len(wire) /\ wire'[j] = wire[j + 1]
    BY <1>1, OrderedTail DEF IInv, TypeOK
<1>3. /\ got' \in Seq(Events) /\ n \in Nat /\ Len(got') = n + 1
      /\ got'[n + 1] = e /\ \A i \in 1..n : got'[i] = got[i]
    BY <1>1, <1>2 DEF IInv, TypeOK
<1>4. e.life = life /\ e.seq <= seq /\ e.seq \in Nat /\ e.seq \in 1..MaxSeq /\ life \in Nat /\ lastSeq' = e.seq
    BY <1>1, <1>2, Constants DEF IInv, Ordered, TypeOK
<1>5. \A j \in 1..Len(wire') : wire'[j].seq > e.seq /\ wire'[j].seq \in Nat
    <2>1. \A j \in 1..Len(wire') : e.seq < wire[j + 1].seq
        BY <1>2 DEF IInv, Ordered
    <2>. QED
        BY <1>2, <2>1, Constants
<1>6. ASSUME NEW i \in 1..n, got[i].life = life
      PROVE  got[i].seq < e.seq /\ got[i].seq \in Nat
    <2>1. /\ 1 \in 1..Len(wire) /\ got \in Seq(Events) /\ i \in 1..Len(got)
        BY <1>2 DEF IInv, TypeOK
    <2>2. \A j \in 1..Len(wire) : got[i].seq < wire[j].seq
        BY <1>6, <2>1, Zenon DEF IInv, Known
    <2>. QED
        BY <2>1, <2>2, Constants
<1>. HIDE DEF e, n
<1>7. TypeOK'
    BY <1>1, <1>2, <1>3, <1>4 DEF IInv, TypeOK
<1>8. Known'
    <2>1. ASSUME NEW i \in 1..Len(got')
          PROVE  /\ got'[i].life <= life
                 /\ got'[i].life = life => /\ got'[i].seq <= e.seq /\ got'[i].seq <= seq
                                           /\ \A j \in 1..Len(wire') : got'[i].seq < wire'[j].seq
        <3>1. CASE i = n + 1
            BY <1>3, <1>4, <1>5, <3>1
        <3>2. CASE i \in 1..n
            <4>1. got'[i] = got[i] /\ got[i].life <= life
                BY <1>3, <3>2 DEF IInv, Known, n
            <4>2. seq \in Nat
                BY Constants DEF IInv, TypeOK
            <4>. QED
                BY <1>4, <1>5, <1>6, <3>2, <4>1, <4>2
        <3>. QED
            BY <1>3, <3>1, <3>2
    <2>. QED
        BY <1>1, <1>4, <2>1 DEF Known
<1>9. InOrder'
    <2>1. ASSUME NEW i \in 1..Len(got'), NEW j \in 1..Len(got'), i < j, got'[i].life = got'[j].life
          PROVE  got'[i].seq < got'[j].seq
        <3>1. i \in 1..n
            BY <1>3, <2>1
        <3>2. CASE j = n + 1
            BY <1>3, <1>4, <1>6, <2>1, <3>1, <3>2
        <3>3. CASE j \in 1..n
            BY <1>3, <2>1, <3>1, <3>3 DEF IInv, InOrder, n
        <3>. QED
            BY <1>3, <3>2, <3>3
    <2>. QED
        BY <2>1 DEF InOrder
<1>. QED
    BY <1>1, <1>2, <1>7, <1>8, <1>9 DEF IInv

LEMMA CutFacts ==
    ASSUME IInv, Cut
    PROVE  conn' = "off" /\ wire' = <<>> /\ blind' \in BOOLEAN /\ behind' \in BOOLEAN
<1>1. /\ conn' = "off" /\ wire' = <<>> /\ blind' = (blind \/ (conn = "on" /\ lastSeq = 0))
      /\ behind' = (behind \/ ~ Range(wire) \subseteq Range(buffer))
    BY DEF Cut
<1>. QED
    BY <1>1, Zenon DEF IInv, TypeOK

LEMMA DropStep ==
    ASSUME IInv, Drop
    PROVE  IInv'
<1>1. /\ drops < MaxDrops /\ drops' = drops + 1 /\ conn' = "off" /\ wire' = <<>>
      /\ blind' \in BOOLEAN /\ behind' \in BOOLEAN
      /\ UNCHANGED <<life, seq, buffer, lastSeq, got, opened>>
    BY CutFacts DEF Drop
<1>2. TypeOK'
    BY <1>1, OrderedEmpty, Constants DEF IInv, TypeOK
<1>. QED
    BY <1>1, <1>2, OrderedEmpty DEF IInv, Known, InOrder

LEMMA RestartStep ==
    ASSUME IInv, Restart
    PROVE  IInv'
<1>1. /\ life < MaxRestarts /\ life' = life + 1 /\ seq' = 0 /\ buffer' = <<>>
      /\ conn' = "off" /\ wire' = <<>> /\ blind' \in BOOLEAN /\ behind' \in BOOLEAN
      /\ UNCHANGED <<lastSeq, got, drops, opened>>
    BY CutFacts DEF Restart
<1>2. TypeOK'
    BY <1>1, OrderedEmpty, Constants DEF IInv, TypeOK, Lives
<1>3. Known'
    <2>1. ASSUME NEW i \in 1..Len(got) PROVE got[i].life <= life + 1 /\ got[i].life # life + 1
        <3>1. got[i].life \in Nat /\ life \in Nat /\ got[i].life <= life
            BY Constants DEF IInv, TypeOK, Known
        <3>. QED
            BY <3>1
    <2>. QED
        BY <1>1, <2>1 DEF Known
<1>. QED
    BY <1>1, <1>2, <1>3, OrderedEmpty DEF IInv, InOrder

LEMMA InvStep == IInv /\ [Next]_vars => IInv'
<1> SUFFICES ASSUME IInv, [Next]_vars PROVE IInv'
    OBVIOUS
<1>1. CASE UNCHANGED vars
    BY <1>1 DEF vars, IInv, TypeOK, Known, InOrder
<1>. QED
    BY <1>1, PublishStep, ConnectStep, ReadStep, DropStep, RestartStep DEF Next

LEMMA InvCorrect == Spec => []IInv
BY InvInit, InvStep, PTL DEF Spec

\* Every reachable state of the event stream is well typed, and the ring never
\* holds more than it may.
THEOREM TypeCorrect == Spec => []TypeOK
<1>1. IInv => TypeOK
    BY DEF IInv
<1>. QED
    BY <1>1, InvCorrect, PTL

\* A client never yields an event twice, nor two events of one life of the
\* daemon out of order, whatever breaks.
THEOREM OrderCorrect == Spec => []InOrder
<1>1. IInv => InOrder
    BY DEF IInv
<1>. QED
    BY <1>1, InvCorrect, PTL
-----------------------------------------------------------------------------
(* MissesOnlyBeyondRing: in the daemon's first life each event since the   *)
(* client first connected is in its hands, on the wire, or in the ring and *)
(* newer than the last id it read.                                         *)

Fresh ==
    /\ opened.life <= life
    /\ conn = "off" => wire = <<>>
    /\ life = 0 => lastSeq <= seq /\ \A j \in 1..Len(wire) : wire[j].seq > lastSeq

Whole ==
    life = 0 /\ ~blind /\ ~behind /\ opened # None =>
        /\ conn = "off" => lastSeq > 0
        /\ \A n \in 1..seq : n > opened.seq => Event(n) \in Reachable

LEMMA RangeAppend ==
    ASSUME NEW s \in Seq(Events), NEW e \in Events
    PROVE  Range(Append(s, e)) = Range(s) \cup {e}
<1>1. /\ Len(s) \in Nat /\ DOMAIN s = 1..Len(s) /\ DOMAIN Append(s, e) = 1..(Len(s) + 1)
      /\ \A i \in 1..Len(s) : Append(s, e)[i] = s[i]
      /\ Append(s, e)[Len(s) + 1] = e
    OBVIOUS
<1>2. 1..(Len(s) + 1) = 1..Len(s) \cup {Len(s) + 1}
    BY <1>1
<1>. QED
    BY <1>1, <1>2 DEF Range

LEMMA RangeTail ==
    ASSUME NEW s \in Seq(Events), s # <<>>
    PROVE  Range(s) = Range(Tail(s)) \cup {Head(s)}
<1>1. /\ Len(s) \in Nat /\ Len(s) > 0 /\ DOMAIN s = 1..Len(s) /\ DOMAIN Tail(s) = 1..(Len(s) - 1)
      /\ \A i \in 1..(Len(s) - 1) : Tail(s)[i] = s[i + 1]
      /\ Head(s) = s[1]
    OBVIOUS
<1>2. ASSUME NEW e \in Range(s) PROVE e \in Range(Tail(s)) \cup {Head(s)}
    <2>1. PICK i \in 1..Len(s) : e = s[i]
        BY <1>1 DEF Range
    <2>2. i = 1 \/ (i - 1 \in 1..(Len(s) - 1) /\ Tail(s)[i - 1] = s[i])
        BY <1>1
    <2>. QED
        BY <1>1, <2>1, <2>2 DEF Range
<1>3. ASSUME NEW e \in Range(Tail(s)) \cup {Head(s)} PROVE e \in Range(s)
    <2>1. PICK i \in 1..Len(s) : e = s[i]
        BY <1>1 DEF Range
    <2>. QED
        BY <1>1, <2>1 DEF Range
<1>. QED
    BY <1>2, <1>3

LEMMA RangeSuffix ==
    ASSUME NEW s \in Seq(Events), NEW k \in 0..Len(s), NEW i \in 1..Len(s), i > k
    PROVE  s[i] \in Range(SubSeq(s, k + 1, Len(s)))
<1>. DEFINE t == SubSeq(s, k + 1, Len(s))
<1>1. /\ t \in Seq(Events) /\ Len(t) = Len(s) - k
      /\ \A j \in 1..Len(t) : k + j \in 1..Len(s) /\ t[j] = s[k + j]
    <2>2. Len(s) \in Nat /\ k \in Nat /\ k + 1 \in Int /\ Len(s) \in Int
        OBVIOUS
    <2>3. \A j \in (k + 1)..Len(s) : s[j] \in Events
        BY <2>2
    <2>4. /\ t \in Seq(Events)
          /\ Len(t) = IF k + 1 <= Len(s) THEN Len(s) - (k + 1) + 1 ELSE 0
          /\ \A j \in 1..(Len(s) - (k + 1) + 1) : t[j] = s[(k + 1) + j - 1]
        BY <2>2, <2>3, SubSeqProperties
    <2>. HIDE DEF t
    <2>. QED
        BY <2>2, <2>4
<1>2. i - k \in 1..Len(t) /\ DOMAIN t = 1..Len(t) /\ k + (i - k) = i
    BY <1>1
<1>. HIDE DEF t
<1>. QED
    BY <1>1, <1>2 DEF Range, t

LEMMA PushRange ==
    ASSUME NEW b \in Seq(Events), NEW e \in Events
    PROVE  /\ e \in Range(Push(b, e))
           /\ \A x \in Range(b) : (Len(b) >= BufferLimit => x # Head(b)) => x \in Range(Push(b, e))
<1>1. CASE Len(b) >= BufferLimit
    <2>1. b # <<>>
        BY <1>1, Constants
    <2>2. Tail(b) \in Seq(Events) /\ Range(b) = Range(Tail(b)) \cup {Head(b)}
        BY <2>1, RangeTail
    <2>3. Push(b, e) = Append(Tail(b), e)
        BY <1>1 DEF Push
    <2>4. Range(Push(b, e)) = Range(Tail(b)) \cup {e}
        BY <2>2, <2>3, RangeAppend
    <2>. QED
        BY <1>1, <2>2, <2>4
<1>2. CASE ~(Len(b) >= BufferLimit)
    <2>1. Push(b, e) = Append(b, e)
        BY <1>2 DEF Push
    <2>. QED
        BY <2>1, RangeAppend
<1>. QED
    BY <1>1, <1>2

LEMMA WholeInit == Init => Fresh /\ Whole
BY DEF Init, Fresh, Whole, None

LEMMA FreshStep == IInv /\ Fresh /\ [Next]_vars => Fresh'
<1> SUFFICES ASSUME IInv, Fresh, [Next]_vars PROVE Fresh'
    OBVIOUS
<1>0. /\ life \in Nat /\ seq \in Nat /\ lastSeq \in Nat /\ opened.life \in Nat /\ wire \in Seq(Events)
      /\ buffer \in Seq(Events)
    BY Constants DEF IInv, TypeOK
<1>1. CASE UNCHANGED <<life, seq, conn, wire, lastSeq, opened>>
    BY <1>1 DEF Fresh
<1>2. CASE Publish
    <2>1. /\ seq < MaxSeq /\ seq' = seq + 1 /\ UNCHANGED <<life, conn, lastSeq, opened>>
          /\ \/ conn = "on" /\ wire' = Append(wire, [life |-> life, seq |-> seq + 1])
             \/ wire' = wire
        BY <1>2 DEF Publish, Event
    <2>2. ASSUME life = 0, NEW j \in 1..Len(wire') PROVE wire'[j].seq > lastSeq
        <3>1. (j \in 1..Len(wire) /\ wire'[j] = wire[j]) \/ wire'[j].seq = seq + 1
            BY <1>0, <2>1
        <3>. QED
            BY <1>0, <2>2, <3>1 DEF Fresh
    <2>. QED
        BY <1>0, <2>1, <2>2 DEF Fresh
<1>3. CASE Connect
    <2>1. PICK k \in 0..Len(buffer) : /\ \A i \in DOMAIN buffer : Newer(buffer[i]) <=> i > k
                                      /\ wire' = SubSeq(buffer, k + 1, Len(buffer))
        BY <1>3 DEF Connect
    <2>2. /\ UNCHANGED <<life, seq, lastSeq>> /\ conn' = "on"
          /\ opened' = [life |-> life, seq |-> seq] \/ opened' = opened
        BY <1>3 DEF Connect, Event
    <2>3. \A j \in 1..Len(wire') : k + j \in 1..Len(buffer) /\ k + j > k /\ wire'[j] = buffer[k + j]
        BY <2>1, SuffixFacts DEF IInv, TypeOK
    <2>4. \A j \in 1..Len(wire') : wire'[j].seq > lastSeq
        <3>1. DOMAIN buffer = 1..Len(buffer)
            BY <1>0
        <3>. QED
            BY <2>1, <2>3, <3>1 DEF Newer
    <2>5. opened'.life <= life
        BY <1>0, <2>2 DEF Fresh
    <2>. QED
        BY <2>2, <2>4, <2>5 DEF Fresh
<1>4. CASE Read
    <2>1. /\ wire # <<>> /\ wire' = Tail(wire) /\ lastSeq' = Head(wire).seq
          /\ conn = "on" /\ UNCHANGED <<life, seq, conn, opened>>
        BY <1>4 DEF Read
    <2>2. /\ Head(wire) = wire[1] /\ 1 \in 1..Len(wire)
          /\ \A j \in 1..Len(wire') : j + 1 \in 1..Len(wire) /\ j + 1 > 1 /\ wire'[j] = wire[j + 1]
        BY <1>0, <2>1
    <2>3. lastSeq' <= seq
        BY <2>1, <2>2 DEF IInv, Ordered
    <2>4. \A j \in 1..Len(wire') : wire'[j].seq > lastSeq'
        <3>1. \A j \in 1..Len(wire') : wire[1].seq < wire[j + 1].seq
            BY <2>2 DEF IInv, Ordered
        <3>2. wire[1] \in Events /\ \A j \in 1..Len(wire') : wire[j + 1] \in Events
            BY <1>0, <2>2
        <3>. QED
            BY <2>1, <2>2, <3>1, <3>2, Constants
    <2>. QED
        BY <2>1, <2>3, <2>4 DEF Fresh
<1>5. CASE Drop
    <2>1. wire' = <<>> /\ UNCHANGED <<life, seq, lastSeq, opened>>
        BY <1>5 DEF Drop, Cut
    <2>. QED
        BY <2>1 DEF Fresh
<1>6. CASE Restart
    <2>1. life' = life + 1 /\ opened' = opened /\ wire' = <<>>
        BY <1>6 DEF Restart, Cut
    <2>. QED
        BY <1>0, <2>1 DEF Fresh
<1>. QED
    BY <1>1, <1>2, <1>3, <1>4, <1>5, <1>6 DEF Next, vars

LEMMA WholeStep == IInv /\ Fresh /\ Whole /\ [Next]_vars => Whole'
<1> SUFFICES ASSUME IInv, Fresh, Whole, [Next]_vars,
                    life' = 0, ~blind', ~behind', (opened # None)'
             PROVE  /\ conn' = "off" => lastSeq' > 0
                    /\ \A n \in 1..seq' : n > opened'.seq => Event(n)' \in Reachable'
    BY DEF Whole
<1>0. /\ life \in Nat /\ seq \in Nat /\ lastSeq \in Nat /\ life \in Lives
      /\ wire \in Seq(Events) /\ buffer \in Seq(Events) /\ got \in Seq(Events)
      /\ conn \in {"off", "on"} /\ opened.seq \in Nat
    BY Constants DEF IInv, TypeOK
<1>1. CASE UNCHANGED vars
    BY <1>1 DEF vars, Whole, Reachable, Event, Newer
<1>w. Reachable = Range(got) \cup Range(wire)
                      \cup {e \in Range(buffer) : conn = "off" /\ lastSeq > 0 /\ e.seq > lastSeq}
    BY DEF Reachable, Newer
<1>v. Reachable' = Range(got') \cup Range(wire')
                      \cup {e \in Range(buffer') : conn' = "off" /\ lastSeq' > 0 /\ e.seq > lastSeq'}
    BY DEF Reachable, Newer
<1>e. \A n \in 1..seq : Event(n).seq = n
    BY DEF Event
<1>2. CASE Publish
    <2>. DEFINE f == [life |-> life, seq |-> seq + 1]
    <2>1. /\ seq < MaxSeq /\ seq' = seq + 1 /\ buffer' = Push(buffer, f)
          /\ wire' = (IF conn = "on" THEN Append(wire, f) ELSE wire)
          /\ UNCHANGED <<life, conn, lastSeq, got, opened, blind>>
          /\ ~behind /\ (conn = "off" /\ Len(buffer) >= BufferLimit => ~(Head(buffer).seq > lastSeq))
        BY <1>2 DEF Publish, Event
    <2>2. f \in Events /\ f.seq = seq + 1
        BY <1>0, <2>1, Constants DEF Events
    <2>3. /\ conn = "off" => lastSeq > 0
          /\ \A n \in 1..seq : n > opened.seq => Event(n) \in Reachable
        BY <2>1 DEF Whole
    <2>4. ASSUME NEW n \in 1..seq' PROVE (n \in 1..seq /\ Event(n)' = Event(n)) \/ Event(n)' = f
        <3>1. n \in 1..seq \/ n = seq + 1
            BY <1>0, <2>1
        <3>2. Event(n)' = [life |-> life, seq |-> n] /\ Event(n) = [life |-> life, seq |-> n]
            BY <2>1 DEF Event
        <3>. QED
            BY <3>1, <3>2
    <2>. HIDE DEF f
    <2>5. /\ f \in Range(buffer')
          /\ \A x \in Range(buffer) : (Len(buffer) >= BufferLimit => x # Head(buffer)) => x \in Range(buffer')
        BY <1>0, <2>1, <2>2, PushRange
    <2>6. Range(wire) \subseteq Range(wire') /\ (conn = "on" => f \in Range(wire'))
        BY <1>0, <2>1, <2>2, RangeAppend
    <2>7. f \in Reachable'
        <3>1. CASE conn = "on"
            BY <1>v, <2>6, <3>1
        <3>2. CASE conn = "off"
            <4>1. f.seq > lastSeq
                BY <1>0, <2>1, <2>2 DEF Fresh
            <4>. QED
                BY <1>v, <2>1, <2>3, <2>5, <3>2, <4>1
        <3>. QED
            BY <1>0, <3>1, <3>2
    <2>8. ASSUME NEW n \in 1..seq, n > opened.seq PROVE Event(n) \in Reachable'
        <3>1. CASE Event(n) \in Range(got) \cup Range(wire)
            BY <1>v, <2>1, <2>6, <3>1
        <3>2. CASE Event(n) \in Range(buffer) /\ conn = "off" /\ lastSeq > 0 /\ Event(n).seq > lastSeq
            <4>1. Len(buffer) >= BufferLimit => Event(n) # Head(buffer)
                BY <2>1, <3>2
            <4>2. Event(n) \in Range(buffer')
                BY <2>5, <3>2, <4>1
            <4>. QED
                BY <1>v, <2>1, <3>2, <4>2
        <3>3. Event(n) \in Reachable
            BY <2>3, <2>8
        <3>. QED
            BY <1>w, <3>1, <3>2, <3>3
    <2>. QED
        BY <2>1, <2>3, <2>4, <2>7, <2>8
<1>3. CASE Connect
    <2>1. PICK k \in 0..Len(buffer) : /\ \A i \in DOMAIN buffer : Newer(buffer[i]) <=> i > k
                                      /\ wire' = SubSeq(buffer, k + 1, Len(buffer))
        BY <1>3 DEF Connect
    <2>2. /\ conn = "off" /\ conn' = "on" /\ UNCHANGED <<life, seq, lastSeq, got, blind, behind>>
          /\ opened' = (IF opened = None THEN [life |-> life, seq |-> seq] ELSE opened)
        BY <1>3 DEF Connect, Event
    <2>3. CASE opened = None
        BY <1>0, <2>2, <2>3
    <2>4. CASE opened # None
        <3>1. \A n \in 1..seq : n > opened.seq => Event(n) \in Reachable
            BY <2>2, <2>4 DEF Whole
        <3>2. wire = <<>> /\ Range(wire) = {}
            BY <2>2 DEF Fresh, Range
        <3>3. ASSUME NEW e \in Range(buffer), Newer(e) PROVE e \in Range(wire')
            <4>1. PICK i \in 1..Len(buffer) : e = buffer[i]
                BY <1>0 DEF Range
            <4>2. i > k
                BY <1>0, <2>1, <3>3, <4>1
            <4>. QED
                BY <1>0, <2>1, <4>1, <4>2, RangeSuffix
        <3>4. ASSUME NEW n \in 1..seq, n > opened.seq PROVE Event(n) \in Reachable'
            BY <1>w, <1>v, <2>2, <3>1, <3>2, <3>3, <3>4 DEF Newer
        <3>5. \A n \in 1..seq : Event(n)' = Event(n)
            BY <2>2 DEF Event
        <3>. QED
            BY <2>2, <2>4, <3>4, <3>5
    <2>. QED
        BY <2>3, <2>4
<1>4. CASE Read
    <2>1. /\ conn = "on" /\ wire # <<>> /\ wire' = Tail(wire) /\ got' = Append(got, Head(wire))
          /\ UNCHANGED <<life, seq, buffer, conn, opened, blind, behind>>
        BY <1>4 DEF Read
    <2>2. Head(wire) \in Events
        BY <1>0, <2>1
    <2>3. Range(got') \cup Range(wire') = Range(got) \cup Range(wire)
        BY <1>0, <2>1, <2>2, RangeAppend, RangeTail
    <2>4. Reachable \subseteq Reachable'
        BY <1>w, <1>v, <2>1, <2>3
    <2>5. \A n \in 1..seq : Event(n)' = Event(n)
        BY <2>1 DEF Event
    <2>. QED
        BY <2>1, <2>4, <2>5 DEF Whole
<1>5. CASE Drop
    <2>1. /\ conn = "on" /\ conn' = "off" /\ wire' = <<>> /\ lastSeq # 0 /\ ~blind /\ ~behind
          /\ Range(wire) \subseteq Range(buffer) /\ UNCHANGED <<life, seq, buffer, lastSeq, got, opened>>
        BY <1>5 DEF Drop, Cut
    <2>2. lastSeq > 0
        BY <1>0, <2>1
    <2>3. ASSUME NEW e \in Range(wire) PROVE e.seq > lastSeq
        <3>1. PICK j \in 1..Len(wire) : e = wire[j]
            BY <1>0 DEF Range
        <3>. QED
            BY <2>1, <3>1 DEF Fresh
    <2>4. Reachable \subseteq Reachable'
        BY <1>w, <1>v, <2>1, <2>2, <2>3
    <2>5. \A n \in 1..seq : Event(n)' = Event(n)
        BY <2>1 DEF Event
    <2>. QED
        BY <2>1, <2>2, <2>4, <2>5 DEF Whole
<1>6. CASE Restart
    BY <1>0, <1>6 DEF Restart
<1>. QED
    BY <1>1, <1>2, <1>3, <1>4, <1>5, <1>6 DEF Next

\* In the daemon's first life a client that has read an id misses nothing,
\* unless it was away for more events than the ring holds.
THEOREM RingCorrect == Spec => []MissesOnlyBeyondRing
<1>1. IInv /\ Fresh /\ Whole => MissesOnlyBeyondRing
    <2> SUFFICES ASSUME IInv, Fresh, Whole, life = 0, ~blind, ~behind, NEW n \in Missed PROVE FALSE
        BY DEF MissesOnlyBeyondRing
    <2>1. /\ n \in 1..seq /\ opened # None /\ (life = opened.life => n > opened.seq)
          /\ Event(n) \notin Reachable
        BY DEF Missed
    <2>2. opened.life = 0
        <3>1. opened.life \in Nat /\ opened.life <= 0
            BY Constants DEF Fresh, IInv, TypeOK
        <3>. QED
            BY <3>1
    <2>. QED
        BY <2>1, <2>2 DEF Whole
<1>. QED
    BY <1>1, WholeInit, FreshStep, WholeStep, InvCorrect, PTL DEF Spec
-----------------------------------------------------------------------------
(* The inbox: its invariant, in parts that the steps touch separately.     *)

Hands == Scans \cup {"live"}

ScanStates == [pc : {"idle", "head", "logs", "events"}, safety : BOOLEAN, cursor : Nat, from : Nat,
               to : Nat, head : Nat, todo : SUBSET Blocks]

Chained == setup \in Setups /\ head \in Blocks /\ msg \in [Blocks -> Senders \cup {NoMsg}]

\* A blocked sender is never a contact.
Booked ==
    /\ contacts \subseteq Senders /\ pending \subseteq Senders /\ blocked \subseteq Senders
    /\ muted \subseteq Senders /\ away \in BOOLEAN /\ wired \in BOOLEAN
    /\ contacts \cap blocked = {}

\* What a scan reads next and goes through lies below the head it has read.
ScanAt(s) ==
    /\ scan[s].todo \subseteq Messages /\ scan[s].head <= head
    /\ scan[s].pc = "logs" => scan[s].from <= scan[s].head
    /\ scan[s].pc = "events" => scan[s].to \in scan[s].from..scan[s].head

Scanned == cursor \in 0..head /\ scan \in [Scans -> ScanStates] /\ \A s \in Scans : ScanAt(s)

\* Nothing is under way before the listener has started.
Staged ==
    /\ up \in {"off", "seed", "boot", "on", "dead"} /\ arriving \subseteq Messages
    /\ handling \subseteq Hands \X Messages
    /\ up \in {"off", "seed"} => /\ handling = {} /\ arriving = {}
                                 /\ \A s \in Scans : scan[s].pc = "idle"

Queueing ==
    /\ recorded \subseteq Messages /\ queue \in Seq(recorded)
    /\ drain \in [pc : {"idle", "prep", "infer"}, cur : Blocks \cup {0}]
    /\ drain.pc # "idle" => drain.cur \in recorded
    /\ up \in {"off", "seed"} => queue = <<>> /\ drain.pc = "idle"

\* What was handed over is in the history.
Once == /\ delivered \in [Blocks -> Nat]
        /\ \A b \in Blocks : delivered[b] <= 1 /\ (delivered[b] > 0 => b \in recorded)

LEMMA InboxConstants ==
    /\ Chunk \in Nat /\ Chunk > 0 /\ Safety \in Nat /\ MaxHead \in Nat /\ NoMsg \notin Senders
    /\ \A u \in Setups : u.friends \subseteq Senders /\ u.head \in 1..MaxHead
BY InboxAssumption

\* A set of blocks has a first one.
LEMMA FirstBlock ==
    ASSUME NEW S, S \subseteq Blocks, S # {}
    PROVE  Min(S) \in S
<1>. DEFINE Less == {r \in Nat \X Nat : r[1] < r[2]}
<1>1. IsWellFoundedOn(Less, Nat)
    BY NatLessThanWellFounded DEF OpToRel
<1>2. S \subseteq Nat /\ \A x, y \in Nat : <<y, x>> \in Less <=> y < x
    BY DEF Blocks
<1>. HIDE DEF Less
<1>3. \E x \in S : \A y \in S : ~(<<y, x>> \in Less)
    BY <1>1, <1>2, WFMin
<1>4. \A x, y \in Nat : y < x \/ x <= y
    OBVIOUS
<1>5. \E x \in S : \A y \in S : x <= y
    BY <1>2, <1>3, <1>4
<1>. QED
    BY <1>5 DEF Min

LEMMA SeqGrows ==
    ASSUME NEW S, NEW T, S \subseteq T, NEW q \in Seq(S)
    PROVE  q \in Seq(T)
<1>1. Len(q) \in Nat /\ q \in [1..Len(q) -> S]
    BY LenProperties
<1>2. q \in [1..Len(q) -> T]
    BY <1>1
<1>. QED
    BY <1>1, <1>2

Own(s) == ScanHead(s) \/ ScanLogs(s) \/ ScanFails(s) \/ ScanEvent(s) \/ ScanChunkDone(s) \/ Tick(s)
Draining == Wire \/ DrainAgain \/ Prepared \/ PrepareFails \/ Infer
Edited(s) == AddContact(s) \/ RemoveContact(s) \/ Block(s) \/ ToggleMute(s)

LEMMA InboxCases ==
    ASSUME [InboxNext]_inboxVars
    PROVE  \/ \E who \in Senders \cup {NoMsg} : Mine(who)
           \/ LiveEvent \/ Start \/ Seed \/ SeedFails \/ Draining \/ SetPresence \/ Crash \/ Reprovision
           \/ \E by \in Hands, b \in Blocks : Resolved(by, b) \/ Unresolved(by, b)
           \/ \E s \in Scans : Own(s)
           \/ \E s \in Senders : Edited(s)
           \/ UNCHANGED inboxVars
BY DEF InboxNext, ScanStep, Own, Draining, Edited, Hands
-----------------------------------------------------------------------------
(* Chained, and what becomes of the messages on the chain.                 *)

LEMMA ChainStill ==
    ASSUME [InboxNext]_inboxVars, \A who \in Senders \cup {NoMsg} : ~Mine(who)
    PROVE  UNCHANGED <<setup, head, msg>>
<1>1. CASE LiveEvent
    BY <1>1 DEF LiveEvent
<1>2. CASE Start \/ Seed \/ SeedFails
    BY <1>2 DEF Start, Seed, SeedFails, quiet
<1>3. CASE Draining
    BY <1>3 DEF Draining, Wire, DrainAgain, Prepared, PrepareFails, Infer, still
<1>4. CASE SetPresence \/ Crash \/ Reprovision
    BY <1>4 DEF SetPresence, Edit, Crash, Reprovision
<1>5. ASSUME NEW by \in Hands, NEW b \in Blocks, Resolved(by, b) \/ Unresolved(by, b)
      PROVE  UNCHANGED <<setup, head, msg>>
    BY <1>5 DEF Resolved, Unresolved
<1>6. ASSUME NEW s \in Scans, Own(s) PROVE UNCHANGED <<setup, head, msg>>
    BY <1>6 DEF Own, ScanHead, ScanLogs, ScanFails, ScanEvent, ScanChunkDone, Tick, quiet
<1>7. ASSUME NEW s \in Senders, Edited(s) PROVE UNCHANGED <<setup, head, msg>>
    BY <1>7 DEF Edited, AddContact, RemoveContact, Block, ToggleMute, Edit
<1>8. CASE UNCHANGED inboxVars
    BY <1>8 DEF inboxVars
<1>. QED
    BY <1>1, <1>2, <1>3, <1>4, <1>5, <1>6, <1>7, <1>8, InboxCases

LEMMA MineGrows ==
    ASSUME Chained, NEW who \in Senders \cup {NoMsg}, Mine(who)
    PROVE  /\ Chained' /\ head' = head + 1 /\ Messages \subseteq Messages'
           /\ who # NoMsg => head' \in Messages'
<1>1. /\ head' = head + 1 /\ msg' = [msg EXCEPT ![head'] = who] /\ setup' = setup /\ head < setup.head
    BY DEF Mine
<1>2. setup.head \in 1..MaxHead /\ head \in Blocks /\ MaxHead \in Nat
    BY InboxConstants DEF Chained
<1>3. head' \in Blocks
    BY <1>1, <1>2 DEF Blocks
<1>4. msg' \in [Blocks -> Senders \cup {NoMsg}] /\ msg'[head'] = who
      /\ \A b \in Blocks : b # head' => msg'[b] = msg[b]
    BY <1>1, <1>3 DEF Chained
<1>5. ASSUME NEW b \in Blocks, b <= head PROVE b <= head' /\ b # head'
    BY <1>1, <1>2, <1>5 DEF Blocks
<1>6. head' <= head'
    BY <1>2, <1>3 DEF Blocks
<1>7. Chained'
    BY <1>1, <1>3, <1>4 DEF Chained
<1>8. Messages \subseteq Messages'
    BY <1>4, <1>5 DEF Messages
<1>9. who # NoMsg => head' \in Messages'
    BY <1>3, <1>4, <1>6 DEF Messages
<1>. QED
    BY <1>1, <1>7, <1>8, <1>9

LEMMA ChainedStep ==
    ASSUME Chained, [InboxNext]_inboxVars
    PROVE  Chained' /\ Messages \subseteq Messages' /\ head <= head'
<1>1. ASSUME NEW who \in Senders \cup {NoMsg}, Mine(who)
      PROVE  Chained' /\ Messages \subseteq Messages' /\ head <= head'
    BY <1>1, MineGrows, InboxConstants DEF Chained, Blocks
<1>2. CASE \A who \in Senders \cup {NoMsg} : ~Mine(who)
    BY <1>2, ChainStill, InboxConstants DEF Chained, Messages, Blocks
<1>. QED
    BY <1>1, <1>2
-----------------------------------------------------------------------------
(* Booked.                                                                 *)

LEMMA BookedStep ==
    ASSUME Chained, Booked, Staged, [InboxNext]_inboxVars
    PROVE  Booked'
<1>1. CASE UNCHANGED <<contacts, pending, blocked, muted, away, wired>>
    BY <1>1 DEF Booked
<1>2. ASSUME NEW who \in Senders \cup {NoMsg}, Mine(who)
      PROVE  UNCHANGED <<contacts, pending, blocked, muted, away, wired>>
    BY <1>2 DEF Mine, disk, brain
<1>3. CASE LiveEvent \/ Start \/ Seed \/ SeedFails
    BY <1>1, <1>3 DEF LiveEvent, Start, Seed, SeedFails, quiet, book, brain
<1>4. CASE Draining
    BY <1>4 DEF Draining, Wire, DrainAgain, Prepared, PrepareFails, Infer, still, disk, Booked
<1>5. CASE SetPresence \/ Crash \/ Reprovision
    BY <1>5 DEF SetPresence, Edit, Crash, Reprovision, disk, brain, Booked
<1>6. ASSUME NEW by \in Hands, NEW b \in Blocks, Unresolved(by, b)
      PROVE  UNCHANGED <<contacts, pending, blocked, muted, away, wired>>
    BY <1>6 DEF Unresolved, disk, brain
<1>7. ASSUME NEW by \in Hands, NEW b \in Blocks, Resolved(by, b) PROVE Booked'
    <2>1. msg[b] \in Senders
        BY <1>7 DEF Resolved, Staged, Chained, Messages
    <2>2. UNCHANGED <<contacts, blocked, muted, away, wired>>
        BY <1>7 DEF Resolved
    <2>3. pending' = pending \/ pending' = pending \cup {msg[b]}
        BY <1>7 DEF Resolved
    <2>. QED
        BY <2>1, <2>2, <2>3 DEF Booked
<1>8. ASSUME NEW s \in Scans, Own(s)
      PROVE  UNCHANGED <<contacts, pending, blocked, muted, away, wired>>
    BY <1>8 DEF Own, ScanHead, ScanLogs, ScanFails, ScanEvent, ScanChunkDone, Tick, quiet, book, brain
<1>9. ASSUME NEW s \in Senders, Edited(s) PROVE Booked'
    BY <1>9 DEF Edited, AddContact, RemoveContact, Block, ToggleMute, Edit, brain, Booked
<1>10. CASE UNCHANGED inboxVars
    BY <1>1, <1>10 DEF inboxVars
<1>. QED
    BY <1>1, <1>2, <1>3, <1>4, <1>5, <1>6, <1>7, <1>8, <1>9, <1>10, InboxCases

-----------------------------------------------------------------------------
(* Scanned.                                                                *)

\* One scan moves on, and the cursor with it.
LEMMA OneScan ==
    ASSUME Scanned, Chained, Chained', Messages \subseteq Messages', head <= head', cursor' \in 0..head',
           NEW s \in Scans, NEW x \in ScanStates, scan' = [scan EXCEPT ![s] = x],
           x.todo \subseteq Messages', x.head <= head',
           x.pc = "logs" => x.from <= x.head, x.pc = "events" => x.to \in x.from..x.head
    PROVE  Scanned'
<1>1. scan' \in [Scans -> ScanStates] /\ scan'[s] = x
    BY DEF Scanned
<1>2. ASSUME NEW t \in Scans, t # s PROVE ScanAt(t)'
    <2>1. scan'[t] = scan[t] /\ ScanAt(t) /\ scan[t] \in ScanStates
        BY <1>2 DEF Scanned
    <2>2. head \in Int /\ head' \in Int /\ scan[t].head \in Int
        BY <2>1, InboxConstants DEF Chained, Blocks, ScanStates
    <2>. QED
        BY <2>1, <2>2 DEF ScanAt
<1>3. ScanAt(s)'
    BY <1>1 DEF ScanAt
<1>. QED
    BY <1>1, <1>2, <1>3 DEF Scanned

LEMMA ScansStay ==
    ASSUME Scanned, Chained, Chained', Messages \subseteq Messages', head <= head', cursor' \in 0..head',
           scan' = scan
    PROVE  Scanned'
<1>1. ASSUME NEW t \in Scans PROVE ScanAt(t)'
    <2>1. scan'[t] = scan[t] /\ ScanAt(t) /\ scan[t] \in ScanStates
        BY DEF Scanned
    <2>2. head \in Int /\ head' \in Int /\ scan[t].head \in Int
        BY <2>1, InboxConstants DEF Chained, Blocks, ScanStates
    <2>. QED
        BY <2>1, <2>2 DEF ScanAt
<1>. QED
    BY <1>1 DEF Scanned

\* Scans that have read nothing yet.
LEMMA ScansNew ==
    ASSUME Chained, Chained', cursor' \in 0..head',
           scan' \in [Scans -> {NoScan, [NoScan EXCEPT !.pc = "head"], [NoScan EXCEPT !.pc = "head", !.safety = TRUE]}]
    PROVE  Scanned'
<1>1. ASSUME NEW t \in Scans PROVE scan'[t] \in ScanStates /\ ScanAt(t)'
    <2>1. scan'[t] \in ScanStates /\ scan'[t].todo = {} /\ scan'[t].head = 0 /\ scan'[t].pc \in {"idle", "head"}
        <3>. DEFINE y == [NoScan EXCEPT !.pc = "head"]
                    z == [NoScan EXCEPT !.pc = "head", !.safety = TRUE]
        <3>1. scan'[t] = NoScan \/ scan'[t] = y \/ scan'[t] = z
            OBVIOUS
        <3>2. NoScan \in ScanStates /\ NoScan.todo = {} /\ NoScan.head = 0 /\ NoScan.pc = "idle"
            BY DEF NoScan, ScanStates
        <3>3. y \in ScanStates /\ y.todo = {} /\ y.head = 0 /\ y.pc = "head"
            BY DEF NoScan, ScanStates
        <3>4. z \in ScanStates /\ z.todo = {} /\ z.head = 0 /\ z.pc = "head"
            BY DEF NoScan, ScanStates
        <3>. HIDE DEF y, z
        <3>. QED
            BY <3>1, <3>2, <3>3, <3>4
    <2>2. 0 <= head'
        BY InboxConstants DEF Chained, Blocks
    <2>. QED
        BY <2>1, <2>2 DEF ScanAt
<1>. QED
    BY <1>1 DEF Scanned

LEMMA FirstScans == FirstScan \in [Scans -> {NoScan, [NoScan EXCEPT !.pc = "head"],
                                             [NoScan EXCEPT !.pc = "head", !.safety = TRUE]}]
BY DEF FirstScan

LEMMA FromFacts ==
    ASSUME Scanned, Chained, NEW s \in Scans
    PROVE  From(s) \in Nat /\ From(s) >= 1
BY InboxConstants DEF From, Scanned, Chained, Blocks

LEMMA OwnScan ==
    ASSUME Chained, Scanned, NEW s \in Scans, Own(s)
    PROVE  Scanned'
<1>1. UNCHANGED <<head, msg>> /\ Messages' = Messages /\ Chained' /\ head <= head' /\ cursor \in 0..head'
    <2>1. UNCHANGED <<setup, head, msg>>
        BY DEF Own, ScanHead, ScanLogs, ScanFails, ScanEvent, ScanChunkDone, Tick, quiet
    <2>. QED
        BY <2>1, InboxConstants DEF Chained, Messages, Blocks, Scanned
<1>2. scan[s] \in ScanStates /\ ScanAt(s) /\ head \in Nat /\ cursor \in Nat
    BY InboxConstants DEF Scanned, Chained, Blocks
<1>3. ASSUME scan' = [scan EXCEPT ![s] = NoScan], cursor' \in 0..head' PROVE Scanned'
    <2>1. NoScan \in ScanStates /\ NoScan.todo = {} /\ NoScan.head = 0 /\ NoScan.pc = "idle"
        BY DEF NoScan, ScanStates
    <2>2. 0 <= head'
        BY <1>1, <1>2
    <2>. QED
        BY <1>1, <1>3, <2>1, <2>2, OneScan
<1>4. CASE ScanHead(s)
    <2>1. CASE From(s) > head
        BY <1>1, <1>3, <1>4, <2>1 DEF ScanHead, Over
    <2>2. CASE ~(From(s) > head)
        <3>. DEFINE x == [pc |-> "logs", safety |-> scan[s].safety, cursor |-> cursor, from |-> From(s),
                          to |-> scan[s].to, head |-> head, todo |-> scan[s].todo]
        <3>1. x \in ScanStates
            BY <1>2, FromFacts DEF ScanStates
        <3>2. scan' = [scan EXCEPT ![s] = x] /\ cursor' = cursor
            BY <1>2, <1>4, <2>2 DEF ScanHead, ScanStates, Scanned
        <3>3. x.pc = "logs" /\ x.from <= x.head /\ x.head <= head' /\ x.todo \subseteq Messages'
            BY <1>1, <1>2, <2>2, FromFacts DEF ScanAt
        <3>. HIDE DEF x
        <3>. QED
            BY <1>1, <3>1, <3>2, <3>3, OneScan
    <2>. QED
        BY <2>1, <2>2
<1>5. CASE ScanLogs(s)
    <2>. DEFINE to == IF scan[s].from + Chunk - 1 > scan[s].head THEN scan[s].head
                      ELSE scan[s].from + Chunk - 1
                todo == {b \in Messages : scan[s].from <= b /\ b <= to}
                x == [scan[s] EXCEPT !.pc = "events", !.to = to, !.todo = todo]
    <2>1. scan[s].from \in Nat /\ scan[s].head \in Nat /\ scan[s].from <= scan[s].head
        BY <1>2, <1>5 DEF ScanLogs, ScanAt, ScanStates
    <2>2. to \in Nat /\ to \in scan[s].from..scan[s].head
        BY <2>1, InboxConstants
    <2>3. todo \subseteq Messages /\ todo \in SUBSET Blocks
        BY DEF Messages
    <2>4. scan' = [scan EXCEPT ![s].pc = "events", ![s].to = to, ![s].todo = todo] /\ cursor' = cursor
        BY <1>5 DEF ScanLogs
    <2>. HIDE DEF to, todo
    <2>5. scan' = [scan EXCEPT ![s] = x]
        BY <2>4, Zenon
    <2>. DEFINE y == [scan[s] EXCEPT !.pc = "events"]
                z == [y EXCEPT !.to = to]
    <2>6. y \in ScanStates /\ y.pc = "events" /\ y.from = scan[s].from /\ y.head = scan[s].head
        BY <1>2 DEF ScanStates
    <2>7. x = [z EXCEPT !.todo = todo]
        BY Zenon
    <2>. HIDE DEF x, y
    <2>8. z \in ScanStates /\ z.pc = "events" /\ z.to = to /\ z.from = scan[s].from /\ z.head = scan[s].head
        BY <2>2, <2>6 DEF ScanStates
    <2>. HIDE DEF z
    <2>9. x \in ScanStates /\ x.pc = "events" /\ x.to = to /\ x.todo = todo
          /\ x.from = scan[s].from /\ x.head = scan[s].head
        BY <2>3, <2>7, <2>8 DEF ScanStates
    <2>. QED
        BY <1>1, <1>2, <2>2, <2>3, <2>4, <2>5, <2>9, OneScan DEF ScanAt
<1>6. CASE ScanFails(s)
    BY <1>1, <1>3, <1>6 DEF ScanFails
<1>7. CASE ScanEvent(s)
    <2>. DEFINE todo == scan[s].todo \ {Min(scan[s].todo)}
                x == [pc |-> scan[s].pc, safety |-> scan[s].safety, cursor |-> scan[s].cursor,
                      from |-> scan[s].from, to |-> scan[s].to, head |-> scan[s].head, todo |-> todo]
    <2>1. todo \subseteq scan[s].todo
        OBVIOUS
    <2>2. scan' = [scan EXCEPT ![s].todo = todo] /\ cursor' = cursor /\ scan[s].pc = "events"
        BY <1>2, <1>7 DEF ScanEvent, Scanned
    <2>. HIDE DEF todo
    <2>3. x \in ScanStates
        BY <1>2, <2>1 DEF ScanStates
    <2>4. scan' = [scan EXCEPT ![s] = x]
        <3>1. x = [scan[s] EXCEPT !.todo = todo]
            BY <1>2 DEF ScanStates
        <3>. QED
            BY <2>2, <3>1, Zenon
    <2>5. x.pc = "events" /\ x.to \in x.from..x.head /\ x.head <= head' /\ x.todo \subseteq Messages'
        BY <1>1, <1>2, <2>1, <2>2 DEF ScanAt
    <2>. HIDE DEF x
    <2>. QED
        BY <1>1, <2>2, <2>3, <2>4, <2>5, OneScan
<1>8. CASE ScanChunkDone(s)
    <2>1. scan[s].to \in Nat /\ scan[s].head \in Nat /\ scan[s].to <= scan[s].head
          /\ scan[s].head <= head
        BY <1>2, <1>8 DEF ScanChunkDone, ScanAt, ScanStates
    <2>2. cursor' \in 0..head'
        BY <1>1, <1>2, <1>8, <2>1 DEF ScanChunkDone
    <2>3. CASE scan[s].to + 1 <= scan[s].head
        <3>. DEFINE x == [pc |-> "logs", safety |-> scan[s].safety, cursor |-> scan[s].cursor,
                          from |-> scan[s].to + 1, to |-> scan[s].to, head |-> scan[s].head,
                          todo |-> scan[s].todo]
        <3>1. x \in ScanStates
            BY <1>2, <2>1 DEF ScanStates
        <3>2. scan' = [scan EXCEPT ![s] = x]
            BY <1>2, <1>8, <2>3 DEF ScanChunkDone, ScanStates, Scanned
        <3>3. x.pc = "logs" /\ x.from <= x.head /\ x.head <= head' /\ x.todo \subseteq Messages'
            BY <1>1, <1>2, <2>3 DEF ScanAt
        <3>. HIDE DEF x
        <3>. QED
            BY <1>1, <2>2, <3>1, <3>2, <3>3, OneScan
    <2>4. CASE ~(scan[s].to + 1 <= scan[s].head)
        BY <1>1, <1>3, <1>8, <2>2, <2>4 DEF ScanChunkDone, Over
    <2>. QED
        BY <2>3, <2>4
<1>9. CASE Tick(s)
    <2>. DEFINE x == [NoScan EXCEPT !.pc = "head", !.safety = TRUE]
    <2>1. x \in ScanStates /\ x.todo = {} /\ x.head = 0 /\ x.pc = "head"
        BY DEF NoScan, ScanStates
    <2>2. scan' = [scan EXCEPT ![s] = x] /\ cursor' = cursor /\ 0 <= head'
        BY <1>1, <1>2, <1>9 DEF Tick
    <2>. HIDE DEF x
    <2>. QED
        BY <1>1, <2>1, <2>2, OneScan
<1>. QED
    BY <1>4, <1>5, <1>6, <1>7, <1>8, <1>9 DEF Own

LEMMA ScannedStep ==
    ASSUME Chained, Staged, Scanned, [InboxNext]_inboxVars
    PROVE  Scanned'
<1>1. Chained' /\ Messages \subseteq Messages' /\ head <= head' /\ head \in Nat /\ head' \in Nat
      /\ cursor \in Nat /\ cursor <= head'
    BY ChainedStep, InboxConstants DEF Chained, Blocks, Scanned
<1>2. CASE UNCHANGED <<cursor, scan>>
    BY <1>1, <1>2, ScansStay
<1>3. ASSUME NEW who \in Senders \cup {NoMsg}, Mine(who)
      PROVE  UNCHANGED <<cursor, scan>>
    BY <1>3 DEF Mine, disk
<1>4. CASE LiveEvent
    <2>1. Min(arriving) \in Messages
        BY <1>4, FirstBlock DEF LiveEvent, Staged, Messages
    <2>2. Min(arriving) \in Nat /\ Min(arriving) <= head
        BY <2>1, InboxConstants DEF Messages, Blocks
    <2>3. scan' = scan /\ (cursor' = cursor \/ cursor' = Min(arriving))
        BY <1>4 DEF LiveEvent
    <2>. QED
        BY <1>1, <2>2, <2>3, ScansStay
<1>5. CASE Start
    <2>1. cursor' = cursor /\ (scan' = scan \/ scan' = FirstScan)
        BY <1>5 DEF Start
    <2>. QED
        BY <1>1, <2>1, ScansStay, ScansNew, FirstScans
<1>6. CASE Seed
    BY <1>1, <1>6, ScansNew, FirstScans DEF Seed, quiet
<1>14. CASE SeedFails
    BY <1>2, <1>14 DEF SeedFails
<1>7. CASE Draining
    BY <1>2, <1>7 DEF Draining, Wire, DrainAgain, Prepared, PrepareFails, Infer, still, disk
<1>8. CASE SetPresence
    BY <1>2, <1>8 DEF SetPresence, Edit
<1>9. CASE Crash
    <2>1. scan' = [s \in Scans |-> NoScan] /\ cursor' = cursor
        BY <1>9 DEF Crash, disk
    <2>. QED
        BY <1>1, <2>1, ScansNew
<1>10. CASE Reprovision
    BY <1>1, <1>10, ScansStay DEF Reprovision
<1>11. ASSUME NEW by \in Hands, NEW b \in Blocks, Resolved(by, b) \/ Unresolved(by, b)
      PROVE  UNCHANGED <<cursor, scan>>
    BY <1>11 DEF Resolved, Unresolved, disk
<1>12. ASSUME NEW s \in Senders, Edited(s) PROVE UNCHANGED <<cursor, scan>>
    BY <1>12 DEF Edited, AddContact, RemoveContact, Block, ToggleMute, Edit
<1>13. CASE UNCHANGED inboxVars
    BY <1>2, <1>13 DEF inboxVars
<1>. QED
    BY <1>2, <1>3, <1>4, <1>5, <1>6, <1>7, <1>8, <1>9, <1>10, <1>11, <1>12, <1>13, <1>14, OwnScan, InboxCases

-----------------------------------------------------------------------------
(* Staged.                                                                 *)

\* A handler that starts has a message of the chain in its hands.
LEMMA StartsFacts ==
    ASSUME handling \subseteq Hands \X Messages, NEW by \in Hands, NEW b \in Messages, Starts(by, b)
    PROVE  handling' \subseteq Hands \X Messages
BY DEF Starts

LEMMA Started ==
    ASSUME Staged, Chained, Chained', Messages \subseteq Messages', up \notin {"off", "seed"},
           up' \in {"boot", "on", "dead"}, arriving' \subseteq Messages', handling' \subseteq Hands \X Messages'
    PROVE  Staged'
BY DEF Staged

LEMMA StagedStep ==
    ASSUME Chained, Staged, Scanned, [InboxNext]_inboxVars
    PROVE  Staged'
<1>1. Chained' /\ Messages \subseteq Messages' /\ (Hands \X Messages) \subseteq (Hands \X Messages')
    BY ChainedStep
<1>2. CASE UNCHANGED <<up, arriving, handling, scan>>
    BY <1>1, <1>2 DEF Staged
<1>3. ASSUME NEW who \in Senders \cup {NoMsg}, Mine(who) PROVE Staged'
    <2>1. UNCHANGED <<up, handling, scan>>
        BY <1>3 DEF Mine
    <2>2. arriving' = arriving \/ (up = "on" /\ who # NoMsg /\ arriving' = arriving \cup {head'})
        BY <1>3 DEF Mine
    <2>3. who # NoMsg => head' \in Messages'
        BY <1>3, MineGrows
    <2>. QED
        BY <1>1, <2>1, <2>2, <2>3 DEF Staged
<1>4. CASE LiveEvent
    <2>1. Min(arriving) \in Messages
        BY <1>4, FirstBlock DEF LiveEvent, Staged, Messages
    <2>2. Starts("live", Min(arriving)) /\ "live" \in Hands /\ up = "on" /\ up' = "on" /\ arriving' \subseteq arriving
        BY <1>4 DEF LiveEvent, Hands
    <2>3. handling' \subseteq Hands \X Messages
        BY <2>1, <2>2, StartsFacts DEF Staged
    <2>. QED
        BY <1>1, <2>2, <2>3, Started DEF Staged
<1>5. CASE Start \/ Seed \/ SeedFails
    BY <1>1, <1>5 DEF Start, Seed, SeedFails, quiet, Staged
<1>6. CASE Draining
    BY <1>2, <1>6 DEF Draining, Wire, DrainAgain, Prepared, PrepareFails, Infer, still
<1>7. CASE SetPresence
    BY <1>2, <1>7 DEF SetPresence, Edit
<1>8. CASE Crash
    <2>1. scan' = [s \in Scans |-> NoScan] /\ up' = "off" /\ arriving' = {} /\ handling' = {}
        BY <1>8 DEF Crash
    <2>. QED
        BY <2>1 DEF Staged, NoScan
<1>9. CASE Reprovision
    BY <1>2, <1>9 DEF Reprovision
<1>10. ASSUME NEW by \in Hands, NEW b \in Blocks, Resolved(by, b) \/ Unresolved(by, b)
       PROVE  Staged'
    <2>1. <<by, b>> \in handling /\ handling' \subseteq handling /\ UNCHANGED <<up, arriving, scan>>
        BY <1>10 DEF Resolved, Unresolved
    <2>. QED
        BY <1>1, <2>1 DEF Staged
<1>11. ASSUME NEW s \in Scans, Own(s) PROVE Staged'
    <2>1. up \notin {"off", "seed"} /\ arriving' = arriving
        BY <1>11 DEF Own, ScanHead, ScanLogs, ScanFails, ScanEvent, ScanChunkDone, Tick, quiet, Staged
    <2>2. up' \in {up, "on", "dead"}
        BY <1>11 DEF Own, ScanHead, ScanLogs, ScanFails, ScanEvent, ScanChunkDone, Tick, Over
    <2>3. CASE ScanEvent(s)
        <3>1. scan[s].todo \subseteq Messages /\ scan[s].todo # {}
            BY <2>3 DEF ScanEvent, Scanned, ScanAt
        <3>2. Min(scan[s].todo) \in Messages
            BY <3>1, FirstBlock DEF Messages
        <3>3. Starts(s, Min(scan[s].todo)) /\ s \in Hands
            BY <2>3 DEF ScanEvent, Hands
        <3>4. handling' \subseteq Hands \X Messages
            BY <3>2, <3>3, StartsFacts DEF Staged
        <3>. QED
            BY <1>1, <2>1, <2>2, <3>4, Started DEF Staged
    <2>4. CASE ~ScanEvent(s)
        <3>1. handling' = handling
            BY <1>11, <2>4 DEF Own, ScanHead, ScanLogs, ScanFails, ScanChunkDone, Tick
        <3>. QED
            BY <1>1, <2>1, <2>2, <3>1, Started DEF Staged
    <2>. QED
        BY <2>3, <2>4
<1>12. ASSUME NEW s \in Senders, Edited(s) PROVE Staged'
    <2>1. UNCHANGED <<up, arriving, handling, scan>>
        BY <1>12 DEF Edited, AddContact, RemoveContact, Block, ToggleMute, Edit
    <2>. QED
        BY <1>2, <2>1
<1>13. CASE UNCHANGED inboxVars
    BY <1>2, <1>13 DEF inboxVars
<1>. QED
    BY <1>3, <1>4, <1>5, <1>6, <1>7, <1>8, <1>9, <1>10, <1>11, <1>12, <1>13, InboxCases
-----------------------------------------------------------------------------
(* Queueing and Once.                                                      *)

\* The queue without its head, and the head.
LEMMA QueueFront ==
    ASSUME NEW R, NEW q \in Seq(R), q # <<>>
    PROVE  Head(q) \in R /\ Tail(q) \in Seq(R)
BY HeadTailProperties

LEMMA TakesNextFacts ==
    ASSUME recorded \subseteq Blocks, queue \in Seq(recorded), TakesNext
    PROVE  /\ queue' \in Seq(recorded)
           /\ drain' \in [pc : {"idle", "prep", "infer"}, cur : Blocks \cup {0}]
           /\ drain'.pc # "idle" => drain'.cur \in recorded
<1>1. CASE queue = <<>>
    BY <1>1 DEF TakesNext, NoDrain
<1>2. CASE queue # <<>>
    <2>1. Head(queue) \in recorded /\ Tail(queue) \in Seq(recorded)
        BY <1>2, QueueFront
    <2>2. drain' = [pc |-> "prep", cur |-> Head(queue)] /\ queue' = Tail(queue)
        BY <1>2 DEF TakesNext, Takes
    <2>. QED
        BY <2>1, <2>2
<1>. QED
    BY <1>1, <1>2

LEMMA DeliverFacts ==
    ASSUME NEW R, R \subseteq Blocks, queue \in Seq(R), NEW b \in R, Deliver(b),
           drain \in [pc : {"idle", "prep", "infer"}, cur : Blocks \cup {0}],
           drain.pc # "idle" => drain.cur \in R
    PROVE  /\ queue' \in Seq(R)
           /\ drain' \in [pc : {"idle", "prep", "infer"}, cur : Blocks \cup {0}]
           /\ drain'.pc # "idle" => drain'.cur \in R
<1>. DEFINE q == Append(queue, b)
<1>1. q \in Seq(R) /\ q # <<>>
    BY AppendProperties
<1>. HIDE DEF q
<1>2. Head(q) \in R /\ Tail(q) \in Seq(R)
    BY <1>1, QueueFront
<1>3. \/ drain' = [pc |-> "prep", cur |-> Head(q)] /\ queue' = Tail(q)
      \/ drain' = drain /\ queue' = q
    BY DEF Deliver, Takes, q
<1>4. CASE drain' = [pc |-> "prep", cur |-> Head(q)] /\ queue' = Tail(q)
    BY <1>2, <1>4
<1>5. CASE drain' = drain /\ queue' = q
    BY <1>1, <1>5
<1>. QED
    BY <1>3, <1>4, <1>5

LEMMA QueueingStep ==
    ASSUME Chained, Staged, Scanned, Queueing, [InboxNext]_inboxVars
    PROVE  Queueing'
<1>1. Messages \subseteq Messages' /\ Messages \subseteq Blocks /\ recorded \subseteq Blocks
    BY ChainedStep DEF Messages, Queueing
<1>2. CASE UNCHANGED <<up, recorded, queue, drain>>
    BY <1>1, <1>2 DEF Queueing
<1>3. ASSUME NEW who \in Senders \cup {NoMsg}, Mine(who)
      PROVE  UNCHANGED <<up, recorded, queue, drain>>
    BY <1>3 DEF Mine, disk, brain
<1>4. CASE LiveEvent
    BY <1>2, <1>4 DEF LiveEvent, brain
<1>5. CASE Start \/ Seed \/ SeedFails
    <2>1. UNCHANGED <<recorded, queue, drain>> /\ up \in {"off", "seed"}
        BY <1>5 DEF Start, Seed, SeedFails, quiet, brain
    <2>. QED
        BY <1>1, <2>1 DEF Queueing
<1>6. CASE Draining
    <2>1. up' = up /\ recorded' = recorded /\ up # "off"
        BY <1>6 DEF Draining, Wire, DrainAgain, Prepared, PrepareFails, Infer, still, disk, Queueing
    <2>2. /\ queue' \in Seq(recorded)
          /\ drain' \in [pc : {"idle", "prep", "infer"}, cur : Blocks \cup {0}]
          /\ drain'.pc # "idle" => drain'.cur \in recorded
        <3>1. CASE TakesNext
            BY <1>1, <3>1, TakesNextFacts DEF Queueing
        <3>2. CASE Prepared
            BY <3>2 DEF Prepared, Queueing
        <3>3. CASE PrepareFails
            BY <3>3 DEF PrepareFails, NoDrain, Queueing
        <3>. QED
            BY <1>6, <3>1, <3>2, <3>3 DEF Draining, Wire, DrainAgain, Infer
    <2>3. up = "seed" => queue' = <<>> /\ drain'.pc = "idle"
        <3>. SUFFICES ASSUME up = "seed" PROVE queue' = <<>> /\ drain'.pc = "idle"
            OBVIOUS
        <3>1. queue = <<>> /\ drain.pc = "idle"
            BY DEF Queueing
        <3>2. TakesNext
            BY <1>6, <3>1 DEF Draining, Wire, DrainAgain, Prepared, PrepareFails, Infer
        <3>. QED
            BY <3>1, <3>2 DEF TakesNext, NoDrain
    <2>. QED
        BY <1>1, <2>1, <2>2, <2>3 DEF Queueing
<1>7. CASE SetPresence
    BY <1>2, <1>7 DEF SetPresence, Edit, brain
<1>8. CASE Crash
    <2>1. recorded' = recorded /\ queue' = <<>> /\ drain' = NoDrain
        BY <1>8 DEF Crash, disk
    <2>2. <<>> \in Seq(recorded) /\ NoDrain \in [pc : {"idle", "prep", "infer"}, cur : Blocks \cup {0}]
          /\ NoDrain.pc = "idle"
        BY DEF NoDrain
    <2>. QED
        BY <1>1, <2>1, <2>2 DEF Queueing
<1>9. CASE Reprovision
    <2>1. recorded' = {} /\ queue' = <<>> /\ drain' = drain /\ drain.pc = "idle"
        BY <1>9 DEF Reprovision, brain, Queueing
    <2>2. <<>> \in Seq({})
        OBVIOUS
    <2>. QED
        BY <2>1, <2>2 DEF Queueing
<1>10. ASSUME NEW by \in Hands, NEW b \in Blocks, Resolved(by, b) PROVE Queueing'
    <2>1. b \in Messages /\ up \notin {"off", "seed"} /\ up' = up
        BY <1>10 DEF Resolved, Staged
    <2>2. recorded' = recorded \cup {b} /\ recorded' \subseteq Blocks /\ recorded' \subseteq Messages'
        BY <1>1, <1>10, <2>1 DEF Resolved, Queueing
    <2>3. queue \in Seq(recorded') /\ (drain.pc # "idle" => drain.cur \in recorded')
        BY <2>2, SeqGrows DEF Queueing
    <2>4. CASE UNCHANGED <<queue, drain>>
        BY <2>1, <2>2, <2>3, <2>4 DEF Queueing
    <2>5. CASE Deliver(b)
        BY <2>1, <2>2, <2>3, <2>5, DeliverFacts DEF Queueing
    <2>. QED
        BY <1>10, <2>4, <2>5 DEF Resolved
<1>11. ASSUME NEW by \in Hands, NEW b \in Blocks, Unresolved(by, b)
       PROVE  UNCHANGED <<up, recorded, queue, drain>>
    BY <1>11 DEF Unresolved, disk, brain
<1>12. ASSUME NEW s \in Scans, Own(s) PROVE Queueing'
    <2>1. up \notin {"off", "seed"} /\ UNCHANGED <<recorded, queue, drain>>
        BY <1>12 DEF Own, ScanHead, ScanLogs, ScanFails, ScanEvent, ScanChunkDone, Tick, quiet, brain, Staged
    <2>2. up' \in {up, "on", "dead"}
        BY <1>12 DEF Own, ScanHead, ScanLogs, ScanFails, ScanEvent, ScanChunkDone, Tick, Over
    <2>. QED
        BY <1>1, <2>1, <2>2 DEF Queueing
<1>13. ASSUME NEW s \in Senders, Edited(s) PROVE UNCHANGED <<up, recorded, queue, drain>>
    BY <1>13 DEF Edited, AddContact, RemoveContact, Block, ToggleMute, Edit, brain
<1>14. CASE UNCHANGED inboxVars
    BY <1>2, <1>14 DEF inboxVars
<1>. QED
    BY <1>2, <1>3, <1>4, <1>5, <1>6, <1>7, <1>8, <1>9, <1>10, <1>11, <1>12, <1>13, <1>14, InboxCases

\* Only a resolved message that is new, of a contact, is handed over.
LEMMA DeliveredOnly ==
    ASSUME [InboxNext]_inboxVars, ~Reprovision,
           \A by \in Hands, b \in Blocks : Resolved(by, b) => ~Deliver(b)
    PROVE  delivered' = delivered
<1>1. ASSUME NEW who \in Senders \cup {NoMsg}, Mine(who) PROVE delivered' = delivered
    BY <1>1 DEF Mine
<1>2. CASE LiveEvent \/ Start \/ Seed \/ SeedFails
    BY <1>2 DEF LiveEvent, Start, Seed, SeedFails, quiet
<1>3. CASE Draining
    BY <1>3 DEF Draining, Wire, DrainAgain, Prepared, PrepareFails, Infer, still
<1>4. CASE SetPresence \/ Crash
    BY <1>4 DEF SetPresence, Edit, Crash
<1>5. ASSUME NEW by \in Hands, NEW b \in Blocks, Resolved(by, b) \/ Unresolved(by, b)
      PROVE  delivered' = delivered
    BY <1>5 DEF Resolved, Unresolved
<1>6. ASSUME NEW s \in Scans, Own(s) PROVE delivered' = delivered
    BY <1>6 DEF Own, ScanHead, ScanLogs, ScanFails, ScanEvent, ScanChunkDone, Tick, quiet
<1>7. ASSUME NEW s \in Senders, Edited(s) PROVE delivered' = delivered
    BY <1>7 DEF Edited, AddContact, RemoveContact, Block, ToggleMute, Edit
<1>8. CASE UNCHANGED inboxVars
    BY <1>8 DEF inboxVars
<1>. QED
    BY <1>1, <1>2, <1>3, <1>4, <1>5, <1>6, <1>7, <1>8, InboxCases

LEMMA RecordedStays ==
    ASSUME [InboxNext]_inboxVars, ~Reprovision
    PROVE  recorded \subseteq recorded'
<1>1. ASSUME NEW who \in Senders \cup {NoMsg}, Mine(who) PROVE recorded' = recorded
    BY <1>1 DEF Mine, disk
<1>2. CASE LiveEvent \/ Start \/ Seed \/ SeedFails
    BY <1>2 DEF LiveEvent, Start, Seed, SeedFails, quiet
<1>3. CASE Draining
    BY <1>3 DEF Draining, Wire, DrainAgain, Prepared, PrepareFails, Infer, still, disk
<1>4. CASE SetPresence \/ Crash
    BY <1>4 DEF SetPresence, Edit, Crash, disk
<1>5. ASSUME NEW by \in Hands, NEW b \in Blocks, Resolved(by, b) \/ Unresolved(by, b)
      PROVE  recorded \subseteq recorded'
    BY <1>5 DEF Resolved, Unresolved, disk
<1>6. ASSUME NEW s \in Scans, Own(s) PROVE recorded' = recorded
    BY <1>6 DEF Own, ScanHead, ScanLogs, ScanFails, ScanEvent, ScanChunkDone, Tick, quiet
<1>7. ASSUME NEW s \in Senders, Edited(s) PROVE recorded' = recorded
    BY <1>7 DEF Edited, AddContact, RemoveContact, Block, ToggleMute, Edit
<1>8. CASE UNCHANGED inboxVars
    BY <1>8 DEF inboxVars
<1>. QED
    BY <1>1, <1>2, <1>3, <1>4, <1>5, <1>6, <1>7, <1>8, InboxCases

LEMMA DeliveredNow ==
    ASSUME Once, NEW by \in Hands, NEW b \in Blocks, Resolved(by, b), Deliver(b), Booked
    PROVE  /\ delivered' = [delivered EXCEPT ![b] = @ + 1] /\ recorded' = recorded \cup {b}
           /\ b \notin recorded /\ msg[b] \in contacts \ (blocked \cup muted) /\ ~away
<1>1. delivered' = [delivered EXCEPT ![b] = @ + 1] /\ recorded' = recorded \cup {b}
    BY DEF Resolved, Deliver
<1>2. delivered'[b] # delivered[b]
    BY <1>1 DEF Once
<1>3. IsNew(b) /\ ~Quiet(msg[b]) /\ msg[b] \in contacts
    BY <1>2 DEF Resolved
<1>. QED
    BY <1>1, <1>3 DEF IsNew, Quiet, Booked

LEMMA OnceStep ==
    ASSUME Once, Booked, [InboxNext]_inboxVars
    PROVE  Once'
<1>1. CASE Reprovision
    BY <1>1 DEF Reprovision, Once
<1>2. ASSUME NEW by \in Hands, NEW b \in Blocks, Resolved(by, b), Deliver(b) PROVE Once'
    BY <1>2, DeliveredNow DEF Once
<1>3. CASE ~Reprovision /\ \A by \in Hands, b \in Blocks : Resolved(by, b) => ~Deliver(b)
    <2>1. delivered' = delivered /\ recorded \subseteq recorded'
        BY <1>3, DeliveredOnly, RecordedStays
    <2>. QED
        BY <2>1 DEF Once
<1>. QED
    BY <1>1, <1>2, <1>3
-----------------------------------------------------------------------------
InboxInv == Chained /\ Booked /\ Staged /\ Scanned /\ Queueing /\ Once

LEMMA InboxInvInit == InboxInit => InboxInv
<1>. SUFFICES ASSUME InboxInit PROVE InboxInv
    OBVIOUS
<1>1. setup \in Setups /\ head = 1 /\ 1 \in Blocks /\ MaxHead \in Nat
    BY InboxConstants DEF InboxInit, Blocks
<1>2. Chained
    BY <1>1 DEF InboxInit, Chained
<1>3. Booked
    BY <1>1, InboxConstants DEF InboxInit, Booked
<1>4. /\ scan = [s \in Scans |-> NoScan] /\ NoScan \in ScanStates
      /\ NoScan.pc = "idle" /\ NoScan.todo = {} /\ NoScan.head = 0
    BY DEF InboxInit, NoScan, ScanStates
<1>5. Staged
    BY <1>4 DEF InboxInit, Staged
<1>6. Scanned
    BY <1>1, <1>4 DEF InboxInit, Scanned, ScanAt
<1>7. Queueing
    <2>1. <<>> \in Seq({})
        OBVIOUS
    <2>. QED
        BY <2>1 DEF InboxInit, Queueing, NoDrain
<1>8. Once
    BY DEF InboxInit, Once
<1>. QED
    BY <1>2, <1>3, <1>5, <1>6, <1>7, <1>8 DEF InboxInv

LEMMA InboxInvStep == InboxInv /\ [InboxNext]_inboxVars => InboxInv'
BY ChainedStep, BookedStep, StagedStep, ScannedStep, QueueingStep, OnceStep DEF InboxInv

LEMMA InboxInvCorrect == InboxSpec => []InboxInv
BY InboxInvInit, InboxInvStep, PTL DEF InboxSpec

\* The chain, the listener's files, its scans, the handlers at their await and
\* the inbound queue are well typed, whatever events are lost and reads fail.
THEOREM InboxTypeCorrect == InboxSpec => []InboxTypeOK
<1>1. ASSUME InboxInv PROVE InboxTypeOK
    <2>1. /\ head \in Blocks /\ msg \in [Blocks -> Senders \cup {NoMsg}]
          /\ cursor \in 0..head /\ recorded \subseteq Messages
          /\ contacts \subseteq Senders /\ pending \subseteq Senders /\ blocked \subseteq Senders
          /\ muted \subseteq Senders /\ away \in BOOLEAN /\ wired \in BOOLEAN
          /\ up \in {"off", "seed", "boot", "on", "dead"} /\ arriving \subseteq Messages
          /\ handling \subseteq (Scans \cup {"live"}) \X Messages
          /\ queue \in Seq(recorded) /\ drain.pc \in {"idle", "prep", "infer"}
          /\ drain.pc # "idle" => drain.cur \in recorded
          /\ up \in {"off", "seed"} => queue = <<>> /\ handling = {} /\ arriving = {}
        BY <1>1 DEF InboxInv, Chained, Booked, Staged, Scanned, Queueing, Hands
    <2>2. ASSUME NEW s \in Scans
          PROVE  /\ scan[s].pc \in {"idle", "head", "logs", "events"}
                 /\ scan[s].todo \subseteq Messages /\ scan[s].head <= head
                 /\ scan[s].pc = "events" => scan[s].to \in scan[s].from..scan[s].head
        <3>1. scan[s] \in ScanStates /\ ScanAt(s)
            BY <1>1 DEF InboxInv, Scanned
        <3>. QED
            BY <3>1 DEF ScanStates, ScanAt
    <2>. QED
        BY <2>1, <2>2 DEF InboxTypeOK
<1>. QED
    BY <1>1, InboxInvCorrect, PTL

\* Live events, overlapping scans, restarts and rescans of the same block hand
\* a message to the brain at most once.  (has, INSERT OR IGNORE)
THEOREM DeliveredOnceCorrect == InboxSpec => []DeliveredOnce
<1>1. InboxInv => DeliveredOnce
    BY DEF InboxInv, Once, DeliveredOnce
<1>. QED
    BY <1>1, InboxInvCorrect, PTL

\* The brain is woken only for a sender that is then a contact, neither blocked
\* nor muted, and when the agent is not away.  (steps 5 to 8 of handleEvent)
THEOREM WakesOnlyContactsCorrect == InboxSpec => WakesOnlyContacts
<1>. DEFINE Wakes(b) == delivered'[b] > delivered[b] => msg[b] \in contacts \ (blocked \cup muted) /\ ~away
<1>1. ASSUME InboxInv, [InboxNext]_inboxVars, NEW b \in Blocks PROVE Wakes(b)
    <2>1. Once /\ Booked /\ delivered[b] \in Nat
        BY <1>1 DEF InboxInv, Once
    <2>2. CASE Reprovision
        BY <2>1, <2>2 DEF Reprovision
    <2>3. ASSUME NEW by \in Hands, NEW c \in Blocks, Resolved(by, c), Deliver(c) PROVE Wakes(b)
        <3>1. delivered' = [delivered EXCEPT ![c] = @ + 1] /\ msg[c] \in contacts \ (blocked \cup muted) /\ ~away
            BY <2>1, <2>3, DeliveredNow
        <3>. QED
            BY <2>1, <3>1 DEF Once
    <2>4. CASE ~Reprovision /\ \A by \in Hands, c \in Blocks : Resolved(by, c) => ~Deliver(c)
        BY <1>1, <2>1, <2>4, DeliveredOnly
    <2>. QED
        BY <2>2, <2>3, <2>4
<1>2. InboxInv /\ [InboxNext]_inboxVars => [\A b \in Blocks : Wakes(b)]_inboxVars
    BY <1>1
<1>. QED
    BY <1>2, InboxInvCorrect, PTL DEF InboxSpec, WakesOnlyContacts
-----------------------------------------------------------------------------
(* NothingLost.  A message that is missing and was not outrun is ahead of  *)
(* everything that was done: of each scan that is under way, of those that *)
(* have completed, and, but for the safety window, of the cursor.          *)

Marks == /\ scannedTo \in Nat /\ scannedTo <= head /\ born \in Nat /\ crashes \in Nat
         /\ (crashes = 0 /\ up \in {"off", "seed"} => born = 0)

\* The first scan is alone until it is over; the scans of the timer look back.
Turns == /\ up = "boot" => \A s \in Scans : scan[s].pc # "idle" =>
                               s = (CHOOSE t \in setup.scans : TRUE) /\ ~scan[s].safety
         /\ up = "on" => \A s \in Scans : scan[s].pc = "head" => scan[s].safety

\* The scan has b in hand or before it, or has yet to read where to start.
Due(s, b) == /\ scan[s].pc = "logs" => scan[s].from <= b
             /\ scan[s].pc = "events" => scan[s].to < b \/ b \in scan[s].todo \/ <<s, b>> \in handling

\* The cursor is past b by no more than the window that safety scans look back.
Near(b) == cursor < b \/ (up = "on" /\ cursor <= b + Safety)

Owed == Missing \ outrun

Ahead == \A b \in Owed : scannedTo < b /\ Near(b) /\ \A s \in Scans : Due(s, b)

\* What is missing is a message of the chain, and the listener is in its first life.
LEMMA MissingFacts ==
    ASSUME Marks, Chained, Staged, NEW b \in Owed
    PROVE  /\ b \in Messages /\ b \notin recorded \cup excused /\ b > born
           /\ b \in Nat /\ 1 <= b /\ b <= head /\ head \in Nat
           /\ crashes = 0 /\ born # 0 /\ up \in {"boot", "on"}
<1>1. b \in Missing
    BY DEF Owed
<1>2. b \in {c \in Messages \ (recorded \cup excused) : c > born}
      /\ up \notin {"off", "dead"} /\ ~(crashes > 0) /\ born # 0
    BY <1>1 DEF Missing
<1>3. crashes = 0
    BY <1>2 DEF Marks
<1>. QED
    BY <1>2, <1>3, InboxConstants DEF Marks, Staged, Messages, Blocks, Chained

\* A step that takes nothing from what is known, and starts no life, adds none.
LEMMA MissingStays ==
    ASSUME Messages' = Messages, recorded \subseteq recorded', excused \subseteq excused',
           crashes' = crashes, born' = born, up \in {"off", "dead"} => up' \in {"off", "dead"},
           outrun \subseteq outrun'
    PROVE  Owed' \subseteq Owed
BY DEF Missing, Owed

LEMMA AheadFrame ==
    ASSUME Ahead, Owed' \subseteq Owed, UNCHANGED <<cursor, scan, scannedTo, up>>,
           \A s \in Scans, b \in Owed' : <<s, b>> \in handling => <<s, b>> \in handling'
    PROVE  Ahead'
BY DEF Ahead, Due, Near

LEMMA MarksStep ==
    ASSUME Marks, Chained, Staged, Scanned, [InboxNext]_inboxVars
    PROVE  Marks'
<1>1. Chained' /\ head <= head' /\ head \in Nat /\ head' \in Nat
    BY ChainedStep, InboxConstants DEF Chained, Blocks
<1>2. CASE UNCHANGED <<scannedTo, born, crashes, up>>
    BY <1>1, <1>2 DEF Marks
<1>3. ASSUME NEW who \in Senders \cup {NoMsg}, Mine(who)
      PROVE  UNCHANGED <<scannedTo, born, crashes, up>>
    BY <1>3 DEF Mine
<1>4. CASE LiveEvent
    BY <1>2, <1>4 DEF LiveEvent, bounds
<1>5. CASE Start \/ Seed \/ SeedFails
    BY <1>1, <1>5 DEF Start, Seed, SeedFails, quiet, Marks
<1>6. CASE Draining
    BY <1>2, <1>6 DEF Draining, Wire, DrainAgain, Prepared, PrepareFails, Infer, still
<1>7. CASE SetPresence
    BY <1>2, <1>7 DEF SetPresence, Edit
<1>8. CASE Crash \/ Reprovision
    BY <1>1, <1>8 DEF Crash, Reprovision, Marks
<1>9. ASSUME NEW by \in Hands, NEW b \in Blocks, Resolved(by, b) \/ Unresolved(by, b)
      PROVE  UNCHANGED <<scannedTo, born, crashes, up>>
    BY <1>9 DEF Resolved, Unresolved, bounds
<1>10. ASSUME NEW s \in Scans, Own(s) PROVE Marks'
    <2>1. born' = born /\ crashes' = crashes /\ (up' = up \/ up' \in {"on", "dead"})
        BY <1>10 DEF Own, ScanHead, ScanLogs, ScanFails, ScanEvent, ScanChunkDone, Tick, Over, quiet
    <2>2. scan[s].head \in Nat /\ scan[s].head <= head
        BY DEF Scanned, ScanAt, ScanStates
    <2>3. scannedTo' \in {scannedTo, head, scan[s].head}
        BY <1>10 DEF Own, ScanHead, ScanLogs, ScanFails, ScanEvent, ScanChunkDone, Tick, Over
    <2>. QED
        BY <1>1, <2>1, <2>2, <2>3 DEF Marks
<1>11. ASSUME NEW s \in Senders, Edited(s) PROVE UNCHANGED <<scannedTo, born, crashes, up>>
    BY <1>11 DEF Edited, AddContact, RemoveContact, Block, ToggleMute, Edit
<1>12. CASE UNCHANGED inboxVars
    BY <1>2, <1>12 DEF inboxVars
<1>. QED
    BY <1>2, <1>3, <1>4, <1>5, <1>6, <1>7, <1>8, <1>9, <1>10, <1>11, <1>12, InboxCases

\* What happens to one scan leaves the others alone.
LEMMA OthersStay ==
    ASSUME Scanned, NEW s \in Scans, NEW t \in Scans, t # s, Own(s)
    PROVE  scan'[t] = scan[t]
BY DEF Own, ScanHead, ScanLogs, ScanFails, ScanEvent, ScanChunkDone, Tick, Over, Scanned

\* The states a scan moves to.
LEMMA ScanEnds ==
    ASSUME Scanned, NEW s \in Scans, scan' = [scan EXCEPT ![s] = NoScan]
    PROVE  scan'[s].pc = "idle"
BY DEF Scanned, NoScan

LEMMA ScanTicks ==
    ASSUME Scanned, NEW s \in Scans, Tick(s)
    PROVE  scan'[s].pc = "head" /\ scan'[s].safety
BY DEF Scanned, NoScan, Tick

LEMMA ScanStarts ==
    ASSUME Scanned, NEW s \in Scans, ScanHead(s), ~(From(s) > head)
    PROVE  scan'[s].pc = "logs" /\ scan'[s].from = From(s) /\ scan'[s].safety = scan[s].safety
<1>1. scan[s] \in ScanStates
    BY DEF Scanned
<1>. QED
    BY <1>1 DEF Scanned, ScanHead, ScanStates

LEMMA ScanFetches ==
    ASSUME Scanned, NEW s \in Scans, ScanLogs(s)
    PROVE  /\ scan'[s].pc = "events" /\ scan'[s].safety = scan[s].safety
           /\ scan'[s].todo = {b \in Messages : scan[s].from <= b /\ b <= scan'[s].to}
           /\ scan'[s].to \in Nat
<1>. DEFINE to == IF scan[s].from + Chunk - 1 > scan[s].head THEN scan[s].head
                  ELSE scan[s].from + Chunk - 1
            todo == {b \in Messages : scan[s].from <= b /\ b <= to}
<1>1. scan[s] \in ScanStates /\ ScanAt(s) /\ scan[s].pc = "logs"
    BY DEF Scanned, ScanLogs
<1>2. to \in Nat
    BY <1>1, InboxConstants DEF ScanAt, ScanStates
<1>3. scan' = [scan EXCEPT ![s].pc = "events", ![s].to = to, ![s].todo = todo]
    BY DEF ScanLogs
<1>. HIDE DEF to
<1>4. todo = {b \in Messages : scan[s].from <= b /\ b <= to}
    OBVIOUS
<1>. HIDE DEF todo
<1>5. scan'[s].pc = "events" /\ scan'[s].to = to /\ scan'[s].todo = todo
      /\ scan'[s].safety = scan[s].safety
    BY <1>1, <1>3 DEF Scanned, ScanStates
<1>. QED
    BY <1>2, <1>4, <1>5

LEMMA ScanTakes ==
    ASSUME Scanned, NEW s \in Scans, ScanEvent(s)
    PROVE  /\ scan'[s].pc = "events" /\ scan'[s].to = scan[s].to /\ scan'[s].safety = scan[s].safety
           /\ scan'[s].todo = scan[s].todo \ {Min(scan[s].todo)}
<1>1. scan[s] \in ScanStates /\ scan[s].pc = "events"
    BY DEF Scanned, ScanEvent
<1>. DEFINE todo == scan[s].todo \ {Min(scan[s].todo)}
<1>2. scan' = [scan EXCEPT ![s].todo = todo]
    BY DEF ScanEvent, Scanned
<1>. HIDE DEF todo
<1>3. scan'[s].pc = "events" /\ scan'[s].to = scan[s].to /\ scan'[s].safety = scan[s].safety
      /\ scan'[s].todo = todo
    BY <1>1, <1>2 DEF Scanned, ScanStates
<1>. QED
    BY <1>3 DEF todo

LEMMA ScanGoesOn ==
    ASSUME Scanned, NEW s \in Scans, ScanChunkDone(s), scan[s].to + 1 <= scan[s].head
    PROVE  /\ scan'[s].pc = "logs" /\ scan'[s].from = scan[s].to + 1 /\ scan'[s].safety = scan[s].safety
           /\ UNCHANGED <<up, scannedTo>>
<1>1. scan[s] \in ScanStates
    BY DEF Scanned
<1>. QED
    BY <1>1 DEF Scanned, ScanChunkDone, ScanStates

LEMMA TurnsStep ==
    ASSUME Turns, Marks, Chained, Staged, Scanned, [InboxNext]_inboxVars
    PROVE  Turns'
<1>1. CASE UNCHANGED <<setup, up, scan>>
    BY <1>1 DEF Turns
<1>2. ASSUME NEW who \in Senders \cup {NoMsg}, Mine(who)
      PROVE  UNCHANGED <<setup, up, scan>>
    BY <1>2 DEF Mine
<1>3. CASE LiveEvent
    BY <1>1, <1>3 DEF LiveEvent
<1>4. CASE up' = "boot" /\ scan' = FirstScan /\ setup' = setup
    <2>1. ASSUME NEW s \in Scans, scan'[s].pc # "idle"
          PROVE  s = (CHOOSE t \in setup.scans : TRUE) /\ ~scan'[s].safety
        BY <1>4, <2>1 DEF FirstScan, NoScan
    <2>. QED
        BY <1>4, <2>1 DEF Turns
<1>5. CASE Start \/ Seed \/ SeedFails
    <2>1. setup' = setup /\ (up' \in {"seed", "dead"} \/ (up' = "boot" /\ scan' = FirstScan))
        BY <1>5 DEF Start, Seed, SeedFails, quiet
    <2>. QED
        BY <1>4, <2>1 DEF Turns
<1>6. CASE Draining
    BY <1>1, <1>6 DEF Draining, Wire, DrainAgain, Prepared, PrepareFails, Infer, still
<1>7. CASE SetPresence
    BY <1>1, <1>7 DEF SetPresence, Edit
<1>8. CASE Crash
    BY <1>8 DEF Crash, Turns
<1>9. CASE Reprovision
    BY <1>1, <1>9 DEF Reprovision
<1>10. ASSUME NEW by \in Hands, NEW b \in Blocks, Resolved(by, b) \/ Unresolved(by, b)
       PROVE  UNCHANGED <<setup, up, scan>>
    BY <1>10 DEF Resolved, Unresolved
<1>11. ASSUME NEW s \in Scans, Own(s) PROVE Turns'
    <2>1. setup' = setup
        BY <1>11 DEF Own, ScanHead, ScanLogs, ScanFails, ScanEvent, ScanChunkDone, Tick, quiet
    <2>2. \A t \in Scans : t # s => scan'[t] = scan[t]
        BY <1>11, OthersStay
    <2>3. CASE scan' = [scan EXCEPT ![s] = NoScan] /\ up' \in {"on", "dead"}
        <3>1. scan'[s].pc = "idle"
            BY <2>3, ScanEnds
        <3>2. ASSUME NEW t \in Scans, up' = "on", scan'[t].pc = "head", up = "on" PROVE scan'[t].safety
            BY <2>2, <3>1, <3>2 DEF Turns
        <3>3. ASSUME NEW t \in Scans, up' = "on", scan'[t].pc = "head", up = "boot" PROVE scan'[t].safety
            <4>1. scan[s].pc # "idle"
                BY <1>11, <3>3 DEF Own, ScanHead, ScanLogs, ScanFails, ScanEvent, ScanChunkDone, Tick
            <4>2. t # s /\ scan[t].pc = "head"
                BY <2>2, <3>1, <3>3
            <4>. QED
                BY <3>3, <4>1, <4>2 DEF Turns
        <3>4. up = "on" \/ up = "boot" \/ up' # "on"
            <4>1. up' = up \/ up = "boot"
                BY <1>11 DEF Own, ScanHead, ScanLogs, ScanFails, ScanEvent, ScanChunkDone, Tick, Over
            <4>. QED
                BY <4>1
        <3>. QED
            BY <2>3, <3>2, <3>3, <3>4 DEF Turns
    <2>4. CASE Tick(s)
        BY <2>1, <2>2, <2>4, ScanTicks DEF Tick, Turns
    <2>5. CASE up' = up /\ scan[s].pc # "idle" /\ scan'[s].pc # "head" /\ scan'[s].safety = scan[s].safety
        <3>1. ASSUME NEW t \in Scans
              PROVE  /\ scan'[t].pc # "idle" => scan[t].pc # "idle"
                     /\ scan'[t].pc = "head" => scan[t].pc = "head"
                     /\ scan'[t].safety = scan[t].safety
            BY <2>2, <2>5
        <3>2. up = "boot" => \A t \in Scans : scan'[t].pc # "idle" =>
                                 t = (CHOOSE u \in setup.scans : TRUE) /\ ~scan'[t].safety
            BY <3>1, Zenon DEF Turns
        <3>3. up = "on" => \A t \in Scans : scan'[t].pc = "head" => scan'[t].safety
            BY <3>1, Zenon DEF Turns
        <3>. QED
            BY <2>1, <2>5, <3>2, <3>3, Zenon DEF Turns
    <2>6. CASE up' = up /\ scan' = [scan EXCEPT ![s] = NoScan]
        <3>1. scan'[s].pc = "idle"
            BY <2>6, ScanEnds
        <3>. QED
            BY <2>1, <2>2, <2>6, <3>1 DEF Turns
    <2>7. CASE ScanHead(s) /\ ~(From(s) > head)
        BY <2>5, <2>7, ScanStarts DEF ScanHead
    <2>8. CASE ScanChunkDone(s) /\ scan[s].to + 1 <= scan[s].head
        BY <2>5, <2>8, ScanGoesOn DEF ScanChunkDone
    <2>9. CASE ScanLogs(s) \/ ScanEvent(s)
        BY <2>5, <2>9, ScanFetches, ScanTakes DEF ScanLogs, ScanEvent
    <2>10. CASE Over(s, head) \/ Over(s, scan[s].head) \/ ScanFails(s)
        BY <2>3, <2>6, <2>10 DEF Over, ScanFails
    <2>. QED
        BY <1>11, <2>4, <2>7, <2>8, <2>9, <2>10 DEF Own, ScanHead, ScanChunkDone
<1>12. ASSUME NEW s \in Senders, Edited(s) PROVE UNCHANGED <<setup, up, scan>>
    BY <1>12 DEF Edited, AddContact, RemoveContact, Block, ToggleMute, Edit
<1>13. CASE UNCHANGED inboxVars
    BY <1>1, <1>13 DEF inboxVars
<1>. QED
    BY <1>1, <1>2, <1>3, <1>5, <1>6, <1>7, <1>8, <1>9, <1>10, <1>11, <1>12, <1>13, InboxCases

-----------------------------------------------------------------------------
\* A scan starts at or before whatever is missing.
LEMMA FromReaches ==
    ASSUME Marks, Turns, Ahead, Chained, Staged, Scanned,
           NEW b \in Owed, NEW s \in Scans, scan[s].pc = "head"
    PROVE  From(s) <= b
<1>1. b \in Nat /\ 1 <= b /\ up \in {"boot", "on"}
    BY MissingFacts
<1>2. scannedTo < b /\ (cursor < b \/ (up = "on" /\ cursor <= b + Safety))
    BY DEF Ahead, Near
<1>3. cursor \in Nat /\ scannedTo \in Nat /\ Safety \in Nat
    BY InboxAssumption, InboxConstants DEF Marks, Scanned, Chained, Blocks
<1>4. cursor - Safety <= b
    BY <1>1, <1>2, <1>3
<1>5. CASE scan[s].safety
    BY <1>1, <1>3, <1>4, <1>5 DEF From
<1>6. CASE ~scan[s].safety
    <2>1. up # "on"
        BY <1>6 DEF Turns
    <2>. QED
        BY <1>1, <1>2, <1>3, <1>6, <2>1 DEF From
<1>. QED
    BY <1>5, <1>6

\* One scan moves, and the cursor to below what is missing, if at all.
LEMMA AheadOwn ==
    ASSUME Marks, Turns, Ahead, Chained, Staged, Scanned,
           NEW s \in Scans, Own(s), NEW b \in Owed', b \in Owed
    PROVE  scannedTo' < b /\ Near(b)' /\ \A t \in Scans : Due(t, b)'
<1>1. b \in Nat /\ b \in Messages /\ b \notin excused' /\ b \notin recorded /\ b <= head /\ head \in Nat
      /\ up \in {"boot", "on"}
    BY MissingFacts DEF Missing, Owed
<1>2. /\ scannedTo < b
      /\ cursor < b \/ (up = "on" /\ cursor <= b + Safety)
      /\ \A t \in Scans : Due(t, b)
    BY DEF Ahead, Near
<1>3. cursor \in Nat /\ scannedTo \in Nat /\ Safety \in Nat
    BY InboxAssumption, InboxConstants DEF Marks, Scanned, Chained, Blocks
<1>4. scan[s] \in ScanStates /\ ScanAt(s)
    BY DEF Scanned
<1>5. \A t \in Scans : t # s => scan'[t] = scan[t]
    BY OthersStay
<1>6. handling \subseteq handling'
    BY DEF Own, ScanHead, ScanLogs, ScanFails, ScanEvent, ScanChunkDone, Tick, quiet, Starts
<1>7. ASSUME Due(s, b)' PROVE \A t \in Scans : Due(t, b)'
    BY <1>2, <1>5, <1>6, <1>7 DEF Due
<1>8. up' # "dead"
    BY DEF Missing, Owed
<1>9. up = "on" => up' = "on"
    BY <1>8 DEF Own, ScanHead, ScanLogs, ScanFails, ScanEvent, ScanChunkDone, Tick, Over
<1>10. CASE ScanHead(s)
    <2>1. From(s) <= b /\ From(s) \in Nat
        BY <1>10, FromReaches, FromFacts DEF ScanHead
    <2>2. ~(From(s) > head)
        BY <1>1, <2>1
    <2>3. scan'[s].pc = "logs" /\ scan'[s].from = From(s)
        BY <1>10, <2>2, ScanStarts
    <2>4. Due(s, b)'
        BY <2>1, <2>3 DEF Due
    <2>5. UNCHANGED <<cursor, scannedTo, up>>
        BY <1>10, <2>2 DEF ScanHead
    <2>. QED
        BY <1>2, <1>7, <2>4, <2>5 DEF Near
<1>11. CASE ScanLogs(s)
    <2>1. /\ scan'[s].pc = "events" /\ scan'[s].to \in Nat
          /\ scan'[s].todo = {c \in Messages : scan[s].from <= c /\ c <= scan'[s].to}
        BY <1>11, ScanFetches
    <2>2. scan[s].from <= b
        BY <1>2, <1>11 DEF Due, ScanLogs
    <2>3. scan'[s].to < b \/ b <= scan'[s].to
        BY <1>1, <2>1
    <2>4. Due(s, b)'
        BY <1>1, <2>1, <2>2, <2>3 DEF Due
    <2>5. UNCHANGED <<cursor, scannedTo, up>>
        BY <1>11 DEF ScanLogs
    <2>. QED
        BY <1>2, <1>7, <2>4, <2>5 DEF Near
<1>12. CASE ScanFails(s)
    <2>1. scan'[s].pc = "idle"
        BY <1>12, ScanEnds DEF ScanFails
    <2>2. Due(s, b)'
        BY <2>1 DEF Due
    <2>3. UNCHANGED <<cursor, scannedTo>>
        BY <1>12 DEF ScanFails
    <2>. QED
        BY <1>2, <1>7, <1>9, <2>2, <2>3 DEF Near
<1>13. CASE Tick(s)
    <2>1. scan'[s].pc = "head"
        BY <1>13, ScanTicks
    <2>2. Due(s, b)'
        BY <2>1 DEF Due
    <2>3. UNCHANGED <<cursor, scannedTo>>
        BY <1>13 DEF Tick
    <2>. QED
        BY <1>2, <1>7, <1>9, <2>2, <2>3 DEF Near
<1>14. CASE ScanEvent(s)
    <2>. DEFINE first == Min(scan[s].todo)
    <2>1. /\ scan'[s].pc = "events" /\ scan'[s].to = scan[s].to
          /\ scan'[s].todo = scan[s].todo \ {first} /\ Starts(s, first)
        BY <1>14, ScanTakes DEF ScanEvent
    <2>. HIDE DEF first
    <2>2. scan[s].to < b \/ b \in scan[s].todo \/ <<s, b>> \in handling
        BY <1>2, <1>14 DEF Due, ScanEvent
    <2>3. b = first => <<s, b>> \in handling'
        BY <1>1, <2>1 DEF Starts, Passes
    <2>4. Due(s, b)'
        BY <1>6, <2>1, <2>2, <2>3 DEF Due
    <2>5. UNCHANGED <<cursor, scannedTo, up>>
        BY <1>14 DEF ScanEvent
    <2>. QED
        BY <1>2, <1>7, <2>4, <2>5 DEF Near
<1>15. CASE ScanChunkDone(s)
    <2>1. scan[s].to < b
        <3>1. b \notin scan[s].todo /\ <<s, b>> \notin handling
            BY <1>1, <1>15 DEF ScanChunkDone, Waiting, Messages
        <3>. QED
            BY <1>2, <1>15, <3>1 DEF Due, ScanChunkDone
    <2>2. scan[s].to \in Nat /\ scan[s].head \in Nat
        BY <1>4 DEF ScanStates
    <2>3. cursor' = scan[s].to \/ cursor' = cursor
        BY <1>15 DEF ScanChunkDone
    <2>4. CASE scan[s].to + 1 <= scan[s].head
        <3>1. scan'[s].pc = "logs" /\ scan'[s].from = scan[s].to + 1 /\ UNCHANGED <<up, scannedTo>>
            BY <1>15, <2>4, ScanGoesOn
        <3>2. scan[s].to + 1 <= b
            BY <1>1, <2>1, <2>2
        <3>3. Due(s, b)'
            BY <3>1, <3>2 DEF Due
        <3>. QED
            BY <1>2, <1>7, <2>1, <2>3, <3>1, <3>3 DEF Near
    <2>5. CASE ~(scan[s].to + 1 <= scan[s].head)
        <3>1. Over(s, scan[s].head)
            BY <1>15, <2>5 DEF ScanChunkDone
        <3>2. scan[s].head < b
            BY <1>1, <2>1, <2>2, <2>5
        <3>3. scannedTo' \in Nat /\ scannedTo <= scannedTo' /\ scannedTo' < b
            BY <1>2, <1>3, <2>2, <3>1, <3>2 DEF Over
        <3>4. scan'[s].pc = "idle"
            BY <3>1, ScanEnds DEF Over
        <3>5. Due(s, b)'
            BY <3>4 DEF Due
        <3>. QED
            BY <1>2, <1>7, <1>9, <2>1, <2>3, <3>3, <3>5 DEF Near
    <2>. QED
        BY <2>4, <2>5
<1>. QED
    BY <1>10, <1>11, <1>12, <1>13, <1>14, <1>15 DEF Own

LEMMA AheadStep ==
    ASSUME Marks, Turns, Ahead, Chained, Staged, Scanned,
           [InboxNext]_inboxVars
    PROVE  Ahead'
<1>1. head \in Nat /\ cursor \in Nat /\ cursor <= head /\ scannedTo \in Nat /\ scannedTo <= head
    BY InboxConstants DEF Marks, Scanned, Chained, Blocks
<1>2. CASE Owed' = {}
    BY <1>2 DEF Ahead
<1>3. ASSUME NEW who \in Senders \cup {NoMsg}, Mine(who) PROVE Ahead'
    <2>1. /\ UNCHANGED <<up, scan, handling, cursor, recorded, crashes, born, scannedTo, excused, outrun>>
          /\ head' = head + 1 /\ msg' = [msg EXCEPT ![head'] = who]
        BY <1>3 DEF Mine, disk
    <2>2. Owed' \subseteq Owed \cup {head'}
        <3>1. \A b \in Blocks : b # head' => (b <= head' => b <= head)
            BY <1>1, <2>1 DEF Blocks
        <3>2. \A b \in Blocks : b # head' => msg'[b] = msg[b]
            BY <2>1 DEF Chained
        <3>3. ASSUME NEW b \in Messages', b # head' PROVE b \in Messages
            BY <3>1, <3>2, <3>3 DEF Messages
        <3>4. ASSUME NEW b \in Owed', b # head' PROVE b \in Owed
            BY <2>1, <3>3, <3>4 DEF Missing, Owed
        <3>. QED
            BY <3>4
    <2>3. ASSUME NEW b \in Owed PROVE scannedTo' < b /\ Near(b)' /\ \A s \in Scans : Due(s, b)'
        BY <2>1 DEF Ahead, Due, Near
    <2>4. ASSUME NEW b \in Nat, b = head + 1
          PROVE  scannedTo' < b /\ cursor' < b /\ \A s \in Scans : Due(s, b)'
        <3>1. scannedTo < b /\ cursor < b
            BY <1>1, <2>4
        <3>2. ASSUME NEW s \in Scans PROVE Due(s, b)
            <4>1. scan[s] \in ScanStates /\ ScanAt(s)
                BY DEF Scanned
            <4>2. scan[s].pc = "logs" => scan[s].from <= b
                BY <1>1, <2>4, <4>1 DEF ScanAt, ScanStates
            <4>3. scan[s].pc = "events" => scan[s].to < b
                BY <1>1, <2>4, <4>1 DEF ScanAt, ScanStates
            <4>. QED
                BY <4>2, <4>3 DEF Due
        <3>. QED
            BY <2>1, <3>1, <3>2 DEF Due
    <2>5. \A b \in Owed' : b \in Owed \/ (b \in Nat /\ b = head + 1)
        BY <1>1, <2>1, <2>2
    <2>. QED
        BY <2>3, <2>4, <2>5 DEF Ahead, Near
<1>4. CASE LiveEvent
    <2>1. /\ Messages' = Messages /\ UNCHANGED <<recorded, crashes, born, up, scan, scannedTo>>
          /\ up = "on" /\ excused \subseteq excused' /\ handling \subseteq handling'
          /\ outrun' = outrun \cup {m \in Messages : scannedTo < m /\ m + Safety < cursor'}
        BY <1>4 DEF LiveEvent, bounds, Starts, Messages
    <2>2. Owed' \subseteq Owed
        BY <2>1, MissingStays
    <2>3. ASSUME NEW b \in Owed' PROVE scannedTo < b /\ cursor' <= b + Safety
        <3>1. b \in Owed /\ b \notin outrun'
            BY <2>2 DEF Owed
        <3>2. scannedTo < b /\ b \in Messages /\ b \in Nat
            BY <3>1, MissingFacts DEF Ahead
        <3>3. cursor' \in Nat
            BY <1>4, ScannedStep, ChainedStep, InboxConstants DEF Scanned, Chained, Blocks
        <3>4. ~(b + Safety < cursor')
            BY <2>1, <3>1, <3>2
        <3>. QED
            BY <3>2, <3>3, <3>4, InboxConstants
    <2>. QED
        BY <2>1, <2>2, <2>3 DEF Ahead, Due, Near
<1>5. CASE Start \/ Seed \/ SeedFails
    <2>1. UNCHANGED <<head, msg, crashes>> /\ Messages' = Messages
        BY <1>5 DEF Start, Seed, SeedFails, quiet, Messages
    <2>2. crashes = 0 => born = 0
        BY <1>5 DEF Start, Seed, SeedFails, Marks
    <2>3. CASE (Start \/ SeedFails) /\ crashes = 0
        BY <2>2, <2>3, <1>2 DEF Start, SeedFails, Missing, Owed
    <2>4. CASE Seed /\ crashes = 0
        <3>1. born' = head
            BY <2>2, <2>4 DEF Seed
        <3>2. \A b \in Messages : ~(b > head)
            BY <1>1 DEF Messages, Blocks
        <3>3. Owed' = {}
            BY <2>1, <3>1, <3>2 DEF Missing, Owed
        <3>. QED
            BY <1>2, <3>3
    <2>5. CASE crashes # 0
        <3>1. crashes' > 0
            BY <2>1, <2>5 DEF Marks
        <3>. QED
            BY <1>2, <3>1 DEF Missing, Owed
    <2>. QED
        BY <1>5, <2>3, <2>4, <2>5
<1>6. ASSUME Messages' = Messages,
             UNCHANGED <<recorded, excused, handling, crashes, born, cursor, scan, scannedTo, up, outrun>>
      PROVE  Ahead'
    BY <1>6, MissingStays, AheadFrame
<1>7. CASE Draining
    BY <1>6, <1>7 DEF Draining, Wire, DrainAgain, Prepared, PrepareFails, Infer, still, disk, Messages
<1>8. CASE SetPresence
    BY <1>6, <1>8 DEF SetPresence, Edit, Messages
<1>9. CASE Crash \/ Reprovision
    <2>1. crashes' > 0
        BY <1>9 DEF Crash, Reprovision, Marks
    <2>. QED
        BY <1>2, <2>1 DEF Missing, Owed
<1>10. ASSUME NEW by \in Hands, NEW b \in Blocks, Resolved(by, b) \/ Unresolved(by, b)
       PROVE  Ahead'
    <2>1. /\ Messages' = Messages /\ UNCHANGED <<crashes, born, cursor, scan, scannedTo, up, outrun>>
          /\ recorded \subseteq recorded' /\ excused \subseteq excused'
          /\ handling' = handling \ {<<by, b>>} /\ b \in recorded' \cup excused'
        BY <1>10 DEF Resolved, Unresolved, disk, bounds, Messages
    <2>2. Owed' \subseteq Owed /\ b \notin Owed'
        BY <2>1, MissingStays DEF Missing, Owed
    <2>. QED
        BY <2>1, <2>2, AheadFrame
<1>11. ASSUME NEW s \in Scans, Own(s) PROVE Ahead'
    <2>1. /\ Messages' = Messages /\ UNCHANGED <<recorded, crashes, born, outrun>> /\ excused \subseteq excused'
          /\ up \in {"off", "dead"} => up' \in {"off", "dead"}
        <3>1. UNCHANGED <<head, msg, recorded, crashes, born, outrun>> /\ excused \subseteq excused'
            BY <1>11 DEF Own, ScanHead, ScanLogs, ScanFails, ScanEvent, ScanChunkDone, Tick, quiet, Starts
        <3>2. up \in {"off", "dead"} => up' \in {"off", "dead"}
            BY <1>11 DEF Own, ScanHead, ScanLogs, ScanFails, ScanEvent, ScanChunkDone, Tick, Over
        <3>. QED
            BY <3>1, <3>2 DEF Messages
    <2>2. Owed' \subseteq Owed
        BY <2>1, MissingStays
    <2>. QED
        BY <1>11, <2>2, AheadOwn DEF Ahead
<1>12. ASSUME NEW s \in Senders, Edited(s) PROVE Ahead'
    BY <1>6, <1>12 DEF Edited, AddContact, RemoveContact, Block, ToggleMute, Edit, Messages
<1>13. CASE UNCHANGED inboxVars
    BY <1>6, <1>13 DEF inboxVars, Messages
<1>. QED
    BY <1>3, <1>4, <1>5, <1>7, <1>8, <1>9, <1>10, <1>11, <1>12, <1>13, InboxCases

LossInv == Marks /\ Turns /\ Ahead

LEMMA LossInit == InboxInit => LossInv
<1>1. InboxInit => Owed = {} /\ NoScan.pc = "idle"
    BY DEF InboxInit, Missing, NoScan, Owed
<1>. QED
    BY <1>1 DEF InboxInit, LossInv, Marks, Turns, Ahead

\* However many events are dropped, scans overlap or fail and late the timer is:
\* of the messages that no live event outran, none is left behind a completed
\* scan, nor out of the next one's reach.  (catchUp, onLogs, catchUpSafetyBlocks)
THEOREM NothingLostCorrect == InboxSpec => []NothingLost
<1>1. LossInv /\ InboxInv /\ InboxInv' /\ [InboxNext]_inboxVars => LossInv'
    BY MarksStep, TurnsStep, AheadStep DEF LossInv, InboxInv
<1>2. LossInv /\ InboxInv => NothingLost
    <2>. SUFFICES ASSUME LossInv, InboxInv, NEW b \in Owed
                  PROVE  scannedTo < b /\ cursor <= b + Safety
        BY DEF NothingLost, Owed
    <2>1. b \in Nat
        BY MissingFacts DEF LossInv, InboxInv
    <2>2. scannedTo < b /\ (cursor < b \/ cursor <= b + Safety)
        BY DEF LossInv, Ahead, Near
    <2>3. cursor \in Nat /\ Safety \in Nat
        BY InboxConstants DEF LossInv, InboxInv, Scanned, Chained, Blocks
    <2>. QED
        BY <2>1, <2>2, <2>3
<1>. QED
    BY <1>1, <1>2, LossInit, InboxInvCorrect, PTL DEF InboxSpec
=============================================================================
