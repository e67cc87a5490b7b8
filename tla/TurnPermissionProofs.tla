------------------------ MODULE TurnPermissionProofs ------------------------
(***************************************************************************)
(* Safety of TurnPermission for any number of chats, calls, approvals and  *)
(* answers being verified: its types, that a turn waits exactly for what   *)
(* is pending under its own id, that a risky call that ran in prompt mode  *)
(* ran by consent, and that turns put the operator's mode back.            *)
(***************************************************************************)
EXTENDS TurnPermission, TLAPS

Turns   == [pc : {"idle", "on", "ask"}, prevMode : Modes, prevPrompter : Prompters,
            call : Calls \cup {"none"}, id : 0..MaxAsks]
Answers == [id : Ids, decision : Decisions]
Results == [call : Calls, mode : Modes, id : 0..MaxAsks,
            via : {"yolo", "allow", "session-allow", "once", "deny", "strict-deny"}]

\* What the promise of an approval knows: a turn that waits does so under an
\* id that was given to it, for a call it made; no id is pending before it is used.
Waits(a) == turn[a].pc = "ask" => /\ turn[a].id \in Ids /\ turn[a].id <= asked
                                  /\ by[turn[a].id] = a
                                  /\ turn[a].call \in Calls
Bookkept ==
    /\ \A a \in Actors : Waits(a)
    /\ \A i \in relay \cup keyboards : i <= asked

IInv == TypeOK /\ Bookkept /\ WaitsForPending

LEMMA Constants ==
    /\ Tui \notin Chats /\ Relay \notin Chats
    /\ MaxAsks \in Nat /\ MaxPosts \in Nat /\ MaxEdits \in Nat
    /\ Tui \in Actors /\ Relay \in Prompters
    /\ \A c \in Chats : c \in Actors /\ c \in Prompters
    /\ \A i \in Ids : i \in Nat /\ i # 0 /\ i \in 0..MaxAsks
BY PermissionAssumption DEF Actors, Prompters, Ids

LEMMA NoTurnType == NoTurn \in Turns
BY Constants DEF NoTurn, Turns, Modes

LEMMA AwakeType ==
    ASSUME NEW t \in Turns
    PROVE  Awake(t) \in Turns /\ Awake(t).pc = "on"
<1>. DEFINE on == [t EXCEPT !.pc = "on"]
            fresh == [on EXCEPT !.id = 0]
<1>1. on \in Turns /\ on.pc = "on"
    BY DEF Turns
<1>2. 0 \in 0..MaxAsks
    BY Constants
<1>3. fresh \in Turns /\ fresh.pc = "on"
    <2>. HIDE DEF on
    <2>. QED
        BY <1>1, <1>2 DEF Turns
<1>4. [fresh EXCEPT !.call = "none"] \in Turns /\ [fresh EXCEPT !.call = "none"].pc = "on"
    <2>. HIDE DEF fresh
    <2>. QED
        BY <1>3 DEF Turns
<1>. QED
    BY <1>4 DEF Awake

\* Who waits under a pending id is the one turn it was given to.
LEMMA Owner ==
    ASSUME IInv, NEW i \in relay \cup keyboards
    PROVE  /\ i \in Ids /\ by[i] \in Actors
           /\ turn[by[i]].pc = "ask" /\ turn[by[i]].id = i /\ turn[by[i]].call \in Calls
           /\ \A a \in Actors : turn[a].pc = "ask" /\ turn[a].id = i => a = by[i]
<1>1. i \in Ids
    BY DEF IInv, TypeOK
<1>2. by[i] \in Actors
    BY <1>1 DEF IInv, TypeOK
<1>3. turn[by[i]].pc = "ask" /\ turn[by[i]].id = i
    BY DEF IInv, WaitsForPending
<1>4. \A a \in Actors : Waits(a)
    BY DEF IInv, Bookkept
<1>. QED
    BY <1>1, <1>2, <1>3, <1>4 DEF Waits
-----------------------------------------------------------------------------
(* A decision wakes its turn and leaves the other ones as they are.        *)

LEMMA DecideKeeps ==
    ASSUME IInv, NEW i \in relay \cup keyboards, NEW d \in Decisions, Decide(i, d)
    PROVE  /\ turn' \in [Actors -> Turns]
           /\ relay' \subseteq Ids /\ keyboards' \subseteq Ids
           /\ sessionAllowed' \subseteq Calls
           /\ outcome' \subseteq Results
           /\ UNCHANGED <<asked, by>> => Bookkept' /\ WaitsForPending'
<1>. DEFINE b == by[i]
<1>1. /\ i \in Ids /\ b \in Actors /\ turn[b].pc = "ask" /\ turn[b].id = i
      /\ turn[b].call \in Calls
      /\ \A a \in Actors : turn[a].pc = "ask" /\ turn[a].id = i => a = b
    BY Owner
<1>2. /\ turn \in [Actors -> Turns] /\ relay \subseteq Ids /\ keyboards \subseteq Ids
      /\ sessionAllowed \subseteq Calls
    BY DEF IInv, TypeOK, Turns
<1>3. /\ relay' = relay \ {i} /\ keyboards' = keyboards \ {i}
      /\ sessionAllowed' = (IF d = "allow-session" THEN sessionAllowed \cup {turn[b].call}
                                                   ELSE sessionAllowed)
      /\ turn' = [turn EXCEPT ![b] = Awake(@)]
      /\ outcome' = {[call |-> turn[b].call, mode |-> "prompt", via |-> Via(d), id |-> i]}
    BY DEF Decide
<1>4. Awake(turn[b]) \in Turns /\ Awake(turn[b]).pc = "on"
    BY <1>1, <1>2, AwakeType
<1>5. turn' \in [Actors -> Turns] /\ turn'[b].pc = "on"
      /\ \A a \in Actors \ {b} : turn'[a] = turn[a]
    BY <1>1, <1>2, <1>3, <1>4
<1>6. outcome' \subseteq Results
    <2>1. Via(d) \in {"session-allow", "once", "deny"}
        BY DEF Via, Decisions
    <2>2. i \in 0..MaxAsks
        BY <1>1, Constants
    <2>. QED
        BY <1>1, <1>3, <2>1, <2>2 DEF Results, Modes
<1>7. ASSUME UNCHANGED <<asked, by>> PROVE Bookkept'
    BY <1>3, <1>5, <1>7 DEF IInv, Bookkept, Waits
<1>8. ASSUME UNCHANGED <<asked, by>> PROVE WaitsForPending'
    <2>1. ASSUME NEW a \in Actors, turn'[a].pc = "ask" PROVE turn'[a].id \in relay' \cup keyboards'
        BY <1>1, <1>3, <1>5, <2>1 DEF IInv, WaitsForPending
    <2>2. ASSUME NEW j \in relay' \cup keyboards' PROVE turn'[by[j]].pc = "ask" /\ turn'[by[j]].id = j
        <3>1. j \in relay \cup keyboards /\ j # i
            BY <1>3
        <3>2. /\ by[j] \in Actors /\ turn[by[j]].pc = "ask" /\ turn[by[j]].id = j
            BY <3>1, Owner
        <3>. QED
            BY <1>1, <1>5, <3>1, <3>2
    <2>. QED
        BY <1>3, <1>8, <2>1, <2>2 DEF IInv, WaitsForPending
<1>. QED
    BY <1>2, <1>1, <1>3, <1>5, <1>6, <1>7, <1>8
-----------------------------------------------------------------------------
(* One lemma per kind of step.                                             *)

Flags == bridge \in BOOLEAN /\ tangled \in BOOLEAN

Values ==
    /\ mode \in Modes /\ prompter \in Prompters
    /\ sessionAllowed \subseteq Calls /\ granted \subseteq Calls
    /\ turn \in [Actors -> Turns]
    /\ relay \subseteq Ids /\ keyboards \subseteq Ids /\ verifying \subseteq Answers
    /\ running \in {"up", "stopping", "down"} /\ edits \in 0..MaxEdits /\ asked \in 0..MaxAsks
    /\ by \in [Ids -> Actors] /\ wanted \in Modes
    /\ ending \in [Ids -> Decisions \cup {"none", "expired"}]
    /\ outcome \subseteq Results

LEMMA Types == TypeOK <=> Flags /\ Values
BY DEF TypeOK, Flags, Values, Turns, Answers, Results

LEMMA FlagsStep == Flags /\ [Next]_vars => Flags'
<1> SUFFICES ASSUME Flags, [Next]_vars PROVE Flags'
    OBVIOUS
<1>1. bridge' = bridge
    BY Zenon DEF Next, vars, Perms, Yolo, BeginTui, EndTui, BeginChat, EndChat, Resolve, Ask, Post,
       Tap, Verified, Refused, Expire, Shutdown, Exit
<1>2. \/ tangled' = tangled
      \/ tangled' = (tangled \/ InTelegramTurn)
      \/ tangled' = (tangled \/ (InTelegramTurn /\ ~bridge))
    BY Zenon DEF Next, vars, Perms, Yolo, BeginTui, EndTui, BeginChat, EndChat, Resolve, Ask, Post,
       Tap, Verified, Refused, Expire, Shutdown, Exit, history
<1>3. tangled' \in BOOLEAN
    BY <1>2, Zenon DEF Flags
<1>. QED
    BY <1>1, <1>3 DEF Flags

LEMMA TurnStays ==
    ASSUME IInv, UNCHANGED <<turn, relay, keyboards, asked, by>>
    PROVE  Bookkept' /\ WaitsForPending'
BY DEF IInv, Bookkept, Waits, WaitsForPending

\* A turn that does not wait begins or ends: nobody else is touched.
LEMMA TurnMoves ==
    ASSUME IInv, NEW a \in Actors, NEW t \in Turns, turn[a].pc # "ask", t.pc # "ask",
           turn' = [turn EXCEPT ![a] = t], UNCHANGED <<relay, keyboards, asked, by>>
    PROVE  Bookkept' /\ WaitsForPending'
<1>1. turn \in [Actors -> Turns]
    BY DEF IInv, TypeOK, Turns
<1>2. turn'[a].pc # "ask" /\ \A b \in Actors \ {a} : turn'[b] = turn[b]
    BY <1>1
<1>3. Bookkept'
    BY <1>2 DEF IInv, Bookkept, Waits
<1>4. \A i \in relay \cup keyboards : by[i] \in Actors /\ by[i] # a
    BY Owner
<1>5. WaitsForPending'
    BY <1>2, <1>4 DEF IInv, WaitsForPending
<1>. QED
    BY <1>3, <1>5

LEMMA CommandStep ==
    ASSUME IInv, (\E m \in Modes : Perms(m)) \/ Yolo
    PROVE  Values' /\ Bookkept' /\ WaitsForPending'
<1>1. Values
    BY Types DEF IInv
<1>2. /\ mode' \in Modes /\ wanted' = mode' /\ edits' = edits + 1 /\ edits < MaxEdits
      /\ outcome' = {}
      /\ UNCHANGED <<prompter, sessionAllowed, turn, relay, keyboards, verifying, running, asked, by,
                     ending, granted>>
    BY DEF Perms, Yolo, Modes, pending, asks
<1>3. edits' \in 0..MaxEdits
    BY <1>1, <1>2, Constants DEF Values
<1>. QED
    BY <1>1, <1>2, <1>3, TurnStays DEF Values

LEMMA BeginEndStep ==
    ASSUME IInv, BeginTui \/ EndTui \/ \E c \in Chats : BeginChat(c) \/ EndChat(c)
    PROVE  Values' /\ Bookkept' /\ WaitsForPending'
<1>1. Values
    BY Types DEF IInv
<1>2. \E a \in Actors, t \in Turns :
            turn[a].pc # "ask" /\ t.pc # "ask" /\ turn' = [turn EXCEPT ![a] = t]
    <2>1. CASE BeginTui
        <3>. DEFINE t == [turn[Tui] EXCEPT !.pc = "on"]
        <3>1. turn[Tui] \in Turns
            BY <1>1, Constants DEF Values
        <3>2. t \in Turns /\ t.pc = "on"
            BY <3>1 DEF Turns
        <3>. QED
            BY <2>1, <3>2, Constants DEF BeginTui
    <2>2. CASE EndTui
        BY <2>2, NoTurnType, Constants DEF EndTui, NoTurn
    <2>3. CASE \E c \in Chats : BeginChat(c)
        <3>1. PICK c \in Chats : BeginChat(c)
            BY <2>3
        <3>. DEFINE on == [turn[c] EXCEPT !.pc = "on"]
                    kept == [on EXCEPT !.prevMode = mode]
                    t == [kept EXCEPT !.prevPrompter = prompter]
        <3>2. c \in Actors /\ turn[c] \in Turns /\ turn[c].pc = "idle"
            BY <1>1, <3>1, Constants DEF Values, BeginChat
        <3>3. on \in Turns /\ on.pc = "on"
            BY <3>2 DEF Turns
        <3>4. kept \in Turns /\ kept.pc = "on"
            <4>. HIDE DEF on
            <4>. QED
                BY <3>3, <1>1 DEF Turns, Values
        <3>5. t \in Turns /\ t.pc = "on"
            <4>. HIDE DEF kept
            <4>. QED
                BY <3>4, <1>1 DEF Turns, Values
        <3>6. turn' = [turn EXCEPT ![c] = t]
            BY <3>1, <3>2, <1>1 DEF BeginChat, Values
        <3>. QED
            BY <3>2, <3>5, <3>6
    <2>4. CASE \E c \in Chats : EndChat(c)
        BY <2>4, NoTurnType, Constants DEF EndChat, NoTurn
    <2>. QED
        BY <2>1, <2>2, <2>3, <2>4
<1>3. /\ UNCHANGED <<relay, keyboards, asked, by, sessionAllowed, granted, verifying, running, edits,
                     wanted, ending>>
      /\ outcome' = {}
    BY DEF BeginTui, EndTui, BeginChat, EndChat, service, pending, asks, history
<1>4. mode' \in Modes /\ prompter' \in Prompters
    <2>1. CASE BeginTui \/ EndTui
        BY <1>1, <2>1 DEF BeginTui, EndTui, service, Values
    <2>2. CASE \E c \in Chats : BeginChat(c)
        <3>1. PICK c \in Chats : BeginChat(c)
            BY <2>2
        <3>2. /\ mode' = (IF bridge THEN mode ELSE "off")
              /\ prompter' = (IF bridge THEN c ELSE prompter)
            BY <3>1, Zenon DEF BeginChat, TurnMode
        <3>3. mode \in Modes /\ prompter \in Prompters /\ c \in Prompters
            BY <1>1, Constants DEF Values
        <3>. QED
            BY <3>2, <3>3 DEF Modes
    <2>3. CASE \E c \in Chats : EndChat(c)
        <3>1. PICK c \in Chats : EndChat(c)
            BY <2>3
        <3>2. turn[c] \in Turns
            BY <1>1, Constants DEF Values
        <3>. QED
            BY <1>1, <3>1, <3>2 DEF EndChat, Turns, Values
    <2>. QED
        BY <2>1, <2>2, <2>3
<1>5. turn' \in [Actors -> Turns] /\ Bookkept' /\ WaitsForPending'
    <2>1. PICK a \in Actors, t \in Turns :
                turn[a].pc # "ask" /\ t.pc # "ask" /\ turn' = [turn EXCEPT ![a] = t]
        BY <1>2
    <2>2. turn' \in [Actors -> Turns]
        BY <1>1, <2>1 DEF Values
    <2>. QED
        BY <1>3, <2>1, <2>2, TurnMoves
<1>. QED
    BY <1>1, <1>3, <1>4, <1>5 DEF Values

LEMMA ResolveStep ==
    ASSUME IInv, \E a \in Actors, k \in Calls : Resolve(a, k)
    PROVE  Values' /\ Bookkept' /\ WaitsForPending'
<1>1. PICK a \in Actors, k \in Calls : Resolve(a, k)
    OBVIOUS
<1>2. Values
    BY Types DEF IInv
<1>3. Verdict(k) \in {"yolo", "session-allow", "strict-deny", "allow"}
    <2>1. Verdict(k) # "ask"
        BY <1>1 DEF Resolve
    <2>. QED
        BY <2>1 DEF Verdict
<1>4. outcome' \subseteq Results
    <2>1. outcome' = {[call |-> k, mode |-> mode, via |-> Verdict(k), id |-> 0]}
        BY <1>1 DEF Resolve
    <2>2. 0 \in 0..MaxAsks /\ mode \in Modes
        BY <1>2, Constants DEF Values
    <2>. QED
        BY <2>1, <2>2, <1>3 DEF Results
<1>5. UNCHANGED <<mode, prompter, sessionAllowed, turn, relay, keyboards, verifying, running, edits,
                  asked, by, wanted, ending, granted>>
    BY <1>1 DEF Resolve, service, pending, asks, history
<1>. QED
    BY <1>2, <1>4, <1>5, TurnStays DEF Values

LEMMA AskStep ==
    ASSUME IInv, \E a \in Actors, k \in Calls : Ask(a, k)
    PROVE  Values' /\ Bookkept' /\ WaitsForPending'
<1>1. PICK a \in Actors, k \in Calls : Ask(a, k)
    OBVIOUS
<1>. DEFINE n == asked + 1
            asking == [turn[a] EXCEPT !.pc = "ask"]
            for == [asking EXCEPT !.call = k]
            t == [for EXCEPT !.id = n]
<1>2. Values
    BY Types DEF IInv
<1>3. n \in Ids /\ n \in 0..MaxAsks /\ asked' = n /\ n > asked
    BY <1>1, <1>2, Constants DEF Ask, Values, Ids
<1>4. t \in Turns /\ t.pc = "ask" /\ t.call = k /\ t.id = n
    <2>1. asking \in Turns /\ asking.pc = "ask"
        BY <1>2 DEF Values, Turns
    <2>2. for \in Turns /\ for.pc = "ask" /\ for.call = k
        <3>. HIDE DEF asking
        <3>. QED
            BY <2>1 DEF Turns
    <2>. HIDE DEF for, n
    <2>. QED
        BY <2>2, <1>3 DEF Turns
<1>5. turn' = [turn EXCEPT ![a] = t]
    BY <1>1, <1>2, <1>3 DEF Ask, Values
<1>. HIDE DEF t, n
<1>6. turn' \in [Actors -> Turns] /\ turn'[a] = t /\ \A b \in Actors \ {a} : turn'[b] = turn[b]
    BY <1>2, <1>4, <1>5 DEF Values
<1>7. by' = [by EXCEPT ![n] = a]
    BY <1>1, <1>3 DEF Ask
<1>8. by' \in [Ids -> Actors] /\ by'[n] = a /\ \A i \in Ids \ {n} : by'[i] = by[i]
    BY <1>2, <1>3, <1>7 DEF Values
<1>9. \/ relay' = relay \cup {n} /\ keyboards' = keyboards
      \/ keyboards' = keyboards \cup {n} /\ relay' = relay
    BY <1>1, <1>3 DEF Ask
<1>10. turn[a].pc = "on"
    BY <1>1 DEF Ask
<1>11. \A i \in relay \cup keyboards : i \in Ids /\ i <= asked /\ i # n /\ by[i] # a
    <2>1. asked \in Nat
        BY <1>2, Constants DEF Values
    <2>2. \A i \in relay \cup keyboards : i \in Ids /\ i \in Nat /\ i <= asked
        BY Constants, <1>2 DEF IInv, Bookkept, Values
    <2>3. \A i \in relay \cup keyboards : turn[by[i]].pc = "ask"
        BY DEF IInv, WaitsForPending
    <2>4. n \in Nat
        BY <1>3, Constants
    <2>. QED
        BY <2>1, <2>2, <2>3, <2>4, <1>3, <1>10
<1>12. Values'
    <2>1. /\ UNCHANGED <<mode, prompter, sessionAllowed, verifying, running, edits, wanted, ending, granted>>
          /\ outcome' = {}
        BY <1>1 DEF Ask, service, history
    <2>. QED
        BY <1>2, <1>3, <1>6, <1>8, <1>9, <2>1 DEF Values
<1>13. Bookkept'
    <2>1. ASSUME NEW b \in Actors PROVE Waits(b)'
        <3>1. CASE b = a
            BY <3>1, <1>3, <1>4, <1>6, <1>8, Constants DEF Waits
        <3>2. CASE b # a
            <4>1. Waits(b)
                BY DEF IInv, Bookkept
            <4>2. asked \in Nat /\ n \in Nat
                BY <1>2, <1>3, Constants DEF Values
            <4>3. turn'[b] = turn[b]
                BY <1>6, <3>2
            <4>4. ASSUME turn[b].pc = "ask"
                  PROVE  /\ turn[b].id \in Ids /\ turn[b].id <= n
                         /\ by'[turn[b].id] = b /\ turn[b].call \in Calls
                <5>1. /\ turn[b].id \in Ids /\ turn[b].id <= asked /\ by[turn[b].id] = b
                      /\ turn[b].call \in Calls /\ turn[b].id \in Nat
                    BY <4>1, <4>4, Constants DEF Waits
                <5>. QED
                    BY <5>1, <4>2, <1>3, <1>8
            <4>. QED
                BY <4>3, <4>4, <1>3 DEF Waits
        <3>. QED
            BY <3>1, <3>2
    <2>2. ASSUME NEW i \in relay' \cup keyboards' PROVE i <= asked'
        <3>1. asked \in Nat /\ n \in Nat
            BY <1>2, <1>3, Constants DEF Values
        <3>. QED
            BY <3>1, <1>3, <1>9, <1>11, Constants
    <2>. QED
        BY <2>1, <2>2 DEF Bookkept
<1>14. WaitsForPending'
    <2>1. ASSUME NEW b \in Actors, turn'[b].pc = "ask" PROVE turn'[b].id \in relay' \cup keyboards'
        BY <1>4, <1>6, <1>9, <2>1 DEF IInv, WaitsForPending
    <2>2. ASSUME NEW i \in relay' \cup keyboards'
          PROVE  turn'[by'[i]].pc = "ask" /\ turn'[by'[i]].id = i
        <3>1. CASE i = n
            BY <3>1, <1>4, <1>6, <1>8
        <3>2. CASE i # n
            <4>1. i \in relay \cup keyboards
                BY <3>2, <1>9
            <4>2. by'[i] = by[i] /\ by[i] \in Actors \ {a}
                BY <4>1, <1>8, <1>11, <3>2, <1>2 DEF Values
            <4>3. turn[by[i]].pc = "ask" /\ turn[by[i]].id = i
                BY <4>1 DEF IInv, WaitsForPending
            <4>. QED
                BY <4>2, <4>3, <1>6
        <3>. QED
            BY <3>1, <3>2
    <2>3. relay' \cap keyboards' = {}
        BY <1>9, <1>11 DEF IInv, WaitsForPending
    <2>. QED
        BY <2>1, <2>2, <2>3 DEF WaitsForPending
<1>. QED
    BY <1>12, <1>13, <1>14

\* Answers that are verified or refused without effect.
LEMMA PostStep ==
    ASSUME IInv, \/ \E i \in Ids, d \in Decisions : Post(i, d)
                 \/ \E v \in verifying : Refused(v)
    PROVE  Values' /\ Bookkept' /\ WaitsForPending'
<1>1. Values
    BY Types DEF IInv
<1>2. verifying' \subseteq Answers
    <2>1. CASE \E i \in Ids, d \in Decisions : Post(i, d)
        <3>1. PICK i \in Ids, d \in Decisions : Post(i, d)
            BY <2>1
        <3>2. verifying' = verifying \cup {[id |-> i, decision |-> d]}
            BY <3>1 DEF Post
        <3>. QED
            BY <1>1, <3>2 DEF Values, Answers
    <2>2. CASE \E v \in verifying : Refused(v)
        BY <1>1, <2>2 DEF Refused, Values
    <2>. QED
        BY <2>1, <2>2
<1>3. UNCHANGED <<mode, prompter, sessionAllowed, turn, relay, keyboards, running, edits, asked, by,
                  wanted, ending, granted>> /\ outcome' = {}
    BY DEF Post, Refused, service, pending, asks, history
<1>. QED
    BY <1>1, <1>2, <1>3, TurnStays DEF Values

\* Answers that take effect, and the end of the wait for one.
LEMMA DecideStep ==
    ASSUME IInv, \/ \E v \in verifying : Verified(v)
                 \/ \E i \in Ids, d \in Decisions : Tap(i, d)
                 \/ \E i \in Ids : Expire(i)
    PROVE  Values' /\ Bookkept' /\ WaitsForPending'
<1>1. Values
    BY Types DEF IInv
<1>2. PICK i \in relay \cup keyboards, d \in Decisions, e \in Decisions \cup {"expired"} :
        /\ Decide(i, d) /\ ending' = [ending EXCEPT ![i] = e]
        /\ granted' = granted \/ granted' = granted \cup {turn[by[i]].call}
    <2>1. CASE \E v \in verifying : Verified(v)
        <3>1. PICK v \in verifying : Verified(v)
            BY <2>1
        <3>2. v.id \in relay /\ v.decision \in Decisions
            BY <1>1, <3>1 DEF Verified, Values, Answers
        <3>. QED
            BY <3>1, <3>2 DEF Verified, Answered
    <2>2. CASE \E j \in Ids, d \in Decisions : Tap(j, d)
        BY <2>2 DEF Tap, Answered
    <2>3. CASE \E j \in Ids : Expire(j)
        BY <2>3 DEF Expire, Decisions
    <2>. QED
        BY <2>1, <2>2, <2>3
<1>3. /\ UNCHANGED <<mode, prompter, running, edits, asked, by, wanted>>
      /\ verifying' \subseteq verifying
    BY DEF Verified, Tap, Expire, asks
<1>4. i \in Ids /\ turn[by[i]].call \in Calls
    BY Owner
<1>5. ending' \in [Ids -> Decisions \cup {"none", "expired"}] /\ granted' \subseteq Calls
    BY <1>1, <1>2, <1>4 DEF Values
<1>6. /\ turn' \in [Actors -> Turns] /\ relay' \subseteq Ids /\ keyboards' \subseteq Ids
      /\ sessionAllowed' \subseteq Calls /\ outcome' \subseteq Results
      /\ Bookkept' /\ WaitsForPending'
    BY <1>2, <1>3, DecideKeeps
<1>. QED
    BY <1>1, <1>3, <1>5, <1>6 DEF Values

LEMMA ShutdownStep ==
    ASSUME IInv, Shutdown
    PROVE  Values' /\ Bookkept' /\ WaitsForPending'
<1>. DEFINE stopped(a) == turn[a].pc = "ask" /\ turn[a].id \in relay
<1>1. Values
    BY Types DEF IInv
<1>2. /\ relay' = {} /\ running' = "stopping"
      /\ turn' = [a \in Actors |-> IF stopped(a) THEN Awake(turn[a]) ELSE turn[a]]
      /\ outcome' = {[call |-> turn[a].call, mode |-> "prompt", via |-> "deny",
                      id |-> turn[a].id] : a \in {b \in Actors : stopped(b)}}
      /\ ending' = [i \in Ids |-> IF i \in relay THEN "expired" ELSE ending[i]]
      /\ UNCHANGED <<mode, prompter, sessionAllowed, keyboards, verifying, edits, asked, by, wanted,
                     granted>>
    BY DEF Shutdown, service, asks
<1>3. \A a \in Actors : turn[a] \in Turns /\ Waits(a)
    BY <1>1 DEF Values, IInv, Bookkept
<1>4. \A a \in Actors : stopped(a) => turn'[a] \in Turns /\ turn'[a].pc = "on"
    BY <1>2, <1>3, AwakeType
<1>5. \A a \in Actors : ~stopped(a) => turn'[a] = turn[a]
    BY <1>2
<1>6. turn' \in [Actors -> Turns]
    BY <1>2, <1>3, <1>4, <1>5
<1>7. outcome' \subseteq Results
    BY <1>2, <1>3, Constants DEF Results, Modes, Waits
<1>8. ending' \in [Ids -> Decisions \cup {"none", "expired"}]
    BY <1>1, <1>2 DEF Values
<1>9. Values'
    BY <1>1, <1>2, <1>6, <1>7, <1>8 DEF Values
<1>10. Bookkept'
    BY <1>2, <1>3, <1>4, <1>5 DEF IInv, Bookkept, Waits
<1>11. WaitsForPending'
    <2>1. ASSUME NEW a \in Actors, turn'[a].pc = "ask" PROVE turn'[a].id \in keyboards
        BY <1>4, <1>5, <2>1 DEF IInv, WaitsForPending
    <2>2. ASSUME NEW i \in keyboards PROVE turn'[by[i]].pc = "ask" /\ turn'[by[i]].id = i
        <3>1. by[i] \in Actors /\ turn[by[i]].pc = "ask" /\ turn[by[i]].id = i
            BY Owner
        <3>2. i \notin relay
            BY DEF IInv, WaitsForPending
        <3>. QED
            BY <3>1, <3>2, <1>5
    <2>. QED
        BY <1>2, <2>1, <2>2 DEF WaitsForPending
<1>. QED
    BY <1>9, <1>10, <1>11

LEMMA ExitStep ==
    ASSUME IInv, Exit
    PROVE  Values' /\ Bookkept' /\ WaitsForPending'
<1>1. Values
    BY Types DEF IInv
<1>2. /\ turn' = [a \in Actors |-> NoTurn] /\ relay' = {} /\ keyboards' = {} /\ verifying' = {}
      /\ running' = "down" /\ outcome' = {}
      /\ UNCHANGED <<mode, prompter, sessionAllowed, edits, asked, by, wanted, ending, granted>>
    BY DEF Exit, service, asks, history
<1>3. turn' \in [Actors -> Turns] /\ \A a \in Actors : turn'[a].pc = "idle"
    BY <1>2, NoTurnType DEF NoTurn
<1>. QED
    BY <1>1, <1>2, <1>3 DEF Values, Bookkept, Waits, WaitsForPending
-----------------------------------------------------------------------------
LEMMA InvInit == Init => IInv
<1> SUFFICES ASSUME Init PROVE IInv
    OBVIOUS
<1>1. turn \in [Actors -> Turns] /\ \A a \in Actors : turn[a].pc = "idle"
    BY NoTurnType DEF Init, NoTurn
<1>2. Flags
    BY DEF Init, Flags
<1>3. Values
    BY <1>1, Constants DEF Init, Values
<1>. QED
    BY <1>1, <1>2, <1>3, Types DEF Init, IInv, Bookkept, Waits, WaitsForPending

LEMMA InvStep == IInv /\ [Next]_vars => IInv'
<1> SUFFICES ASSUME IInv, [Next]_vars PROVE IInv'
    OBVIOUS
<1>1. Flags'
    BY FlagsStep, Types DEF IInv
<1>2. Values' /\ Bookkept' /\ WaitsForPending'
    <2>1. CASE UNCHANGED vars
        <3>1. Values
            BY Types DEF IInv
        <3>. QED
            BY <2>1, <3>1, TurnStays DEF vars, Values
    <2>. QED
        BY <2>1, CommandStep, BeginEndStep, ResolveStep, AskStep, PostStep, DecideStep, ShutdownStep,
           ExitStep DEF Next
<1>3. TypeOK'
    BY <1>1, <1>2 DEF TypeOK, Flags, Values, Turns, Answers, Results
<1>. QED
    BY <1>2, <1>3 DEF IInv

LEMMA InvCorrect == Spec => []IInv
BY InvInit, InvStep, PTL DEF Spec

\* Every reachable state of the permission service is well typed.
THEOREM TypeCorrect == Spec => []TypeOK
<1>1. IInv => TypeOK
    BY DEF IInv
<1>. QED
    BY <1>1, InvCorrect, PTL

\* A turn waits exactly for an approval that is pending under its own id,
\* whatever answers, sweeps, timers and the signal do in whatever order.
THEOREM WaitsCorrect == Spec => []WaitsForPending
<1>1. IInv => WaitsForPending
    BY DEF IInv
<1>. QED
    BY <1>1, InvCorrect, PTL
-----------------------------------------------------------------------------
(* Consent: what is allowed for the session was granted, and a decision    *)
(* that lets a call run is the one the approval ended with.                *)

LEMMA NothingRuns ==
    ASSUME RunsWithConsent, outcome' = {}, UNCHANGED <<sessionAllowed, granted>>
    PROVE  RunsWithConsent'
BY DEF RunsWithConsent

LEMMA ConsentStep == IInv /\ RunsWithConsent /\ [Next]_vars => RunsWithConsent'
<1> SUFFICES ASSUME IInv, RunsWithConsent, [Next]_vars PROVE RunsWithConsent'
    OBVIOUS
<1>1. CASE UNCHANGED vars
    BY <1>1 DEF vars, RunsWithConsent
<1>2. CASE (\E m \in Modes : Perms(m)) \/ Yolo
    BY <1>2, NothingRuns DEF Perms, Yolo
<1>3. CASE BeginTui \/ EndTui \/ \E c \in Chats : BeginChat(c) \/ EndChat(c)
    BY <1>3, NothingRuns DEF BeginTui, EndTui, BeginChat, EndChat, service, history
<1>4. ASSUME NEW a \in Actors, NEW k \in Calls, Resolve(a, k) PROVE RunsWithConsent'
    <2>1. UNCHANGED <<sessionAllowed, granted>>
        BY <1>4 DEF Resolve, service, history
    <2>2. outcome' = {[call |-> k, mode |-> mode, via |-> Verdict(k), id |-> 0]}
        BY <1>4 DEF Resolve
    <2>3. k \in Risky /\ mode = "prompt" => Verdict(k) = "session-allow" /\ k \in sessionAllowed
        BY <1>4 DEF Resolve, Verdict
    <2>. QED
        BY <2>1, <2>2, <2>3 DEF RunsWithConsent
<1>5. ASSUME NEW a \in Actors, NEW k \in Calls, Ask(a, k) PROVE RunsWithConsent'
    BY <1>5, NothingRuns DEF Ask, service, history
<1>6. CASE \/ \E i \in Ids, d \in Decisions : Post(i, d)
           \/ \E v \in verifying : Refused(v)
    BY <1>6, NothingRuns DEF Post, Refused, service, history
<1>7. ASSUME NEW i \in relay \cup keyboards, NEW d \in Decisions, Decide(i, d), Answered(i, d)
      PROVE  RunsWithConsent'
    <2>. DEFINE k == turn[by[i]].call
    <2>1. /\ sessionAllowed' = (IF d = "allow-session" THEN sessionAllowed \cup {k} ELSE sessionAllowed)
          /\ granted' = (IF d = "allow-session" THEN granted \cup {k} ELSE granted)
          /\ outcome' = {[call |-> k, mode |-> "prompt", via |-> Via(d), id |-> i]}
          /\ ending' = [ending EXCEPT ![i] = d]
        BY <1>7 DEF Decide, Answered
    <2>2. \/ Via(d) = "deny"
          \/ Via(d) = "once" /\ d = "allow"
          \/ Via(d) = "session-allow" /\ d = "allow-session"
        <3>1. CASE d = "allow"
            BY <3>1 DEF Via
        <3>2. CASE d = "allow-session"
            BY <3>2 DEF Via
        <3>3. CASE d = "deny"
            BY <3>3 DEF Via
        <3>. QED
            BY <3>1, <3>2, <3>3 DEF Decisions
    <2>3. ending'[i] = d
        BY <2>1, Owner DEF IInv, TypeOK
    <2>. QED
        BY <2>1, <2>2, <2>3 DEF RunsWithConsent
<1>8. ASSUME NEW v \in verifying, Verified(v) PROVE RunsWithConsent'
    <2>1. v.id \in relay /\ v.decision \in Decisions
        BY <1>8, Types DEF Verified, IInv, Values, Answers
    <2>. QED
        BY <1>7, <1>8, <2>1 DEF Verified
<1>9. ASSUME NEW i \in Ids, NEW d \in Decisions, Tap(i, d) PROVE RunsWithConsent'
    BY <1>7, <1>9 DEF Tap
<1>10. ASSUME NEW i \in Ids, Expire(i) PROVE RunsWithConsent'
    <2>1. /\ sessionAllowed' = sessionAllowed /\ granted' = granted
          /\ outcome' = {[call |-> turn[by[i]].call, mode |-> "prompt", via |-> "deny", id |-> i]}
        BY <1>10 DEF Expire, Decide, Via
    <2>. QED
        BY <2>1 DEF RunsWithConsent
<1>11. CASE Shutdown
    <2>1. \A o \in outcome' : o.via = "deny"
        BY <1>11 DEF Shutdown
    <2>2. UNCHANGED <<sessionAllowed, granted>>
        BY <1>11 DEF Shutdown, service
    <2>. QED
        BY <2>1, <2>2 DEF RunsWithConsent
<1>12. CASE Exit
    BY <1>12, NothingRuns DEF Exit, service, history
<1>. QED
    BY <1>1, <1>2, <1>3, <1>4, <1>5, <1>6, <1>8, <1>9, <1>10, <1>11, <1>12 DEF Next

\* A risky call that ran in prompt mode ran by an allow answer to its approval that
\* took effect before this expired, or because its class had been allowed for the
\* session by an answer that took effect.  It does not say who answered.
THEOREM ConsentCorrect == Spec => []RunsWithConsent
<1>1. Init => RunsWithConsent
    BY DEF Init, RunsWithConsent
<1>. QED
    BY <1>1, ConsentStep, InvCorrect, PTL DEF Spec
-----------------------------------------------------------------------------
(* ModeKept: what a turn will put back is the operator's choice.  Where    *)
(* turns override the mode there is one of them, or the history is tangled. *)

In(c) == turn[c].pc # "idle"

Kept ==
    running # "down" /\ ~tangled =>
        /\ \A c \in Chats : In(c) => turn[c].prevMode = wanted
        /\ bridge \/ ~InTelegramTurn => mode = wanted
        /\ ~bridge => \A c, d \in Chats : In(c) /\ In(d) => c = d

\* A step after which the same turns are in progress, with the same promise.
LEMMA KeptStays ==
    ASSUME Kept, UNCHANGED <<mode, wanted, tangled, bridge>>, running' # "down" => running # "down",
           \A c \in Chats : (In(c)' <=> In(c)) /\ turn'[c].prevMode = turn[c].prevMode
    PROVE  Kept'
<1>1. InTelegramTurn' <=> InTelegramTurn
    BY DEF InTelegramTurn, In
<1>. QED
    BY <1>1 DEF Kept

\* A waiting turn that goes on.
LEMMA AwakeStays ==
    ASSUME NEW t \in Turns, t.pc = "ask"
    PROVE  Awake(t).pc = "on" /\ Awake(t).prevMode = t.prevMode
<1>. DEFINE on == [t EXCEPT !.pc = "on"]
            fresh == [on EXCEPT !.id = 0]
<1>1. on \in [pc : {"on"}, prevMode : Modes, prevPrompter : Prompters, call : Calls \cup {"none"},
              id : 0..MaxAsks] /\ on.prevMode = t.prevMode
    BY DEF Turns
<1>2. fresh.pc = "on" /\ fresh.prevMode = t.prevMode /\ DOMAIN fresh = DOMAIN on /\ "call" \in DOMAIN on
    <2>. HIDE DEF on
    <2>. QED
        BY <1>1
<1>. HIDE DEF fresh
<1>3. [fresh EXCEPT !.call = "none"].pc = "on" /\ [fresh EXCEPT !.call = "none"].prevMode = t.prevMode
    BY <1>1, <1>2
<1>. QED
    BY <1>3 DEF Awake, fresh

LEMMA KeptStep == IInv /\ Kept /\ [Next]_vars => Kept'
<1> SUFFICES ASSUME IInv, Kept, [Next]_vars PROVE Kept'
    OBVIOUS
<1>0. Values
    BY Types DEF IInv
<1>1. CASE UNCHANGED <<mode, wanted, tangled, bridge, running, turn>>
    BY <1>1, KeptStays DEF In
<1>2. CASE UNCHANGED vars
    BY <1>1, <1>2 DEF vars
<1>3. CASE (\E m \in Modes : Perms(m)) \/ Yolo
    <2>1. /\ wanted' = mode' /\ (tangled' = (tangled \/ InTelegramTurn)) /\ running = "up"
          /\ UNCHANGED <<bridge, turn, running>>
        BY <1>3 DEF Perms, Yolo
    <2>2. ASSUME ~tangled' PROVE \A c \in Chats : ~In(c)'
        BY <2>1, <2>2 DEF InTelegramTurn, In
    <2>. QED
        BY <2>1, <2>2 DEF Kept, InTelegramTurn, In
<1>4. CASE BeginTui \/ EndTui
    <2>1. /\ UNCHANGED <<mode, wanted, tangled, bridge, running>>
          /\ \A a \in Actors \ {Tui} : turn'[a] = turn[a]
        BY <1>0, <1>4 DEF BeginTui, EndTui, service, history, Values
    <2>2. \A c \in Chats : turn'[c] = turn[c]
        BY <2>1, Constants
    <2>. QED
        BY <2>1, <2>2, KeptStays DEF In
<1>5. ASSUME NEW c \in Chats, BeginChat(c) PROVE Kept'
    <2>. DEFINE on == [turn[c] EXCEPT !.pc = "on"]
                kept == [on EXCEPT !.prevMode = mode]
                t == [kept EXCEPT !.prevPrompter = prompter]
    <2>1. /\ running # "down" /\ turn' = [turn EXCEPT ![c] = t]
          /\ (mode' = IF bridge THEN mode ELSE "off")
          /\ (tangled' = (tangled \/ (InTelegramTurn /\ ~bridge)))
          /\ UNCHANGED <<bridge, running, wanted>>
        BY <1>0, <1>5, Constants DEF BeginChat, TurnMode, Values
    <2>2. t.pc = "on" /\ t.prevMode = mode
        <3>1. turn[c] \in Turns
            BY <1>0, Constants DEF Values
        <3>2. on \in Turns /\ on.pc = "on"
            BY <3>1 DEF Turns
        <3>3. kept \in Turns /\ kept.pc = "on" /\ kept.prevMode = mode
            <4>. HIDE DEF on
            <4>. QED
                BY <1>0, <3>2 DEF Turns, Values
        <3>. HIDE DEF kept
        <3>. QED
            BY <3>3 DEF Turns
    <2>. HIDE DEF t
    <2>3. turn'[c] = t /\ \A d \in Chats \ {c} : turn'[d] = turn[d]
        BY <1>0, <2>1, Constants DEF Values
    <2>4. In(c)' /\ InTelegramTurn'
        BY <2>2, <2>3 DEF In, InTelegramTurn
    <2>5. ASSUME ~tangled' PROVE mode = wanted /\ ~tangled /\ (~bridge => \A d \in Chats : ~In(d))
        <3>1. ~tangled /\ (~InTelegramTurn \/ bridge)
            BY <2>1, <2>5
        <3>. QED
            BY <2>1, <3>1 DEF Kept, InTelegramTurn, In
    <2>6. ASSUME ~tangled', NEW d \in Chats, In(d)' PROVE turn'[d].prevMode = wanted
        <3>1. CASE d = c
            BY <2>2, <2>3, <2>5, <2>6, <3>1
        <3>2. CASE d # c
            BY <2>1, <2>3, <2>5, <2>6, <3>2 DEF Kept, In
        <3>. QED
            BY <3>1, <3>2
    <2>7. ASSUME ~tangled', ~bridge, NEW d \in Chats, In(d)' PROVE d = c
        BY <2>3, <2>5, <2>7 DEF In
    <2>. QED
        BY <2>1, <2>4, <2>5, <2>6, <2>7 DEF Kept
<1>6. ASSUME NEW c \in Chats, EndChat(c) PROVE Kept'
    <2>1. /\ turn[c].pc = "on" /\ turn' = [turn EXCEPT ![c] = NoTurn] /\ mode' = turn[c].prevMode
          /\ UNCHANGED <<bridge, running, wanted, tangled>>
        BY <1>6 DEF EndChat, history
    <2>2. ~In(c)' /\ \A d \in Chats \ {c} : turn'[d] = turn[d]
        BY <1>0, <2>1, Constants DEF Values, In, NoTurn
    <2>3. In(c)
        BY <2>1 DEF In
    <2>4. ASSUME running # "down", ~tangled PROVE mode' = wanted
        BY <2>1, <2>3, <2>4 DEF Kept
    <2>5. \A d \in Chats : In(d)' => In(d) /\ turn'[d].prevMode = turn[d].prevMode
        BY <2>2 DEF In
    <2>. QED
        BY <2>1, <2>4, <2>5 DEF Kept
<1>7. ASSUME NEW a \in Actors, NEW k \in Calls, Resolve(a, k) PROVE Kept'
    BY <1>1, <1>7 DEF Resolve, service, history
<1>8. ASSUME NEW a \in Actors, NEW k \in Calls, Ask(a, k) PROVE Kept'
    <2>. DEFINE asking == [turn[a] EXCEPT !.pc = "ask"]
                for == [asking EXCEPT !.call = k]
                t == [for EXCEPT !.id = asked']
    <2>1. /\ turn[a].pc = "on" /\ turn' = [turn EXCEPT ![a] = t]
          /\ UNCHANGED <<mode, wanted, tangled, bridge, running>>
        BY <1>0, <1>8 DEF Ask, service, history, Values
    <2>2. t.pc = "ask" /\ t.prevMode = turn[a].prevMode
        <3>1. turn[a] \in Turns
            BY <1>0 DEF Values
        <3>2. asking \in Turns /\ asking.pc = "ask" /\ asking.prevMode = turn[a].prevMode
            BY <3>1 DEF Turns
        <3>3. for \in Turns /\ for.pc = "ask" /\ for.prevMode = turn[a].prevMode
            <4>. HIDE DEF asking
            <4>. QED
                BY <3>2 DEF Turns
        <3>. HIDE DEF for
        <3>. QED
            BY <3>3 DEF Turns
    <2>. HIDE DEF t
    <2>3. turn'[a] = t /\ \A b \in Actors \ {a} : turn'[b] = turn[b]
        BY <1>0, <2>1 DEF Values
    <2>4. \A c \in Chats : (In(c)' <=> In(c)) /\ turn'[c].prevMode = turn[c].prevMode
        BY <2>1, <2>2, <2>3, Constants DEF In
    <2>. QED
        BY <2>1, <2>4, KeptStays
<1>9. CASE \/ \E v \in verifying : Verified(v)
           \/ \E i \in Ids, d \in Decisions : Tap(i, d)
           \/ \E i \in Ids : Expire(i)
    <2>1. PICK i \in relay \cup keyboards : turn' = [turn EXCEPT ![by[i]] = Awake(turn[by[i]])]
        BY <1>9 DEF Verified, Tap, Expire, Decide
    <2>2. UNCHANGED <<mode, wanted, tangled, bridge, running>>
        BY <1>9 DEF Verified, Tap, Expire
    <2>. DEFINE b == by[i]
    <2>3. b \in Actors /\ turn[b].pc = "ask" /\ turn[b] \in Turns
        BY <1>0, Owner DEF Values
    <2>4. Awake(turn[b]).pc = "on" /\ Awake(turn[b]).prevMode = turn[b].prevMode
        BY <2>3, AwakeStays
    <2>5. turn'[b] = Awake(turn[b]) /\ \A a \in Actors \ {b} : turn'[a] = turn[a]
        BY <1>0, <2>1, <2>3 DEF Values
    <2>. HIDE DEF b
    <2>6. \A c \in Chats : (In(c)' <=> In(c)) /\ turn'[c].prevMode = turn[c].prevMode
        BY <2>3, <2>4, <2>5, Constants DEF In
    <2>. QED
        BY <2>2, <2>6, KeptStays
<1>10. ASSUME NEW i \in Ids, NEW d \in Decisions, Post(i, d) PROVE Kept'
    BY <1>1, <1>10 DEF Post, service, history
<1>11. ASSUME NEW v \in verifying, Refused(v) PROVE Kept'
    BY <1>1, <1>11 DEF Refused, service, history
<1>12. CASE Shutdown
    <2>. DEFINE stopped(a) == turn[a].pc = "ask" /\ turn[a].id \in relay
    <2>1. /\ turn' = [a \in Actors |-> IF stopped(a) THEN Awake(turn[a]) ELSE turn[a]]
          /\ running = "up" /\ UNCHANGED <<mode, wanted, tangled, bridge>>
        BY <1>12 DEF Shutdown, service
    <2>2. ASSUME NEW a \in Actors
          PROVE  /\ turn'[a].pc = "idle" <=> turn[a].pc = "idle"
                 /\ turn'[a].prevMode = turn[a].prevMode
        <3>1. turn[a] \in Turns /\ turn'[a] = (IF stopped(a) THEN Awake(turn[a]) ELSE turn[a])
            BY <1>0, <2>1 DEF Values
        <3>. QED
            BY <3>1, AwakeStays
    <2>3. \A c \in Chats : (In(c)' <=> In(c)) /\ turn'[c].prevMode = turn[c].prevMode
        BY <2>2, Constants DEF In
    <2>. QED
        BY <2>1, <2>3, KeptStays
<1>13. CASE Exit
    BY <1>13 DEF Exit, Kept
<1>. QED
    BY <1>2, <1>3, <1>4, <1>5, <1>6, <1>7, <1>8, <1>9, <1>10, <1>11, <1>12, <1>13 DEF Next

\* Out of a Telegram turn the service is in the mode the operator chose last,
\* for any number of chats and turns, but for the two overlaps that `tangled` records.
THEOREM ModeCorrect == Spec => []ModeKept
<1>1. Init => Kept
    BY Constants DEF Init, Kept, In, InTelegramTurn, NoTurn
<1>2. Kept => ModeKept
    BY DEF Kept, ModeKept
<1>. QED
    BY <1>1, <1>2, KeptStep, InvCorrect, PTL DEF Spec
=============================================================================
