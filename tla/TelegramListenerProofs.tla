----------------------- MODULE TelegramListenerProofs -----------------------
(***************************************************************************)
(* Types, OnePoller, LeavesClean, KeptUntilTurned and InOrder of           *)
(* TelegramListener, for any number of processes, chats and messages, any  *)
(* bound on retries and lives, and any TTL of the lock.                    *)
(***************************************************************************)
EXTENDS TelegramListener, SequenceTheorems, TLAPS

States == {"off", "waiting", "gaveup", "starting", "polling", "quiet", "failed"}
Stages == {"no", "bot", "drain", "done"}

LEMMA Constants ==
    /\ None \notin Gates /\ MaxRetries \in Nat /\ TTL \in Nat /\ MaxLives \in Nat
    /\ ChatOf \in Seq(Chats) /\ Len(ChatOf) \in Nat
    /\ \A m \in Messages : ChatOf[m] \in Chats
BY ListenerAssumption DEF Messages

LEMMA PutFacts ==
    ASSUME NEW T, NEW f \in [Gates -> T], NEW g \in Gates, NEW v \in T
    PROVE  Put(f, g, v) \in [Gates -> T] /\ Put(f, g, v)[g] = v
           /\ \A h \in Gates \ {g} : Put(f, g, v)[h] = f[h]
BY DEF Put

LEMMA CellFacts ==
    ASSUME NEW T, NEW f \in [Gates -> [Chats -> T]], NEW g \in Gates, NEW c \in Chats, NEW v \in T
    PROVE  LET n == [f EXCEPT ![g][c] = v]
           IN  /\ n \in [Gates -> [Chats -> T]] /\ n[g][c] = v
               /\ \A h \in Gates, d \in Chats : h # g \/ d # c => n[h][d] = f[h][d]
OBVIOUS

LEMMA RowFacts ==
    ASSUME NEW T, NEW f \in [Gates -> [Chats -> T]], NEW g \in Gates, NEW r \in [Chats -> T]
    PROVE  LET n == [f EXCEPT ![g] = r]
           IN  /\ n \in [Gates -> [Chats -> T]] /\ n[g] = r
               /\ \A h \in Gates \ {g} : n[h] = f[h]
OBVIOUS

LEMMA RemoveAtFacts ==
    ASSUME NEW T, NEW s \in Seq(T), NEW i \in DOMAIN s
    PROVE  /\ RemoveAt(s, i) \in Seq(T) /\ Len(RemoveAt(s, i)) = Len(s) - 1
           /\ Len(s) \in Nat /\ Len(s) > 0
<1>1. i \in 1..Len(s) /\ Len(s) \in Nat /\ i \in Nat
    OBVIOUS
<1>. DEFINE before == SubSeq(s, 1, i - 1)
            after  == SubSeq(s, i + 1, Len(s))
<1>2. before \in Seq(T) /\ Len(before) = i - 1
    <2>1. i - 1 \in Int /\ 1 \in Int /\ \A j \in 1..(i - 1) : s[j] \in T
        BY <1>1
    <2>2. /\ before \in Seq(T)
          /\ Len(before) = IF 1 <= i - 1 THEN (i - 1) - 1 + 1 ELSE 0
        BY <2>1, SubSeqProperties
    <2>. HIDE DEF before
    <2>. QED
        BY <1>1, <2>2
<1>3. after \in Seq(T) /\ Len(after) = Len(s) - i
    <2>1. i + 1 \in Int /\ Len(s) \in Int /\ \A j \in (i + 1)..Len(s) : s[j] \in T
        BY <1>1
    <2>2. /\ after \in Seq(T)
          /\ Len(after) = IF i + 1 <= Len(s) THEN Len(s) - (i + 1) + 1 ELSE 0
        BY <2>1, SubSeqProperties
    <2>. HIDE DEF after
    <2>. QED
        BY <1>1, <2>2
<1>. HIDE DEF before, after
<1>4. before \o after \in Seq(T) /\ Len(before \o after) = Len(before) + Len(after)
    BY <1>2, <1>3
<1>5. RemoveAt(s, i) = before \o after
    BY DEF RemoveAt, before, after
<1>6. (i - 1) + (Len(s) - i) = Len(s) - 1 /\ Len(s) > 0
    BY <1>1
<1>. QED
    BY <1>1, <1>2, <1>3, <1>4, <1>5, <1>6
-----------------------------------------------------------------------------
(* Types, in three groups that the steps touch separately.                 *)

Flags == ghost \in BOOLEAN /\ cut \in BOOLEAN /\ stray \in BOOLEAN /\ stolen \in BOOLEAN

Bots ==
    /\ lock \in Gates \cup {None} /\ age \in 0..(TTL + 1)
    /\ st \in [Gates -> States] /\ stop \in [Gates -> Stages]
    /\ armed \in [Gates -> BOOLEAN] /\ due \in [Gates -> BOOLEAN]
    /\ retries \in [Gates -> 0..MaxRetries] /\ lives \in 0..MaxLives

Works ==
    /\ sent \in 0..Len(ChatOf) /\ pending \in Seq(Messages)
    /\ buffer \in [Gates -> [Chats -> Seq(Messages)]] /\ log \in [Chats -> Seq(Messages)]
    /\ chain \in [Gates -> [Chats -> Batches]] /\ turn \in [Gates -> [Chats -> Batches]]
    /\ drain \in [Gates -> [Chats -> Nat]]

LEMMA Types == TypeOK <=> Flags /\ Bots /\ Works
BY DEF TypeOK, Flags, Bots, Works, States, Stages

LEMMA MoveFacts ==
    ASSUME NEW s \in Batches, NEW t \in Batches, s # <<>>
    PROVE  Len(Append(t, Head(s))) = Len(t) + 1 /\ Len(Tail(s)) = Len(s) - 1
<1>1. ASSUME NEW T, NEW u \in Seq(T), NEW v \in Seq(T), u # <<>>
      PROVE  Len(Append(v, Head(u))) = Len(v) + 1 /\ Len(Tail(u)) = Len(u) - 1
    <2>1. Head(u) \in T /\ Len(Tail(u)) = Len(u) - 1
        BY <1>1, HeadTailProperties
    <2>2. ASSUME NEW e \in T PROVE Len(Append(v, e)) = Len(v) + 1
        OBVIOUS
    <2>. QED
        BY <2>1, <2>2
<1>. QED
    BY <1>1 DEF Batches

LEMMA PutState ==
    ASSUME NEW f \in [Gates -> States], NEW g \in Gates, NEW v \in States
    PROVE  Put(f, g, v) \in [Gates -> States]
BY DEF Put

LEMMA PutStage ==
    ASSUME NEW f \in [Gates -> Stages], NEW g \in Gates, NEW v \in Stages
    PROVE  Put(f, g, v) \in [Gates -> Stages]
BY DEF Put

LEMMA PutBoolean ==
    ASSUME NEW f \in [Gates -> BOOLEAN], NEW g \in Gates
    PROVE  Put(f, g, TRUE) \in [Gates -> BOOLEAN] /\ Put(f, g, FALSE) \in [Gates -> BOOLEAN]
BY DEF Put

LEMMA PutRetries ==
    ASSUME NEW f \in [Gates -> 0..MaxRetries], NEW g \in Gates, NEW v \in 0..MaxRetries
    PROVE  Put(f, g, v) \in [Gates -> 0..MaxRetries]
BY DEF Put

LEMMA Empties == /\ Nothing \in [Chats -> Seq(Messages)] /\ Nothing \in [Chats -> Batches]
                 /\ NoTurns \in [Chats -> Nat]
                 /\ \A c \in Chats : Nothing[c] = <<>> /\ NoTurns[c] = 0
BY DEF Nothing, NoTurns, Batches

LEMMA FlagsStep == Flags /\ [Next]_vars => Flags'
<1> SUFFICES ASSUME Flags, [Next]_vars PROVE Flags'
    OBVIOUS
<1>1. CASE UNCHANGED vars
    BY <1>1 DEF vars, lockVars, history, Flags
<1>2. CASE Send
    BY <1>2 DEF Send, lockVars, history, Flags
<1>3. CASE Tick
    BY <1>3 DEF Tick, history, Flags
<1>4. ASSUME NEW g \in Gates, Acquire(g) PROVE ghost' \in BOOLEAN /\ stolen' \in BOOLEAN
    <2>1. CASE Granted(g)
        BY <2>1, Zenon DEF Granted
    <2>2. CASE Refused(g)
        BY <2>2, Zenon DEF Refused, lockVars, Flags
    <2>. QED
        BY <1>4, <2>1, <2>2 DEF Acquire
<1>5. ASSUME NEW g \in Gates, Stops(g)
      PROVE  ghost' \in BOOLEAN /\ cut' \in BOOLEAN /\ stray' \in BOOLEAN
    <2>1. cut' = (cut \/ st[g] = "starting") /\ stray' = stray
        BY <1>5, Zenon DEF Stops
    <2>2. ghost' = ghost
        BY <1>5, Zenon DEF Stops, Release, lockVars
    <2>. QED
        BY <2>1, <2>2, Zenon DEF Flags
<1>6. ASSUME NEW g \in Gates, Start(g) \/ Retry(g) PROVE Flags'
    BY <1>4, <1>6, Zenon DEF Start, Retry, Flags
<1>7. ASSUME NEW g \in Gates, Stop(g) PROVE Flags'
    BY <1>5, <1>7, Zenon DEF Stop, Flags
<1>8. ASSUME NEW g \in Gates, Refresh(g) PROVE Flags'
    BY <1>5, <1>8, Zenon DEF Refresh, Flags, history
<1>9. ASSUME NEW g \in Gates, Poll(g) \/ BotStopped(g) PROVE Flags'
    BY <1>9, Zenon DEF Poll, BotStopped, Flags, history, lockVars
<1>10. ASSUME NEW g \in Gates, PollFails(g) \/ Drained(g) PROVE Flags'
    BY <1>10, Zenon DEF PollFails, Drained, Release, Flags, history, lockVars
<1>11. ASSUME NEW g \in Gates, Receive(g) PROVE Flags'
    <2>1. stray' = (stray \/ stop[g] # "no") /\ UNCHANGED <<ghost, cut, stolen>>
        BY <1>11 DEF Receive, lockVars
    <2>. QED
        BY <2>1, Zenon DEF Flags
<1>12. ASSUME NEW g \in Gates, Die(g) PROVE Flags'
    <2>1. ghost' \in BOOLEAN
        BY <1>12, Zenon DEF Die, Flags
    <2>2. UNCHANGED <<cut, stray, stolen>>
        BY <1>12 DEF Die
    <2>. QED
        BY <2>1, <2>2, Zenon DEF Flags
<1>13. ASSUME NEW g \in Gates, NEW c \in Chats, Work(g, c) PROVE Flags'
    BY <1>13, Zenon DEF Work, Flush, BeginTurn, EndTurn, Flags, history, lockVars
<1>. QED
    BY <1>1, <1>2, <1>3, <1>6, <1>7, <1>8, <1>9, <1>10, <1>11, <1>12, <1>13 DEF Next

LEMMA AcquireBots ==
    ASSUME Bots, NEW g \in Gates, Acquire(g), UNCHANGED <<stop, armed>>
    PROVE  lives' \in 0..MaxLives => Bots'
<1>1. CASE Granted(g)
    <2>1. /\ st' = Put(st, g, "starting") /\ retries' = Put(retries, g, 0) /\ due' = Put(due, g, FALSE)
          /\ lock' = g /\ age' = 0
        BY <1>1 DEF Granted
    <2>2. "starting" \in States /\ 0 \in 0..MaxRetries /\ 0 \in 0..(TTL + 1)
        BY Constants DEF States
    <2>3. st' \in [Gates -> States] /\ retries' \in [Gates -> 0..MaxRetries]
        BY <2>1, <2>2, PutState, PutRetries DEF Bots
    <2>4. due' \in [Gates -> BOOLEAN] /\ lock' \in Gates \cup {None} /\ age' \in 0..(TTL + 1)
        BY <2>1, <2>2, PutBoolean DEF Bots
    <2>. QED
        BY <2>3, <2>4 DEF Bots
<1>2. CASE Refused(g)
    <2>1. \/ /\ st' = Put(st, g, "waiting") /\ retries[g] < MaxRetries
             /\ retries' = Put(retries, g, retries[g] + 1)
          \/ st' = Put(st, g, "gaveup") /\ retries' = retries
        BY <1>2 DEF Refused
    <2>7. "waiting" \in States /\ "gaveup" \in States
        BY DEF States
    <2>8. Put(st, g, "waiting") \in [Gates -> States] /\ Put(st, g, "gaveup") \in [Gates -> States]
        BY <2>7, PutState DEF Bots
    <2>2. st' \in [Gates -> States]
        BY <2>1, <2>8, Zenon
    <2>3. retries[g] < MaxRetries => retries[g] + 1 \in 0..MaxRetries
        BY Constants DEF Bots
    <2>4. retries' \in [Gates -> 0..MaxRetries]
        BY <2>1, <2>3, PutRetries DEF Bots
    <2>5. due' = Put(due, g, FALSE) /\ UNCHANGED <<lock, age>>
        BY <1>2 DEF Refused, lockVars
    <2>6. due' \in [Gates -> BOOLEAN]
        BY <2>5, PutBoolean DEF Bots
    <2>. QED
        BY <2>2, <2>4, <2>5, <2>6 DEF Bots
<1>. QED
    BY <1>1, <1>2 DEF Acquire

LEMMA ReleaseBots ==
    ASSUME Bots, NEW g \in Gates, Release(g) \/ UNCHANGED lockVars
    PROVE  lock' \in Gates \cup {None} /\ age' \in 0..(TTL + 1)
BY Constants DEF Release, lockVars, Bots

LEMMA StopsBots ==
    ASSUME Bots, NEW g \in Gates, Stops(g)
    PROVE  Bots'
<1>1. /\ stop' = Put(stop, g, "bot") \/ stop' = Put(stop, g, "done")
      /\ armed' = Put(armed, g, FALSE) \/ armed' = armed
      /\ Release(g) \/ UNCHANGED lockVars
      /\ UNCHANGED <<st, retries, due, lives>>
    BY DEF Stops
<1>2. stop' \in [Gates -> Stages]
    <2>1. "bot" \in Stages /\ "done" \in Stages
        BY DEF Stages
    <2>2. Put(stop, g, "bot") \in [Gates -> Stages] /\ Put(stop, g, "done") \in [Gates -> Stages]
        BY <2>1, PutStage DEF Bots
    <2>. QED
        BY <1>1, <2>2, Zenon
<1>3. armed' \in [Gates -> BOOLEAN]
    <2>1. armed \in [Gates -> BOOLEAN] /\ Put(armed, g, FALSE) \in [Gates -> BOOLEAN]
        BY PutBoolean DEF Bots
    <2>. QED
        BY <1>1, <2>1, Zenon
<1>. QED
    BY <1>1, <1>2, <1>3, ReleaseBots DEF Bots

LEMMA BotsStep == Bots /\ [Next]_vars => Bots'
<1> SUFFICES ASSUME Bots, [Next]_vars PROVE Bots'
    OBVIOUS
<1>1. CASE UNCHANGED vars
    BY <1>1 DEF vars, lockVars, botVars, Bots
<1>2. CASE Send
    BY <1>2 DEF Send, lockVars, botVars, Bots
<1>3. CASE Tick
    <2>1. age' \in 0..(TTL + 1)
        BY <1>3, Constants DEF Tick, Bots
    <2>2. due' = [g \in Gates |-> due[g] \/ st[g] = "waiting"]
        BY <1>3 DEF Tick
    <2>3. due' \in [Gates -> BOOLEAN]
        BY <2>2, Zenon
    <2>. QED
        BY <1>3, <2>1, <2>3 DEF Tick, Bots
<1>4. ASSUME NEW g \in Gates, Start(g) PROVE Bots'
    <2>1. lives' \in 0..MaxLives
        BY <1>4, Constants DEF Start, Bots
    <2>. QED
        BY <1>4, <2>1, AcquireBots DEF Start
<1>5. ASSUME NEW g \in Gates, Retry(g) PROVE Bots'
    BY <1>5, AcquireBots DEF Retry, Bots
<1>6. ASSUME NEW g \in Gates, Poll(g) PROVE Bots'
    <2>1. /\ st' = Put(st, g, "polling") /\ armed' = Put(armed, g, TRUE)
          /\ UNCHANGED <<lock, age, stop, retries, due, lives>>
        BY <1>6 DEF Poll, lockVars
    <2>2. st' \in [Gates -> States]
        BY <2>1, PutState DEF Bots, States
    <2>3. armed' \in [Gates -> BOOLEAN]
        BY <2>1, PutBoolean DEF Bots
    <2>. QED
        BY <2>1, <2>2, <2>3 DEF Bots
<1>7. ASSUME NEW g \in Gates, PollFails(g) PROVE Bots'
    <2>1. /\ st' = Put(st, g, "failed") /\ UNCHANGED <<stop, armed, retries, due, lives>>
          /\ Release(g) \/ UNCHANGED lockVars
        BY <1>7 DEF PollFails
    <2>. QED
        BY <2>1, PutState, ReleaseBots DEF Bots, States
<1>8. ASSUME NEW g \in Gates, Stop(g) PROVE Bots'
    BY <1>8, StopsBots DEF Stop
<1>9. ASSUME NEW g \in Gates, Refresh(g) PROVE Bots'
    <2>1. CASE Stops(g)
        BY <2>1, StopsBots
    <2>2. CASE age' = 0 /\ UNCHANGED <<lock, ghost, botVars, msgVars, lives, history>>
        BY <2>2, Constants DEF Bots, botVars
    <2>. QED
        BY <1>9, <2>1, <2>2 DEF Refresh
<1>10. ASSUME NEW g \in Gates, BotStopped(g) PROVE Bots'
    <2>1. /\ stop' = Put(stop, g, "drain")
          /\ st' = Put(st, g, "quiet") \/ st' = st
          /\ UNCHANGED <<lock, age, armed, retries, due, lives>>
        BY <1>10 DEF BotStopped, lockVars
    <2>. QED
        BY <2>1, PutState, PutStage DEF Bots, States, Stages
<1>11. ASSUME NEW g \in Gates, Drained(g) PROVE Bots'
    <2>1. /\ stop' = Put(stop, g, "done")
          /\ Release(g) \/ UNCHANGED lockVars
          /\ UNCHANGED <<st, armed, retries, due, lives>>
        BY <1>11 DEF Drained
    <2>. QED
        BY <2>1, PutStage, ReleaseBots DEF Bots, Stages
<1>12. ASSUME NEW g \in Gates, Receive(g) PROVE Bots'
    BY <1>12 DEF Receive, lockVars, botVars, Bots
<1>13. ASSUME NEW g \in Gates, Die(g) PROVE Bots'
    <2>1. /\ st' = Put(st, g, "off") /\ stop' = Put(stop, g, "no") /\ armed' = Put(armed, g, FALSE)
          /\ retries' = Put(retries, g, 0) /\ due' = Put(due, g, FALSE)
          /\ UNCHANGED <<lock, age, lives>>
        BY <1>13 DEF Die
    <2>2. 0 \in 0..MaxRetries
        BY Constants
    <2>3. st' \in [Gates -> States] /\ stop' \in [Gates -> Stages]
        BY <2>1, PutState, PutStage DEF Bots, States, Stages
    <2>4. armed' \in [Gates -> BOOLEAN] /\ due' \in [Gates -> BOOLEAN] /\ retries' \in [Gates -> 0..MaxRetries]
        BY <2>1, <2>2, PutBoolean, PutRetries DEF Bots
    <2>. QED
        BY <2>1, <2>3, <2>4 DEF Bots
<1>14. ASSUME NEW g \in Gates, NEW c \in Chats, Work(g, c) PROVE Bots'
    BY <1>14 DEF Work, Flush, BeginTurn, EndTurn, lockVars, botVars, Bots
<1>. QED
    BY <1>1, <1>2, <1>3, <1>4, <1>5, <1>6, <1>7, <1>8, <1>9, <1>10, <1>11, <1>12, <1>13, <1>14 DEF Next
-----------------------------------------------------------------------------
LEMMA FlushAllWorks ==
    ASSUME Works, NEW g \in Gates, FlushAll(g)
    PROVE  /\ buffer' \in [Gates -> [Chats -> Seq(Messages)]] /\ chain' \in [Gates -> [Chats -> Batches]]
           /\ buffer'[g] = Nothing
           /\ \A h \in Gates \ {g} : buffer'[h] = buffer[h] /\ chain'[h] = chain[h]
<1>. DEFINE r == [c \in Chats |-> IF buffer[g][c] = <<>> THEN chain[g][c]
                                  ELSE Append(chain[g][c], buffer[g][c])]
<1>1. chain' = [chain EXCEPT ![g] = r] /\ buffer' = [buffer EXCEPT ![g] = Nothing]
    BY DEF FlushAll
<1>2. r \in [Chats -> Batches]
    BY DEF Works, Batches
<1>. HIDE DEF r
<1>. QED
    BY <1>1, <1>2, RowFacts, Empties DEF Works

LEMMA StopsWorks ==
    ASSUME Works, NEW g \in Gates, Stops(g)
    PROVE  Works'
<1>1. /\ FlushAll(g) \/ UNCHANGED <<buffer, chain>>
      /\ UNCHANGED <<sent, pending, turn, drain, log>>
    BY DEF Stops
<1>. QED
    BY <1>1, FlushAllWorks DEF Works

LEMMA WorksStep == Works /\ [Next]_vars => Works'
<1> SUFFICES ASSUME Works, [Next]_vars PROVE Works'
    OBVIOUS
<1>1. CASE UNCHANGED msgVars
    BY <1>1 DEF msgVars, Works
<1>2. CASE Send
    <2>1. /\ sent < Len(ChatOf) /\ sent' = sent + 1 /\ pending' = Append(pending, sent')
          /\ UNCHANGED <<buffer, chain, turn, drain, log>>
        BY <1>2 DEF Send
    <2>2. sent' \in Messages /\ sent' \in 0..Len(ChatOf)
        BY <2>1, Constants DEF Works, Messages
    <2>. QED
        BY <2>1, <2>2 DEF Works
<1>3. ASSUME NEW g \in Gates, Poll(g) PROVE Works'
    BY <1>3 DEF Poll, Works
<1>4. ASSUME NEW g \in Gates, Receive(g) PROVE Works'
    <2>. DEFINE m == Head(pending)
    <2>1. /\ pending # <<>> /\ pending' = Tail(pending) /\ UNCHANGED <<sent, chain, turn, drain, log>>
          /\ \/ buffer' = buffer
             \/ buffer' = [buffer EXCEPT ![g][ChatOf[m]] = Append(buffer[g][ChatOf[m]], m)]
        BY <1>4 DEF Receive
    <2>2. pending' \in Seq(Messages) /\ m \in Messages /\ ChatOf[m] \in Chats
        BY <2>1, Constants DEF Works
    <2>3. Append(buffer[g][ChatOf[m]], m) \in Seq(Messages)
        BY <2>2 DEF Works
    <2>. DEFINE n == Append(buffer[g][ChatOf[m]], m)
                c == ChatOf[m]
    <2>4. buffer \in [Gates -> [Chats -> Seq(Messages)]] /\ n \in Seq(Messages) /\ c \in Chats
        BY <2>2, <2>3 DEF Works
    <2>5. buffer' = buffer \/ buffer' = [buffer EXCEPT ![g][c] = n]
        BY <2>1
    <2>. HIDE DEF m, n, c
    <2>6. [buffer EXCEPT ![g][c] = n] \in [Gates -> [Chats -> Seq(Messages)]]
        BY <2>4, CellFacts
    <2>. QED
        BY <2>1, <2>2, <2>4, <2>5, <2>6 DEF Works
<1>5. ASSUME NEW g \in Gates, NEW c \in Chats, Flush(g, c) PROVE Works'
    <2>1. /\ buffer' = [buffer EXCEPT ![g][c] = <<>>]
          /\ chain' = [chain EXCEPT ![g][c] = Append(chain[g][c], buffer[g][c])]
          /\ UNCHANGED <<sent, pending, turn, drain, log>>
        BY <1>5 DEF Flush
    <2>2. Append(chain[g][c], buffer[g][c]) \in Batches /\ <<>> \in Seq(Messages)
        BY DEF Works, Batches
    <2>. QED
        BY <2>1, <2>2, CellFacts DEF Works
<1>6. ASSUME NEW g \in Gates, NEW c \in Chats, BeginTurn(g, c) PROVE Works'
    <2>1. /\ chain[g][c] # <<>>
          /\ turn' = [turn EXCEPT ![g][c] = Append(turn[g][c], Head(chain[g][c]))]
          /\ chain' = [chain EXCEPT ![g][c] = Tail(chain[g][c])]
          /\ UNCHANGED <<sent, pending, buffer, drain, log>>
        BY <1>6 DEF BeginTurn
    <2>2. Append(turn[g][c], Head(chain[g][c])) \in Batches /\ Tail(chain[g][c]) \in Batches
        BY <2>1 DEF Works, Batches
    <2>. QED
        BY <2>1, <2>2, CellFacts DEF Works
<1>7. ASSUME NEW g \in Gates, NEW c \in Chats, EndTurn(g, c) PROVE Works'
    <2>1. PICK i \in DOMAIN turn[g][c] :
            /\ log' = [log EXCEPT ![c] = log[c] \o turn[g][c][i]]
            /\ turn' = [turn EXCEPT ![g][c] = RemoveAt(turn[g][c], i)]
        BY <1>7 DEF EndTurn
    <2>2. /\ drain' = [drain EXCEPT ![g][c] = IF drain[g][c] = 0 THEN 0 ELSE drain[g][c] - 1]
          /\ UNCHANGED <<sent, pending, buffer, chain>>
        BY <1>7 DEF EndTurn
    <2>3. turn[g][c] \in Seq(Seq(Messages)) /\ log[c] \in Seq(Messages) /\ drain[g][c] \in Nat
        BY DEF Works, Batches
    <2>4. RemoveAt(turn[g][c], i) \in Batches
        BY <2>3, RemoveAtFacts DEF Batches
    <2>5. log[c] \o turn[g][c][i] \in Seq(Messages)
        BY <2>3
    <2>6. (IF drain[g][c] = 0 THEN 0 ELSE drain[g][c] - 1) \in Nat
        BY <2>3
    <2>7. log' \in [Chats -> Seq(Messages)]
        BY <2>1, <2>5 DEF Works
    <2>. QED
        BY <2>1, <2>2, <2>4, <2>6, <2>7, CellFacts DEF Works
<1>8. ASSUME NEW g \in Gates, BotStopped(g) PROVE Works'
    <2>1. /\ drain' = [drain EXCEPT ![g] = [c \in Chats |-> Len(chain[g][c]) + Len(turn[g][c])]]
          /\ UNCHANGED <<sent, pending, buffer, chain, turn, log>>
        BY <1>8 DEF BotStopped
    <2>2. [c \in Chats |-> Len(chain[g][c]) + Len(turn[g][c])] \in [Chats -> Nat]
        <3>1. ASSUME NEW c \in Chats PROVE Len(chain[g][c]) + Len(turn[g][c]) \in Nat
            <4>. DEFINE k == Len(chain[g][c])
                        l == Len(turn[g][c])
            <4>1. chain[g][c] \in Batches /\ turn[g][c] \in Batches
                BY DEF Works
            <4>2. k \in Nat /\ l \in Nat
                BY <4>1 DEF Batches
            <4>. HIDE DEF k, l
            <4>3. k + l \in Nat
                BY <4>2
            <4>. QED
                BY <4>3 DEF k, l
        <3>. QED
            BY <3>1, Zenon
    <2>. QED
        BY <2>1, <2>2, RowFacts DEF Works
<1>9. ASSUME NEW g \in Gates, Stops(g) PROVE Works'
    BY <1>9, StopsWorks
<1>10. ASSUME NEW g \in Gates, Die(g) PROVE Works'
    <2>1. /\ buffer' = [buffer EXCEPT ![g] = Nothing] /\ chain' = [chain EXCEPT ![g] = Nothing]
          /\ turn' = [turn EXCEPT ![g] = Nothing] /\ drain' = [drain EXCEPT ![g] = NoTurns]
          /\ UNCHANGED <<sent, pending, log>>
        BY <1>10 DEF Die, Put
    <2>. QED
        BY <2>1, RowFacts, Empties DEF Works
<1>11. ASSUME NEW g \in Gates,
              Start(g) \/ Retry(g) \/ PollFails(g) \/ Drained(g) PROVE Works'
    BY <1>1, <1>11 DEF Start, Retry, PollFails, Drained
<1>12. ASSUME NEW g \in Gates, Stop(g) \/ Refresh(g) PROVE Works'
    BY <1>1, <1>9, <1>12 DEF Stop, Refresh
<1>13. CASE Tick
    BY <1>1, <1>13 DEF Tick
<1>14. CASE UNCHANGED vars
    BY <1>1, <1>14 DEF vars
<1>. QED
    BY <1>2, <1>3, <1>4, <1>5, <1>6, <1>7, <1>8, <1>10, <1>11, <1>12, <1>13, <1>14 DEF Next, Work

LEMMA TypeInit == Init => Flags /\ Bots /\ Works
<1> SUFFICES ASSUME Init PROVE Flags /\ Bots /\ Works
    OBVIOUS
<1>1. Flags
    BY DEF Init, Flags
<1>2. Bots
    BY Constants DEF Init, Bots, States, Stages
<1>3. Works
    BY Constants, Empties DEF Init, Works
<1>. QED
    BY <1>1, <1>2, <1>3

\* Every reachable state of the listeners is well typed.
THEOREM TypeCorrect == Spec => []TypeOK
<1>1. Flags /\ Bots /\ Works => TypeOK
    BY Types
<1>. QED
    BY <1>1, TypeInit, FlagsStep, BotsStep, WorksStep, PTL DEF Spec
-----------------------------------------------------------------------------
(* OnePoller: a listener that polls has not been stopped yet, so it holds  *)
(* the lock, and the record names one process.                             *)

CalmAt(g) ==
    /\ st[g] \in {"off", "starting"} => stop[g] = "no"
    /\ armed[g] => st[g] \in {"polling", "failed"}
    /\ stop[g] # "no" => ~armed[g] \/ st[g] = "failed"
    /\ stop[g] = "bot" => st[g] \in {"polling", "failed"}
    /\ stop[g] \in {"drain", "done"} => st[g] \notin {"polling", "starting"}
    /\ st[g] = "quiet" => stop[g] \in {"drain", "done"}

Calm   == ~cut => \A g \in Gates : CalmAt(g)
Poller == ~stolen => \A g \in Gates : Held(g) => lock = g

\* A step of g leaves the other listeners alone.
Alone(g) == \A h \in Gates \ {g} : st'[h] = st[h] /\ stop'[h] = stop[h] /\ armed'[h] = armed[h]

LEMMA StopsAlone ==
    ASSUME Bots, NEW g \in Gates, Stops(g)
    PROVE  /\ Alone(g) /\ st' = st /\ (cut' = (cut \/ st[g] = "starting"))
           /\ IF Running(g) THEN stop'[g] = "bot" /\ ~armed'[g] /\ UNCHANGED lockVars
              ELSE /\ stop'[g] = "done" /\ armed' = armed
                   /\ IF Held(g) THEN Release(g) ELSE UNCHANGED lockVars
BY DEF Stops, Bots, Alone, Put

LEMMA AcquireAlone ==
    ASSUME Bots, NEW g \in Gates, Acquire(g), UNCHANGED <<stop, armed>>
    PROVE  Alone(g) /\ st'[g] \in {"starting", "waiting", "gaveup"}
BY DEF Acquire, Granted, Refused, Bots, Alone, Put

LEMMA CalmAlone ==
    ASSUME Calm, NEW g \in Gates, Alone(g), cut' \in BOOLEAN, cut => cut', ~cut' => CalmAt(g)'
    PROVE  Calm'
<1>1. ASSUME ~cut', NEW h \in Gates \ {g} PROVE CalmAt(h)'
    BY <1>1 DEF Calm, CalmAt, Alone
<1>. QED
    BY <1>1 DEF Calm

LEMMA StopsCalm ==
    ASSUME Bots, Calm, NEW g \in Gates, Stops(g), stop[g] = "no", st[g] # "off"
    PROVE  Calm'
<1>1. cut' \in BOOLEAN /\ (cut => cut')
    BY DEF Stops
<1>2. ASSUME ~cut' PROVE CalmAt(g)'
    <2>1. ~cut /\ st[g] # "starting" /\ CalmAt(g)
        BY <1>2, StopsAlone DEF Calm
    <2>2. CASE Running(g)
        <3>1. st'[g] = "polling" /\ stop'[g] = "bot" /\ ~armed'[g]
            BY <2>1, <2>2, StopsAlone DEF Running
        <3>. QED
            BY <3>1 DEF CalmAt
    <2>3. CASE ~Running(g)
        <3>1. st'[g] = st[g] /\ stop'[g] = "done" /\ armed'[g] = armed[g] /\ st[g] # "polling"
            BY <2>1, <2>3, StopsAlone DEF Running
        <3>. QED
            BY <2>1, <3>1 DEF CalmAt
    <2>. QED
        BY <2>2, <2>3
<1>. QED
    BY <1>1, <1>2, StopsAlone, CalmAlone

LEMMA CalmStep == Flags /\ Bots /\ Calm /\ [Next]_vars => Calm'
<1> SUFFICES ASSUME Flags, Bots, Calm, [Next]_vars PROVE Calm'
    OBVIOUS
<1>1. CASE UNCHANGED <<st, stop, armed, cut>>
    BY <1>1 DEF Calm, CalmAt
<1>2. CASE UNCHANGED vars
    BY <1>1, <1>2 DEF vars, botVars, history
<1>3. CASE Send \/ Tick
    BY <1>1, <1>3 DEF Send, Tick, botVars, history
<1>4. ASSUME NEW g \in Gates, Start(g) PROVE Calm'
    <2>1. st[g] = "off" /\ Acquire(g) /\ UNCHANGED <<stop, armed, cut>>
        BY <1>4 DEF Start
    <2>2. Alone(g) /\ st'[g] \in {"starting", "waiting", "gaveup"} /\ stop'[g] = stop[g]
        BY <2>1, AcquireAlone
    <2>3. ASSUME ~cut' PROVE CalmAt(g)'
        <3>1. stop[g] = "no" /\ ~armed'[g]
            BY <2>1, <2>3 DEF Calm, CalmAt
        <3>. QED
            BY <2>2, <3>1 DEF CalmAt
    <2>. QED
        BY <2>1, <2>2, <2>3, CalmAlone DEF Flags
<1>5. ASSUME NEW g \in Gates, Retry(g) PROVE Calm'
    <2>1. stop[g] = "no" /\ Acquire(g) /\ UNCHANGED <<stop, armed, cut>>
        BY <1>5 DEF Retry
    <2>2. Alone(g) /\ st'[g] \in {"starting", "waiting", "gaveup"} /\ stop'[g] = stop[g]
        BY <2>1, AcquireAlone
    <2>3. ASSUME ~cut' PROVE CalmAt(g)'
        <3>1. st[g] = "waiting" /\ ~cut
            BY <1>5, <2>1, <2>3 DEF Retry
        <3>2. ~armed'[g]
            BY <2>1, <3>1 DEF Calm, CalmAt
        <3>. QED
            BY <2>1, <2>2, <3>2 DEF CalmAt
    <2>. QED
        BY <2>1, <2>2, <2>3, CalmAlone DEF Flags
<1>6. ASSUME NEW g \in Gates, Poll(g) PROVE Calm'
    <2>1. /\ st[g] = "starting" /\ st' = Put(st, g, "polling") /\ armed' = Put(armed, g, TRUE)
          /\ UNCHANGED <<stop, cut>>
        BY <1>6 DEF Poll, history
    <2>2. Alone(g) /\ st'[g] = "polling" /\ stop'[g] = stop[g]
        BY <2>1 DEF Alone, Put, Bots
    <2>3. ASSUME ~cut' PROVE CalmAt(g)'
        <3>1. stop[g] = "no"
            BY <2>1, <2>3 DEF Calm, CalmAt
        <3>. QED
            BY <2>2, <3>1 DEF CalmAt
    <2>. QED
        BY <2>1, <2>2, <2>3, CalmAlone DEF Flags
<1>7. ASSUME NEW g \in Gates, PollFails(g) PROVE Calm'
    <2>1. st[g] = "polling" /\ st' = Put(st, g, "failed") /\ UNCHANGED <<stop, armed, cut>>
        BY <1>7 DEF PollFails
    <2>2. Alone(g) /\ st'[g] = "failed" /\ stop'[g] = stop[g] /\ armed'[g] = armed[g]
        BY <2>1 DEF Alone, Put, Bots
    <2>3. ASSUME ~cut' PROVE CalmAt(g)'
        BY <2>2 DEF CalmAt
    <2>. QED
        BY <2>1, <2>2, <2>3, CalmAlone DEF Flags
<1>8. ASSUME NEW g \in Gates, Stop(g) PROVE Calm'
    BY <1>8, StopsCalm DEF Stop
<1>9. ASSUME NEW g \in Gates, Refresh(g) PROVE Calm'
    <2>1. CASE UNCHANGED <<botVars, history>>
        BY <1>1, <2>1 DEF botVars, history
    <2>2. CASE Stops(g)
        <3>1. armed[g] /\ st[g] \in {"starting", "polling", "quiet"}
            BY <1>9 DEF Refresh, Held
        <3>2. CASE cut
            BY <2>2, <3>2 DEF Stops, Calm
        <3>3. CASE ~cut
            <4>1. stop[g] = "no" /\ st[g] # "off"
                BY <3>1, <3>3 DEF Calm, CalmAt
            <4>. QED
                BY <2>2, <4>1, StopsCalm
        <3>. QED
            BY <3>2, <3>3
    <2>. QED
        BY <1>9, <2>1, <2>2 DEF Refresh
<1>10. ASSUME NEW g \in Gates, BotStopped(g) PROVE Calm'
    <2>1. /\ stop[g] = "bot" /\ stop' = Put(stop, g, "drain")
          /\ st' = IF st[g] = "polling" THEN Put(st, g, "quiet") ELSE st
          /\ UNCHANGED <<armed, cut>>
        BY <1>10 DEF BotStopped, history
    <2>2. Alone(g) /\ stop'[g] = "drain" /\ armed'[g] = armed[g]
        BY <2>1 DEF Alone, Put, Bots
    <2>3. ASSUME ~cut' PROVE CalmAt(g)'
        <3>1. CalmAt(g)
            BY <2>1, <2>3 DEF Calm
        <3>2. st[g] \in {"polling", "failed"} /\ st'[g] = IF st[g] = "polling" THEN "quiet" ELSE st[g]
            BY <2>1, <3>1 DEF CalmAt, Put, Bots
        <3>. QED
            BY <2>1, <2>2, <3>1, <3>2 DEF CalmAt
    <2>. QED
        BY <2>1, <2>2, <2>3, CalmAlone DEF Flags
<1>11. ASSUME NEW g \in Gates, Drained(g) PROVE Calm'
    <2>1. stop[g] = "drain" /\ stop' = Put(stop, g, "done") /\ UNCHANGED <<st, armed, cut>>
        BY <1>11 DEF Drained, history
    <2>2. Alone(g) /\ stop'[g] = "done" /\ st'[g] = st[g] /\ armed'[g] = armed[g]
        BY <2>1 DEF Alone, Put, Bots
    <2>3. ASSUME ~cut' PROVE CalmAt(g)'
        <3>1. CalmAt(g)
            BY <2>1, <2>3 DEF Calm
        <3>. QED
            BY <2>1, <2>2, <3>1 DEF CalmAt
    <2>. QED
        BY <2>1, <2>2, <2>3, CalmAlone DEF Flags
<1>12. ASSUME NEW g \in Gates, Receive(g) PROVE Calm'
    BY <1>1, <1>12 DEF Receive, botVars
<1>13. ASSUME NEW g \in Gates, Die(g) PROVE Calm'
    <2>1. /\ st' = Put(st, g, "off") /\ stop' = Put(stop, g, "no") /\ armed' = Put(armed, g, FALSE)
          /\ UNCHANGED cut
        BY <1>13 DEF Die
    <2>2. Alone(g) /\ st'[g] = "off" /\ stop'[g] = "no" /\ ~armed'[g]
        BY <2>1 DEF Alone, Put, Bots
    <2>3. ASSUME ~cut' PROVE CalmAt(g)'
        BY <2>2 DEF CalmAt
    <2>. QED
        BY <2>1, <2>2, <2>3, CalmAlone DEF Flags
<1>14. ASSUME NEW g \in Gates, NEW c \in Chats, Work(g, c) PROVE Calm'
    BY <1>1, <1>14 DEF Work, Flush, BeginTurn, EndTurn, botVars, history
<1>. QED
    BY <1>2, <1>3, <1>4, <1>5, <1>6, <1>7, <1>8, <1>9, <1>10, <1>11, <1>12, <1>13, <1>14 DEF Next

LEMMA PollerStep == Flags /\ Bots /\ Poller /\ [Next]_vars => Poller'
<1> SUFFICES ASSUME Flags, Bots, Poller, [Next]_vars, ~stolen', NEW h \in Gates, Held(h)' PROVE lock' = h
    BY DEF Poller
<1>. ~stolen => (Held(h) => lock = h) /\ \A g \in Gates : Held(g) => lock = g
    BY DEF Poller
<1>1. CASE UNCHANGED <<st, stop, lock, stolen>>
    BY <1>1 DEF Held
<1>2. CASE UNCHANGED vars \/ Send \/ Tick
    BY <1>1, <1>2 DEF vars, lockVars, botVars, history, Send, Tick
<1>3. ASSUME NEW g \in Gates, Acquire(g), UNCHANGED <<stop, armed>> PROVE lock' = h
    <2>1. CASE Granted(g)
        <3>1. lock' = g /\ st' = Put(st, g, "starting") /\ (stolen' = (stolen \/ (lock # None /\ Held(lock))))
            BY <2>1 DEF Granted
        <3>2. ASSUME h # g PROVE FALSE
            <4>1. Held(h)
                BY <1>3, <3>1, <3>2 DEF Held, Put, Bots
            <4>2. ~stolen /\ lock = h
                BY <3>1, <4>1
            <4>. QED
                BY <3>1, <4>1, <4>2, Constants
        <3>. QED
            BY <3>1, <3>2
    <2>2. CASE Refused(g)
        <3>1. st' = Put(st, g, "waiting") \/ st' = Put(st, g, "gaveup")
            BY <2>2 DEF Refused
        <3>2. UNCHANGED <<lock, stolen>>
            BY <2>2 DEF Refused, lockVars
        <3>3. h # g /\ st'[h] = st[h]
            BY <3>1 DEF Held, Put, Bots
        <3>. QED
            BY <1>3, <3>2, <3>3 DEF Held
    <2>. QED
        BY <1>3, <2>1, <2>2 DEF Acquire
<1>4. ASSUME NEW g \in Gates, Start(g) \/ Retry(g) PROVE lock' = h
    BY <1>3, <1>4 DEF Start, Retry
<1>5. ASSUME NEW g \in Gates, Poll(g) PROVE lock' = h
    <2>1. st[g] = "starting" /\ st' = Put(st, g, "polling") /\ UNCHANGED <<lock, stop, stolen>>
        BY <1>5 DEF Poll, lockVars, history
    <2>. QED
        BY <2>1 DEF Held, Put, Bots
<1>6. ASSUME NEW g \in Gates, st'[g] \notin {"starting", "polling", "quiet"} \/ stop'[g] = "done",
             Alone(g), IF Held(g) THEN Release(g) ELSE UNCHANGED lockVars, UNCHANGED stolen
      PROVE  lock' = h
    <2>1. h # g /\ Held(h) /\ ~stolen /\ lock = h
        BY <1>6 DEF Held, Alone
    <2>. QED
        BY <1>6, <2>1 DEF Release, lockVars
<1>7. ASSUME NEW g \in Gates, PollFails(g) \/ Drained(g) PROVE lock' = h
    <2>1. CASE PollFails(g)
        <3>1. /\ st' = Put(st, g, "failed") /\ UNCHANGED <<stop, armed, stolen>>
              /\ IF Held(g) THEN Release(g) ELSE UNCHANGED lockVars
            BY <2>1 DEF PollFails
        <3>2. st'[g] = "failed" /\ Alone(g)
            BY <3>1 DEF Alone, Put, Bots
        <3>. QED
            BY <1>6, <3>1, <3>2
    <2>2. CASE Drained(g)
        <3>1. /\ stop' = Put(stop, g, "done") /\ UNCHANGED <<st, armed, stolen>>
              /\ IF Held(g) THEN Release(g) ELSE UNCHANGED lockVars
            BY <2>2 DEF Drained, history
        <3>2. stop'[g] = "done" /\ Alone(g)
            BY <3>1 DEF Alone, Put, Bots
        <3>. QED
            BY <1>6, <3>1, <3>2
    <2>. QED
        BY <1>7, <2>1, <2>2
<1>8. ASSUME NEW g \in Gates, Stops(g), UNCHANGED stolen PROVE lock' = h
    <2>1. CASE Running(g)
        <3>1. stop[g] = "no" /\ stop'[g] = "bot" /\ Alone(g) /\ st' = st /\ lock' = lock
            BY <1>8, <2>1, StopsAlone DEF Running, lockVars
        <3>. QED
            BY <1>8, <3>1 DEF Held, Alone
    <2>2. CASE ~Running(g)
        BY <1>6, <1>8, <2>2, StopsAlone
    <2>. QED
        BY <2>1, <2>2
<1>9. ASSUME NEW g \in Gates, Stop(g) \/ Refresh(g) PROVE lock' = h
    BY <1>1, <1>8, <1>9 DEF Stop, Refresh, botVars, history
<1>10. ASSUME NEW g \in Gates, BotStopped(g) PROVE lock' = h
    <2>1. /\ stop[g] = "bot" /\ stop' = Put(stop, g, "drain") /\ UNCHANGED <<lock, stolen>>
          /\ st' = IF st[g] = "polling" THEN Put(st, g, "quiet") ELSE st
        BY <1>10 DEF BotStopped, lockVars, history
    <2>2. Held(h)
        BY <2>1 DEF Held, Put, Bots
    <2>. QED
        BY <2>1, <2>2
<1>11. ASSUME NEW g \in Gates, Die(g) PROVE lock' = h
    <2>1. st' = Put(st, g, "off") /\ stop' = Put(stop, g, "no") /\ UNCHANGED <<lock, stolen>>
        BY <1>11 DEF Die
    <2>. QED
        BY <2>1 DEF Held, Put, Bots
<1>12. ASSUME NEW g \in Gates, Receive(g) PROVE lock' = h
    BY <1>1, <1>12 DEF Receive, botVars, lockVars
<1>13. ASSUME NEW g \in Gates, NEW c \in Chats, Work(g, c) PROVE lock' = h
    BY <1>1, <1>13 DEF Work, Flush, BeginTurn, EndTurn, botVars, lockVars, history
<1>. QED
    BY <1>2, <1>4, <1>5, <1>7, <1>9, <1>10, <1>11, <1>12, <1>13 DEF Next

\* Two processes never poll the token together, but for the two races that the
\* history variables record.
THEOREM OnePollerCorrect == Spec => []OnePoller
<1>1. Init => Calm /\ Poller
    BY DEF Init, Calm, CalmAt, Poller, Held
<1>2. Calm /\ Poller => OnePoller
    <2> SUFFICES ASSUME Calm, Poller, ~cut, ~stolen PROVE \A g \in Gates : st[g] = "polling" => lock = g
        BY DEF OnePoller
    <2>. QED
        BY DEF Calm, CalmAt, Poller, Held
<1>. QED
    BY <1>1, <1>2, TypeInit, FlagsStep, BotsStep, CalmStep, PollerStep, PTL DEF Spec
-----------------------------------------------------------------------------
(* LeavesClean: the turns that stop() counts are the turns there are, since *)
(* a stopped listener gets no new ones.                                    *)

Idle(g, c) == buffer[g][c] = <<>> /\ chain[g][c] = <<>> /\ turn[g][c] = <<>>

CleanCell(g, c) ==
    /\ st[g] \in {"off", "waiting", "gaveup", "starting"} => Idle(g, c)
    /\ stop[g] # "no" => buffer[g][c] = <<>>
    /\ stop[g] = "drain" => Len(chain[g][c]) + Len(turn[g][c]) = drain[g][c]
    /\ stop[g] = "done" => chain[g][c] = <<>> /\ turn[g][c] = <<>>

CleanAt(g) == st[g] # "failed" /\ \A c \in Chats : CleanCell(g, c)
Clean      == ~cut /\ ~stray => \A g \in Gates : CleanAt(g)

\* A step of g leaves the others' messages alone.
Aside(g) ==
    \A h \in Gates \ {g} : /\ st'[h] = st[h] /\ stop'[h] = stop[h]
                          /\ buffer'[h] = buffer[h] /\ chain'[h] = chain[h]
                          /\ turn'[h] = turn[h] /\ drain'[h] = drain[h]

LEMMA CleanAside ==
    ASSUME Clean, NEW g \in Gates, Aside(g), cut => cut', stray => stray',
           ~cut' /\ ~stray' => CleanAt(g)'
    PROVE  Clean'
<1>1. ASSUME ~cut', ~stray', NEW h \in Gates \ {g} PROVE CleanAt(h)'
    <2>1. CleanAt(h)
        BY <1>1 DEF Clean
    <2>. QED
        BY <1>1, <2>1 DEF CleanAt, CleanCell, Idle, Aside
<1>. QED
    BY <1>1 DEF Clean

\* The steps that touch no message of g.
LEMMA CleanStays ==
    ASSUME Clean, NEW g \in Gates, Alone(g), UNCHANGED <<buffer, chain, turn, drain>>,
           cut => cut', stray => stray', ~cut' /\ ~stray' => CleanAt(g)'
    PROVE  Clean'
BY CleanAside DEF Aside, Alone

LEMMA StopsClean ==
    ASSUME Flags, Bots, Works, Calm, Clean, NEW g \in Gates, Stops(g), stop[g] = "no", st[g] # "off"
    PROVE  Clean'
<1>1. UNCHANGED <<turn, drain, stray>> /\ (cut => cut')
    BY DEF Stops
<1>2. FlushAll(g) \/ UNCHANGED <<buffer, chain>>
    BY DEF Stops
<1>3. Aside(g)
    BY <1>1, <1>2, StopsAlone, FlushAllWorks DEF Aside, Alone
<1>4. ASSUME ~cut', ~stray' PROVE CleanAt(g)'
    <2>1. ~cut /\ ~stray /\ st[g] # "starting"
        BY <1>1, <1>4, StopsAlone
    <2>2. CleanAt(g) /\ CalmAt(g) /\ st'[g] = st[g]
        BY <2>1, StopsAlone DEF Clean, Calm
    <2>3. CASE Running(g)
        <3>1. st'[g] = "polling" /\ stop'[g] = "bot" /\ FlushAll(g)
            BY <2>1, <2>2, <2>3, StopsAlone DEF Running, Stops
        <3>2. \A c \in Chats : buffer'[g][c] = <<>>
            BY <3>1, FlushAllWorks, Empties
        <3>. QED
            BY <3>1, <3>2 DEF CleanAt, CleanCell
    <2>4. CASE ~Running(g)
        <3>1. stop'[g] = "done" /\ UNCHANGED <<buffer, chain>>
            BY <2>4, StopsAlone DEF Stops
        <3>2. st[g] \in {"waiting", "gaveup"}
            <4>1. st[g] \in States /\ st[g] \notin {"off", "starting", "polling", "failed", "quiet"}
                BY <2>1, <2>2, <2>4 DEF Running, CleanAt, CalmAt, Bots
            <4>. QED
                BY <4>1 DEF States
        <3>3. \A c \in Chats : Idle(g, c)
            BY <2>2, <3>2 DEF CleanAt, CleanCell
        <3>. QED
            BY <1>1, <2>2, <3>1, <3>2, <3>3 DEF CleanAt, CleanCell, Idle
    <2>. QED
        BY <2>3, <2>4
<1>. QED
    BY <1>1, <1>3, <1>4, CleanAside

\* A step of one chat's messages.
LEMMA CleanWork ==
    ASSUME Clean, NEW g \in Gates, NEW c \in Chats, UNCHANGED <<st, stop, cut, stray>>,
           \A h \in Gates, d \in Chats : h # g \/ d # c =>
               /\ buffer'[h][d] = buffer[h][d] /\ chain'[h][d] = chain[h][d]
               /\ turn'[h][d] = turn[h][d] /\ drain'[h][d] = drain[h][d],
           CleanAt(g) => CleanCell(g, c)'
    PROVE  Clean'
<1> SUFFICES ASSUME ~cut, ~stray, NEW h \in Gates PROVE CleanAt(h)'
    BY DEF Clean
<1>1. CleanAt(h)
    BY DEF Clean
<1>2. ASSUME NEW d \in Chats, h # g \/ d # c PROVE CleanCell(h, d)'
    BY <1>1, <1>2 DEF CleanAt, CleanCell, Idle
<1>. QED
    BY <1>1, <1>2 DEF CleanAt

LEMMA CleanStep == Flags /\ Bots /\ Works /\ Calm /\ Clean /\ [Next]_vars => Clean'
<1> SUFFICES ASSUME Flags, Bots, Works, Calm, Clean, [Next]_vars PROVE Clean'
    OBVIOUS
<1>1. CASE UNCHANGED <<st, stop, buffer, chain, turn, drain, cut, stray>>
    BY <1>1 DEF Clean, CleanAt, CleanCell, Idle
<1>2. CASE UNCHANGED vars \/ Send \/ Tick
    BY <1>1, <1>2 DEF vars, botVars, msgVars, history, Send, Tick
<1>3. ASSUME NEW g \in Gates, Start(g) \/ Retry(g) PROVE Clean'
    <2>1. Acquire(g) /\ UNCHANGED <<stop, armed, buffer, chain, turn, drain, cut, stray>>
        BY <1>3 DEF Start, Retry, msgVars
    <2>2. ASSUME ~cut', ~stray' PROVE CleanAt(g)'
        <3>1. CleanAt(g) /\ CalmAt(g) /\ st[g] \in {"off", "waiting"}
            BY <1>3, <2>1, <2>2 DEF Clean, Calm, Start, Retry
        <3>4. stop[g] = "no"
            BY <1>3, <3>1 DEF CalmAt, Retry, Start
        <3>5. st'[g] \in {"starting", "waiting", "gaveup"}
            BY <2>1, AcquireAlone
        <3>2. stop'[g] = "no" /\ st'[g] \in {"starting", "waiting", "gaveup"}
            BY <2>1, <3>4, <3>5
        <3>3. \A c \in Chats : Idle(g, c)
            BY <3>1 DEF CleanAt, CleanCell
        <3>. QED
            BY <2>1, <3>2, <3>3 DEF CleanAt, CleanCell, Idle
    <2>. QED
        BY <2>1, <2>2, AcquireAlone, CleanStays
<1>4. ASSUME NEW g \in Gates, Poll(g) PROVE Clean'
    <2>1. /\ st[g] = "starting" /\ st' = Put(st, g, "polling") /\ armed' = Put(armed, g, TRUE)
          /\ UNCHANGED <<stop, buffer, chain, turn, drain, cut, stray>>
        BY <1>4 DEF Poll, history
    <2>2. Alone(g) /\ st'[g] = "polling"
        BY <2>1 DEF Alone, Put, Bots
    <2>3. ASSUME ~cut', ~stray' PROVE CleanAt(g)'
        <3>1. CleanAt(g)
            BY <2>1, <2>3 DEF Clean
        <3>. QED
            BY <2>1, <2>2, <3>1 DEF CleanAt, CleanCell, Idle
    <2>. QED
        BY <2>1, <2>2, <2>3, CleanStays
<1>5. ASSUME NEW g \in Gates, PollFails(g) PROVE Clean'
    BY <1>5 DEF PollFails, Clean
<1>6. ASSUME NEW g \in Gates, Receive(g) PROVE Clean'
    <2>. DEFINE m == Head(pending)
    <2>1. /\ st[g] = "polling" /\ pending # <<>>
          /\ \/ buffer' = buffer
             \/ buffer' = [buffer EXCEPT ![g][ChatOf[m]] = Append(buffer[g][ChatOf[m]], m)]
          /\ (stray' = (stray \/ stop[g] # "no"))
          /\ UNCHANGED <<st, stop, chain, turn, drain, cut>>
        BY <1>6 DEF Receive, botVars
    <2>2. Aside(g)
        BY <2>1 DEF Aside, Works
    <2>3. ASSUME ~cut', ~stray' PROVE CleanAt(g)'
        <3>1. CleanAt(g) /\ stop[g] = "no"
            BY <2>1, <2>3 DEF Clean
        <3>. QED
            BY <2>1, <3>1 DEF CleanAt, CleanCell
    <2>. QED
        BY <2>1, <2>2, <2>3, CleanAside
<1>7. ASSUME NEW g \in Gates, Stop(g) PROVE Clean'
    BY <1>7, StopsClean DEF Stop
<1>8. ASSUME NEW g \in Gates, Refresh(g) PROVE Clean'
    <2>1. CASE UNCHANGED <<botVars, msgVars, history>>
        BY <1>1, <2>1 DEF botVars, msgVars, history
    <2>2. CASE Stops(g)
        <3>1. armed[g] /\ st[g] \in {"starting", "polling", "quiet"}
            BY <1>8 DEF Refresh, Held
        <3>2. CASE cut
            BY <2>2, <3>2 DEF Stops, Clean
        <3>3. CASE ~cut
            <4>1. stop[g] = "no" /\ st[g] # "off"
                BY <3>1, <3>3 DEF Calm, CalmAt
            <4>. QED
                BY <2>2, <4>1, StopsClean
        <3>. QED
            BY <3>2, <3>3
    <2>. QED
        BY <1>8, <2>1, <2>2 DEF Refresh
<1>9. ASSUME NEW g \in Gates, BotStopped(g) PROVE Clean'
    <2>. DEFINE r == [c \in Chats |-> Len(chain[g][c]) + Len(turn[g][c])]
    <2>1. /\ stop[g] = "bot" /\ stop' = Put(stop, g, "drain")
          /\ st' = IF st[g] = "polling" THEN Put(st, g, "quiet") ELSE st
          /\ drain' = [drain EXCEPT ![g] = r]
          /\ UNCHANGED <<buffer, chain, turn, cut, stray>>
        BY <1>9 DEF BotStopped, history
    <2>2. drain'[g] = r /\ Aside(g) /\ stop'[g] = "drain"
        BY <2>1 DEF Aside, Put, Bots, Works
    <2>3. ASSUME ~cut', ~stray' PROVE CleanAt(g)'
        <3>1. CleanAt(g) /\ CalmAt(g)
            BY <2>1, <2>3 DEF Clean, Calm
        <3>2. st[g] = "polling" /\ st'[g] = "quiet"
            BY <2>1, <3>1 DEF CleanAt, CalmAt, Put, Bots
        <3>. QED
            BY <2>1, <2>2, <3>1, <3>2 DEF CleanAt, CleanCell
    <2>. QED
        BY <2>1, <2>2, <2>3, CleanAside
<1>10. ASSUME NEW g \in Gates, Drained(g) PROVE Clean'
    <2>1. /\ stop[g] = "drain" /\ drain[g] = NoTurns /\ stop' = Put(stop, g, "done")
          /\ UNCHANGED <<st, armed, buffer, chain, turn, drain, cut, stray>>
        BY <1>10 DEF Drained, msgVars, history
    <2>2. Alone(g) /\ stop'[g] = "done"
        BY <2>1 DEF Alone, Put, Bots
    <2>3. ASSUME ~cut', ~stray' PROVE CleanAt(g)'
        <3>1. CleanAt(g) /\ CalmAt(g)
            BY <2>1, <2>3 DEF Clean, Calm
        <3>2. ASSUME NEW c \in Chats PROVE Idle(g, c)
            <4>. DEFINE k == Len(chain[g][c])
                        l == Len(turn[g][c])
            <4>1. chain[g][c] \in Batches /\ turn[g][c] \in Batches /\ buffer[g][c] = <<>> /\ k + l = 0
                BY <2>1, <3>1, Empties DEF CleanAt, CleanCell, Works
            <4>2. k \in Nat /\ l \in Nat
                BY <4>1 DEF Batches
            <4>. HIDE DEF k, l
            <4>3. k = 0 /\ l = 0
                BY <4>1, <4>2
            <4>. QED
                BY <4>1, <4>3 DEF Idle, k, l, Batches
        <3>. QED
            BY <2>1, <2>2, <3>1, <3>2 DEF CleanAt, CleanCell, Idle
    <2>. QED
        BY <2>1, <2>2, <2>3, CleanStays
<1>11. ASSUME NEW g \in Gates, Die(g) PROVE Clean'
    <2>1. /\ st' = Put(st, g, "off") /\ stop' = Put(stop, g, "no")
          /\ buffer' = Put(buffer, g, Nothing) /\ chain' = Put(chain, g, Nothing)
          /\ turn' = Put(turn, g, Nothing) /\ drain' = Put(drain, g, NoTurns)
          /\ UNCHANGED <<cut, stray>>
        BY <1>11 DEF Die
    <2>2. Aside(g)
        BY <2>1 DEF Aside, Put, Bots, Works
    <2>3. /\ st'[g] = "off" /\ stop'[g] = "no" /\ buffer'[g] = Nothing
          /\ chain'[g] = Nothing /\ turn'[g] = Nothing
        BY <2>1 DEF Put, Bots, Works
    <2>4. CleanAt(g)'
        BY <2>3, Empties DEF CleanAt, CleanCell, Idle
    <2>. QED
        BY <2>1, <2>2, <2>4, CleanAside
<1>12. ASSUME NEW g \in Gates, NEW c \in Chats, Flush(g, c) PROVE Clean'
    <2>1. /\ buffer[g][c] # <<>> /\ buffer' = [buffer EXCEPT ![g][c] = <<>>]
          /\ chain' = [chain EXCEPT ![g][c] = Append(chain[g][c], buffer[g][c])]
          /\ UNCHANGED <<st, stop, turn, drain, cut, stray>>
        BY <1>12 DEF Flush, botVars, history
    <2>2. CleanAt(g) => CleanCell(g, c)'
        BY <2>1 DEF CleanAt, CleanCell, Idle
    <2>3. \A h \in Gates, d \in Chats : h # g \/ d # c =>
              buffer'[h][d] = buffer[h][d] /\ chain'[h][d] = chain[h][d]
        BY <2>1 DEF Works
    <2>. QED
        BY <2>1, <2>2, <2>3, CleanWork
<1>13. ASSUME NEW g \in Gates, NEW c \in Chats, BeginTurn(g, c) PROVE Clean'
    <2>1. /\ chain[g][c] # <<>>
          /\ turn' = [turn EXCEPT ![g][c] = Append(turn[g][c], Head(chain[g][c]))]
          /\ chain' = [chain EXCEPT ![g][c] = Tail(chain[g][c])]
          /\ UNCHANGED <<st, stop, buffer, drain, cut, stray>>
        BY <1>13 DEF BeginTurn, botVars, history
    <2>2. Len(turn'[g][c]) = Len(turn[g][c]) + 1 /\ Len(chain'[g][c]) = Len(chain[g][c]) - 1
        <3>1. chain[g][c] \in Batches /\ turn[g][c] \in Batches
            BY DEF Works
        <3>2. turn'[g][c] = Append(turn[g][c], Head(chain[g][c])) /\ chain'[g][c] = Tail(chain[g][c])
            BY <2>1 DEF Works
        <3>. QED
            BY <2>1, <3>1, <3>2, MoveFacts
    <2>3. CleanAt(g) => CleanCell(g, c)'
        <3>. DEFINE k == Len(chain[g][c])
                    l == Len(turn[g][c])
        <3>1. chain[g][c] \in Batches /\ turn[g][c] \in Batches
            BY DEF Works
        <3>2. k \in Nat /\ l \in Nat
            BY <3>1 DEF Batches
        <3>3. Len(chain'[g][c]) = k - 1 /\ Len(turn'[g][c]) = l + 1
            BY <2>2
        <3>. HIDE DEF k, l
        <3>4. (k - 1) + (l + 1) = k + l
            BY <3>2
        <3>. QED
            BY <2>1, <3>3, <3>4 DEF CleanAt, CleanCell, Idle, k, l
    <2>4. \A h \in Gates, d \in Chats : h # g \/ d # c =>
              turn'[h][d] = turn[h][d] /\ chain'[h][d] = chain[h][d]
        BY <2>1 DEF Works
    <2>. QED
        BY <2>1, <2>3, <2>4, CleanWork
<1>14. ASSUME NEW g \in Gates, NEW c \in Chats, EndTurn(g, c) PROVE Clean'
    <2>1. PICK i \in DOMAIN turn[g][c] : turn' = [turn EXCEPT ![g][c] = RemoveAt(turn[g][c], i)]
        BY <1>14 DEF EndTurn
    <2>2. /\ drain' = [drain EXCEPT ![g][c] = IF drain[g][c] = 0 THEN 0 ELSE drain[g][c] - 1]
          /\ UNCHANGED <<st, stop, buffer, chain, cut, stray>>
        BY <1>14 DEF EndTurn, botVars, history
    <2>. DEFINE k == Len(chain[g][c])
                l == Len(turn[g][c])
                n == drain[g][c]
    <2>3. chain[g][c] \in Batches /\ turn[g][c] \in Seq(Seq(Messages))
        BY DEF Works, Batches
    <2>4. Len(RemoveAt(turn[g][c], i)) = l - 1 /\ l \in Nat /\ l > 0
        BY <2>3, RemoveAtFacts
    <2>5. k \in Nat /\ n \in Nat
        BY <2>3 DEF Works, Batches
    <2>6. Len(turn'[g][c]) = l - 1 /\ drain'[g][c] = (IF n = 0 THEN 0 ELSE n - 1) /\ chain'[g][c] = chain[g][c]
        BY <2>1, <2>2, <2>4 DEF Works
    <2>7. turn[g][c] # <<>>
        BY <2>4
    <2>8. CleanAt(g) => CleanCell(g, c)'
        <3> SUFFICES ASSUME CleanAt(g) PROVE CleanCell(g, c)'
            OBVIOUS
        <3>1. CleanCell(g, c)
            BY DEF CleanAt
        <3>2. st[g] \notin {"off", "waiting", "gaveup", "starting"} /\ stop[g] # "done"
            BY <2>7, <3>1 DEF CleanCell, Idle
        <3>3. stop[g] = "drain" => k + l = n
            BY <3>1 DEF CleanCell
        <3>4. Len(chain'[g][c]) = k
            BY <2>6
        <3>. HIDE DEF k, l, n
        <3>5. stop[g] = "drain" => k + (l - 1) = drain'[g][c]
            BY <2>4, <2>5, <2>6, <3>3
        <3>. QED
            BY <2>2, <2>6, <3>1, <3>2, <3>4, <3>5 DEF CleanCell
    <2>9. \A h \in Gates, d \in Chats : h # g \/ d # c =>
              turn'[h][d] = turn[h][d] /\ drain'[h][d] = drain[h][d]
        BY <2>1, <2>2 DEF Works
    <2>. QED
        BY <2>2, <2>8, <2>9, CleanWork
<1>. QED
    BY <1>2, <1>3, <1>4, <1>5, <1>6, <1>7, <1>8, <1>9, <1>10, <1>11, <1>12, <1>13, <1>14 DEF Next, Work

\* A listener without the lock neither polls nor has a message in hand, but
\* after the three events that the history variables record.
THEOREM LeavesCleanCorrect == Spec => []LeavesClean
<1>1. Init => Calm /\ Clean
    BY Empties DEF Init, Calm, CalmAt, Clean, CleanAt, CleanCell, Idle
<1>2. Bots /\ Calm /\ Clean => LeavesClean
    <2> SUFFICES ASSUME Bots, Calm, Clean, ~cut, ~stray, NEW g \in Gates, ~Held(g)
                 PROVE  st[g] # "polling" /\ ~Busy(g)
        BY DEF LeavesClean
    <2>1. CalmAt(g) /\ CleanAt(g)
        BY DEF Calm, Clean
    <2>2. st[g] # "polling" /\ (st[g] \in {"off", "waiting", "gaveup"} \/ stop[g] = "done")
        BY <2>1 DEF Held, CalmAt, CleanAt, Bots, States
    <2>3. \A c \in Chats : Idle(g, c)
        BY <2>1, <2>2 DEF CleanAt, CleanCell, Idle
    <2>4. ASSUME NEW m \in Messages PROVE ~Has(g, m)
        <3>1. Idle(g, ChatOf[m])
            BY <2>3, Constants
        <3>. QED
            BY <3>1 DEF Idle, Has, Range
    <2>. QED
        BY <2>2, <2>4 DEF Busy
<1>. QED
    BY <1>1, <1>2, TypeInit, FlagsStep, BotsStep, WorksStep, CalmStep, CleanStep, PTL DEF Spec
-----------------------------------------------------------------------------
(* KeptUntilTurned: a step moves what a listener has from one of its three *)
(* places to the next, or to the log.                                      *)

LEMMA RangeFacts ==
    ASSUME NEW T, NEW s \in Seq(T), NEW t \in Seq(T), NEW e \in T
    PROVE  /\ Range(s \o t) = Range(s) \cup Range(t)
           /\ Range(Append(s, e)) = Range(s) \cup {e}
<1>1. /\ Len(s) \in Nat /\ Len(t) \in Nat /\ DOMAIN s = 1..Len(s) /\ DOMAIN t = 1..Len(t)
      /\ DOMAIN (s \o t) = 1..(Len(s) + Len(t))
      /\ \A i \in 1..Len(s) : (s \o t)[i] = s[i]
      /\ \A i \in 1..Len(t) : Len(s) + i \in 1..(Len(s) + Len(t)) /\ (s \o t)[Len(s) + i] = t[i]
    OBVIOUS
<1>2. ASSUME NEW x \in Range(s \o t) PROVE x \in Range(s) \cup Range(t)
    <2>1. PICK i \in 1..(Len(s) + Len(t)) : x = (s \o t)[i]
        BY <1>1 DEF Range
    <2>2. i \in 1..Len(s) \/ (i - Len(s) \in 1..Len(t) /\ Len(s) + (i - Len(s)) = i)
        BY <1>1
    <2>. QED
        BY <1>1, <2>1, <2>2 DEF Range
<1>3. ASSUME NEW x \in Range(s) \cup Range(t) PROVE x \in Range(s \o t)
    <2>1. CASE x \in Range(s)
        <3>1. PICK i \in 1..Len(s) : x = s[i]
            BY <1>1, <2>1 DEF Range
        <3>2. i \in 1..(Len(s) + Len(t)) /\ x = (s \o t)[i]
            BY <1>1, <3>1
        <3>. QED
            BY <1>1, <3>2 DEF Range
    <2>2. CASE x \in Range(t)
        <3>1. PICK i \in 1..Len(t) : x = t[i]
            BY <1>1, <2>2 DEF Range
        <3>. QED
            BY <1>1, <3>1 DEF Range
    <2>. QED
        BY <1>3, <2>1, <2>2
<1>4. /\ DOMAIN Append(s, e) = 1..(Len(s) + 1) /\ Append(s, e)[Len(s) + 1] = e
      /\ \A i \in 1..Len(s) : Append(s, e)[i] = s[i]
      /\ 1..(Len(s) + 1) = 1..Len(s) \cup {Len(s) + 1}
    BY <1>1
<1>5. Range(Append(s, e)) = Range(s) \cup {e}
    BY <1>1, <1>4 DEF Range
<1>. QED
    BY <1>2, <1>3, <1>5

\* Taking the first element, or the i-th, loses that one only.
LEMMA TakeFacts ==
    ASSUME NEW T, NEW s \in Seq(T), NEW i \in DOMAIN s, NEW x \in Range(s)
    PROVE  /\ x = Head(s) \/ x \in Range(Tail(s))
           /\ x = s[i] \/ x \in Range(RemoveAt(s, i))
<1>1. /\ Len(s) \in Nat /\ i \in 1..Len(s) /\ i \in Nat /\ s # <<>> /\ DOMAIN s = 1..Len(s)
    OBVIOUS
<1>2. PICK j \in 1..Len(s) : x = s[j]
    BY <1>1 DEF Range
<1>3. x = Head(s) \/ x \in Range(Tail(s))
    <2>1. /\ Head(s) = s[1] /\ DOMAIN Tail(s) = 1..(Len(s) - 1)
          /\ \A k \in 1..(Len(s) - 1) : Tail(s)[k] = s[k + 1]
        BY <1>1
    <2>2. j = 1 \/ (j - 1 \in 1..(Len(s) - 1) /\ Tail(s)[j - 1] = s[j])
        BY <1>1, <2>1
    <2>. QED
        BY <1>2, <2>1, <2>2 DEF Range
<1>. DEFINE before == SubSeq(s, 1, i - 1)
            after  == SubSeq(s, i + 1, Len(s))
<1>4. before \in Seq(T) /\ (j < i => x \in Range(before))
    <2>1. i - 1 \in Int /\ 1 \in Int /\ \A k \in 1..(i - 1) : s[k] \in T
        BY <1>1
    <2>2. /\ before \in Seq(T)
          /\ Len(before) = IF 1 <= i - 1 THEN (i - 1) - 1 + 1 ELSE 0
          /\ \A k \in 1..((i - 1) - 1 + 1) : before[k] = s[1 + k - 1]
        BY <2>1, SubSeqProperties
    <2>. HIDE DEF before
    <2>3. j < i => j \in 1..Len(before) /\ before[j] = s[j] /\ DOMAIN before = 1..Len(before)
        BY <1>1, <2>2
    <2>. QED
        BY <1>2, <2>2, <2>3 DEF Range
<1>5. after \in Seq(T) /\ (j > i => x \in Range(after))
    <2>1. i + 1 \in Int /\ Len(s) \in Int /\ \A k \in (i + 1)..Len(s) : s[k] \in T
        BY <1>1
    <2>2. /\ after \in Seq(T)
          /\ Len(after) = IF i + 1 <= Len(s) THEN Len(s) - (i + 1) + 1 ELSE 0
          /\ \A k \in 1..(Len(s) - (i + 1) + 1) : after[k] = s[(i + 1) + k - 1]
        BY <2>1, SubSeqProperties
    <2>. HIDE DEF after
    <2>3. ASSUME j > i PROVE x \in Range(after)
        <3>1. /\ j - i \in 1..(Len(s) - (i + 1) + 1) /\ (i + 1) + (j - i) - 1 = j
              /\ i + 1 <= Len(s)
            BY <1>1, <2>3
        <3>2. after[j - i] = s[(i + 1) + (j - i) - 1] /\ Len(after) = Len(s) - (i + 1) + 1
            BY <2>2, <3>1
        <3>3. after[j - i] = x /\ j - i \in 1..Len(after)
            BY <1>2, <3>1, <3>2
        <3>4. DOMAIN after = 1..Len(after)
            BY <2>2
        <3>. QED
            BY <3>3, <3>4 DEF Range
    <2>. QED
        BY <2>2, <2>3
<1>. HIDE DEF before, after
<1>6. Range(before \o after) = Range(before) \cup Range(after)
    BY <1>4, <1>5, RangeFacts
<1>7. RemoveAt(s, i) = before \o after
    BY DEF RemoveAt, before, after
<1>8. j < i \/ j = i \/ j > i
    BY <1>1
<1>. QED
    BY <1>2, <1>3, <1>4, <1>5, <1>6, <1>7, <1>8

In(k, m)      == \E b \in Range(k) : m \in Range(b)
Within(g, m)  == \/ m \in Range(buffer[g][ChatOf[m]])
                 \/ In(chain[g][ChatOf[m]], m) \/ In(turn[g][ChatOf[m]], m)

LEMMA SplitFacts ==
    ASSUME NEW k \in Batches, NEW t \in Batches, NEW m
    PROVE  (\E b \in Range(k \o t) : m \in Range(b)) <=> In(k, m) \/ In(t, m)
<1>1. <<>> \in Seq(Messages) /\ k \in Seq(Seq(Messages)) /\ t \in Seq(Seq(Messages))
    BY DEF Batches
<1>2. Range(k \o t) = Range(k) \cup Range(t)
    BY <1>1, RangeFacts
<1>. QED
    BY <1>2 DEF In

LEMMA AppendFacts ==
    ASSUME NEW k \in Batches, NEW b \in Seq(Messages), NEW m
    PROVE  In(Append(k, b), m) <=> In(k, m) \/ m \in Range(b)
<1>1. k \in Seq(Seq(Messages))
    BY DEF Batches
<1>2. Range(Append(k, b)) = Range(k) \cup {b}
    BY <1>1, RangeFacts
<1>. QED
    BY <1>2 DEF In

LEMMA HeadFacts ==
    ASSUME NEW k \in Batches, k # <<>>, NEW m, In(k, m)
    PROVE  Head(k) \in Seq(Messages) /\ (m \in Range(Head(k)) \/ In(Tail(k), m))
<1>1. k \in Seq(Seq(Messages)) /\ 1 \in DOMAIN k
    BY DEF Batches
<1>2. Head(k) \in Seq(Messages)
    BY <1>1, HeadTailProperties
<1>3. PICK b \in Range(k) : m \in Range(b)
    BY DEF In
<1>4. b = Head(k) \/ b \in Range(Tail(k))
    BY <1>1, <1>3, TakeFacts
<1>. QED
    BY <1>2, <1>3, <1>4 DEF In

LEMMA RemoveFacts ==
    ASSUME NEW k \in Batches, NEW i \in DOMAIN k, NEW m, In(k, m)
    PROVE  k[i] \in Seq(Messages) /\ (m \in Range(k[i]) \/ In(RemoveAt(k, i), m))
<1>1. k \in Seq(Seq(Messages))
    BY DEF Batches
<1>2. k[i] \in Seq(Messages)
    BY <1>1
<1>3. PICK b \in Range(k) : m \in Range(b)
    BY DEF In
<1>4. b = k[i] \/ b \in Range(RemoveAt(k, i))
    BY <1>1, <1>3, TakeFacts
<1>. QED
    BY <1>2, <1>3, <1>4 DEF In

LEMMA HasWithin ==
    ASSUME Works, NEW g \in Gates, NEW m \in Messages
    PROVE  Has(g, m) <=> Within(g, m)
<1>1. chain[g][ChatOf[m]] \in Batches /\ turn[g][ChatOf[m]] \in Batches
    BY Constants DEF Works
<1>. QED
    BY <1>1, SplitFacts DEF Has, Within

LEMMA HasWithinNext ==
    ASSUME Works', NEW g \in Gates, NEW m \in Messages
    PROVE  Has(g, m)' <=> Within(g, m)'
<1>1. chain'[g][ChatOf[m]] \in Batches /\ turn'[g][ChatOf[m]] \in Batches
    BY Constants DEF Works
<1>. QED
    BY <1>1, SplitFacts DEF Has, Within

LEMMA FlushAllKeeps ==
    ASSUME Works, NEW g \in Gates, FlushAll(g) \/ UNCHANGED <<buffer, chain>>, UNCHANGED turn,
           NEW h \in Gates, NEW m \in Messages, Within(h, m)
    PROVE  Within(h, m)'
<1>1. CASE UNCHANGED <<buffer, chain>>
    BY <1>1 DEF Within
<1>2. CASE FlushAll(g) /\ h # g
    BY <1>2, FlushAllWorks DEF Within
<1>3. CASE FlushAll(g) /\ h = g
    <2>. DEFINE c == ChatOf[m]
    <2>1. c \in Chats /\ buffer[g][c] \in Seq(Messages) /\ chain[g][c] \in Batches
        BY Constants DEF Works
    <2>2. chain'[g][c] = IF buffer[g][c] = <<>> THEN chain[g][c] ELSE Append(chain[g][c], buffer[g][c])
        BY <1>3, <2>1 DEF FlushAll, Works
    <2>3. m \in Range(buffer[g][c]) => buffer[g][c] # <<>>
        BY DEF Range
    <2>4. m \in Range(buffer[g][c]) \/ In(chain[g][c], m) => In(chain'[g][c], m)
        BY <2>1, <2>2, <2>3, AppendFacts
    <2>. QED
        BY <1>3, <2>4 DEF Within
<1>. QED
    BY <1>1, <1>2, <1>3

LEMMA WithinStep ==
    ASSUME Bots, Works, [Next]_vars, NEW h \in Gates, NEW m \in Messages, Within(h, m), st'[h] # "off"
    PROVE  Within(h, m)' \/ m \in Range(log'[ChatOf[m]])
<1>. DEFINE c == ChatOf[m]
<1>0. /\ c \in Chats /\ buffer[h][c] \in Seq(Messages)
      /\ chain[h][c] \in Batches /\ turn[h][c] \in Batches
    BY Constants DEF Works
<1>1. CASE UNCHANGED <<buffer, chain, turn>>
    BY <1>1 DEF Within
<1>2. CASE UNCHANGED vars \/ Send \/ Tick
    BY <1>1, <1>2 DEF vars, msgVars, Send, Tick
<1>3. ASSUME NEW g \in Gates, Start(g) \/ Retry(g) \/ Poll(g) \/ PollFails(g) \/ BotStopped(g) \/ Drained(g)
      PROVE  UNCHANGED <<buffer, chain, turn>>
    BY <1>3 DEF Start, Retry, Poll, PollFails, BotStopped, Drained, msgVars
<1>4. ASSUME NEW g \in Gates, Receive(g) PROVE Within(h, m)'
    <2>. DEFINE n == Head(pending)
    <2>1. /\ pending # <<>> /\ UNCHANGED <<chain, turn>>
          /\ \/ buffer' = buffer
             \/ buffer' = [buffer EXCEPT ![g][ChatOf[n]] = Append(buffer[g][ChatOf[n]], n)]
        BY <1>4 DEF Receive
    <2>2. n \in Messages
        BY <2>1, HeadTailProperties DEF Works
    <2>3. buffer'[h][c] = buffer[h][c] \/ buffer'[h][c] = Append(buffer[h][c], n)
        <3>1. ASSUME NEW d, NEW b, buffer' = [buffer EXCEPT ![g][d] = b], d \in Chats
              PROVE  buffer'[h][c] = IF h = g /\ c = d THEN b ELSE buffer[h][c]
            BY <1>0, <3>1 DEF Works
        <3>2. ChatOf[n] \in Chats
            BY <2>2, Constants
        <3>. QED
            BY <2>1, <3>1, <3>2
    <2>4. Range(Append(buffer[h][c], n)) = Range(buffer[h][c]) \cup {n}
        BY <1>0, <2>2, RangeFacts
    <2>. QED
        BY <2>1, <2>3, <2>4 DEF Within
<1>5. ASSUME NEW g \in Gates, Stop(g) \/ Refresh(g) PROVE Within(h, m)'
    <2>1. (FlushAll(g) \/ UNCHANGED <<buffer, chain>>) /\ UNCHANGED turn
        BY <1>5 DEF Stop, Refresh, Stops, msgVars
    <2>. QED
        BY <2>1, FlushAllKeeps
<1>6. ASSUME NEW g \in Gates, Die(g) PROVE Within(h, m)'
    <2>1. /\ st' = Put(st, g, "off") /\ buffer' = Put(buffer, g, Nothing)
          /\ chain' = Put(chain, g, Nothing) /\ turn' = Put(turn, g, Nothing)
        BY <1>6 DEF Die
    <2>2. h # g
        BY <2>1 DEF Put, Bots
    <2>3. buffer'[h] = buffer[h] /\ chain'[h] = chain[h] /\ turn'[h] = turn[h]
        BY <2>1, <2>2 DEF Put, Works
    <2>. QED
        BY <2>3 DEF Within
<1>7. ASSUME NEW g \in Gates, NEW d \in Chats, Flush(g, d) PROVE Within(h, m)'
    <2>1. /\ buffer' = [buffer EXCEPT ![g][d] = <<>>] /\ turn' = turn
          /\ chain' = [chain EXCEPT ![g][d] = Append(chain[g][d], buffer[g][d])]
        BY <1>7 DEF Flush
    <2>2. CASE h = g /\ c = d
        <3>1. chain'[h][c] = Append(chain[h][c], buffer[h][c])
            BY <1>0, <2>1, <2>2 DEF Works
        <3>2. m \in Range(buffer[h][c]) \/ In(chain[h][c], m) => In(chain'[h][c], m)
            BY <1>0, <3>1, AppendFacts
        <3>. QED
            BY <2>1, <3>2 DEF Within
    <2>3. CASE h # g \/ c # d
        <3>1. buffer'[h][c] = buffer[h][c] /\ chain'[h][c] = chain[h][c]
            BY <1>0, <2>1, <2>3 DEF Works
        <3>. QED
            BY <2>1, <3>1 DEF Within
    <2>. QED
        BY <2>2, <2>3
<1>8. ASSUME NEW g \in Gates, NEW d \in Chats, BeginTurn(g, d) PROVE Within(h, m)'
    <2>1. /\ chain[g][d] # <<>> /\ buffer' = buffer
          /\ turn' = [turn EXCEPT ![g][d] = Append(turn[g][d], Head(chain[g][d]))]
          /\ chain' = [chain EXCEPT ![g][d] = Tail(chain[g][d])]
        BY <1>8 DEF BeginTurn
    <2>2. CASE h = g /\ c = d
        <3>1. turn'[h][c] = Append(turn[h][c], Head(chain[h][c])) /\ chain'[h][c] = Tail(chain[h][c])
            BY <1>0, <2>1, <2>2 DEF Works
        <3>2. CASE In(chain[h][c], m)
            <4>1. Head(chain[h][c]) \in Seq(Messages)
                  /\ (m \in Range(Head(chain[h][c])) \/ In(Tail(chain[h][c]), m))
                BY <1>0, <2>1, <2>2, <3>2, HeadFacts
            <4>. QED
                BY <1>0, <3>1, <4>1, AppendFacts DEF Within
        <3>3. CASE In(turn[h][c], m)
            <4>1. Head(chain[h][c]) \in Seq(Messages)
                BY <1>0, <2>1, <2>2, HeadTailProperties DEF Batches
            <4>. QED
                BY <1>0, <3>1, <3>3, <4>1, AppendFacts DEF Within
        <3>. QED
            BY <2>1, <3>2, <3>3 DEF Within
    <2>3. CASE h # g \/ c # d
        <3>1. turn'[h][c] = turn[h][c] /\ chain'[h][c] = chain[h][c]
            BY <1>0, <2>1, <2>3 DEF Works
        <3>. QED
            BY <2>1, <3>1 DEF Within
    <2>. QED
        BY <2>2, <2>3
<1>9. ASSUME NEW g \in Gates, NEW d \in Chats, EndTurn(g, d)
      PROVE  Within(h, m)' \/ m \in Range(log'[c])
    <2>1. PICK i \in DOMAIN turn[g][d] :
              /\ log' = [log EXCEPT ![d] = log[d] \o turn[g][d][i]]
              /\ turn' = [turn EXCEPT ![g][d] = RemoveAt(turn[g][d], i)]
        BY <1>9 DEF EndTurn
    <2>2. UNCHANGED <<buffer, chain>>
        BY <1>9 DEF EndTurn
    <2>3. CASE h = g /\ c = d
        <3>1. turn'[h][c] = RemoveAt(turn[h][c], i) /\ log'[c] = log[c] \o turn[h][c][i]
              /\ log[c] \in Seq(Messages)
            BY <1>0, <2>1, <2>3 DEF Works
        <3>2. ASSUME In(turn[h][c], m) PROVE In(turn'[h][c], m) \/ m \in Range(log'[c])
            <4>1. turn[h][c][i] \in Seq(Messages)
                  /\ (m \in Range(turn[h][c][i]) \/ In(RemoveAt(turn[h][c], i), m))
                BY <1>0, <2>1, <2>3, <3>2, RemoveFacts
            <4>2. Range(log'[c]) = Range(log[c]) \cup Range(turn[h][c][i])
                BY <3>1, <4>1, RangeFacts
            <4>. QED
                BY <3>1, <4>1, <4>2
        <3>. QED
            BY <2>2, <3>2 DEF Within
    <2>4. CASE h # g \/ c # d
        <3>1. turn'[h][c] = turn[h][c]
            BY <1>0, <2>1, <2>4 DEF Works
        <3>. QED
            BY <2>2, <3>1 DEF Within
    <2>. QED
        BY <2>3, <2>4
<1>. QED
    BY <1>1, <1>2, <1>3, <1>4, <1>5, <1>6, <1>7, <1>8, <1>9 DEF Next, Work

\* A message that a listener has leaves it only into the log, or with the process.
THEOREM KeptCorrect == Spec => KeptUntilTurned
<1> DEFINE Kept(g, m) == Has(g, m) => Has(g, m)' \/ st'[g] = "off" \/ m \in Range(log'[ChatOf[m]])
<1>1. Bots /\ Works /\ [Next]_vars => \A g \in Gates : \A m \in Messages : Kept(g, m)
    BY HasWithin, HasWithinNext, WithinStep, WorksStep
<1>2. Bots /\ Works /\ [Next]_vars => [\A g \in Gates : \A m \in Messages : Kept(g, m)]_vars
    BY <1>1
<1>. QED
    BY <1>2, TypeInit, FlagsStep, BotsStep, WorksStep, PTL DEF Spec, KeptUntilTurned
-----------------------------------------------------------------------------
(* InOrder: what one listener has of a chat is a line of batches, the turn *)
(* first and the debounce buffer last, and every message in it comes after *)
(* the log and before whatever Telegram still keeps or has yet to get.     *)

Ascending(s) == \A i, j \in DOMAIN s : i < j => s[i] < s[j]
Below(A, B)  == \A m \in A, n \in B : m < n

Ladder(q) ==
    \A i \in DOMAIN q : /\ Ascending(q[i])
                        /\ \A j \in DOMAIN q : i < j => Below(Range(q[i]), Range(q[j]))

Between(A, q, B) == \A i \in DOMAIN q : Below(A, Range(q[i])) /\ Below(Range(q[i]), B)

LEMMA AscendingAppend ==
    ASSUME NEW s \in Seq(Messages), NEW m \in Messages, Ascending(s), Below(Range(s), {m})
    PROVE  Ascending(Append(s, m))
<1>1. /\ Len(s) \in Nat /\ DOMAIN s = 1..Len(s) /\ DOMAIN Append(s, m) = 1..(Len(s) + 1)
      /\ Append(s, m)[Len(s) + 1] = m /\ \A i \in 1..Len(s) : Append(s, m)[i] = s[i]
    OBVIOUS
<1>2. \A i \in 1..Len(s) : s[i] < m
    BY <1>1 DEF Below, Range
<1>3. ASSUME NEW i \in 1..(Len(s) + 1), NEW j \in 1..(Len(s) + 1), i < j
      PROVE  Append(s, m)[i] < Append(s, m)[j]
    <2>1. i \in 1..Len(s) /\ (j \in 1..Len(s) \/ j = Len(s) + 1)
        BY <1>1, <1>3
    <2>. QED
        BY <1>1, <1>2, <1>3, <2>1 DEF Ascending
<1>. QED
    BY <1>1, <1>3 DEF Ascending

LEMMA AscendingTail ==
    ASSUME NEW s \in Seq(Messages), s # <<>>, Ascending(s)
    PROVE  /\ Ascending(Tail(s)) /\ Below({Head(s)}, Range(Tail(s)))
           /\ Range(Tail(s)) \subseteq Range(s) /\ Head(s) \in Range(s)
<1>1. /\ Len(s) \in Nat /\ Len(s) > 0 /\ DOMAIN s = 1..Len(s) /\ DOMAIN Tail(s) = 1..(Len(s) - 1)
      /\ Head(s) = s[1] /\ \A i \in 1..(Len(s) - 1) : Tail(s)[i] = s[i + 1]
    OBVIOUS
<1>2. \A i \in 1..(Len(s) - 1) : i + 1 \in 1..Len(s) /\ 1 < i + 1 /\ 1 \in 1..Len(s)
    BY <1>1
<1>3. Ascending(Tail(s))
    <2> SUFFICES ASSUME NEW i \in 1..(Len(s) - 1), NEW j \in 1..(Len(s) - 1), i < j
                 PROVE  Tail(s)[i] < Tail(s)[j]
        BY <1>1 DEF Ascending
    <2>1. i + 1 < j + 1
        BY <1>1
    <2>. QED
        BY <1>1, <1>2, <2>1 DEF Ascending
<1>. QED
    BY <1>1, <1>2, <1>3 DEF Ascending, Below, Range

LEMMA AscendingConcat ==
    ASSUME NEW s \in Seq(Messages), NEW t \in Seq(Messages),
           Ascending(s), Ascending(t), Below(Range(s), Range(t))
    PROVE  Ascending(s \o t)
<1>1. /\ Len(s) \in Nat /\ Len(t) \in Nat /\ DOMAIN s = 1..Len(s) /\ DOMAIN t = 1..Len(t)
      /\ DOMAIN (s \o t) = 1..(Len(s) + Len(t)) /\ \A i \in 1..Len(s) : (s \o t)[i] = s[i]
    OBVIOUS
<1>2. ASSUME NEW i \in 1..(Len(s) + Len(t)), i \notin 1..Len(s)
      PROVE  i - Len(s) \in 1..Len(t) /\ (s \o t)[i] = t[i - Len(s)]
    BY <1>1, <1>2
<1>3. ASSUME NEW i \in 1..(Len(s) + Len(t)), NEW j \in 1..(Len(s) + Len(t)), i < j
      PROVE  (s \o t)[i] < (s \o t)[j]
    <2>1. CASE i \in 1..Len(s) /\ j \in 1..Len(s)
        BY <1>1, <1>3, <2>1 DEF Ascending
    <2>2. CASE i \in 1..Len(s) /\ j \notin 1..Len(s)
        BY <1>1, <1>2, <2>2 DEF Below, Range
    <2>3. CASE i \notin 1..Len(s) /\ j \in 1..Len(s)
        BY <1>1, <1>3, <2>3
    <2>4. CASE i \notin 1..Len(s) /\ j \notin 1..Len(s)
        <3>1. i - Len(s) < j - Len(s)
            BY <1>1, <1>3
        <3>. QED
            BY <1>1, <1>2, <2>4, <3>1 DEF Ascending
    <2>. QED
        BY <2>1, <2>2, <2>3, <2>4
<1>. QED
    BY <1>1, <1>3 DEF Ascending

LEMMA NoneBelow ==
    /\ <<>> \in Seq(Messages) /\ Ascending(<<>>)
    /\ \A A : Below(A, Range(<<>>)) /\ Below(Range(<<>>), A)
BY DEF Ascending, Below, Range

\* One more batch at the end of the line.
LEMMA LadderAppend ==
    ASSUME NEW p \in Seq(Seq(Messages)), NEW b \in Seq(Messages)
    PROVE  Ladder(Append(p, b)) <=>
              Ladder(p) /\ Ascending(b) /\ \A i \in DOMAIN p : Below(Range(p[i]), Range(b))
<1>. DEFINE q == Append(p, b)
            n == Len(p)
<1>1. /\ n \in Nat /\ DOMAIN p = 1..n /\ DOMAIN q = 1..(n + 1) /\ q[n + 1] = b
      /\ \A i \in 1..n : q[i] = p[i]
    OBVIOUS
<1>2. \A i \in 1..(n + 1) : i \in 1..n \/ i = n + 1
    BY <1>1
<1>3. \A i \in 1..n : i \in 1..(n + 1) /\ i < n + 1 /\ ~(n + 1 < i)
    BY <1>1
<1>4. n + 1 \in 1..(n + 1) /\ ~(n + 1 < n + 1)
    BY <1>1
<1>. HIDE DEF q, n
<1>5. Ladder(q) => Ladder(p) /\ Ascending(b) /\ \A i \in DOMAIN p : Below(Range(p[i]), Range(b))
    <2> SUFFICES ASSUME Ladder(q)
                 PROVE  Ladder(p) /\ Ascending(b) /\ \A i \in DOMAIN p : Below(Range(p[i]), Range(b))
        OBVIOUS
    <2>1. Ascending(b)
        BY <1>1, <1>4 DEF Ladder
    <2>2. ASSUME NEW i \in DOMAIN p PROVE Below(Range(p[i]), Range(b))
        <3>1. Below(Range(q[i]), Range(q[n + 1]))
            BY <1>1, <1>3, <1>4 DEF Ladder
        <3>. QED
            BY <1>1, <3>1
    <2>3. ASSUME NEW i \in DOMAIN p
          PROVE  Ascending(p[i]) /\ \A j \in DOMAIN p : i < j => Below(Range(p[i]), Range(p[j]))
        <3>1. Ascending(q[i]) /\ \A j \in DOMAIN q : i < j => Below(Range(q[i]), Range(q[j]))
            BY <1>1, <1>3 DEF Ladder
        <3>. QED
            BY <1>1, <1>3, <3>1
    <2>. QED
        BY <2>1, <2>2, <2>3 DEF Ladder
<1>6. ASSUME Ladder(p), Ascending(b), \A i \in DOMAIN p : Below(Range(p[i]), Range(b))
      PROVE  Ladder(q)
    <2> SUFFICES ASSUME NEW i \in DOMAIN q
                 PROVE  /\ Ascending(q[i])
                        /\ \A j \in DOMAIN q : i < j => Below(Range(q[i]), Range(q[j]))
        BY DEF Ladder
    <2>1. CASE i = n + 1
        BY <1>1, <1>2, <1>3, <1>4, <1>6, <2>1
    <2>2. CASE i \in 1..n
        <3>1. q[i] = p[i] /\ i \in DOMAIN p
            BY <1>1, <2>2
        <3>2. Ascending(q[i])
            BY <1>6, <3>1 DEF Ladder
        <3>3. ASSUME NEW j \in DOMAIN q, i < j PROVE Below(Range(q[i]), Range(q[j]))
            <4>1. CASE j = n + 1
                BY <1>1, <1>6, <3>1, <4>1
            <4>2. CASE j \in 1..n
                BY <1>1, <1>6, <3>1, <3>3, <4>2 DEF Ladder
            <4>. QED
                BY <1>1, <1>2, <4>1, <4>2
        <3>. QED
            BY <3>2, <3>3
    <2>. QED
        BY <1>1, <1>2, <2>1, <2>2
<1>. QED
    BY <1>5, <1>6 DEF q

LEMMA BetweenAppend ==
    ASSUME NEW p \in Seq(Seq(Messages)), NEW b \in Seq(Messages), NEW A, NEW B
    PROVE  Between(A, Append(p, b), B) <=>
              Between(A, p, B) /\ Below(A, Range(b)) /\ Below(Range(b), B)
<1>. DEFINE q == Append(p, b)
            n == Len(p)
<1>1. /\ n \in Nat /\ DOMAIN p = 1..n /\ DOMAIN q = 1..(n + 1) /\ q[n + 1] = b
      /\ \A i \in 1..n : q[i] = p[i]
    OBVIOUS
<1>2. 1..(n + 1) = 1..n \cup {n + 1}
    BY <1>1
<1>. HIDE DEF q, n
<1>3. Between(A, q, B) <=> Between(A, p, B) /\ Below(A, Range(b)) /\ Below(Range(b), B)
    BY <1>1, <1>2 DEF Between
<1>. QED
    BY <1>3 DEF q

\* The first batch leaves the line.
LEMMA LadderTail ==
    ASSUME NEW q \in Seq(Seq(Messages)), q # <<>>, Ladder(q), NEW A, NEW B, Between(A, q, B)
    PROVE  /\ Ladder(Tail(q)) /\ Ascending(Head(q)) /\ Head(q) \in Seq(Messages)
           /\ Below(A, Range(Head(q))) /\ Below(Range(Head(q)), B)
           /\ Between(A \cup Range(Head(q)), Tail(q), B)
<1>. DEFINE r == Tail(q)
            n == Len(q)
<1>1. /\ n \in Nat /\ n > 0 /\ DOMAIN q = 1..n /\ DOMAIN r = 1..(n - 1) /\ Head(q) = q[1]
      /\ \A i \in 1..(n - 1) : r[i] = q[i + 1]
      /\ Head(q) \in Seq(Messages)
    OBVIOUS
<1>2. \A i \in 1..(n - 1) : i + 1 \in 1..n /\ 1 < i + 1
    BY <1>1
<1>3. 1 \in 1..n /\ \A i, j \in 1..(n - 1) : i < j => i + 1 < j + 1
    BY <1>1
<1>. HIDE DEF r, n
<1>4. Ascending(q[1]) /\ Below(A, Range(q[1])) /\ Below(Range(q[1]), B)
    BY <1>1, <1>3 DEF Ladder, Between
<1>5. ASSUME NEW i \in DOMAIN r
      PROVE  /\ Ascending(r[i]) /\ Below(A, Range(r[i])) /\ Below(Range(r[i]), B)
             /\ Below(Range(q[1]), Range(r[i]))
             /\ \A j \in DOMAIN r : i < j => Below(Range(r[i]), Range(r[j]))
    <2>1. i + 1 \in DOMAIN q /\ r[i] = q[i + 1] /\ 1 < i + 1 /\ 1 \in DOMAIN q
        BY <1>1, <1>2, <1>3
    <2>2. Ascending(r[i]) /\ Below(A, Range(r[i])) /\ Below(Range(r[i]), B)
        BY <2>1 DEF Ladder, Between
    <2>3. Below(Range(q[1]), Range(r[i]))
        BY <2>1 DEF Ladder
    <2>4. ASSUME NEW j \in DOMAIN r, i < j PROVE Below(Range(r[i]), Range(r[j]))
        <3>1. j + 1 \in DOMAIN q /\ r[j] = q[j + 1] /\ i + 1 < j + 1
            BY <1>1, <1>2, <1>3, <2>4
        <3>. QED
            BY <2>1, <3>1 DEF Ladder
    <2>. QED
        BY <2>2, <2>3, <2>4
<1>6. Ladder(r)
    BY <1>5 DEF Ladder
<1>7. Between(A \cup Range(q[1]), r, B)
    BY <1>5 DEF Between, Below
<1>. QED
    BY <1>1, <1>4, <1>6, <1>7 DEF r

LEMMA FirstRest ==
    ASSUME NEW T, NEW h \in T, NEW k \in Seq(T)
    PROVE  <<h>> \o k # <<>> /\ Head(<<h>> \o k) = h /\ Tail(<<h>> \o k) = k
<1>. DEFINE s == <<h>> \o k
<1>1. <<h>> \in Seq(T) /\ Len(<<h>>) = 1 /\ <<h>>[1] = h /\ Len(k) \in Nat
    OBVIOUS
<1>2. /\ s \in Seq(T) /\ Len(s) = 1 + Len(k)
      /\ \A i \in 1..(1 + Len(k)) : s[i] = IF i <= 1 THEN <<h>>[i] ELSE k[i - 1]
    BY <1>1, ConcatProperties
<1>. HIDE DEF s
<1>3. s # <<>> /\ Head(s) = h
    BY <1>1, <1>2
<1>4. /\ Tail(s) \in Seq(T) /\ Len(Tail(s)) = Len(s) - 1
      /\ \A i \in 1..Len(Tail(s)) : Tail(s)[i] = s[i + 1]
    BY <1>2, <1>3, HeadTailProperties
<1>5. Len(Tail(s)) = Len(k) /\ \A i \in 1..Len(k) : s[i + 1] = k[i]
    BY <1>1, <1>2, <1>4
<1>6. Tail(s) = k
    BY <1>4, <1>5, SeqEqual
<1>. QED
    BY <1>3, <1>6 DEF s

LEMMA Rejoin ==
    ASSUME NEW T, NEW t \in Seq(T), NEW k \in Seq(T), k # <<>>
    PROVE  Append(t, Head(k)) \o Tail(k) = t \o k
<1>1. Head(k) \in T /\ Tail(k) \in Seq(T) /\ <<Head(k)>> \in Seq(T)
    BY HeadTailProperties
<1>2. k = <<Head(k)>> \o Tail(k)
    OBVIOUS
<1>3. (t \o <<Head(k)>>) \o Tail(k) = t \o (<<Head(k)>> \o Tail(k))
    BY <1>1, ConcatAssociative
<1>4. Append(t, Head(k)) = t \o <<Head(k)>>
    BY <1>1, AppendIsConcat
<1>. QED
    BY <1>2, <1>3, <1>4

LEMMA MoveIn ==
    ASSUME NEW T, NEW t \in Seq(T), NEW k \in Seq(T), NEW b \in T
    PROVE  t \o Append(k, b) = Append(t \o k, b)
<1>1. <<b>> \in Seq(T) /\ t \o k \in Seq(T)
    OBVIOUS
<1>2. t \o (k \o <<b>>) = (t \o k) \o <<b>>
    BY <1>1, ConcatAssociative
<1>. QED
    BY <1>1, <1>2, AppendIsConcat

LEMMA OneTurn ==
    ASSUME NEW T, NEW t \in Seq(T), NEW k \in Seq(T), NEW b \in T, NEW i \in DOMAIN t, Len(t) <= 1
    PROVE  /\ t[i] \in T /\ RemoveAt(t, i) = <<>>
           /\ Append(t \o k, b) # <<>> /\ Head(Append(t \o k, b)) = t[i]
           /\ Tail(Append(t \o k, b)) = Append(k, b)
<1>1. i = 1 /\ Len(t) = 1 /\ t[1] \in T /\ t = <<t[1]>>
    <2>1. \A n \in Nat : n <= 1 => \A j \in 1..n : j = 1 /\ n = 1 /\ 1 \in 1..n
        OBVIOUS
    <2>2. i = 1 /\ Len(t) = 1 /\ 1 \in 1..Len(t)
        BY <2>1, LenProperties, Zenon
    <2>3. t[1] \in T
        BY <2>2, ElementOfSeq
    <2>4. \A e \in T : <<e>> \in Seq(T) /\ Len(<<e>>) = 1 /\ <<e>>[1] = e
        OBVIOUS
    <2>5. t = <<t[1]>>
        BY <2>2, <2>3, <2>4, SeqEqual
    <2>. QED
        BY <2>2, <2>3, <2>5
<1>2. RemoveAt(t, 1) = <<>>
    <2>1. SubSeq(t, 1, 1 - 1) = <<>> /\ SubSeq(t, 1 + 1, Len(t)) = <<>>
        BY <1>1, SubSeqEmpty
    <2>. QED
        BY <2>1 DEF RemoveAt
<1>3. t \o k \in Seq(T) /\ t \o k # <<>> /\ Head(t \o k) = t[1] /\ Tail(t \o k) = k
    <2>. DEFINE h == t[1]
    <2>1. h \in T /\ t = <<h>>
        BY <1>1
    <2>. HIDE DEF h
    <2>2. t \o k \in Seq(T) /\ <<h>> \o k # <<>> /\ Head(<<h>> \o k) = h /\ Tail(<<h>> \o k) = k
        BY <2>1, FirstRest, ConcatProperties
    <2>. QED
        BY <2>1, <2>2 DEF h
<1>4. /\ Append(t \o k, b) # <<>> /\ Head(Append(t \o k, b)) = Head(t \o k)
      /\ Tail(Append(t \o k, b)) = Append(Tail(t \o k), b)
    <2>. DEFINE s == t \o k
    <2>1. s \in Seq(T) /\ s # <<>>
        BY <1>3
    <2>. HIDE DEF s
    <2>2. Append(s, b) # <<>> /\ Head(Append(s, b)) = Head(s) /\ Tail(Append(s, b)) = Append(Tail(s), b)
        BY <2>1, HeadTailAppend, AppendProperties
    <2>. QED
        BY <2>2 DEF s
<1>. QED
    BY <1>1, <1>2, <1>3, <1>4
-----------------------------------------------------------------------------
Line(g, c) == Append(turn[g][c] \o chain[g][c], buffer[g][c])
Future     == Range(pending) \cup (Messages \ 1..sent)

LinedUp(g, c) == Ladder(Line(g, c)) /\ Between(Range(log[c]), Line(g, c), Future)
Logged(c)     == Ascending(log[c]) /\ Below(Range(log[c]), Future)
Ahead          == Ascending(pending) /\ \A m \in Range(pending) : m <= sent

OneTurnEach == \A g \in Gates, c \in Chats : Len(turn[g][c]) <= 1
Queued      == ~cut /\ ~stray /\ ~stolen =>
                  Ahead /\ \A c \in Chats : Logged(c) /\ \A g \in Gates : LinedUp(g, c)

LEMMA LineType ==
    ASSUME Works, NEW g \in Gates, NEW c \in Chats
    PROVE  /\ buffer[g][c] \in Seq(Messages) /\ log[c] \in Seq(Messages)
           /\ chain[g][c] \in Seq(Seq(Messages)) /\ turn[g][c] \in Seq(Seq(Messages))
           /\ turn[g][c] \o chain[g][c] \in Seq(Seq(Messages))
           /\ Line(g, c) \in Seq(Seq(Messages))
<1>1. /\ buffer[g][c] \in Seq(Messages) /\ log[c] \in Seq(Messages)
      /\ chain[g][c] \in Seq(Seq(Messages)) /\ turn[g][c] \in Seq(Seq(Messages))
    BY DEF Works, Batches
<1>2. turn[g][c] \o chain[g][c] \in Seq(Seq(Messages))
    BY <1>1, ConcatProperties
<1>. QED
    BY <1>1, <1>2, AppendProperties DEF Line

\* The only cells with messages are the lock holder's.
LEMMA OthersIdle ==
    ASSUME Bots, Clean, Poller, ~cut, ~stray, ~stolen, NEW g \in Gates, NEW c \in Chats, lock # g
    PROVE  Idle(g, c)
<1>1. CleanAt(g) /\ ~Held(g) /\ CleanCell(g, c)
    BY DEF Clean, Poller, CleanAt
<1>2. st[g] \in {"off", "waiting", "gaveup", "starting"} \/ stop[g] = "done"
    BY <1>1 DEF CleanAt, Held, Bots, States
<1>. QED
    BY <1>1, <1>2 DEF CleanCell, Idle


LEMMA EmptyLine ==
    ASSUME NEW A, NEW B
    PROVE  Ladder(Append(<<>> \o <<>>, <<>>)) /\ Between(A, Append(<<>> \o <<>>, <<>>), B)
<1>1. <<>> \o <<>> = <<>> /\ <<>> \in Seq(Seq(Messages)) /\ <<>> \in Seq(Messages)
    OBVIOUS
<1>2. Ladder(<<>>) /\ Between(A, <<>>, B)
    BY DEF Ladder, Between
<1>3. Ladder(Append(<<>>, <<>>)) /\ Between(A, Append(<<>>, <<>>), B)
    BY <1>1, <1>2, NoneBelow, LadderAppend, BetweenAppend
<1>. QED
    BY <1>1, <1>3

LEMMA IdleLinedUp ==
    ASSUME NEW g \in Gates, NEW c \in Chats, Idle(g, c)'
    PROVE  LinedUp(g, c)'
BY EmptyLine DEF Idle, LinedUp, Line

LEMMA FewerAhead ==
    ASSUME NEW A, NEW q \in Seq(Seq(Messages)), NEW B, NEW C, C \subseteq B
    PROVE  (Between(A, q, B) => Between(A, q, C)) /\ (Below(A, B) => Below(A, C))
BY DEF Between, Below

\* A cell whose line stays, or gets an empty batch, is as good as before.
LEMMA SameLine ==
    ASSUME Works, NEW g \in Gates, NEW c \in Chats, LinedUp(g, c), log'[c] = log[c],
           Future' \subseteq Future,
           Line(g, c)' = Line(g, c) \/ Line(g, c)' = Append(Line(g, c), <<>>)
    PROVE  LinedUp(g, c)'
<1>1. Line(g, c) \in Seq(Seq(Messages)) /\ <<>> \in Seq(Messages)
    BY LineType
<1>2. Ladder(Line(g, c)) /\ Between(Range(log[c]), Line(g, c), Future')
    BY <1>1, FewerAhead DEF LinedUp
<1>3. Ladder(Append(Line(g, c), <<>>)) /\ Between(Range(log[c]), Append(Line(g, c), <<>>), Future')
    BY <1>1, <1>2, NoneBelow, LadderAppend, BetweenAppend
<1>. QED
    BY <1>2, <1>3 DEF LinedUp

LEMMA SameLog ==
    ASSUME NEW c \in Chats, Logged(c), log'[c] = log[c], Future' \subseteq Future
    PROVE  Logged(c)'
BY DEF Logged, Below

\* What Telegram keeps, with what will yet be sent, only gets smaller.
LEMMA KeptStep ==
    ASSUME Works, Ahead, [Next]_vars
    PROVE  Ahead' /\ Future' \subseteq Future
<1>0. sent \in Nat /\ pending \in Seq(Messages) /\ Len(ChatOf) \in Nat
    BY Constants DEF Works
<1>1. CASE UNCHANGED <<sent, pending>>
    BY <1>1 DEF Ahead, Future
<1>2. CASE UNCHANGED vars \/ Tick
    BY <1>1, <1>2 DEF vars, msgVars, Tick
<1>3. CASE Send
    <2>. DEFINE m == sent + 1
    <2>1. sent < Len(ChatOf) /\ sent' = m /\ pending' = Append(pending, m)
        BY <1>3 DEF Send
    <2>2. m \in Messages \ 1..sent /\ \A n \in Messages : n <= sent => n < m /\ n <= m
        BY <1>0, <2>1 DEF Messages
    <2>3. Range(pending) \subseteq Messages
        BY <1>0, RangeOfSeq
    <2>4. Below(Range(pending), {m})
        BY <2>2, <2>3 DEF Ahead, Below
    <2>5. Ascending(pending') /\ Range(pending') = Range(pending) \cup {m}
        BY <1>0, <2>1, <2>2, <2>4, AscendingAppend, RangeFacts DEF Ahead
    <2>6. Messages \ 1..sent' \subseteq Messages \ 1..sent
        BY <1>0, <2>1
    <2>7. \A n \in Range(pending') : n <= sent'
        BY <1>0, <2>1, <2>2, <2>3, <2>5 DEF Ahead
    <2>. QED
        BY <2>2, <2>5, <2>6, <2>7 DEF Ahead, Future
<1>4. ASSUME NEW g \in Gates, Poll(g) PROVE Ahead' /\ Future' \subseteq Future
    <2>1. pending' = <<>> /\ sent' = sent
        BY <1>4 DEF Poll
    <2>2. Range(pending') = {}
        BY <2>1 DEF Range
    <2>. QED
        BY <2>1, <2>2, NoneBelow DEF Ahead, Future
<1>5. ASSUME NEW g \in Gates, Receive(g) PROVE Ahead' /\ Future' \subseteq Future
    <2>1. pending # <<>> /\ pending' = Tail(pending) /\ sent' = sent
        BY <1>5 DEF Receive
    <2>. QED
        BY <1>0, <2>1, AscendingTail DEF Ahead, Future
<1>6. ASSUME NEW g \in Gates,
             \/ Start(g) \/ Retry(g) \/ PollFails(g) \/ Stop(g) \/ BotStopped(g) \/ Drained(g)
             \/ Refresh(g) \/ Die(g) \/ \E c \in Chats : Work(g, c)
      PROVE  UNCHANGED <<sent, pending>>
    BY <1>6 DEF Start, Retry, PollFails, Stop, Stops, BotStopped, Drained, Refresh, Die, Work,
                Flush, BeginTurn, EndTurn, msgVars
<1>. QED
    BY <1>1, <1>2, <1>3, <1>4, <1>5, <1>6 DEF Next

LEMMA ReceivedNext ==
    ASSUME Works, Ahead, pending # <<>>, pending' = Tail(pending), sent' = sent
    PROVE  /\ Head(pending) \in Messages /\ Head(pending) \in Future
           /\ Below({Head(pending)}, Future')
<1>0. sent \in Nat /\ pending \in Seq(Messages) /\ Len(ChatOf) \in Nat
    BY Constants DEF Works
<1>. DEFINE m == Head(pending)
<1>1. m \in Range(pending) /\ Below({m}, Range(Tail(pending))) /\ m \in Messages
    BY <1>0, AscendingTail, HeadTailProperties DEF Ahead
<1>2. m <= sent
    BY <1>1 DEF Ahead
<1>3. \A n \in Messages \ 1..sent : m < n
    BY <1>0, <1>1, <1>2 DEF Messages
<1>. QED
    BY <1>1, <1>3 DEF Below, Future

LEMMA ReceivedLine ==
    ASSUME Works, Ahead, NEW g \in Gates, NEW c \in Chats, Receive(g), Future' \subseteq Future,
           c = ChatOf[Head(pending)], LinedUp(g, c), Logged(c),
           buffer'[g][c] = Append(buffer[g][c], Head(pending))
    PROVE  LinedUp(g, c)'
<1>. DEFINE m == Head(pending)
            b == buffer[g][c]
            p == turn[g][c] \o chain[g][c]
            A == Range(log[c])
<1>1. pending # <<>> /\ pending' = Tail(pending) /\ UNCHANGED <<sent, chain, turn, log>>
    BY DEF Receive
<1>2. m \in Messages /\ m \in Future /\ Below({m}, Future')
    BY <1>1, ReceivedNext
<1>3. p \in Seq(Seq(Messages)) /\ b \in Seq(Messages) /\ Append(b, m) \in Seq(Messages)
    BY <1>2, LineType
<1>4. Line(g, c) = Append(p, b) /\ Line(g, c)' = Append(p, Append(b, m))
    BY <1>1 DEF Line
<1>. HIDE DEF m, b, p, A
<1>5. /\ Ladder(p) /\ Ascending(b) /\ \A i \in DOMAIN p : Below(Range(p[i]), Range(b))
      /\ Between(A, p, Future) /\ Below(A, Range(b)) /\ Below(Range(b), Future)
    BY <1>3, <1>4, LadderAppend, BetweenAppend DEF LinedUp, A
<1>6. Range(Append(b, m)) = Range(b) \cup {m}
    BY <1>2, <1>3, RangeFacts
<1>7. Ascending(Append(b, m))
    BY <1>2, <1>3, <1>5, AscendingAppend DEF Below
<1>8. ASSUME NEW i \in DOMAIN p PROVE Below(Range(p[i]), Range(Append(b, m)))
    BY <1>2, <1>5, <1>6 DEF Below, Between
<1>9. Below(Range(Append(b, m)), Future')
    BY <1>2, <1>5, <1>6 DEF Below
<1>10. Below(A, Range(Append(b, m)))
    BY <1>2, <1>5, <1>6 DEF Logged, A, Below
<1>11. Ladder(Append(p, Append(b, m)))
    BY <1>3, <1>5, <1>7, <1>8, LadderAppend
<1>12. Between(A, p, Future')
    BY <1>3, <1>5, FewerAhead
<1>13. Between(A, Append(p, Append(b, m)), Future')
    BY <1>3, <1>9, <1>10, <1>12, BetweenAppend
<1>. QED
    BY <1>1, <1>4, <1>11, <1>13 DEF LinedUp, A

LEMMA OneTurnStep == Works /\ OneTurnEach /\ [Next]_vars => OneTurnEach'
<1> SUFFICES ASSUME Works, OneTurnEach, [Next]_vars, NEW h \in Gates, NEW d \in Chats
             PROVE  Len(turn'[h][d]) <= 1
    BY DEF OneTurnEach
<1>0. Len(turn[h][d]) <= 1 /\ turn[h][d] \in Seq(Seq(Messages))
    BY LineType DEF OneTurnEach
<1>1. CASE UNCHANGED turn
    BY <1>0, <1>1
<1>2. CASE UNCHANGED vars \/ Send \/ Tick
    BY <1>1, <1>2 DEF vars, msgVars, Send, Tick
<1>3. ASSUME NEW g \in Gates,
             \/ Start(g) \/ Retry(g) \/ Poll(g) \/ PollFails(g) \/ Receive(g) \/ Stop(g)
             \/ BotStopped(g) \/ Drained(g) \/ Refresh(g)
      PROVE  UNCHANGED turn
    BY <1>3 DEF Start, Retry, Poll, PollFails, Receive, Stop, Stops, BotStopped, Drained, Refresh, msgVars
<1>4. ASSUME NEW g \in Gates, Die(g) PROVE Len(turn'[h][d]) <= 1
    <2>1. turn' = [turn EXCEPT ![g] = Nothing]
        BY <1>4 DEF Die, Put
    <2>2. turn'[h][d] = turn[h][d] \/ turn'[h][d] = <<>>
        BY <2>1, Empties DEF Works
    <2>. QED
        BY <1>0, <2>2
<1>5. ASSUME NEW g \in Gates, NEW c \in Chats, Flush(g, c) PROVE UNCHANGED turn
    BY <1>5 DEF Flush
<1>6. ASSUME NEW g \in Gates, NEW c \in Chats, BeginTurn(g, c) PROVE Len(turn'[h][d]) <= 1
    <2>. DEFINE b == Head(chain[g][c])
    <2>1. turn[g][c] = <<>> /\ turn' = [turn EXCEPT ![g][c] = Append(turn[g][c], b)]
        BY <1>6 DEF BeginTurn
    <2>2. turn'[h][d] = turn[h][d] \/ turn'[h][d] = Append(<<>>, b)
        BY <2>1 DEF Works
    <2>3. Len(Append(<<>>, b)) = 1
        OBVIOUS
    <2>4. CASE turn'[h][d] = Append(<<>>, b)
        <3>1. Len(turn'[h][d]) = 1
            BY <2>3, <2>4, Zenon
        <3>. QED
            BY <3>1
    <2>. QED
        BY <1>0, <2>2, <2>4
<1>7. ASSUME NEW g \in Gates, NEW c \in Chats, EndTurn(g, c) PROVE Len(turn'[h][d]) <= 1
    <2>1. PICK i \in DOMAIN turn[g][c] : turn' = [turn EXCEPT ![g][c] = RemoveAt(turn[g][c], i)]
        BY <1>7 DEF EndTurn
    <2>2. Len(turn[g][c]) <= 1 /\ turn[g][c] \in Seq(Seq(Messages))
        BY LineType DEF OneTurnEach
    <2>3. Len(RemoveAt(turn[g][c], i)) <= 1
        BY <2>2, RemoveAtFacts
    <2>4. turn'[h][d] = turn[h][d] \/ turn'[h][d] = RemoveAt(turn[g][c], i)
        BY <2>1 DEF Works
    <2>. QED
        BY <1>0, <2>3, <2>4
<1>. QED
    BY <1>1, <1>2, <1>3, <1>4, <1>5, <1>6, <1>7 DEF Next, Work

\* A turn that ends takes its batch from the head of the line to the end of the log.
LEMMA EndedLine ==
    ASSUME Works, OneTurnEach, NEW g \in Gates, NEW c \in Chats, EndTurn(g, c),
           LinedUp(g, c), Logged(c), Future' \subseteq Future
    PROVE  /\ LinedUp(g, c)' /\ Logged(c)' /\ turn[g][c] # <<>>
           /\ \A h \in Gates, d \in Chats : h # g \/ d # c => turn'[h][d] = turn[h][d]
           /\ \A d \in Chats \ {c} : log'[d] = log[d]
<1>. DEFINE t == turn[g][c]
            k == chain[g][c]
            b == buffer[g][c]
            A == Range(log[c])
<1>1. PICK i \in DOMAIN t : /\ log' = [log EXCEPT ![c] = log[c] \o t[i]]
                            /\ turn' = [turn EXCEPT ![g][c] = RemoveAt(t, i)]
    BY DEF EndTurn
<1>2. UNCHANGED <<buffer, chain>>
    BY DEF EndTurn
<1>3. /\ t \in Seq(Seq(Messages)) /\ k \in Seq(Seq(Messages)) /\ b \in Seq(Messages)
      /\ log[c] \in Seq(Messages) /\ Line(g, c) \in Seq(Seq(Messages)) /\ Len(t) <= 1
    BY LineType DEF OneTurnEach
<1>4. /\ t[i] \in Seq(Messages) /\ RemoveAt(t, i) = <<>>
      /\ Line(g, c) # <<>> /\ Head(Line(g, c)) = t[i] /\ Tail(Line(g, c)) = Append(k, b)
    <2>1. Line(g, c) = Append(t \o k, b)
        BY DEF Line
    <2>. HIDE DEF t, k, b
    <2>. QED
        BY <1>3, <2>1, OneTurn
<1>5. turn'[g][c] = <<>> /\ log'[c] = log[c] \o t[i]
    BY <1>1, <1>4 DEF Works
<1>6. Line(g, c)' = Tail(Line(g, c))
    <2>1. <<>> \o k = k
        BY <1>3, ConcatEmptySeq
    <2>. QED
        BY <1>2, <1>4, <1>5, <2>1 DEF Line
<1>7. Range(log'[c]) = A \cup Range(t[i])
    <2>. DEFINE l == log[c]
                u == t[i]
    <2>1. l \in Seq(Messages) /\ u \in Seq(Messages) /\ log'[c] = l \o u /\ A = Range(l)
        BY <1>3, <1>4, <1>5
    <2>. HIDE DEF l, u
    <2>2. Range(l \o u) = Range(l) \cup Range(u)
        BY <2>1, RangeConcatenation
    <2>. QED
        BY <2>1, <2>2 DEF u
<1>8. /\ Ladder(Tail(Line(g, c))) /\ Ascending(t[i]) /\ Below(A, Range(t[i])) /\ Below(Range(t[i]), Future)
      /\ Between(A \cup Range(t[i]), Tail(Line(g, c)), Future)
    BY <1>3, <1>4, LadderTail DEF LinedUp
<1>9. Tail(Line(g, c)) \in Seq(Seq(Messages))
    BY <1>3, <1>4, HeadTailProperties
<1>10. LinedUp(g, c)'
    <2>1. Between(A \cup Range(t[i]), Tail(Line(g, c)), Future')
        BY <1>8, <1>9, FewerAhead
    <2>. QED
        BY <1>6, <1>7, <1>8, <2>1 DEF LinedUp
<1>11. Logged(c)'
    <2>1. Ascending(log[c] \o t[i])
        BY <1>3, <1>4, <1>8, AscendingConcat DEF Logged
    <2>2. Below(A \cup Range(t[i]), Future')
        BY <1>8 DEF Logged, Below
    <2>. QED
        BY <1>5, <1>7, <2>1, <2>2 DEF Logged
<1>12. /\ \A h \in Gates, d \in Chats : h # g \/ d # c => turn'[h][d] = turn[h][d]
       /\ \A d \in Chats \ {c} : log'[d] = log[d]
    BY <1>1 DEF Works
<1>13. t # <<>>
    BY <1>1, <1>3
<1>. QED
    BY <1>10, <1>11, <1>12, <1>13

\* The steps that leave every log alone and give a line at most an empty batch.
LEMMA QuietLines ==
    ASSUME Works, NEW c \in Chats, Logged(c), \A g \in Gates : LinedUp(g, c), log'[c] = log[c],
           Future' \subseteq Future,
           \A g \in Gates : \/ Line(g, c)' = Line(g, c) \/ Line(g, c)' = Append(Line(g, c), <<>>)
                            \/ Idle(g, c)' \/ LinedUp(g, c)'
    PROVE  Logged(c)' /\ \A g \in Gates : LinedUp(g, c)'
BY SameLog, SameLine, IdleLinedUp

LEMMA FlushAllLine ==
    ASSUME Works, NEW g \in Gates, FlushAll(g) \/ UNCHANGED <<buffer, chain>>, UNCHANGED turn,
           NEW h \in Gates, NEW c \in Chats
    PROVE  Line(h, c)' = Line(h, c) \/ Line(h, c)' = Append(Line(h, c), <<>>)
<1>1. CASE UNCHANGED <<buffer, chain>>
    BY <1>1 DEF Line
<1>2. CASE FlushAll(g) /\ h # g
    BY <1>2, FlushAllWorks DEF Line
<1>3. CASE FlushAll(g) /\ h = g
    <2>. DEFINE t == turn[h][c]
                k == chain[h][c]
                b == buffer[h][c]
    <2>1. t \in Seq(Seq(Messages)) /\ k \in Seq(Seq(Messages)) /\ b \in Seq(Messages)
        BY LineType
    <2>2. chain'[h][c] = (IF b = <<>> THEN k ELSE Append(k, b)) /\ buffer'[h][c] = <<>>
        BY <1>3 DEF FlushAll, Works, Nothing
    <2>3. t \o Append(k, b) = Append(t \o k, b)
        <3>. HIDE DEF t, k, b
        <3>. QED
            BY <2>1, MoveIn
    <2>. QED
        BY <2>2, <2>3 DEF Line
<1>. QED
    BY <1>1, <1>2, <1>3

LEMMA FlagsStay ==
    ASSUME Flags, [Next]_vars
    PROVE  (cut => cut') /\ (stray => stray') /\ (stolen => stolen')
<1>1. CASE UNCHANGED vars \/ Send \/ Tick
    BY <1>1 DEF vars, history, Send, Tick
<1>2. ASSUME NEW g \in Gates, Acquire(g) PROVE stolen => stolen'
    BY <1>2 DEF Acquire, Granted, Refused, Flags
<1>3. ASSUME NEW g \in Gates, Start(g) \/ Retry(g)
      PROVE (cut => cut') /\ (stray => stray') /\ (stolen => stolen')
    BY <1>2, <1>3 DEF Start, Retry
<1>4. ASSUME NEW g \in Gates, Stop(g) \/ Refresh(g)
      PROVE (cut => cut') /\ (stray => stray') /\ (stolen => stolen')
    BY <1>4 DEF Stop, Refresh, Stops, Flags, history
<1>5. ASSUME NEW g \in Gates, Poll(g) \/ PollFails(g) \/ Receive(g) \/ BotStopped(g) \/ Drained(g) \/ Die(g)
      PROVE (cut => cut') /\ (stray => stray') /\ (stolen => stolen')
    BY <1>5 DEF Poll, PollFails, Receive, BotStopped, Drained, Die, Flags, history
<1>6. ASSUME NEW g \in Gates, NEW c \in Chats, Work(g, c)
      PROVE (cut => cut') /\ (stray => stray') /\ (stolen => stolen')
    <2>1. UNCHANGED history
        BY <1>6, Zenon DEF Work, Flush, BeginTurn, EndTurn
    <2>. QED
        BY <2>1 DEF history
<1>. QED
    BY <1>1, <1>3, <1>4, <1>5, <1>6 DEF Next

LEMMA QueuedStep ==
    Flags /\ Bots /\ Works /\ Clean /\ Poller /\ OneTurnEach /\ Queued /\ [Next]_vars => Queued'
<1> SUFFICES ASSUME Flags, Bots, Works, Clean, Poller, OneTurnEach, Queued, [Next]_vars,
                    ~cut', ~stray', ~stolen'
             PROVE  Ahead' /\ \A c \in Chats : Logged(c)' /\ \A g \in Gates : LinedUp(g, c)'
    BY DEF Queued
<1>0. ~cut /\ ~stray /\ ~stolen
    BY FlagsStay
<1>1. Ahead /\ \A c \in Chats : Logged(c) /\ \A g \in Gates : LinedUp(g, c)
    BY <1>0 DEF Queued
<1>2. Ahead' /\ Future' \subseteq Future
    BY <1>1, KeptStep
<1> SUFFICES ASSUME NEW c \in Chats PROVE Logged(c)' /\ \A g \in Gates : LinedUp(g, c)'
    BY <1>2
<1>3. CASE UNCHANGED <<buffer, chain, turn, log>>
    <2>1. \A g \in Gates : Line(g, c)' = Line(g, c)
        BY <1>3 DEF Line
    <2>. QED
        BY <1>1, <1>2, <1>3, <2>1, QuietLines
<1>4. CASE UNCHANGED vars \/ Send \/ Tick
    BY <1>3, <1>4 DEF vars, msgVars, Send, Tick
<1>5. ASSUME NEW g \in Gates, Start(g) \/ Retry(g) \/ Poll(g) \/ PollFails(g) \/ BotStopped(g) \/ Drained(g)
      PROVE  UNCHANGED <<buffer, chain, turn, log>>
    BY <1>5 DEF Start, Retry, Poll, PollFails, BotStopped, Drained, msgVars
<1>6. ASSUME NEW g \in Gates, Receive(g) PROVE Logged(c)' /\ \A h \in Gates : LinedUp(h, c)'
    <2>. DEFINE m == Head(pending)
    <2>1. /\ pending # <<>> /\ UNCHANGED <<chain, turn, log>>
          /\ \/ buffer' = buffer
             \/ buffer' = [buffer EXCEPT ![g][ChatOf[m]] = Append(buffer[g][ChatOf[m]], m)]
        BY <1>6 DEF Receive
    <2>2. m \in Messages /\ ChatOf[m] \in Chats
        BY <2>1, HeadTailProperties, Constants DEF Works
    <2>3. ASSUME NEW h \in Gates PROVE Line(h, c)' = Line(h, c) \/ LinedUp(h, c)'
        <3>1. CASE buffer'[h][c] = buffer[h][c]
            BY <2>1, <3>1 DEF Line
        <3>2. CASE buffer'[h][c] # buffer[h][c]
            <4>1. ASSUME NEW d \in Chats, NEW b, buffer' = [buffer EXCEPT ![g][d] = b]
                  PROVE  h = g /\ c = d /\ buffer'[h][c] = b
                BY <3>2, <4>1 DEF Works
            <4>2. buffer' = [buffer EXCEPT ![g][ChatOf[m]] = Append(buffer[g][ChatOf[m]], m)]
                BY <2>1, <3>2
            <4>3. h = g /\ c = ChatOf[m] /\ buffer'[h][c] = Append(buffer[h][c], m)
                BY <2>2, <4>1, <4>2
            <4>. QED
                BY <1>1, <1>2, <1>6, <4>3, ReceivedLine
        <3>. QED
            BY <3>1, <3>2
    <2>. QED
        BY <1>1, <1>2, <2>1, <2>3, QuietLines
<1>7. ASSUME NEW g \in Gates, Stop(g) \/ Refresh(g) PROVE Logged(c)' /\ \A h \in Gates : LinedUp(h, c)'
    <2>1. (FlushAll(g) \/ UNCHANGED <<buffer, chain>>) /\ UNCHANGED <<turn, log>>
        BY <1>7 DEF Stop, Refresh, Stops, msgVars
    <2>2. \A h \in Gates : Line(h, c)' = Line(h, c) \/ Line(h, c)' = Append(Line(h, c), <<>>)
        BY <2>1, FlushAllLine
    <2>. QED
        BY <1>1, <1>2, <2>1, <2>2, QuietLines
<1>8. ASSUME NEW g \in Gates, Die(g) PROVE Logged(c)' /\ \A h \in Gates : LinedUp(h, c)'
    <2>1. /\ buffer' = [buffer EXCEPT ![g] = Nothing] /\ chain' = [chain EXCEPT ![g] = Nothing]
          /\ turn' = [turn EXCEPT ![g] = Nothing] /\ log' = log
        BY <1>8 DEF Die, Put
    <2>2. ASSUME NEW h \in Gates PROVE Line(h, c)' = Line(h, c) \/ Idle(h, c)'
        <3>1. CASE h = g
            BY <2>1, <3>1, Empties DEF Works, Idle
        <3>2. CASE h # g
            BY <2>1, <3>2 DEF Works, Line
        <3>. QED
            BY <3>1, <3>2
    <2>. QED
        BY <1>1, <1>2, <2>1, <2>2, QuietLines
<1>9. ASSUME NEW g \in Gates, NEW d \in Chats, Flush(g, d) PROVE Logged(c)' /\ \A h \in Gates : LinedUp(h, c)'
    <2>1. /\ buffer' = [buffer EXCEPT ![g][d] = <<>>] /\ UNCHANGED <<turn, log>>
          /\ chain' = [chain EXCEPT ![g][d] = Append(chain[g][d], buffer[g][d])]
        BY <1>9 DEF Flush
    <2>2. ASSUME NEW h \in Gates PROVE Line(h, c)' = Line(h, c) \/ Line(h, c)' = Append(Line(h, c), <<>>)
        <3>1. CASE h # g \/ c # d
            BY <2>1, <3>1 DEF Works, Line
        <3>2. CASE h = g /\ c = d
            <4>. DEFINE t == turn[g][c]
                        k == chain[g][c]
                        b == buffer[g][c]
            <4>1. t \in Seq(Seq(Messages)) /\ k \in Seq(Seq(Messages)) /\ b \in Seq(Messages)
                BY LineType
            <4>2. buffer'[g][c] = <<>> /\ chain'[g][c] = Append(k, b) /\ turn'[g][c] = t
                BY <2>1, <3>2 DEF Works
            <4>3. t \o Append(k, b) = Append(t \o k, b)
                <5>. HIDE DEF t, k, b
                <5>. QED
                    BY <4>1, MoveIn
            <4>. QED
                BY <3>2, <4>2, <4>3 DEF Line
        <3>. QED
            BY <3>1, <3>2
    <2>. QED
        BY <1>1, <1>2, <2>1, <2>2, QuietLines
<1>10. ASSUME NEW g \in Gates, NEW d \in Chats, BeginTurn(g, d)
       PROVE  Logged(c)' /\ \A h \in Gates : LinedUp(h, c)'
    <2>1. /\ chain[g][d] # <<>> /\ UNCHANGED <<buffer, log>>
          /\ turn' = [turn EXCEPT ![g][d] = Append(turn[g][d], Head(chain[g][d]))]
          /\ chain' = [chain EXCEPT ![g][d] = Tail(chain[g][d])]
        BY <1>10 DEF BeginTurn
    <2>2. ASSUME NEW h \in Gates PROVE Line(h, c)' = Line(h, c)
        <3>1. CASE h # g \/ c # d
            BY <2>1, <3>1 DEF Works, Line
        <3>2. CASE h = g /\ c = d
            <4>. DEFINE t == turn[g][c]
                        k == chain[g][c]
            <4>1. t \in Seq(Seq(Messages)) /\ k \in Seq(Seq(Messages)) /\ k # <<>>
                BY <2>1, <3>2, LineType
            <4>2. turn'[g][c] = Append(t, Head(k)) /\ chain'[g][c] = Tail(k)
                BY <2>1, <3>2 DEF Works
            <4>3. Append(t, Head(k)) \o Tail(k) = t \o k
                <5>. HIDE DEF t, k
                <5>. QED
                    BY <4>1, Rejoin
            <4>. QED
                BY <2>1, <3>2, <4>2, <4>3 DEF Line
        <3>. QED
            BY <3>1, <3>2
    <2>. QED
        BY <1>1, <1>2, <2>1, <2>2, QuietLines
<1>11. ASSUME NEW g \in Gates, NEW d \in Chats, EndTurn(g, d)
       PROVE  Logged(c)' /\ \A h \in Gates : LinedUp(h, c)'
    <2>1. UNCHANGED <<buffer, chain>>
        BY <1>11 DEF EndTurn
    <2>2. /\ LinedUp(g, d)' /\ Logged(d)' /\ turn[g][d] # <<>>
          /\ \A h \in Gates, e \in Chats : h # g \/ e # d => turn'[h][e] = turn[h][e]
          /\ \A e \in Chats \ {d} : log'[e] = log[e]
        BY <1>1, <1>2, <1>11, EndedLine
    <2>3. CASE c # d
        <3>1. \A h \in Gates : Line(h, c)' = Line(h, c)
            BY <2>1, <2>2, <2>3 DEF Line
        <3>. QED
            BY <1>1, <1>2, <2>2, <2>3, <3>1, QuietLines
    <2>4. CASE c = d
        <3>1. ASSUME NEW h \in Gates \ {g} PROVE LinedUp(h, c)'
            <4>1. lock = g
                BY <1>0, <2>2, OthersIdle DEF Idle
            <4>2. Idle(h, c)
                BY <1>0, <4>1, OthersIdle
            <4>3. Idle(h, c)'
                BY <2>1, <2>2, <4>2 DEF Idle
            <4>. QED
                BY <4>3, IdleLinedUp
        <3>. QED
            BY <2>2, <2>4, <3>1
    <2>. QED
        BY <2>3, <2>4
<1>. QED
    BY <1>3, <1>4, <1>5, <1>6, <1>7, <1>8, <1>9, <1>10, <1>11 DEF Next, Work

LEMMA QueuedInit == Init => OneTurnEach /\ Queued
<1> SUFFICES ASSUME Init PROVE OneTurnEach /\ Queued
    OBVIOUS
<1>1. \A g \in Gates, c \in Chats : Idle(g, c) /\ log[c] = <<>>
    BY Empties DEF Init, Idle
<1>2. ASSUME NEW g \in Gates, NEW c \in Chats PROVE LinedUp(g, c) /\ Len(turn[g][c]) <= 1
    <2>1. Line(g, c) = Append(<<>> \o <<>>, <<>>) /\ turn[g][c] = <<>>
        BY <1>1 DEF Idle, Line
    <2>2. LinedUp(g, c)
        BY <2>1, EmptyLine DEF LinedUp
    <2>. QED
        BY <2>1, <2>2
<1>3. \A c \in Chats : log[c] = <<>>
    BY Empties DEF Init
<1>4. Ahead /\ \A c \in Chats : Logged(c)
    BY <1>3, NoneBelow DEF Init, Ahead, Logged, Range
<1>. QED
    BY <1>2, <1>4 DEF OneTurnEach, Queued

\* The messages of a chat are logged in the order they were sent.
THEOREM InOrderCorrect == Spec => []InOrder
<1>1. Queued => InOrder
    BY DEF Queued, Logged, Ascending, InOrder
<1>2. Init => Calm /\ Poller /\ Clean
    BY Empties DEF Init, Calm, CalmAt, Poller, Held, Clean, CleanAt, CleanCell, Idle
<1>. QED
    BY <1>1, <1>2, TypeInit, QueuedInit, FlagsStep, BotsStep, WorksStep, CalmStep, PollerStep,
       CleanStep, OneTurnStep, QueuedStep, PTL DEF Spec
=============================================================================
