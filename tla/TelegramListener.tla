-------------------------- MODULE TelegramListener --------------------------
(***************************************************************************)
(* The Telegram listeners of the processes of one machine that share a bot *)
(* token (plugin-telegram/src/listener.ts, debounce.ts, recovery.ts): who  *)
(* may poll, what becomes of the messages a poll returned, and what stop() *)
(* leaves behind.                                                          *)
(*                                                                         *)
(* The token lock is taken and given back in one step here; ScopedLock     *)
(* models the system calls inside.  The clock ticks once per retry         *)
(* interval.  A message is its number, in the order of sending.            *)
(***************************************************************************)
EXTENDS Naturals, Sequences, SequencesExt

CONSTANTS
    Gates,              \* processes with a listener for the token
    Chats,
    ChatOf,             \* [message -> its chat]; its domain bounds the messages
    MaxRetries, TTL,    \* MAX_LOCK_RETRY_ATTEMPTS, and the lock's ttl in retry intervals
    None,
    MaxLives            \* bound: starts of a process

ASSUME ListenerAssumption ==
    /\ ChatOf \in Seq(Chats) /\ None \notin Gates
    /\ {MaxRetries, TTL, MaxLives} \subseteq Nat

Messages == 1..Len(ChatOf)

VARIABLES
    lock, age, ghost,       \* whose record names the token; its age; its dead owner's pid answers
    st,                     \* [Gates -> where start() is]
    stop,                   \* [Gates -> how far stop() is]; "no": not called
    armed,                  \* [Gates -> refreshTimer is set]
    retries, due,           \* [Gates -> retryAttempts; the retry interval has passed]
    sent, pending,          \* messages sent so far, and those Telegram keeps for the next poll
    buffer,                 \* [Gates -> [Chats -> fragments of the debounce buffer]]
    chain,                  \* [Gates -> [Chats -> batches waiting behind the turn]]
    turn,                   \* [Gates -> [Chats -> batches being dispatched]]
    drain,                  \* [Gates -> [Chats -> turns the snapshot in stop() waits for]]
    log,                    \* [Chats -> messages whose turn has ended, in that order]
    lives,
    cut,                    \* history: a stop() fell into a start()
    stray,                  \* history: a poll was refused for good, or returned a message to a
                            \* listener being stopped
    stolen                  \* history: a live holder's record went stale and was replaced

lockVars == <<lock, age, ghost>>
botVars  == <<st, stop, armed, retries, due>>
msgVars  == <<sent, pending, buffer, chain, turn, drain, log>>
history  == <<cut, stray, stolen>>
vars     == <<lockVars, botVars, msgVars, lives, history>>

Nothing == [c \in Chats |-> <<>>]
NoTurns == [c \in Chats |-> 0]

Init ==
    /\ lock = None /\ age = 0 /\ ghost = FALSE
    /\ st = [g \in Gates |-> "off"] /\ stop = [g \in Gates |-> "no"]
    /\ armed = [g \in Gates |-> FALSE]
    /\ retries = [g \in Gates |-> 0] /\ due = [g \in Gates |-> FALSE]
    /\ sent = 0 /\ pending = <<>>
    /\ buffer = [g \in Gates |-> Nothing] /\ chain = [g \in Gates |-> Nothing]
    /\ turn = [g \in Gates |-> Nothing] /\ drain = [g \in Gates |-> NoTurns]
    /\ log = Nothing /\ lives = 0
    /\ cut = FALSE /\ stray = FALSE /\ stolen = FALSE

\* this.running, and this.tokenLock # null
Running(g) == st[g] \in {"starting", "polling"} /\ stop[g] = "no"
Held(g)    == st[g] \in {"starting", "polling", "quiet"} /\ stop[g] # "done"

Put(f, g, v) == [f EXCEPT ![g] = v]
-----------------------------------------------------------------------------
(* start() and its retries.                                                *)

Free == lock = None \/ age > TTL \/ (st[lock] = "off" /\ ~ghost)

\* scheduleStartRetry
Refused(g) ==
    /\ IF retries[g] < MaxRetries
       THEN st' = Put(st, g, "waiting") /\ retries' = Put(retries, g, retries[g] + 1)
       ELSE st' = Put(st, g, "gaveup") /\ UNCHANGED retries
    /\ due' = Put(due, g, FALSE)
    /\ UNCHANGED <<lockVars, stolen>>

Granted(g) ==
    /\ lock' = g /\ age' = 0 /\ ghost' = FALSE
    /\ stolen' = (stolen \/ (lock # None /\ Held(lock)))
    /\ st' = Put(st, g, "starting") /\ retries' = Put(retries, g, 0)
    /\ due' = Put(due, g, FALSE)

Acquire(g) == IF Free THEN Granted(g) ELSE Refused(g)

\* The process starts and with it its listener.
Start(g) ==
    /\ st[g] = "off" /\ lives < MaxLives /\ lives' = lives + 1
    /\ Acquire(g) /\ UNCHANGED <<stop, armed, msgVars, cut, stray>>

\* retryTimer: stop() would have cleared it.
Retry(g) ==
    /\ st[g] = "waiting" /\ due[g] /\ stop[g] = "no"
    /\ Acquire(g) /\ UNCHANGED <<stop, armed, msgVars, lives, cut, stray>>

\* The awaits of start() are over.  It arms the timer and polls, dropping what
\* Telegram kept, whether stop() was called meanwhile or not.
Poll(g) ==
    /\ st[g] = "starting" /\ st' = Put(st, g, "polling") /\ armed' = Put(armed, g, TRUE)
    /\ pending' = <<>>
    /\ UNCHANGED <<lockVars, stop, retries, due, sent, buffer, chain, turn, drain, log, lives, history>>

\* releaseLock: only a record of its own is removed.
Release(g) == IF lock = g THEN lock' = None /\ age' = 0 /\ UNCHANGED ghost ELSE UNCHANGED lockVars

\* bot.start rejects: a conflict with another poller, or the token is revoked.
PollFails(g) ==
    /\ st[g] = "polling" /\ st' = Put(st, g, "failed") /\ stray' = TRUE
    /\ IF Held(g) THEN Release(g) ELSE UNCHANGED lockVars
    /\ UNCHANGED <<stop, armed, retries, due, msgVars, lives, cut, stolen>>
-----------------------------------------------------------------------------
(* Messages.                                                               *)

Send ==
    /\ sent < Len(ChatOf) /\ sent' = sent + 1 /\ pending' = Append(pending, sent')
    /\ UNCHANGED <<lockVars, botVars, buffer, chain, turn, drain, log, lives, history>>

\* A poll returns the next message; the limiter may drop it.
Receive(g) ==
    /\ st[g] = "polling" /\ pending # <<>> /\ pending' = Tail(pending)
    /\ LET m == Head(pending)
       IN  \/ UNCHANGED buffer
           \/ buffer' = [buffer EXCEPT ![g][ChatOf[m]] = Append(@, m)]
    /\ stray' = (stray \/ stop[g] # "no")
    /\ UNCHANGED <<lockVars, botVars, sent, chain, turn, drain, log, lives, cut, stolen>>

\* The quiet period is over, or the buffer is full: the fragments become one batch.
Flush(g, c) ==
    /\ buffer[g][c] # <<>> /\ buffer' = [buffer EXCEPT ![g][c] = <<>>]
    /\ chain' = [chain EXCEPT ![g][c] = Append(@, buffer[g][c])]
    /\ UNCHANGED <<lockVars, botVars, sent, pending, turn, drain, log, lives, history>>

\* Mutant: a batch does not wait for the one before it.
BeginTurn_Unchained(g, c) ==
    /\ chain[g][c] # <<>>
    /\ turn' = [turn EXCEPT ![g][c] = Append(@, Head(chain[g][c]))]
    /\ chain' = [chain EXCEPT ![g][c] = Tail(@)]
    /\ UNCHANGED <<lockVars, botVars, sent, pending, buffer, drain, log, lives, history>>

\* The chat's chain of promises reaches the batch (handleFlushed).
BeginTurn(g, c) ==
    /\ chain[g][c] # <<>> /\ turn[g][c] = <<>>
    /\ turn' = [turn EXCEPT ![g][c] = Append(@, Head(chain[g][c]))]
    /\ chain' = [chain EXCEPT ![g][c] = Tail(@)]
    /\ UNCHANGED <<lockVars, botVars, sent, pending, buffer, drain, log, lives, history>>

\* dispatchOne settles, with a reply or an apology.
EndTurn(g, c) ==
    /\ \E i \in DOMAIN turn[g][c] :
          /\ log' = [log EXCEPT ![c] = @ \o turn[g][c][i]]
          /\ turn' = [turn EXCEPT ![g][c] = RemoveAt(@, i)]
    /\ drain' = [drain EXCEPT ![g][c] = IF @ = 0 THEN 0 ELSE @ - 1]
    /\ UNCHANGED <<lockVars, botVars, sent, pending, buffer, chain, lives, history>>
-----------------------------------------------------------------------------
(* stop().                                                                 *)

\* Mutant: the buffers are emptied, not flushed.
FlushAll_Discards(g) == buffer' = [buffer EXCEPT ![g] = Nothing] /\ UNCHANGED chain

FlushAll(g) ==
    /\ chain' = [chain EXCEPT ![g] = [c \in Chats |-> IF buffer[g][c] = <<>> THEN @[c]
                                                      ELSE Append(@[c], buffer[g][c])]]
    /\ buffer' = [buffer EXCEPT ![g] = Nothing]

\* Mutant: the lock is given back before the poll has ended.
Stops_ReleasesFirst(g) ==
    /\ IF Running(g)
       THEN stop' = Put(stop, g, "bot") /\ armed' = Put(armed, g, FALSE) /\ FlushAll(g)
       ELSE stop' = Put(stop, g, "done") /\ UNCHANGED <<armed, buffer, chain>>
    /\ IF Held(g) THEN Release(g) ELSE UNCHANGED lockVars
    /\ cut' = (cut \/ st[g] = "starting")
    /\ UNCHANGED <<st, retries, due, sent, pending, turn, drain, log, lives, stray>>

\* By dispose(), or because the lock was lost.
Stops(g) ==
    /\ IF Running(g)
       THEN /\ stop' = Put(stop, g, "bot") /\ armed' = Put(armed, g, FALSE)
            /\ FlushAll(g) /\ UNCHANGED lockVars
       ELSE /\ stop' = Put(stop, g, "done") /\ UNCHANGED <<armed, buffer, chain>>
            /\ IF Held(g) THEN Release(g) ELSE UNCHANGED lockVars
    /\ cut' = (cut \/ st[g] = "starting")
    /\ UNCHANGED <<st, retries, due, sent, pending, turn, drain, log, lives, stray>>

Stop(g) == st[g] # "off" /\ stop[g] = "no" /\ Stops(g) /\ UNCHANGED stolen

\* Mutant: the turns under way are not waited for.
BotStopped_NoWait(g) ==
    /\ stop[g] = "bot" /\ stop' = Put(stop, g, "drain")
    /\ st' = IF st[g] = "polling" THEN Put(st, g, "quiet") ELSE st
    /\ UNCHANGED <<lockVars, armed, retries, due, msgVars, lives, history>>

\* bot.stop() returns; then stop() waits for the turns it finds.
BotStopped(g) ==
    /\ stop[g] = "bot" /\ stop' = Put(stop, g, "drain")
    /\ st' = IF st[g] = "polling" THEN Put(st, g, "quiet") ELSE st
    /\ drain' = [drain EXCEPT ![g] = [c \in Chats |-> Len(chain[g][c]) + Len(turn[g][c])]]
    /\ UNCHANGED <<lockVars, armed, retries, due, sent, pending, buffer, chain, turn, log, lives, history>>

Drained(g) ==
    /\ stop[g] = "drain" /\ drain[g] = NoTurns /\ stop' = Put(stop, g, "done")
    /\ IF Held(g) THEN Release(g) ELSE UNCHANGED lockVars
    /\ UNCHANGED <<st, armed, retries, due, msgVars, lives, history>>

\* Every sixty seconds: the record is renewed, or the lock is lost.
Refresh(g) ==
    /\ armed[g] /\ Held(g)
    /\ \/ /\ lock = g /\ age' = 0
          /\ UNCHANGED <<lock, ghost, botVars, msgVars, lives, history>>
       \/ lock # g /\ Stops(g) /\ UNCHANGED stolen
-----------------------------------------------------------------------------
(* The environment.                                                        *)

\* The process exits or is killed; what it had taken is gone, and its pid may
\* be another process's at once.
Die(g) ==
    /\ st[g] # "off" /\ st' = Put(st, g, "off") /\ stop' = Put(stop, g, "no")
    /\ armed' = Put(armed, g, FALSE) /\ retries' = Put(retries, g, 0) /\ due' = Put(due, g, FALSE)
    /\ buffer' = Put(buffer, g, Nothing) /\ chain' = Put(chain, g, Nothing)
    /\ turn' = Put(turn, g, Nothing) /\ drain' = Put(drain, g, NoTurns)
    /\ ghost' \in IF lock = g THEN BOOLEAN ELSE {ghost}
    /\ UNCHANGED <<lock, age, sent, pending, log, lives, cut, stray, stolen>>

Tick ==
    /\ age' = IF lock = None \/ age > TTL THEN age ELSE age + 1
    /\ due' = [g \in Gates |-> due[g] \/ st[g] = "waiting"]
    /\ UNCHANGED <<lock, ghost, st, stop, armed, retries, msgVars, lives, history>>
-----------------------------------------------------------------------------
Work(g, c) == Flush(g, c) \/ BeginTurn(g, c) \/ EndTurn(g, c)

Next ==
    \/ Send \/ Tick
    \/ \E g \in Gates :
         \/ Start(g) \/ Retry(g) \/ Poll(g) \/ PollFails(g) \/ Receive(g) \/ Stop(g)
         \/ BotStopped(g) \/ Drained(g) \/ Refresh(g) \/ Die(g)
         \/ \E c \in Chats : Work(g, c)

Spec == Init /\ [][Next]_vars
-----------------------------------------------------------------------------
(* Properties.                                                             *)

Batches == Seq(Seq(Messages))

TypeOK ==
    /\ lock \in Gates \cup {None} /\ age \in 0..(TTL + 1) /\ ghost \in BOOLEAN
    /\ st \in [Gates -> {"off", "waiting", "gaveup", "starting", "polling", "quiet", "failed"}]
    /\ stop \in [Gates -> {"no", "bot", "drain", "done"}] /\ armed \in [Gates -> BOOLEAN]
    /\ retries \in [Gates -> 0..MaxRetries] /\ due \in [Gates -> BOOLEAN]
    /\ sent \in 0..Len(ChatOf) /\ pending \in Seq(Messages)
    /\ buffer \in [Gates -> [Chats -> Seq(Messages)]] /\ log \in [Chats -> Seq(Messages)]
    /\ chain \in [Gates -> [Chats -> Batches]] /\ turn \in [Gates -> [Chats -> Batches]]
    /\ drain \in [Gates -> [Chats -> Nat]] /\ lives \in 0..MaxLives
    /\ {cut, stray, stolen} \subseteq BOOLEAN

Has(g, m) == LET c == ChatOf[m] IN \/ m \in Range(buffer[g][c])
                                   \/ \E b \in Range(chain[g][c] \o turn[g][c]) : m \in Range(b)
Busy(g) == \E m \in Messages : Has(g, m)

\* Two processes never poll the token together, and so never share its updates,
\* unless stop() fell into the awaits of start(), which then polls without the
\* lock, or a live holder was too late to refresh it (start, stop, releaseLock).
OnePoller == ~cut /\ ~stolen => \A g, h \in Gates : st[g] = "polling" /\ st[h] = "polling" => g = h

\* Once a listener has given the lock back it neither polls nor works on a
\* message: stop() flushed and awaited all of it.  Three things break this: a
\* stop() in the middle of a start(), a message returned while bot.stop() is
\* awaited, and a poll that fails while turns are under way.
LeavesClean == ~cut /\ ~stray => \A g \in Gates : ~Held(g) => st[g] # "polling" /\ ~Busy(g)

\* The messages of a chat have their turns in the order they were sent, none
\* twice, over every debounced batch and every hand-over from one process to
\* another, as long as listeners leave clean and keep their lock (handleFlushed).
InOrder ==
    ~cut /\ ~stray /\ ~stolen =>
        \A c \in Chats : \A i, j \in DOMAIN log[c] : i < j => log[c][i] < log[c][j]

\* A message that a poll returned and the limiter let through leaves the
\* listener only by the end of its turn, through debouncing, stop() and the loss
\* of the lock alike, or with the process (push, flushAll, handleFlushed).
KeptUntilTurned ==
    [][\A g \in Gates : \A m \in Messages :
          Has(g, m) => Has(g, m)' \/ st'[g] = "off" \/ m \in Range(log'[ChatOf[m]])]_vars
=============================================================================
