------------------------------ MODULE A2AInbox ------------------------------
(***************************************************************************)
(* Agent-to-agent messages on their way from the PromusInbox contract to   *)
(* the brain: the listener (plugin-comms/src/listener.ts) with its cursor, *)
(* history, contacts, mutes and presence, the in-memory inbound queue of   *)
(* build-runtime.ts and the drain of real-runtime.ts.                      *)
(*                                                                         *)
(* A block holds at most one message for this agent, so a message is the   *)
(* number of its block.  Fetching and decrypting are the one await inside  *)
(* handleEvent; what precedes and what follows it is synchronous.          *)
(***************************************************************************)
EXTENDS Naturals, Sequences, FiniteSets, FiniteSetsExt

CONSTANTS
    Senders, NoMsg,         \* who writes to this agent; a block without a message
    Scans,                  \* identities of catch-up scans that may overlap
    Safety,                 \* catchUpSafetyBlocks
    Chunk,                  \* chunkBlocks
    MaxHead,                \* bound: blocks
    Setups                  \* the instances checked: contacts at the start and scans in use;
                            \* bounds: blocks, events the live subscription drops, RPC reads,
                            \* fetches and turn preparations that fail, edits of contacts,
                            \* mutes and presence, crashes, stops and reprovisions

ASSUME InboxAssumption ==
    /\ NoMsg \notin Senders /\ Chunk \in Nat \ {0} /\ {Safety, MaxHead} \subseteq Nat
    /\ Setups \subseteq [friends : SUBSET Senders, scans : (SUBSET Scans) \ {{}}, head : 1..MaxHead,
                         drops : Nat, fails : Nat, edits : Nat, crashes : Nat]

Blocks == 1..MaxHead

VARIABLES
    setup,                              \* the instance
    head, msg,                          \* the chain: height, [Blocks -> sender or NoMsg]
    cursor, recorded,                   \* disk: cursor.json, the history's inbound rows
    contacts, pending, blocked,         \* disk: contacts.json
    muted, away,                        \* disk: mutes.json, presence.json
    up,                                 \* "off", "seed", "boot" (first scan), "on", "dead"
    arriving,                           \* live events that have not reached onLogs
    scan,                               \* [Scans -> catchUp call]
    handling,                           \* <<by, block>>: handleEvent calls at their await
    queue, wired, drain,                \* inboundQueue, drains wired, drainInbound
    dropped, fails, edits, crashes,
    born,                               \* history: block the agent first listened from
    scannedTo,                          \* history: head of the last completed scan
    delivered,                          \* history: onDeliver calls since the disk was new
    excused,                            \* history: blocks whose handling ended blocked or failed
    outrun                              \* history: messages a live event put out of the scans' reach

disk    == <<cursor, recorded, contacts, pending, blocked, muted, away>>
book    == <<contacts, pending, blocked, muted, away>>
brain   == <<queue, wired, drain>>
bounds  == <<dropped, fails, edits, crashes>>
inboxVars == <<setup, head, msg, cursor, recorded, contacts, pending, blocked, muted, away, up,
               arriving, scan, handling, queue, wired, drain, dropped, fails, edits, crashes, born,
             scannedTo, delivered, excused, outrun>>

NoScan  == [pc |-> "idle", safety |-> FALSE, cursor |-> 0, from |-> 1, to |-> 0, head |-> 0, todo |-> {}]
NoDrain == [pc |-> "idle", cur |-> 0]

FirstScan == [s \in Scans |-> IF s = (CHOOSE t \in setup.scans : TRUE)
                                THEN [NoScan EXCEPT !.pc = "head"] ELSE NoScan]

InboxInit ==
    /\ setup \in Setups /\ head = 1 /\ msg = [b \in Blocks |-> NoMsg]
    /\ cursor = 0 /\ recorded = {} /\ contacts = setup.friends /\ pending = {} /\ blocked = {}
    /\ muted = {} /\ away = FALSE
    /\ up = "off" /\ arriving = {} /\ scan = [s \in Scans |-> NoScan] /\ handling = {}
    /\ queue = <<>> /\ wired = FALSE /\ drain = NoDrain
    /\ dropped = 0 /\ fails = 0 /\ edits = 0 /\ crashes = 0
    /\ born = 0 /\ scannedTo = 1 /\ delivered = [b \in Blocks |-> 0]
    /\ excused = {} /\ outrun = {}

Messages == {b \in Blocks : b <= head /\ msg[b] # NoMsg}
-----------------------------------------------------------------------------
(* The chain and its live subscription.                                    *)

\* A block is mined.  Its event goes to the subscription, if there is one,
\* which may drop it silently.
Mine(who) ==
    /\ head < setup.head /\ head' = head + 1 /\ msg' = [msg EXCEPT ![head'] = who]
    /\ \/ up = "on" /\ who # NoMsg /\ arriving' = arriving \cup {head'} /\ dropped' = dropped
       \/ up = "on" /\ who # NoMsg /\ dropped < setup.drops /\ arriving' = arriving /\ dropped' = dropped + 1
       \/ ~(up = "on" /\ who # NoMsg) /\ arriving' = arriving /\ dropped' = dropped
    /\ UNCHANGED <<setup, disk, up, scan, handling, brain, fails, edits, crashes, born, scannedTo,
                   delivered, excused, outrun>>
-----------------------------------------------------------------------------
(* handleEvent.                                                            *)

\* Steps 0 to 1b, before the await.
Passes(b) == msg[b] \notin blocked /\ b \notin recorded

Starts(by, b) == /\ handling' = IF Passes(b) THEN handling \cup {<<by, b>>} ELSE handling
                 /\ excused' = IF msg[b] \in blocked THEN excused \cup {b} ELSE excused

\* onLogs: the handler is started and, without waiting, the cursor advanced.
LiveEvent ==
    /\ up = "on" /\ arriving # {}
    /\ LET b == Min(arriving)
       IN  /\ arriving' = arriving \ {b} /\ Starts("live", b)
           /\ cursor' = IF b > cursor THEN b ELSE cursor
           /\ outrun' = outrun \cup {m \in Messages : scannedTo < m /\ m + Safety < cursor'}
    /\ UNCHANGED <<setup, head, msg, recorded, book, up, scan, brain, bounds, born, scannedTo,
                   delivered>>

\* Mutant: the row that is already there does not stop the delivery.
IsNew_Always(b) == TRUE

\* INSERT OR IGNORE says whether the row is new.
IsNew(b) == b \notin recorded

Takes(b) == drain' = [pc |-> "prep", cur |-> b]

\* onInboundDeliver: push, and trigger the drain, which takes the message at
\* once unless it is running or not yet wired.
Deliver(b) ==
    /\ delivered' = [delivered EXCEPT ![b] = @ + 1]
    /\ IF wired /\ drain.pc = "idle"
         THEN /\ Takes(Head(Append(queue, b))) /\ queue' = Tail(Append(queue, b))
         ELSE queue' = Append(queue, b) /\ UNCHANGED drain

\* Muted or away: the history has it, the brain is not told.
Quiet(who) == who \in muted \/ away

\* Steps 4 to 8.  whether the rate limiter drops a stranger is left open: its
\* window is time.
Resolved(by, b) ==
    LET who == msg[b]
    IN  /\ <<by, b>> \in handling /\ handling' = handling \ {<<by, b>>}
        /\ recorded' = recorded \cup {b}
        /\ \/ /\ ~IsNew(b) \/ Quiet(who)
              /\ UNCHANGED <<pending, queue, drain, delivered>>
           \/ /\ IsNew(b) /\ ~Quiet(who) /\ who \notin contacts
              /\ pending' \in {pending, pending \cup {who}}
              /\ UNCHANGED <<queue, drain, delivered>>
           \/ /\ IsNew(b) /\ ~Quiet(who) /\ who \in contacts /\ Deliver(b)
              /\ UNCHANGED pending
        /\ UNCHANGED <<setup, head, msg, cursor, contacts, blocked, muted, away, up, arriving, scan, wired,
                       bounds, born, scannedTo, excused, outrun>>

\* Eight tries of the storage fetch, or the decryption, failed: a notice, no row.
Unresolved(by, b) ==
    /\ <<by, b>> \in handling /\ handling' = handling \ {<<by, b>>}
    /\ fails < setup.fails /\ fails' = fails + 1 /\ excused' = excused \cup {b}
    /\ UNCHANGED <<setup, head, msg, disk, up, arriving, scan, brain, dropped, edits, crashes, born,
                   scannedTo, delivered, outrun>>
-----------------------------------------------------------------------------
(* start and catchUp.                                                      *)

quiet == <<setup, head, msg, recorded, book, arriving, brain, dropped, edits, crashes, delivered,
           outrun>>

\* The cursor of a first run is seeded with the chain's head (startBlock is 0n).
Start ==
    /\ up = "off" /\ up' = IF cursor = 0 THEN "seed" ELSE "boot"
    /\ scan' = IF cursor = 0 THEN scan ELSE FirstScan
    /\ UNCHANGED <<quiet, excused, cursor, handling, fails, born, scannedTo>>

Seed ==
    /\ up = "seed" /\ up' = "boot" /\ cursor' = head
    /\ born' = IF born = 0 THEN head ELSE born
    /\ scan' = FirstScan
    /\ UNCHANGED <<quiet, excused, handling, fails, scannedTo>>

\* getBlockNumber rejects, and start() with it: running stays set, so the listener
\* has neither a cursor nor a subscription nor a timer until the process restarts.
SeedFails ==
    /\ up = "seed" /\ fails < setup.fails /\ fails' = fails + 1 /\ up' = "dead"
    /\ UNCHANGED <<quiet, excused, cursor, scan, handling, born, scannedTo>>

\* setInterval fires, whether or not earlier scans are still at work.
Tick(s) ==
    /\ up = "on" /\ s \in setup.scans /\ scan[s].pc = "idle"
    /\ scan' = [scan EXCEPT ![s] = [NoScan EXCEPT !.pc = "head", !.safety = TRUE]]
    /\ UNCHANGED <<quiet, excused, cursor, up, handling, fails, born, scannedTo>>

\* Mutant: the safety scan, too, starts where the cursor is.
From_Cursor(s) == cursor + 1

\* The first block of a scan, from the cursor read after the head.
From(s) == IF scan[s].safety THEN (IF cursor > Safety THEN cursor - Safety ELSE 1) ELSE cursor + 1

\* A scan is over; the first one is followed by subscribe().
Over(s, h) ==
    /\ scan' = [scan EXCEPT ![s] = NoScan]
    /\ up' = IF up = "boot" THEN "on" ELSE up
    /\ scannedTo' = IF h > scannedTo THEN h ELSE scannedTo

ScanHead(s) ==
    /\ scan[s].pc = "head"
    /\ IF From(s) > head
         THEN Over(s, head)
         ELSE /\ scan' = [scan EXCEPT ![s].pc = "logs", ![s].cursor = cursor,
                                      ![s].from = From(s), ![s].head = head]
              /\ UNCHANGED <<up, scannedTo>>
    /\ UNCHANGED <<quiet, excused, cursor, handling, fails, born>>

\* getLogs of the next chunk.
ScanLogs(s) ==
    /\ scan[s].pc = "logs"
    /\ LET to == IF scan[s].from + Chunk - 1 > scan[s].head THEN scan[s].head
                 ELSE scan[s].from + Chunk - 1
       IN  scan' = [scan EXCEPT ![s].pc = "events", ![s].to = to,
                                ![s].todo = {b \in Messages : scan[s].from <= b /\ b <= to}]
    /\ UNCHANGED <<quiet, excused, cursor, up, handling, fails, born, scannedTo>>

\* An RPC read fails: a safety scan is given up, a boot scan is the end of the
\* listener, which is not subscribed and has no timer.
ScanFails(s) ==
    /\ scan[s].pc \in {"head", "logs"} /\ fails < setup.fails /\ fails' = fails + 1
    /\ scan' = [scan EXCEPT ![s] = NoScan]
    /\ up' = IF up = "boot" THEN "dead" ELSE up
    /\ UNCHANGED <<quiet, excused, cursor, handling, born, scannedTo>>

\* Mutant: the handlers of a chunk are not awaited.
Waiting_Never(s) == FALSE

Waiting(s) == \E b \in Blocks : <<s, b>> \in handling

\* for (const ev of events) await handleEvent(ev)
ScanEvent(s) ==
    /\ scan[s].pc = "events" /\ scan[s].todo # {} /\ ~Waiting(s)
    /\ LET b == Min(scan[s].todo)
       IN  scan' = [scan EXCEPT ![s].todo = @ \ {b}] /\ Starts(s, b)
    /\ UNCHANGED <<quiet, cursor, up, fails, born, scannedTo>>

\* The chunk is done: the cursor follows if the chunk ends beyond the cursor
\* this scan started from, whatever the cursor is by now.
ScanChunkDone(s) ==
    /\ scan[s].pc = "events" /\ scan[s].todo = {} /\ ~Waiting(s)
    /\ cursor' = IF scan[s].to > scan[s].cursor THEN scan[s].to ELSE cursor
    /\ IF scan[s].to + 1 <= scan[s].head
         THEN /\ scan' = [scan EXCEPT ![s].pc = "logs", ![s].from = scan[s].to + 1]
              /\ UNCHANGED <<up, scannedTo>>
         ELSE Over(s, scan[s].head)
    /\ UNCHANGED <<quiet, excused, handling, fails, born>>

ScanStep(s) == ScanHead(s) \/ ScanLogs(s) \/ ScanEvent(s) \/ ScanChunkDone(s)
-----------------------------------------------------------------------------
(* The inbound queue and its drain.                                        *)

still == <<setup, head, msg, disk, up, arriving, scan, handling, dropped, edits, crashes, born, scannedTo,
           delivered, excused, outrun>>

TakesNext == IF queue = <<>> THEN drain' = NoDrain /\ queue' = queue
             ELSE Takes(Head(queue)) /\ queue' = Tail(queue)

\* wireDrains, and the explicit drain after it.
Wire ==
    /\ up # "off" /\ ~wired /\ wired' = TRUE /\ TakesNext
    /\ UNCHANGED <<still, fails>>

\* Mutant: a single message does not trigger a drain.
DrainAgain_ForTwo ==
    /\ wired /\ drain.pc = "idle" /\ Len(queue) > 1 /\ TakesNext
    /\ UNCHANGED <<still, fails, wired>>

\* The 30 second scan, or the end of a chat turn.
DrainAgain ==
    /\ wired /\ drain.pc = "idle" /\ queue # <<>> /\ TakesNext
    /\ UNCHANGED <<still, fails, wired>>

Prepared ==
    /\ drain.pc = "prep" /\ drain' = [drain EXCEPT !.pc = "infer"]
    /\ UNCHANGED <<still, fails, queue, wired>>

\* refreshUserContext or the activity log throws: the drain is left through
\* its finally, with the message it had taken.
PrepareFails ==
    /\ drain.pc = "prep" /\ fails < setup.fails /\ fails' = fails + 1
    /\ drain' = NoDrain
    /\ UNCHANGED <<still, queue, wired>>

\* brain.infer and the flush after it, failed or not, then the next message.
Infer ==
    /\ drain.pc = "infer" /\ TakesNext
    /\ UNCHANGED <<still, fails, wired>>
-----------------------------------------------------------------------------
(* The operator's and the brain's edits, and the host.                     *)

Edit == /\ edits < setup.edits /\ edits' = edits + 1
        /\ UNCHANGED <<setup, head, msg, cursor, recorded, up, arriving, scan, handling, brain, dropped, fails,
                       crashes, born, scannedTo, delivered, excused, outrun>>

AddContact(s) ==
    /\ Edit /\ contacts' = contacts \cup {s} /\ pending' = pending \ {s} /\ blocked' = blocked \ {s}
    /\ UNCHANGED <<muted, away>>

RemoveContact(s) ==
    /\ Edit /\ s \in contacts /\ contacts' = contacts \ {s}
    /\ UNCHANGED <<pending, blocked, muted, away>>

\* Mutant: a blocked sender stays a contact.
Block_KeepsContact(s) ==
    /\ Edit /\ blocked' = blocked \cup {s} /\ pending' = pending \ {s}
    /\ UNCHANGED <<contacts, muted, away>>

Block(s) ==
    /\ Edit /\ blocked' = blocked \cup {s} /\ contacts' = contacts \ {s} /\ pending' = pending \ {s}
    /\ UNCHANGED <<muted, away>>

\* Mutes also end by themselves when their time is over.
ToggleMute(s) ==
    /\ Edit /\ muted' = (muted \ {s}) \cup ({s} \ muted)
    /\ UNCHANGED <<contacts, pending, blocked, away>>

SetPresence ==
    /\ Edit /\ away' = ~away
    /\ UNCHANGED <<contacts, pending, blocked, muted>>

\* The process ends, by a kill or by stop(); what the queue held goes with it.
\* A reprovision empties the disk as well.
Crash ==
    /\ up # "off" /\ crashes < setup.crashes /\ crashes' = crashes + 1
    /\ up' = "off" /\ arriving' = {} /\ scan' = [s \in Scans |-> NoScan] /\ handling' = {}
    /\ queue' = <<>> /\ wired' = FALSE /\ drain' = NoDrain
    /\ UNCHANGED <<setup, head, msg, disk, dropped, fails, edits, born, scannedTo, delivered,
                   excused, outrun>>

Reprovision ==
    /\ up = "off" /\ crashes > 0 /\ crashes < setup.crashes /\ crashes' = crashes + 1
    /\ cursor' = 0 /\ recorded' = {} /\ contacts' = {} /\ pending' = {} /\ blocked' = {}
    /\ muted' = {} /\ away' = FALSE /\ delivered' = [b \in Blocks |-> 0]
    /\ UNCHANGED <<setup, head, msg, up, arriving, scan, handling, brain, dropped, fails, edits, born,
                   scannedTo, excused, outrun>>

InboxNext ==
    \/ \E who \in Senders \cup {NoMsg} : Mine(who)
    \/ LiveEvent
    \/ \E by \in Scans \cup {"live"}, b \in Blocks : Resolved(by, b) \/ Unresolved(by, b)
    \/ Start \/ Seed \/ SeedFails
    \/ \E s \in Scans : Tick(s) \/ ScanFails(s) \/ ScanStep(s)
    \/ Wire \/ DrainAgain \/ Prepared \/ PrepareFails \/ Infer
    \/ \E s \in Senders : AddContact(s) \/ RemoveContact(s) \/ Block(s) \/ ToggleMute(s)
    \/ SetPresence \/ Crash \/ Reprovision

InboxSpec == InboxInit /\ [][InboxNext]_inboxVars

\* Timers fire and awaited calls return; what the chain, the operator and the
\* host do is up to them.
InboxFairSpec ==
    /\ InboxSpec /\ WF_inboxVars(Start) /\ WF_inboxVars(Seed) /\ WF_inboxVars(LiveEvent)
    /\ \A s \in Scans : WF_inboxVars(Tick(s)) /\ WF_inboxVars(ScanStep(s))
    /\ \A by \in Scans \cup {"live"}, b \in Blocks : WF_inboxVars(Resolved(by, b))
    /\ WF_inboxVars(Wire) /\ WF_inboxVars(DrainAgain) /\ WF_inboxVars(Prepared) /\ WF_inboxVars(Infer)
-----------------------------------------------------------------------------
(* Properties.                                                             *)

InboxTypeOK ==
    /\ head \in Blocks /\ msg \in [Blocks -> Senders \cup {NoMsg}]
    /\ cursor \in 0..head /\ recorded \subseteq Messages
    /\ contacts \subseteq Senders /\ pending \subseteq Senders /\ blocked \subseteq Senders
    /\ muted \subseteq Senders /\ away \in BOOLEAN /\ wired \in BOOLEAN
    /\ up \in {"off", "seed", "boot", "on", "dead"} /\ arriving \subseteq Messages
    /\ \A s \in Scans : /\ scan[s].pc \in {"idle", "head", "logs", "events"}
                        /\ scan[s].todo \subseteq Messages /\ scan[s].head <= head
                        /\ scan[s].pc = "events" => scan[s].to \in scan[s].from..scan[s].head
    /\ handling \subseteq (Scans \cup {"live"}) \X Messages
    /\ queue \in Seq(recorded) /\ drain.pc \in {"idle", "prep", "infer"}
    /\ drain.pc # "idle" => drain.cur \in recorded
    /\ up \in {"off", "seed"} => queue = <<>> /\ handling = {} /\ arriving = {}

\* Live events, overlapping scans, restarts and rescans of the same block hand
\* a message to the brain at most once.  (has, INSERT OR IGNORE)
DeliveredOnce == \A b \in Blocks : delivered[b] <= 1

\* Whatever was edited while the message was being fetched, the brain is woken
\* only for a sender that is a contact, not blocked, not muted, and when the
\* agent is not away.  (steps 5 to 8 against block and mute)
WakesOnlyContacts ==
    [][\A b \in Blocks : delivered'[b] > delivered[b] =>
         msg[b] \in contacts \ (blocked \cup muted) /\ ~away]_inboxVars

\* Delivered messages do not stay in the queue, although drains fail and
\* triggers find a drain running: they are taken, or lost with the process.
QueueDrains == queue # <<>> ~> queue = <<>>

\* What the listener, in its first life, has yet to record.
Missing == IF up \in {"off", "dead"} \/ crashes > 0 \/ born = 0 THEN {}
           ELSE {b \in Messages \ (recorded \cup excused) : b > born}

\* A message is lost only by being outrun: a live event for a block more than the
\* safety window past it, while no scan has yet covered it.  No scan that has
\* completed left any other behind, however scans overlap, events are dropped and
\* reads fail, and the next safety scan still reaches it.  (catchUp, onLogs,
\* catchUpSafetyBlocks)
NothingLost == \A b \in Missing \ outrun : scannedTo < b /\ cursor <= b + Safety

\* While the listener lives, every message on the chain that is not outrun is
\* recorded in the end.
EveryMessageRecorded == Missing \ outrun # {} ~> Missing \ outrun = {}
=============================================================================
