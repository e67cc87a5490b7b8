# Promus: formal models

TLA+ models of the Promus agent runtime (the TypeScript packages under
`packages/` and the Solidity contracts under `contracts/src/`), the TLC
configurations that check them on small instances, and proofs checked by TLAPS.
`PROJECT.json` lists the components, the runs, the mutants (for each property a
plausible bug that breaks it), the source lines behind every definition, the
hazards, the findings and the theorems.

Contents: [1 the system](#1-the-system) · [2 components](#2-components) ·
[3 modules](#3-modules) · [4 runs and bounds](#4-runs-and-bounds) ·
[5 fairness](#5-fairness) · [6 proofs](#6-proofs) ·
[7 code and docs disagree](#7-where-code-and-docs-disagree) ·
[8 what is not modelled](#8-what-is-not-modelled) · [9 plan](#9-plan)

Running them, in this directory:

    tlc -config MemorySync.cfg MCMemorySync        # any cfg with its MC module
    tlapm MemorySyncProofs.tla                     # proofs

## 1. The system

Promus runs a sovereign AI agent. A daemon (the *gateway*) hosts the agent's
brain, its memory files, its tools and its listeners. The agent's identity is an
iNFT (`PromusAgentNFT`); its memory is encrypted, uploaded to decentralised
storage and anchored in the slots of the iNFT. Agents talk to each other through
an on-chain inbox (`PromusInbox`) and trade through an escrow (`PromusMarket`).
An operator drives the agent from a CLI or from Telegram and approves what it
may do.

```
 operator ── CLI ──HTTP/SSE──▶ gateway ──────▶ runtime ──▶ brain ──▶ tools
     └──── Telegram ───────────▶ │ session      │ turns       │ permission service
                                 │ event hub    │ flushes     ▼
 other agents ─ PromusInbox ──▶ A2A listener ─▶ queue      memory files
                                                │             │ sync ▲ restore
 buyers/providers ─ PromusMarket                └─────────────▼──────┴─ iNFT slots
```

What makes it hard is that the daemon is one event loop on which many things are
half done at any time. Every `await` is a point where others run: a chat turn
writes memory while the flush of the previous turn uploads and while a lazy
restore downloads; a Telegram turn swaps the permission mode of the whole process
and awaits the model; three sources hand the same chain event to the same
handler. Transactions outlive the process that sent them, signals come at any
time, storage and RPC calls fail, connections break, and two processes may fight
over one lock file. The contracts have no such interleavings (a call is atomic),
but callers of three kinds take legal steps in any order over days.

The models therefore share one grain: **a step is what runs between two awaits**
(a transaction for the contracts, a system call for the lock files).

## 2. Components

### Modelled

| Component | State | Operations | Talks to | Hard because | Correct means |
|---|---|---|---|---|---|
| **Memory sync** `core/src/memory/sync-manager.ts`, `identity/receipt.ts` | diff cache of plaintext hashes, sidecar file, tail promise, transactions in flight | `flushTurn`, `flushAll`, `doFlush` (scan, upload, `updateSlots`, receipt, sidecar), `init`, `setProfileKey` | memory files, storage, the iNFT | saves go on during a flush; the cache is marked before the anchor; uploads, transactions and receipts fail one by one; crashes | anchors never regress; the cache hides nothing; every queued flush runs and sees its turn's writes |
| **PromusMarket** `contracts/src/PromusMarket.sol` | jobs, split proposals, native balance | `createJob`, `markDone`, `acceptResult`, `dispute`, `claimTimeout`, `proposeSplit`, `forceClose` | three kinds of callers, payee contracts | long sequences of legal calls, two overlapping deadlines, rounding, payees that reject | a job is paid once and in full, disputes only by consent, silence is acceptance, nothing is locked for ever |
| **Memory restore** `gateway/src/memory-restore.ts`, `build-runtime.ts`, `core/src/memory/pack-gather.ts` | memory files, `pendingRestoreFailed` | boot, lazy and unlock restores | storage, the iNFT, memory sync, turns | check and write are awaits apart; multi-file writes; slots fail one by one; several restores at once | local work is not overwritten, anchored memory is not lost, failures heal |
| **A2A inbox** `plugin-comms/src/listener.ts`, `history.ts`, `contacts.ts`, `mute.ts`, `cursor.ts`, the drain of `real-runtime.ts` | cursor, history, contacts, mutes, presence, in-memory queue | catch-up scans, live subscription, `handleEvent`, contact tools, drain | chain RPC, storage, brain, operator | three deliverers of one event; cursor moved before the work is done; standing edited during the fetch | a message is lost only by being outrun, none is delivered twice, nobody unwanted wakes the brain |
| **PromusInbox** `contracts/src/PromusInbox.sol` | none | `sendMessage` | the listener | – | (the `Mine` step of A2AInbox) |
| **Tool permissions** `core/src/permission/service.ts`, `gateway/src/approval-relay.ts`, the dispatcher in `build-runtime.ts` | mode, prompter, session allowances, pending approvals | `resolve`, `/yolo`, `/perms`, ask, respond, tap, sweep, stop | TUI turns, Telegram turns, HTTP answers, timers | one service shared by concurrent turns that override it; answers race sweeps and timers | nothing risky runs without consent, no turn waits for ever, overrides are undone |
| **Gateway session** `gateway/src/server.ts`, `state.ts`, `real-runtime.ts`, `entrypoint.ts` | session state, runtime, pending flush, shutdown progress | provision, start, turn, background flush, `/sync`, signal | CLI, memory sync, listeners | state checked before awaits; start after the answer; one flush at a time serves several turns; a failed one leaves its slots marked; signal at any time | one owner, one start, a `/sync` answered 200 covers all but what an earlier failure hid, the process ends |
| **Event stream** `gateway/src/events.ts`, `server.ts`, `cli/src/sandbox/client.ts` | ring buffer, sequence, client's last id | publish, subscribe with replay, read, reconnect | runtime, TUI | connections break with events on the wire; the ring forgets; restarts | in order, no duplicates, no gap the ring could fill |
| **Scoped locks** `core/src/locks.ts` | one file | acquire, refresh, release, clear stale | two gateways, two bots | no atomic create-with-content or compare-and-delete; dead holders, reused pids | one holder; what a crash left is reclaimed |
| **Automatic top-up** `core/src/economy/auto-topup.ts` | counter per day, two cool-downs, wallet-low flag, in memory only | `tick` (timer, first tick, `/admin/autotopup/tick`), `stop` | wallet, ledger and provider through the brain's broker; the operator's events | `tick` has no single flight and awaits at every step; a deposit may succeed and its transfer fail, or be mined after its caller gave up; gas comes from the same wallet; restarts forget the counter | the cap is exceeded by a known amount only, a deposit leaves the reserve but for gas and late transactions, a low envelope is filled or the operator hears why not |
| **Telegram listener** `plugin-telegram/src/listener.ts`, `debounce.ts`, `recovery.ts` | token lock, retry state, debounce buffers, per-chat chains of turns | start with retries, poll, message, flush of a burst, dispatch, stop, refresh of the lock | Telegram, ScopedLock, brain | stop in the middle of start; messages returned while stopping; a lock lost under way; a process dying | one poller of the token, nothing left running after the lock is given back, a chat's messages in order and none lost inside the listener |
| **Brain (history)** `core/src/brain/compute.ts`, `anthropic.ts`, `history-persist.ts`, `compaction.ts` | an array of messages per channel, a JSONL file per channel | `infer`, compaction, reset, hydration | the model, the disk | a turn holds the array across its model calls while a fold or a reset puts another in its place; appends and rewrites of the file interleave; short writes | memory and file agree, answered turns stay remembered, once, a reset is final |

### Not modelled (reasons in section 8, plans in section 9)

PromusAgentNFT beyond `update`; PromusSubnameRegistrar; Telegram formatting and
keyboards; market listener and tools; A2A sending, keys and spillover; event
queue, router and runtime loop; operator pairing; wallets, keystores and signers;
storage and encryption; memory reading, parsing and editing; identity and naming;
tools, plugins, skills and MCP; sandboxes; dangerous commands, path guard and
redaction; gateway bootstrap, upgrade and heartbeat; gateway wiring; on-chain
plugin; system plugin; CLI; web site and test drivers.

The state and operations of those that have any worth a model:

| Component | State | Operations | Hazard |
|---|---|---|---|
| Market listener `plugin-comms/src/market-listener.ts` | cursor and relevant jobs, both in memory | two polls | lifecycle events of jobs created before a restart |
| PromusAgentNFT `contracts/src/PromusAgentNFT.sol` | owners, slots, used proofs | `mint`, `update`, `iTransferFrom`, ERC-721 transfers | proof replay; transfers that bypass the oracle |
| Event queue `core/src/events/queue.ts` | buffer, waiters, closed | enqueue, dequeue, close, iterate | close against waiters and buffered events |
| Pairing `core/src/pairing.ts` | code files | issue, approve, list | two processes rewrite them; expiry and lockout |

## 3. Modules

Every state module has its state as VARIABLES, one action per operation or
per stretch of code between two awaits, and an `MC` module that gives its
constants values for TLC. Variables marked *history* exist in no program; they
remember what a property needs. One of them is read by a guard: `early` by
`BeginTurn`, where it stands for the state that `/chat` had checked before it read
the body. A definition named
`Action_Suffix` is a mutant: the action with one plausible bug, used nowhere in
the specification.

### MemoryAnchor ← MemorySync (MCMemorySync, MemorySyncProofs)

`MemoryAnchor` says what per-turn anchoring promises: content is written, and per
slot the anchor moves forward to some content that was written, possibly several
slots at once. `MemorySync` is the manager. A content is a version number, which
stands for its hash too, because every save stamps a new `updatedAt`.

| Model | Code |
|---|---|
| `cache`, `sidecar`, `chain`, `local` | `lastPlaintextHash`, `sync-state.json`, the slots of the iNFT, the files |
| `waiting`, `FlushTurn`, `StartFlush` | the calls chained behind `inFlight` and its `.catch()` |
| `Scan`, `PutBlob`, `PutBlobFails` | one slot of `doFlush`: hash comparison, upload, mark; a failed profile upload is swallowed, any other rejects the flush |
| `SubmitTx`, `SubmitFails`, `ReceiptSuccess`, `ReceiptReverted`, `ReceiptGiveUp` | `updateSlots` and `waitForReceiptResilient` |
| `WriteSidecar` | `writeSidecar`, best effort, the whole cache |
| `Land`, `Revert` | `PromusAgentNFT.update`, mined in nonce order |
| `Crash`, `Boot` | a kill, also inside the sidecar's write; `init` |

The slots of the code are gathered differently and then treated alike, except
for the profile: its own key and its swallowed failure. Two slots, the profile and
one other, show both.

### Escrow ← PromusMarket (MCPromusMarket, PaymentProofs)

`Escrow`: a deal is opened once with its terms and closed once with three parts
that add up to the amount. `PromusMarket` has one action per entry point; a failed
transfer undoes the call, so `Release` is impossible while a payee is in
`rejecting`, which payees change at will (`SetRejecting`). `Tick` is
`block.timestamp`. `paid` and `balance` stand for what left the contract and what
it holds.

### MemoryRestore (MCMemoryRestore, MemoryRestoreProofs)

A file's content is the set of facts it holds. `run["main"]` is the restore of the
boot or of a later turn, which exclude each other (`pendingRestoreFailed` and the
single flight in `build-runtime.ts`); `run["key"]` is the one `setProfileKey`
fires. `FetchSlots` and `FetchFails` read the slots; per slot `Check`,
`Downloaded`, `DownloadFails`, `WriteEnvelope`, `WriteRoot`, `WriteSiblings` are
`restoreSlot` and `writePack`; `Finish` is the synthetic index entries and the
caller's bookkeeping. Around it: `Turn`, `AppendActivity`, the three steps of
`memory.save`, `Flush` (one step here; MemorySync is about the flush),
`SetProfileKey`, `Crash` with or without the disk.

### A2AInbox (MCA2AInbox, DeliveryProofs)

`Mine` is the contract and the subscription that may drop the event. `LiveEvent`
is `onLogs`; `Tick`, `ScanHead`, `ScanLogs`, `ScanEvent`, `ScanChunkDone`,
`ScanFails` are `catchUp`, of which several may overlap (`setInterval` does not
wait). `handling` holds the `handleEvent` calls at their await; `Starts` is what
precedes it, `Resolved` and `Unresolved` what follows. `Wire`, `DrainAgain`,
`Prepared`, `PrepareFails`, `Infer` are `wireDrains` and `drainInbound`. The
contact, mute and presence tools, `Crash` (and `stop`) and `Reprovision` surround
it. A block holds at most one message for this agent, so that a message is its
block; the rate limiter's window is time, and whether it drops a stranger is left
open. `Start` and `Seed` are `start()`; `SeedFails` is its `getBlockNumber` rejecting,
which, like a failed first scan, leaves a listener with no subscription and no timer.
Blocks are mined whenever the chain likes, and a scan may come late or fail; so a live
event can move the cursor past a dropped message further than the safety window
reaches back. `outrun` records the messages this happened to.

### TurnPermission (MCTurnPermission, TurnPermissionProofs)

One service, one TUI turn, one turn per chat. `BeginChat` and `EndChat` are the
override and the `finally` block of the dispatcher; `Resolve` and `Ask` are
`PermissionService.resolve`; `Post`, `Verified`, `Refused` the HTTP answer around
its signature check; `Tap` and `Expire` the keyboard, its timer and the relay's
sweep; `Shutdown` and `Exit` the signal. A turn makes one call at a time.
The operator may change the mode at any time, also while a Telegram turn is under
way, and the two chats' turns overlap; `tangled` records the overlaps after which
the code puts an older mode back (section 7).

### Session ← GatewayLifecycle (MCGatewayLifecycle, GatewayProofs)

`Session` is what a client may rely on: claimed once, started once, ready only
after that start, never back from its end. `GatewayLifecycle` has `Provision`,
`BodyRead`, `Rejected`, `Unseal`, `Commit` (the stretches of
`/bootstrap/provision`), `StartDone` and `StartFails` (`RealRuntime.start`),
`BeginTurn`, `Write(s)` (a tool writes to slot `s`), `EndTurn` (a turn that completes
and `#fireBackgroundFlush`), `LeaveTurn` (one whose model call or activity log
throws, or a bypass command: it fires no flush), `FlushReads` and `FlushDone`,
`Sync`, `SyncReads`, `SyncDone` (`flushSync` behind the sync manager's queue), and
`Signal`, `Disposed`, `Close`, `ForceExit` (`shutdown` with its ten-second backstop).
What a flush does inside is MemorySync's subject: here it takes the writes that are on
disk when it reads, and ends in one of three ways. All is anchored (`Anchors`); all but
the profile, whose failed upload is swallowed (`AnchorsButProfile`); or an upload or the
anchor fails and nothing is (`Breaks`). In that case the slots that were uploaded by
then stay marked in the diff cache, and what was read from them is in `marked`: no flush
takes it up until a later write changes the slot. `asked` is how far the writes had come
when a turn last asked for a flush; `failed` and `skipped` are history: what a failed
flush had, and what it left marked.

### EventStream (MCEventStream, DeliveryProofs)

`Publish` with the ring, `Connect` with the replay after the client's last id,
`Read`, `Drop`, `Restart`. `opened` remembers how far the daemon had come when the
client first connected: what it is owed starts there. Subscribers do not influence
each other; one is enough.

### Mutex ← ScopedLock (MCScopedLock, ScopedLockProofs)

Every step is one system call on a path and its inodes, so that a file unlinked
by another process lives on for whoever has it open. `Open`, `Judge`, `Unlink`,
`Write` are `acquireScopedLock`; `RefreshRead`, `RefreshOpen`, `RefreshWrite`,
`ReleaseRead`, `ReleaseUnlink` the handle; `ClearRead`, `ClearUnlink`
`clearStaleScopedLock`. `Mutex` is what a lock promises: who enters finds nobody
inside. The promise lapses, and says nothing from then on, when two calls overlap in
a way the empty file excuses or a refresh comes after the TTL (`overlap`, `late`);
`holders` are the processes that hold a handle, in the middle of a refresh or a
release too (`Holds`).

### AutoTopup (MCAutoTopup, PaymentProofs)

A pass of `tick()` is a process. `Begin` is the part before the first await, with
its early returns; `InitReturns`, `BalanceRead`, `BalanceUsed`, `ProvidersRead`,
`Decide`, `DepositDone`, `TransferDone`, `TxFails` are the stretches between the
awaits, and for the balance the node's answer (`BalanceRead`) and its use
(`BalanceUsed`) are two steps, because others act in between. Each transaction costs
up to `Gas`, paid from the wallet that the check looks at (`Mined`, `GasOnly`, which is
also `brain.init()`'s acknowledgement). One that throws was never sent, was mined,
reverted, or is still to be mined (`Throws`); what nobody waits for any more, after a
timeout or a `Restart`, is in `late` (`Leave`) and is mined or dropped at any later
time (`LateLands`). Restarts are unbounded. The counter is a function of the day,
which is what the code keeps of it. `World` is the chain: others pay into or out of
the wallet, inference eats the envelope, time passes. `event` is the kind of the
event this step hands to the operator.

### TelegramListener (MCTelegramListener, TelegramListenerProofs)

The listeners of several processes for one token. `Start`, `Retry`, `Poll`,
`PollFails` are `start()` with its retries, cut at its awaits; `Receive` is
`onMessage`, whose limiter may drop; `Flush` the debounce buffer; `BeginTurn` and
`EndTurn` the per-chat chain of promises (`handleFlushed`, `dispatchOne`); `Stop`,
`BotStopped`, `Drained` are `stop()` cut at its two awaits, and `Refresh` the minute
timer, which stops the listener if the lock is lost. A message is its number in the
order of sending; `pending` is what Telegram keeps for the next poll. Three history
variables record what the guarantees depend on: `cut` (a stop fell into a start),
`stray` (a poll was refused for good, or returned a message to a listener being
stopped), `stolen` (a live holder's record went stale).

### BrainHistory (MCBrainHistory, GatewayProofs)

One channel. `arrays` are the arrays made for it since the start: `infer()` keeps
the index of the one it found (`ref`), and the last is the one the map holds.
`Begin`, `Answer`, `TurnFails` are a turn around its model calls; `Hold` is
`getOrCreateHistory`; `Folded`, `FoldFails`, `Compacted` a compaction around the
call for the summary, `Fold` what it computes; `WriteTemp`, `Rename`,
`RewriteFails` the rewrite of the file; `AppendOpen`, `AppendWrite`, `AppendFails`
an append, which goes to the file that was open even if the path names another by
then (`linked`), and may be cut short (`torn`); `Reset`, `ResetFails`, `Cleared`
the operator's reset; `Restart` the hydration. A message is what it tells of: a
line of a turn, or, for a summary, the set of lines folded into it.

### Proof modules

The proofs of a component are in a module of their own, or in one with those of a
second component that moves the same thing: PaymentProofs (PromusMarket, AutoTopup),
DeliveryProofs (EventStream, A2AInbox), GatewayProofs (GatewayLifecycle,
BrainHistory). Such a module extends both; so that it can, AutoTopup, A2AInbox and
BrainHistory call their specification, initial predicate, next-state relation, type
invariant and variables `Topup…`, `Inbox…` and `History…`.

### How they compose

The modules meet where the components do, each with the other reduced to what it
relies on: GatewayLifecycle's `FlushReads`/`FlushDone` is MemorySync's flush seen
from outside: that it ends is `EveryFlushRuns`, that what it anchored stays is
`ImplementsAnchor`, and that a failed one leaves its uploaded slots marked is the `cache`
of `PutBlob`, which nothing takes back (`memory_sync_sidecar`); MemoryRestore's
`Flush` is a successful one; A2AInbox's `Infer` is a turn, and BrainHistory's turns
are what `BeginTurn` and `EndTurn` of GatewayLifecycle, and those of
TelegramListener, bracket; GatewayLifecycle's `listening` is a held ScopedLock,
whose promise TelegramListener uses as a lock taken in one step. No module is the product of two others: the
products would be too large for TLC, and the interfaces are this narrow.

## 4. Runs and bounds

| Run | Shows | States |
|---|---|---|
| `memory_sync` | `CacheExplained`, `ImplementsAnchor`, `EveryFlushRuns` | 75 k |
| `memory_sync_sidecar` | violated: `SidecarOnlyAnchored` | – |
| `market` | `NoUnsettledAgreement`, `DisputePaysByConsent`, `SilenceIsAcceptance`, `Solvent`, `ImplementsEscrow` | 149 k |
| `restore` | `FailureRemembered`, `LocalWins`, `AnchoredSurvives`, `IdentityHeals` | 511 k |
| `inbox` | `DeliveredOnce`, `NothingLost`, `WakesOnlyContacts`, `QueueDrains`, `EveryMessageRecorded` | 270 k |
| `turns` | `WaitsForPending`, `RunsWithConsent`, `ModeKept` | 2.7 M |
| `gateway` | `SyncCovers`, `LockReleased`, `ImplementsSession`, `TurnFlushed` | 1.3 M |
| `events` | `InOrder`, `MissesOnlyBeyondRing` | 31 k |
| `lock` | `HolderNamed`, `ImplementsMutex`, `Reclaimed` | 18 k |
| `topup` | `CapOvershoot`, `ReserveKept`, `RefillOrTold` | 1.5 M |
| `telegram` | `OnePoller`, `LeavesClean`, `InOrder`, `KeptUntilTurned` | 229 k |
| `brain` | `MemoryIsDisk`, `EveryTurnKept`, `ResetSticks`, `RememberedOnce` | 830 k |

All type invariants are theorems (section 6), with the structural facts some of them
carry (nothing is in a queue that is not in the history, a turn that asks holds an
array that was made), so that no run spends a property on them. `PROJECT.json` names a mutant for each property of each passing run.

`CHECK_DEADLOCK FALSE` stands where a bound can be used up or where the process
really exits. The market keeps the deadlock check.

**Why these bounds.**

- *memory_sync*: two versions and two slots let an old and a new content of one
  slot be in disk, upload, batch, mempool and chain at once while another slot
  fails; two waiting flushes are one more than a chain needs to show its tail; one
  failure and one crash may fall anywhere, so that "a failure, then a good flush,
  then a crash" is reached. The proofs remove the bounds for the safety part.
- *market*: one job with any callers out of three accounts, one of them the fee
  recipient, who may also be a party. Amount 20 has the smallest non-zero fee, 41
  leaves dust; times 0 to 5 with a window of 2 and a lifetime of 4 put every
  deadline before, at and after the other. Jobs do not share state except
  `balance`; the proofs cover any number.
- *restore*: three instances in one run. A constant `Setups` and a variable
  `setup` chosen once let one run check several: all of the agent's own slots with
  two crashes; the pack next to the profile, whose restores overlap; the identity
  with failing downloads and chain reads. Two facts tell a lost one from a kept
  one. The proofs are for any `Setups`, which bound nothing else.
- *inbox*: four instances in one run, likewise: two overlapping scans beside the
  subscription, three or four blocks so that chunks of two end in the middle, a
  contact edited twice around two crashes, failing reads. The safety window is one
  block, so that the live event of block 4 outruns a dropped message in block 2 and
  that of block 3 does not: both sides of its edge are reached. The proofs remove the
  bounds.
- *turns*: two chats beside the TUI, so that prompters and modes are swapped under
  a third turn; two approvals, two answers being verified at once: any pair of
  answer, tap, sweep, timeout and shutdown meets on one approval and on two. The one
  call is a dangerous command, which each mode answers differently. The chats are symmetric (the run has no temporal property). The proofs remove the
  bounds.
- *gateway*: two provisions, two turns at once, two writes to the profile and to
  another slot, one failed flush: the write before and after a flush has read, in the
  same turn or in another, to the slot whose mark it lifts or to the other one.
  The proofs remove the bounds.
- *events*: a ring of two and five events overflow it twice over; three breaks put
  one before the first id, one with events on the wire and one longer than the ring.
- *lock*: two processes, one of whose pids is reused; a third would wait like the
  second. The age runs one tick beyond the TTL, where it stops mattering.
- *topup*: two passes, which is what the timer and the endpoint give; a top-up of
  one unit, a reserve of two, gas of one and three units in all, so that a wallet just
  thick enough falls below the reserve by the gas, and a deposit is affordable but for
  the reserve; one late transaction; two days, so that the counter is passed at a
  day's end, and any number of restarts, which lose it. The proofs remove the bounds.
- *telegram*: two processes, two lives between them, so that a token is handed over
  by a stop, by a death and by a lock grown stale; two messages of one chat are the
  least that can be reordered, and a batch of two the least that is debounced. The
  other chats share nothing but the lock; the proofs have any number.
- *brain*: a file of three turns of an earlier life, so that the first fold folds
  turns it did not see being answered, and three new turns, the last of which may
  fold a summary; two turns overlap; one restart, one reset and one fault anywhere. The proofs remove the
  bounds.

**Provisos in properties.** Some properties hold only without an event that the
model contains, and say so: `CacheExplained` without a failure; `AnchoredSurvives`
and `LocalWins` without a failed read and without a write torn by a crash or a
flush, for the profile with its key at hand; `EveryMessageRecorded` and `NothingLost` for
one life of the process, and but for the messages that are `outrun`; `FailureRemembered` without a failed read of the
slots; `SyncCovers` but for what a failed flush left marked (`skipped`) and
a profile whose upload is still to be done; `TurnFlushed` for turns that asked for a
flush (`asked`), until it fails (`failed`) or the process stops; `LockReleased` unless
the signal fell into the start; `MissesOnlyBeyondRing` for a client that has read
an id and was not away longer than the ring; `HolderNamed` and `ImplementsMutex` without overlapping
calls and late refreshes; `ModeKept` unless the mode was set under a turn that puts
an older one back (`tangled`); `RunsWithConsent` says that an approval reached the turn
that asked, not who gave it; `OnePoller`, `LeavesClean` and `InOrder` unless `cut`,
`stray` or `stolen`; `ReserveKept` without overlapping passes and other spenders (`crossed`), and
but for gas and what late transactions took (`taken`);
the properties of BrainHistory but for turns that met a fold, a reset or a failing
disk. Each proviso is there because the code breaks the property without it, and
section 7 says how.

## 5. Fairness

Weak fairness only, and only for what the code's scheduling provides:

| Specification | Fair | Because |
|---|---|---|
| `MemorySync!FairSpec` | continuations of a flush; `Land`; `Boot` | the event loop runs what is ready, a broadcast transaction is mined, a supervisor restarts the daemon. Saves, turns, failures and crashes need not happen |
| `MemoryRestore!FairSpec` | restore steps, `Boot`, `Turn` | the same; the lazy restore rides on turns, so that `IdentityHeals` assumes that turns keep coming. A download ends because `withTimeout` and the retry count end it; that it does not fail for ever is the bound on failures |
| `A2AInbox!InboxFairSpec` | timers, scans, handlers, drain | `setInterval` and awaited calls; not the chain, the operator or the host |
| `GatewayLifecycle!LiveSpec` | flush steps | a flush settles because receipts and uploads give up. `Disposed` and `Close` are *not* fair: a listener may hang |
| `AutoTopup!TopupFairSpec` | that some pass begins or goes on | `setInterval` goes on calling `tick()`, and every call to the node or the broker returns or throws. Transactions may fail each time or land late, others may spend, `stop()` or a restart may come |
| `ScopedLock!FairSpec` | calls under way, refreshes, the retry of a refused process, `Tick` | system calls return; the listener retries for longer than the TTL (twelve times thirty seconds) |

PromusMarket, EventStream, TurnPermission, TelegramListener and BrainHistory state no
liveness: nobody has to call a contract, reconnect, answer an approval or write to
the bot. The theorem `NeverStuck` says instead that anyone *could* close the job, and
`WaitsForPending` that a turn that waits is waiting for something that can still be
answered, swept or timed out.

## 6. Proofs

TLAPS checks the theorems below for all values of the constants that satisfy the
assumptions `SlotsAssumption`, `MarketAssumption`, `GatewayAssumption`,
`TopupAssumption`, `PermissionAssumption`, `StreamAssumption`, `LockAssumption`,
`ListenerAssumption`, `RestoreAssumption`, `InboxAssumption` and
`HistoryAssumption`. These only type the constants, except for what the code
fixes: a slot occurs exactly once in the visiting order, the market's minimum amount
is positive and its fee at most the whole, the ring has room for an event, a day has
length and its cap is positive, a scan's chunk has a block, a fold keeps a turn. Two
sets must be finite: the passes of a top-up (`CapOvershoot` counts them) and the
processes of a machine. All other sets may be infinite, and the bounds of the runs
are arbitrary numbers here.

**MemorySyncProofs.**
`TypeCorrect`: `TypeOK`. `OrderedCorrect` / `Refinement`: `ImplementsAnchor` is not
inductive, because nothing in it says what is in the mempool. `Ordered` says that
along disk → upload → batch → mempool → chain the versions of one slot never
cross: whatever is further along is older or equal. It holds because one flush
runs at a time and one wallet's transactions are mined in order, and it survives
given-up receipts and crashes because the mempool does. From it a `Land` is an
`Anchor` step and everything else a `Write` or a stutter. `CacheCorrect` and
`SidecarCorrect` need besides what a flush knows of its own transaction
(`Tracked`: the last one submitted; when the receipt says success the whole batch
is on chain) and that cache and sidecar are explained together, since each crash
turns one into the other. `ReceiptOwed` is what remains of `EveryFlushRuns` without
time: a flush that waits for a receipt has its batch at the end of the mempool, or
its fate is known.

**MemoryRestoreProofs.** The invariant `RestoreInv` has types and stages (`Filed`,
`Staged`: before the daemon is up nothing but the boot restore is at work) and,
while nothing has failed, what each slot has at the point its restore has come to.
`LocalWinsCorrect` and `SurvivesCorrect` are both about what must not get lost, and
neither is inductive: whether a restore may overwrite a file depends on what it saw
when it checked. `Agent` says for a slot of the agent that its files are on this
disk in full or not at all until the restore has checked (`Booting`), that the
restore writes only where nothing was, the root first, and that afterwards the disk
holds all that is anchored or was saved (`Holds`, `Serving`). `Profile` says the
same of the profile for as long as each boot had its key. A flush then anchors a
superset of what is on chain, and a crash finds every slot present or absent.
`Settled` excludes the late retries: as long as nothing failed there are none.
`RememberedCorrect` holds with every failure, crash and retry: the identity's file
is empty or what the chain has (`Sourced`, as is whatever a restore has read before),
and a restore that says it skipped or restored the slot has it there (`Seen`), so that
the flag is dropped only when the file is there (`Remembered`). `Sourced` needs no
proviso; the other two need that no read of the slots failed silently (section 7).

**PaymentProofs**, the market. `TypeCorrect`; `Conservation`: an unsettled job has
paid nothing, a settled one exactly its amount (`PaidOnce`, inductive with `TypeOK`,
whose `splitProposals` and `paid` are as long as `jobs`). The arithmetic is in lemmas
(`DivBound`, `FeeBound`, `SplitTotal`): a share of at most the amount, scaled by
what is left after the fee and rounded down, never exceeds what is left.
`Refinement`: every release closes one open deal in full (`ReleaseCloses`), a
creation opens one, the rest leave all deals as they are. `AgreementCorrect`:
`NoUnsettledAgreement` is inductive once it also says that nothing was proposed
before a dispute (`Signed`), as a dispute opened on two old proposals would
violate it. `ConsentCorrect` is an action property: of the steps out of a dispute
only a matching proposal pays the provider, and the buyer's refund does not.
`SolventCorrect`: the contract holds the sum of the unsettled amounts. The sum is a
fold over a set (`MapThenSumSet`), of which TLAPS knows nothing; that it exists, is
unique and grows by an element's amount when the element joins (`SumExists`,
`SumUnique`, `SumRemove`) is proved by induction over the subsets of a finite set,
each time as the minimal counterexample of a well-founded relation (`WFMin`), which,
unlike the library's induction rules, takes no operator as its parameter.
`SilenceCorrect`: what holds from the moment the acceptance window of a delivered job
has passed is that the job is as it was or settled to the provider (`Accepted`), and
that is inductive: a dispute comes too late, and each of the three ways out that are
left, `acceptResult`, `claimTimeout` and `forceClose`, pays the provider.
`CoverageCorrect`: the balance covers each unsettled job, as the sum is that job's
amount plus a natural number. `NeverStuck` and `ClosingStep` say that no job is locked
for ever, with ENABLED written out: past the lifetime none of the conditions
`forceClose` may revert on holds (`Closable`; that the contract has the money is
`CoverageCorrect`), and the state in which the job is settled and paid and nothing else
is changed is a next state.

**PaymentProofs**, the top-up. `TopupTypeCorrect`. `CapCorrect`: the counter plus the
passes that have read it and not yet counted (`Pending`) exceeds the cap by at most
the number of the other passes (`CapInv`); a pass that passes the check joins
`Pending` while the counter is below the cap, and one that counts leaves it.
`ReserveCorrect`: while nothing has `crossed`, the pass under way is the only one, and
the wallet it has seen is not more than the wallet is together with what late
transactions have `taken` since (`Knows`, in `ReserveInv`). A step that brings a deposit
to the ledger, and ends no late transaction, is that pass's own (`DepositStep`), and
takes the top-up and its gas.

**GatewayProofs**, the process.
`TypeCorrect`, including where a write can be: to be found by the next flush, in one's
hands, anchored, or behind the mark of a failed flush; `SyncCorrect`: when `/sync` reads
the disk everything before its mark is anchored, in its hands, or was left marked by a
flush that failed (`Covering`), because flushes do not overlap: the one before has
ended, in whichever way (`Ends`), before the next reads. `OneWinnerCorrect` and `Refinement` rest on
`Unclaimed`: while the state is Bootstrapping the session is nobody's and nothing
was started, so the one step that checks and sets it without an await in between
(`transitionToProvisioned`) decides all races. `LockCorrect` rests on `Stopping`:
after a signal no session is claimed any more, hence a start still under way was
under way at the signal, and until then listeners exist only with a runtime, which
`stop()` disposes. `HandedOver` is `TurnFlushed` without time: as a turn runs only on
a runtime, the end of one that completes starts a flush where none is in flight, and
until that one has read the disk, or failed, it is under way (`InHand`). Of turns that
throw, or end while a flush is being sent, neither says anything.

**GatewayProofs**, the history of a conversation. `HistoryTypeCorrect`, and four
invariants, none of them inductive, which stand on one another:

- `Meet`: two turns under way of which one folds excuse each other (and so on for
  `tangled` and `overlap`): what the history variables record is there before it is
  needed. `Attached`: a turn that met neither a fold nor a reset holds the current
  array, and the current file.
- `Fresh`: a turn that has not been answered is told of nowhere, and one that waits
  for its append is in each array and each rewrite in full or not at all. With it
  `Single`: no line is told by two messages of an array, a rewrite or the file, and
  the file does not tell of a turn that is still to be appended
  (`RememberedOnceCorrect`). The step to watch is the append after a rewrite; the
  proviso `twofold` is the one case in which the rewrite took the turn along.
- `Live` are the copies of the conversation that are, or are about to become, the
  memory or the file: the current array, the file, and what a turn that folds or
  rewrites holds. `LiveStep`: every live copy after a step comes from one before it,
  loses nothing, and gains only lines of a turn under way. Hence what all copies tell
  of stays (`Lasting`, `EveryTurnKeptCorrect`) and what none tells of never comes back
  (`Finished`, `ResetSticksCorrect`).
- `Synced` says what `MemoryIsDisk` says in the midst of turns: memory is the file
  plus the turns yet to be appended, unless a rewrite is under way, which then
  carries the memory (`MemoryIsDiskCorrect`). It is about what overlapping turns,
  clean resets and folds that met no turn leave; a fault, an unclean reset or a fold
  that met a turn (`tangled`) ends the claim until the next restart.

The data under this, in lemmas: what a concatenation, a fold and the hydration tell
of, and that they tell nothing twice (`CatTold`, `CatOnce`, `FoldIs`, `HydratedIs`).

**TurnPermissionProofs.**
`WaitsCorrect` and `ConsentCorrect`: `WaitsForPending` is inductive with the fact
that ids are used once and in order (`Bookkept`: who waits under an id asked under
it, and pending ids are at most `asked`), and consent follows from it, since an
answer reaches the very turn that asked. Consent is that of a mode, of an approval of
this very call, or of a session allowance, which may have been given for another call of
the class; who answered is not recorded. `ModeCorrect`: while nothing is tangled
every Telegram turn under way has saved the mode the operator wants, and where the
override changes the mode only one such turn is under way (`Kept`).

**DeliveryProofs**, the stream. `TypeCorrect`; `OrderCorrect`: ring and wire are
ascending and of this life, and what the client has of this life is older than what
is on the wire (`Ordered`, `Known`).
`RingCorrect`: in the first life what is on the wire is newer than what the client
has read (`Fresh`), and every event it is owed is read, on the wire, or in the ring
where a reconnection replays it (`Whole`), as long as it is neither `blind` nor
`behind`.

**DeliveryProofs**, the inbox. `InboxTypeCorrect` and `DeliveredOnceCorrect`: the same
message comes by the subscription, by overlapping scans, and again after a restart,
and each of these looks at the history at another time. What makes it one delivery is
that the message is recorded in the very step that queues it and that the history
outlives the process: whatever was delivered is recorded (`Once`), and what is in the
queue or in the drain's hands is recorded too (`Queueing`). `Scanned` bounds what a
scan goes through by the head it has read, `Staged` by what is on the chain.
`WakesOnlyContactsCorrect` is an action property: the check is in the step after the
await, together with the enqueue, so that edits during the fetch are seen.
`NothingLostCorrect` is the safety part of `EveryMessageRecorded`: a message that has
yet to be recorded, and that no live event outran, is ahead of every scan that has
completed and in reach of the next.
It is not inductive, because it says nothing of the scans under way, of which several
overlap. `Ahead` adds that each of them has the message in hand, before it, or has yet
to read where to start (`Due`), and that the cursor, where it has passed the message,
has passed it by no more than `Safety` blocks (`Near`), which is what `outrun` leaves;
`Turns` that the first scan is alone until the listener is on and that those of the
timer look back `Safety` blocks; `Marks` orders the counters. Nothing relates the window
to the timer: 240 blocks are about a minute, the timer's default is sixty seconds, and
its failed scans are swallowed, so that messages can be outrun, and are lost (section 7).

**ScopedLockProofs.**
`HolderCorrect`: without overlapping calls and late refreshes one process is in a
call at a time, the holder's record is at the path and young, the file a process
has open is the one at the path, and nobody unlinks while somebody holds
(`Exclusive`). `Refinement`: under the same invariant only the write of a record
enters (`WriterAlone`: nobody is inside then), a release or a crash leaves, and the
step in which calls overlap or a refresh is late is the abstract lapse.
`MutualExclusion` says it of a single state. `RefusedForCause` is the part of
`Reclaimed` without time, and needs none of these conditions: whatever overlaps, a
record is of a process that holds the lock or is gone (`Owned`), so that any other file
is taken for stale by who judges it, and one whose pid was given away once it is older
than the TTL.

**TelegramListenerProofs.**
`OnePollerCorrect`: whoever believes to hold the lock is named by it (`Poller`), and
who polls has not finished stopping (`Calm`). `LeavesCleanCorrect`: the turns that
`stop()` counts are all there are, because a stopped listener's buffers are empty
(`Clean`). `KeptCorrect`: each step moves a message from one of its three places to
the next or to the log (`WithinStep`); it needs no invariant beyond the types, but
lemmas on what taking an element from a sequence leaves (`TakeFacts`). `InOrderCorrect`
puts what a listener has of a chat in one line of batches, the turn under way first,
the chain after it, the debounce buffer last: the line ascends (`Ladder`), all of it
comes after the log and before what Telegram still keeps or has yet to get
(`Between`), and a chat has one turn at a time. That no second listener has a part
of the chat at a hand-over is what `OnePoller` and `LeavesClean` are for; their
invariants `Calm`, `Poller` and `Clean` are part of this one.

**Only model-checked.** Every invariant and every action property of the passing runs
is a theorem, and so is `SilenceIsAcceptance`, a temporal formula that needs no fairness.
What needs fairness stays with TLC, since TLAPS 1.4.5 does not handle it:
`EveryFlushRuns`, `IdentityHeals`, `QueueDrains`, `EveryMessageRecorded`, `TurnFlushed`,
`Reclaimed`, `RefillOrTold`. Of most of them the part without time is proved: of
`EveryFlushRuns` by `ReceiptOwed`, of
`IdentityHeals` by `RememberedCorrect`, of `EveryMessageRecorded` by
`NothingLostCorrect`, of `TurnFlushed` by `HandedOver`, of `Reclaimed` by
`RefusedForCause`. No module declares a RECURSIVE
operator.

SANY and tlapm bind the prefix operators SUBSET and UNION differently:
`UNION S \ {x}` is `(UNION S) \ {x}` to the one and `UNION (S \ {x})` to the
other. Where one of them stands before a set difference the modules have parentheses,
so that TLC and TLAPS look at the same formula.

## 7. Where code and docs disagree

One disagreement has a run that exhibits it (`findings` in `PROJECT.json` quotes
the lines): *memory_sync_sidecar*. `sync-manager.ts:362-364`: the sidecar "only
reflects state that's actually on chain". `lastPlaintextHash` is set right after
each upload and never taken back; if the anchor fails, the next flush that anchors
another slot writes the whole cache.

The others were met while modelling. They have no run of their own; the models
contain the behaviour, and the proviso it makes necessary is given in brackets.

- Memory sync: "the next flush retries the same upload" (`sync-manager.ts:363-366`);
  after a reverted or lost transaction the marked cache makes the same process skip
  it. [`CacheExplained`: failed = 0]
- Market: a delivered job settles to the provider when the buyer was silent
  (`PromusMarket.sol:54-55, 256-258`). `forceClose` counts from `createdAt`, and
  `markDone` has no deadline: a job delivered on its last day, or later, is paid out
  inside the acceptance window. [`SilenceIsAcceptance` is about what follows once the
  window has passed]
- Memory restore: local writes "must NOT be clobbered" (`memory-restore.ts:30-31`).
  The check and the write are a download apart, and turns save meanwhile.
  [`LocalWins` is about the restores
  that are not retried: NoTrouble]
- A slot read that fails counts as an empty slot list, so that no turn retries
  (`memory-restore.ts:121` against `build-runtime.ts:341-346`).
  [`IdentityHeals`: blips]
- `ensureSyntheticIndexEntries` creates a missing `MEMORY.md` (comment
  `index-sync.ts:46`: skipped); the retry of a failed pack then finds it and skips
  the slot. [`AnchoredSurvives`: failed = 0]
- The root of a pack is written first and its presence decides at the next boot: a
  crash before the siblings makes the next flush anchor the pack without them
  (`pack-gather.ts:106` against `sync-manager.ts:260-261`). [torn]
- A profile written while locked wins over the anchored one on unlock, and the next
  flush anchors the partial one (`memory-restore.ts:172-175`). [keyless]
- The profile slot is decided by `user/profile.md` alone; with topics but without
  that file every restart overwrites unflushed topics. [`LocalWins`: the profile's
  files are left out]
- A2A: "safety-net re-scans never move the cursor backward"
  (`listener.ts:212-214`); the comparison is with the cursor read when the scan
  began. Harmless thanks to the history.
- The subscription misses events, and "this safety window catches them"
  (`listener.ts:55-60`, about a minute of blocks). The timer's default is sixty seconds
  (`:144`), a failed scan is swallowed (`:147-151`), and a live event advances the cursor
  at once (`:231`): when it puts the cursor more than the window past a missed event
  before a scan has come, no scan reaches that event any more. [outrun]
- A sender blocked during the fetch is recorded as pending (`listener.ts:345`
  against "blocked → drop silently", `:26`).
- The cursor is advanced when a live event arrives, not when it is handled; what
  was still being fetched at a stop is behind the cursor, and behind the safety
  window once the chain has moved 240 blocks (`listener.ts:231` against `:20-22`).
  [`EveryMessageRecorded`: crashes = 0]
- Permissions: the `finally` block "still restores previousMode"
  (`build-runtime.ts`). A `/yolo` or `/perms` that arrives during a Telegram turn is
  undone by it, and with `PROMUS_TG_YOLO=1` and turns of two chats overlapping, the
  second saves the first one's `off` and leaves it behind. [`ModeKept`: tangled]
- The prompter is a field of the one service: while turns overlap, a call of the
  TUI or of another chat asks whichever chat installed its prompter last, and the
  prompter of a turn that is over can stay. [no property says who is asked]
- "dangerous patterns always denied" in strict mode (`service.ts:5`); the session
  allowance is consulted before the mode.
- Gateway: a signal during `start()` finds no runtime to dispose; the start goes on
  and its listeners take locks that the exit leaves behind (`real-runtime.ts:350`
  against `entrypoint.ts:97-100`). [`LockReleased`: early]
- `stop()` "drains pending sync" (`real-runtime.ts:107`), but awaits only the flush
  in flight; and "the next turn's writes will ride on its (or the next) cycle"
  (`:296-297`), but the flush in flight may have read the disk already, and there may be
  no next turn (against `sync-manager.ts:224-227`). [`TurnFlushed`: such a turn leaves
  `asked` where it is; shutdown]
- A turn whose model call or activity log throws leaves before
  `#fireBackgroundFlush` (`real-runtime.ts:243-274`): what its tools wrote waits for the
  flush of another turn. [`LeaveTurn`, asked]
- After a flush whose anchor failed the slots stay marked, and the next `/sync` skips
  them and answers 200 without anchoring them (`sync-manager.ts:279-280, 301, 317,
  348` against "the next flush retries", `:363-366`). [`SyncCovers`: skipped]
- Event stream: a connection that breaks before the first id replays nothing, and
  after a restart the old id filters out new events. [blind; life = 0]
- Locks: between `openSync('wx')` and the write the file is empty and counts as
  stale, so that a second process may take the lock (`locks.ts:3-4`).
  [`HolderNamed`: overlap] `clearStaleScopedLock` deletes a live process's lock
  whose refresh is late (`locks.ts:206-208`). [late] `local-entrypoint.ts` ignores
  the answer of the refresh on which the comment says the daemon will exit.
- Top-up: "Hard cap … Up to `maxPerDay` topups per envelope per UTC day"
  (`auto-topup.ts:20-22`; the option, `:47`, counts successful ones). Two passes
  under way together both read the counter before either counts; and a deposit
  whose transfer failed counts nothing, so that every poll deposits again until the
  wallet is thin. [`CapOvershoot`: one more per further pass]
- "Don't attempt a topup if doing so would leave the agent EOA with less than this …
  after the deposit (gas buffer)" (`auto-topup.ts:52-56`). The check (`:363`) adds no gas
  for the deposit, and compares a balance read before a deposit that timed out, or was
  under way when the process died, may land. [`ReserveKept`: Gas, taken, crossed]
- Telegram: `stop()` that falls into the awaits of `start()` releases the lock, and
  the start then polls without it, there being no check of `stopped` after the
  awaits (`listener.ts:248-282`). [cut] A poll that returns while `bot.stop()` is
  awaited fills the buffers after `flushAll`, and its turns run after the lock is
  gone. When `bot.start` rejects, the lock is given back with turns under way
  (`:276-281`). [stray] Every start drops what people wrote while nobody polled
  (`drop_pending_updates`), also at a hand-over.
- Brain: a fold is to summarize "older messages" (`compute.ts:391-393`); it
  replaces the array with one computed from the messages there were before the model
  was asked for the summary, so that a turn answered meanwhile is dropped from
  memory, and a `/reset` meanwhile is undone. The rewrite is said to be atomic
  (`history-persist.ts:131`): the rename is, but an append that had the old file
  open writes to an unlinked one. [excused, tangled, twofold]

## 8. What is not modelled

- *Pure functions and formatting* (Telegram formatting, parsing, sanitising, path
  guard, redaction, dangerous-command patterns): classification and text; a
  dangerous command is one call class in TurnPermission.
- *Cryptography, wallets, keystores, envelopes*: an opened envelope or a verified
  signature is a step that succeeds or fails.
- *Storage, RPC, the model*: external; uploads, downloads, log reads and answers
  are steps that end, fail, or hang where the code lets them.
- *Sequential commands and scripts* (CLI, bootstrap, minting, naming, drivers,
  registries filled at boot): one actor, no shared state. `init` and `upgrade`,
  which can be resumed half-way, are candidates for a module.
- *Stateless wrappers* (sandboxes, on-chain and system plugins, A2A sending,
  subname registrar).
- *Presentation* (web site, TUI). Together with the commands and wrappers above it
  is most of the repository's lines, which is why the map covers a small share of
  them: it covers the daemon's stateful core and the market.
- Inside modelled components: time is order (no wall clock), sizes of blobs, gas but the top-up's,
  the rate limiter's window, which of several error texts is returned, views and
  events of the contracts; the rounds of model calls and tools inside a turn; the
  retries and progress messages of outgoing Telegram messages.
- The market listener, the iNFT's transfers, the event queue and operator pairing
  have state of their own and no module yet (section 9).

## 9. Plan

The order followed what a fault would cost: memory and money first, then what wakes
the brain and what it may do, then the process around it, the bot and the history of
a conversation. What is left, in that order:

| Module | Composes / implements | Properties | Bounds |
|---|---|---|---|
| `MarketListener` | PromusMarket as the source of events | every lifecycle event of a relevant job is announced once | two jobs, one restart |
| `PromusAgentNFT` | replaces `Land`/`Revert` of MemorySync | a proof is used once, a transfer clears approvals, updates only by who may | two tokens, three accounts |
| `EventQueue`, `Pairing` | – | close against waiters; expiry, lockout, two writers | small |

Abstract specifications worth stating for what exists: a FIFO channel with loss for
EventStream; an at-most-once mailbox for A2AInbox; `Mutex`, which ScopedLock
implements, as the lock TelegramListener uses, by INSTANCE.

Theorems worth proving next: that a top-up pass ends without an event only if there
was enough or the operator was told within the cool-down (`RefillOrTold`). New runs
that answer the same question as an existing one become further instances of it
through `Setups`.
