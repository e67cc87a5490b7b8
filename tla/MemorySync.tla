----------------------------- MODULE MemorySync -----------------------------
(***************************************************************************)
(* The memory sync manager of the agent daemon                             *)
(* (packages/core/src/memory/sync-manager.ts): every turn asks for a       *)
(* flush, flushes run one after the other, and a flush uploads the slots   *)
(* whose plaintext hash differs from its diff cache, anchors them all in   *)
(* one `update` transaction and then writes the cache to a sidecar file    *)
(* that the next boot reads.                                               *)
(*                                                                         *)
(* Contents are version numbers: every save stamps a new `updatedAt`, so   *)
(* contents of one slot never repeat and a version stands for its          *)
(* plaintext hash too.  Version 0 of `cache` and `sidecar` stands for a    *)
(* missing entry and for the ciphertext roots init() takes from the chain: *)
(* neither equals any plaintext hash.  Version 0 of `local` is a missing   *)
(* file, of `chain` the placeholder written at mint.                       *)
(***************************************************************************)
EXTENDS Naturals, Sequences

CONSTANTS
    Slots,              \* slots the manager owns: pack, identity, persona, ...
    Profile,            \* the operator-encrypted slot
    SlotOrder,          \* the order in which doFlush visits the slots
    MaxVersion,         \* bound: contents per slot
    MaxWaiting,         \* bound: flush requests queued behind the tail promise
    MaxFailed,          \* bound: failed uploads, reverts and lost receipts
    MaxCrashes          \* bound: daemon crashes

ASSUME SlotsAssumption ==
    /\ Profile \in Slots
    /\ SlotOrder \in Seq(Slots)
    /\ \A s \in Slots : \E i \in 1..Len(SlotOrder) : SlotOrder[i] = s
    /\ \A i, j \in 1..Len(SlotOrder) : SlotOrder[i] = SlotOrder[j] => i = j
    /\ {MaxVersion, MaxWaiting, MaxFailed, MaxCrashes} \subseteq Nat

VARIABLES
    local,              \* [Slots -> Nat], the memory files on the daemon's disk
    cache,              \* [Slots -> Nat], lastPlaintextHash
    sidecar,            \* [Slots -> Nat], sync-state.json
    chain,              \* [Slots -> Nat], content behind the iNFT slot hash
    mempool,            \* Seq of batches, update() transactions not yet mined
    pc,                 \* where the flush in progress is waiting
    at,                 \* index into SlotOrder of the slot being visited
    up,                 \* content whose putBlob is awaited, 0 if none
    updates,            \* [Slots -> Nat], batch collected so far, 0 = not in it
    receipt,            \* fate of this flush's transaction, as the chain knows it
    waiting,            \* flushTurn calls chained behind the one in flight
    profileKey,         \* TRUE once the operator's PROFILE key is wired in
    failed,             \* flushes that lost an upload, a transaction or a receipt
    crashes             \* crashes so far

files    == <<cache, sidecar>>
flush    == <<pc, at, up, updates, receipt>>
bounds   == <<failed, crashes>>
vars     == <<local, cache, sidecar, chain, mempool, pc, at, up, updates,
              receipt, waiting, profileKey, failed, crashes>>

Empty == [s \in Slots |-> 0]
Batch == [Slots -> Nat]

Init == /\ local = Empty /\ cache = Empty /\ sidecar = Empty /\ chain = Empty
        /\ mempool = <<>>
        /\ pc = "idle" /\ at = 1 /\ up = 0 /\ updates = Empty /\ receipt = "none"
        /\ waiting = 0
        /\ profileKey \in BOOLEAN
        /\ failed = 0 /\ crashes = 0

-----------------------------------------------------------------------------
(* The world around a flush: tools, turns, the operator.                   *)

\* memory.save, the activity log or a tool writes a slot's file.  Tool calls
\* of the next turn run while the previous turn's flush is still going.
Save(s) == /\ pc # "down" /\ local[s] < MaxVersion
           /\ local' = [local EXCEPT ![s] = @ + 1]
           /\ UNCHANGED <<files, chain, mempool, flush, waiting, profileKey, bounds>>

\* flushTurn() / flushAll(): chained behind the flush in flight, never coalesced.
FlushTurn == /\ pc # "down" /\ waiting < MaxWaiting
             /\ waiting' = waiting + 1
             /\ UNCHANGED <<local, files, chain, mempool, flush, profileKey, bounds>>

SetProfileKey == /\ pc # "down" /\ ~profileKey
                 /\ profileKey' = TRUE
                 /\ UNCHANGED <<local, files, chain, mempool, flush, waiting, bounds>>

-----------------------------------------------------------------------------
(* doFlush, cut at every await.                                            *)

\* doFlush settles, by returning or by throwing: the tail promise's .catch()
\* lets the next queued flush run whatever became of this one.
Settle == /\ pc' = "idle" /\ at' = 1 /\ up' = 0 /\ updates' = Empty /\ receipt' = "none"

\* Mutant: no .catch() on the tail promise, a rejected flush blocks the queue.
StartFlush_NoCatch == /\ pc = "idle" /\ waiting > 0 /\ failed = 0
                      /\ pc' = "scan" /\ at' = 1 /\ updates' = Empty
                      /\ waiting' = waiting - 1
                      /\ UNCHANGED <<local, files, chain, mempool, up, receipt, profileKey, bounds>>

StartFlush == /\ pc = "idle" /\ waiting > 0
              /\ pc' = "scan" /\ at' = 1 /\ updates' = Empty
              /\ waiting' = waiting - 1
              /\ UNCHANGED <<local, files, chain, mempool, up, receipt, profileKey, bounds>>

Visited == SlotOrder[at]

Unchanged(s) == \/ local[s] = 0                     \* readOrNull / empty pack
                \/ cache[s] = local[s]              \* same plaintext hash
                \/ s = Profile /\ ~profileKey

\* Read the slot's file and compare its hash with the diff cache.
Scan == /\ pc = "scan" /\ at <= Len(SlotOrder)
        /\ IF Unchanged(Visited)
             THEN at' = at + 1 /\ UNCHANGED <<pc, up>>
             ELSE pc' = "upload" /\ up' = local[Visited] /\ UNCHANGED at
        /\ UNCHANGED <<local, files, chain, mempool, updates, receipt, waiting,
                       profileKey, bounds>>

\* putBlob answered: the cache is marked now, before the anchor.
PutBlob == /\ pc = "upload"
           /\ cache' = [cache EXCEPT ![Visited] = up]
           /\ updates' = [updates EXCEPT ![Visited] = up]
           /\ pc' = "scan" /\ at' = at + 1 /\ up' = 0
           /\ UNCHANGED <<local, sidecar, chain, mempool, receipt, waiting,
                          profileKey, bounds>>

\* putBlob throws.  The profile slot swallows it and the flush goes on; for
\* every other slot doFlush rejects, whatever it uploaded before.
PutBlobFails == /\ pc = "upload" /\ failed < MaxFailed
                /\ failed' = failed + 1
                /\ IF Visited = Profile
                     THEN /\ pc' = "scan" /\ at' = at + 1 /\ up' = 0
                          /\ UNCHANGED <<updates, receipt>>
                     ELSE Settle
                /\ UNCHANGED <<local, files, chain, mempool, waiting, profileKey, crashes>>

\* Mutant: the flush may return without anchoring what it uploaded.
NothingToAnchor_Always == /\ pc = "scan" /\ at > Len(SlotOrder)
                          /\ Settle
                          /\ UNCHANGED <<local, files, chain, mempool, waiting, profileKey, bounds>>

\* Every slot visited and nothing changed: no transaction, no sidecar write.
NothingToAnchor == /\ pc = "scan" /\ at > Len(SlotOrder) /\ updates = Empty
                   /\ Settle
                   /\ UNCHANGED <<local, files, chain, mempool, waiting, profileKey, bounds>>

\* updateSlots: one writeContract for the whole batch, then wait for a receipt.
SubmitTx == /\ pc = "scan" /\ at > Len(SlotOrder) /\ updates # Empty
            /\ mempool' = Append(mempool, updates)
            /\ pc' = "receipt" /\ receipt' = "pending"
            /\ UNCHANGED <<local, files, chain, at, up, updates, waiting, profileKey, bounds>>

\* The gas-price read or the broadcast throws: nothing reaches the mempool.
SubmitFails == /\ pc = "scan" /\ at > Len(SlotOrder) /\ updates # Empty
               /\ failed < MaxFailed /\ failed' = failed + 1
               /\ Settle
               /\ UNCHANGED <<local, files, chain, mempool, waiting, profileKey, crashes>>

ReceiptSuccess == /\ pc = "receipt" /\ receipt = "success"
                  /\ pc' = "sidecar"
                  /\ UNCHANGED <<local, files, chain, mempool, at, up, updates, receipt,
                                 waiting, profileKey, bounds>>

ReceiptReverted == /\ pc = "receipt" /\ receipt = "reverted"
                   /\ Settle
                   /\ UNCHANGED <<local, files, chain, mempool, waiting, profileKey, bounds>>

\* waitForReceiptResilient gives up after 30 tries: doFlush rejects although
\* the transaction may be mined already, or later.
ReceiptGiveUp == /\ pc = "receipt" /\ failed < MaxFailed
                 /\ failed' = failed + 1
                 /\ Settle
                 /\ UNCHANGED <<local, files, chain, mempool, waiting, profileKey, crashes>>

\* writeSidecar persists the WHOLE cache, best effort.
WriteSidecar == /\ pc = "sidecar"
                /\ sidecar' \in {cache, sidecar}
                /\ Settle
                /\ UNCHANGED <<local, cache, chain, mempool, waiting, profileKey, bounds>>
-----------------------------------------------------------------------------
(* The chain and the host.                                                 *)

\* One wallet's transactions are mined in nonce order, the order of submission.
Mined(fate) == /\ mempool # <<>>
               /\ mempool' = Tail(mempool)
               /\ receipt' = IF Len(mempool) = 1 /\ pc = "receipt" THEN fate ELSE receipt
               /\ UNCHANGED <<local, files, pc, at, up, updates, waiting, profileKey, crashes>>

\* Mutant: update() clears the slots that are not in the batch.
Land_ClearsOthers == Mined("success") /\ chain' = Head(mempool) /\ UNCHANGED failed

\* PromusAgentNFT.update rewrites exactly the slots of the batch.
Land == /\ Mined("success")
        /\ chain' = [s \in Slots |-> IF Head(mempool)[s] = 0 THEN chain[s]
                                                             ELSE Head(mempool)[s]]
        /\ UNCHANGED failed

Revert == /\ failed < MaxFailed /\ failed' = failed + 1
          /\ Mined("reverted")
          /\ UNCHANGED chain

\* A crash forgets the flush, the queue and the cache; a crash inside the
\* sidecar's writeFile leaves the old file, the new one, or one init() cannot parse.
Crash == /\ pc # "down" /\ crashes < MaxCrashes /\ crashes' = crashes + 1
         /\ sidecar' \in IF pc = "sidecar" THEN {sidecar, cache, Empty} ELSE {sidecar}
         /\ pc' = "down" /\ at' = 1 /\ up' = 0 /\ updates' = Empty /\ receipt' = "none"
         /\ cache' = Empty /\ waiting' = 0
         /\ UNCHANGED <<local, chain, mempool, profileKey, failed>>

\* A new process: init() loads the sidecar into the cache; whether the
\* envelope brings a PROFILE key depends on the operator.
Boot == /\ pc = "down"
        /\ pc' = "idle" /\ cache' = sidecar /\ profileKey' \in BOOLEAN
        /\ UNCHANGED <<local, sidecar, chain, mempool, at, up, updates, receipt,
                       waiting, bounds>>

FlushStep == \/ StartFlush \/ Scan \/ PutBlob \/ PutBlobFails \/ NothingToAnchor
             \/ SubmitTx \/ SubmitFails \/ ReceiptSuccess \/ ReceiptReverted
             \/ ReceiptGiveUp \/ WriteSidecar

Next == \/ \E s \in Slots : Save(s)
        \/ FlushTurn \/ SetProfileKey
        \/ FlushStep
        \/ Land \/ Revert
        \/ Crash \/ Boot

Spec == Init /\ [][Next]_vars

\* The event loop runs every continuation that is ready, and transactions are
\* mined; saves, turns, key changes, failures and crashes need not happen.
Fairness == /\ WF_vars(StartFlush) /\ WF_vars(Scan) /\ WF_vars(NothingToAnchor)
            /\ WF_vars(PutBlob) /\ WF_vars(SubmitTx) /\ WF_vars(ReceiptSuccess)
            /\ WF_vars(ReceiptReverted) /\ WF_vars(WriteSidecar)
            /\ WF_vars(Land) /\ WF_vars(Boot)

FairSpec == Spec /\ Fairness
-----------------------------------------------------------------------------
(* Properties.                                                             *)

PCs == {"down", "idle", "scan", "upload", "receipt", "sidecar"}

TypeOK == /\ local \in Batch /\ cache \in Batch /\ sidecar \in Batch
          /\ chain \in Batch /\ updates \in Batch
          /\ mempool \in Seq(Batch)
          /\ pc \in PCs
          /\ at \in 1..Len(SlotOrder) + 1
          /\ pc = "upload" => at <= Len(SlotOrder)
          /\ up \in Nat /\ waiting \in Nat /\ failed \in Nat /\ crashes \in Nat
          /\ receipt \in {"none", "pending", "success", "reverted"}
          /\ profileKey \in BOOLEAN

\* On its way to the chain: collected by the flush in progress, or submitted.
EnRoute(s, v) == \/ updates[s] = v
                 \/ \E i \in 1..Len(mempool) : mempool[i][s] = v

\* A hash the diff cache treats as synced is anchored or on its way, as long
\* as no upload, transaction or receipt was ever lost: whatever crash or
\* interleaving of saves, turns and blocks happened, nothing the next flush
\* would skip is missing from the iNFT.  (sync-manager.ts doFlush, init)
CacheExplained == failed = 0 => \A s \in Slots : cache[s] <= chain[s] \/ EnRoute(s, cache[s])

\* The promise of the comment above writeSidecar, with failures allowed: "the
\* sidecar only reflects state that's actually on chain".
SidecarOnlyAnchored == \A s \in Slots :
    sidecar[s] <= chain[s] \/ \E i \in 1..Len(mempool) : mempool[i][s] = sidecar[s]

\* Anchoring implements its abstract specification: the iNFT only ever points
\* at content that was written and never goes back to an older version of it,
\* although transactions outlive the flush and the process that sent them.
Promise == INSTANCE MemoryAnchor WITH written <- local, anchored <- chain
ImplementsAnchor == Promise!Spec

\* Every queued flush gets its turn: whatever becomes of a flush it settles,
\* and the ones hanging on its tail promise start; and it sees its turn's own
\* writes: content on disk when a request is waiting ends up on chain, unless
\* something failed or crashed.  (the doc comment and the tail of flushTurn)
EveryFlushRuns ==
    /\ pc # "idle" ~> pc = "idle"
    /\ waiting = MaxWaiting ~> waiting < MaxWaiting
    /\ \A s \in Slots, v \in 1..MaxVersion :
          local[s] >= v /\ waiting > 0 /\ (s # Profile \/ profileKey)
              ~> chain[s] >= v \/ failed > 0 \/ crashes > 0
=============================================================================
