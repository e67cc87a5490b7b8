-------------------------- MODULE MemorySyncProofs --------------------------
(***************************************************************************)
(* Proofs about MemorySync, for any slots, visiting order and bounds.      *)
(***************************************************************************)
EXTENDS MemorySync, TLAPS

(* The invariants behind the properties.                                   *)

\* The same for the file the next boot trusts: absent failures the sidecar
\* never runs ahead of the chain.  (sync-manager.ts writeSidecar)
SidecarExplained == failed = 0 => \A s \in Slots : sidecar[s] <= chain[s]

\* Why anchors never regress.  Contents move from the disk to the upload, the
\* batch, the mempool and the chain; nothing overtakes, because one flush runs
\* at a time and one wallet's transactions are mined in order.
Ordered ==
    /\ \A s \in Slots : chain[s] <= local[s] /\ updates[s] <= local[s]
    /\ \A s \in Slots : updates[s] # 0 => chain[s] <= updates[s]
    /\ \A s \in Slots, i \in 1..Len(mempool) :
          /\ mempool[i][s] <= local[s]
          /\ mempool[i][s] # 0 => chain[s] <= mempool[i][s]
          /\ updates[s] # 0 => mempool[i][s] <= updates[s]
    /\ \A s \in Slots, i, j \in 1..Len(mempool) :
          i < j /\ mempool[j][s] # 0 => mempool[i][s] <= mempool[j][s]
    /\ pc = "upload" =>
          /\ up # 0 /\ up <= local[Visited] /\ chain[Visited] <= up
          /\ \A i \in 1..Len(mempool) : mempool[i][Visited] <= up

\* What a flush knows of its own transaction: it is the last one submitted,
\* and once it counts as mined the whole batch is on chain.
Tracked ==
    /\ receipt = "none" <=> pc \notin {"receipt", "sidecar"}
    /\ receipt = "pending" => /\ pc = "receipt" /\ mempool # <<>>
                              /\ mempool[Len(mempool)] = updates
    /\ receipt = "success" => /\ mempool = <<>>
                              /\ \A s \in Slots : updates[s] <= chain[s]
    /\ receipt = "reverted" => mempool = <<>> /\ failed > 0
    /\ pc = "sidecar" => receipt = "success"
    /\ pc \in {"idle", "down"} => updates = Empty
    /\ pc = "down" => cache = Empty
-----------------------------------------------------------------------------
\* Inside its loop doFlush always looks at a slot it owns.
LEMMA VisitedIsSlot == TypeOK /\ at <= Len(SlotOrder) => Visited \in Slots
<1> SUFFICES ASSUME TypeOK, at <= Len(SlotOrder) PROVE SlotOrder[at] \in Slots
    BY DEF Visited
<1>1. SlotOrder \in Seq(Slots)
    BY SlotsAssumption
<1>2. at \in 1..Len(SlotOrder)
    BY <1>1 DEF TypeOK
<1> QED
    BY <1>1, <1>2

LEMMA InitType == Init => TypeOK
BY SlotsAssumption DEF Init, TypeOK, Empty, Batch, PCs

LEMMA StepType == TypeOK /\ [Next]_vars => TypeOK'
<1> SUFFICES ASSUME TypeOK, [Next]_vars PROVE TypeOK'
    OBVIOUS
<1> USE DEF TypeOK, PCs
<1> Len(SlotOrder) \in Nat
    BY SlotsAssumption
<1>0. Empty \in Batch
    BY DEF Empty, Batch
<1>1. ASSUME NEW s \in Slots, Save(s) PROVE TypeOK'
    <2>1. local' \in Batch
        BY <1>1 DEF Save, Batch
    <2> QED BY <1>1, <2>1 DEF Save, files, flush, bounds
<1>2. CASE FlushTurn
    BY <1>2 DEF FlushTurn, files, flush, bounds
<1>3. CASE SetProfileKey
    BY <1>3 DEF SetProfileKey, files, flush, bounds
<1>4. CASE StartFlush
    BY <1>4, <1>0 DEF StartFlush, files, flush, bounds
<1>5. CASE Scan
    <2>1. Visited \in Slots
        BY <1>5, VisitedIsSlot DEF Scan
    <2>2. local[Visited] \in Nat
        BY <2>1 DEF Batch
    <2> QED BY <1>5, <2>2 DEF Scan, files, flush, bounds
<1>6. CASE PutBlob
    <2>1. Visited \in Slots
        BY <1>6, VisitedIsSlot DEF PutBlob
    <2>2. cache' \in Batch /\ updates' \in Batch
        BY <1>6, <2>1 DEF PutBlob, Batch
    <2> QED BY <1>6, <2>2 DEF PutBlob, files, flush, bounds
<1>7. CASE PutBlobFails
    BY <1>7, <1>0 DEF PutBlobFails, Settle, files, flush, bounds
<1>8. CASE NothingToAnchor
    BY <1>8, <1>0 DEF NothingToAnchor, Settle, files, flush, bounds
<1>9. CASE SubmitTx
    BY <1>9 DEF SubmitTx, files, flush, bounds
<1>10. CASE SubmitFails
    BY <1>10, <1>0 DEF SubmitFails, Settle, files, flush, bounds
<1>11. CASE ReceiptSuccess
    BY <1>11 DEF ReceiptSuccess, files, flush, bounds
<1>12. CASE ReceiptReverted
    BY <1>12, <1>0 DEF ReceiptReverted, Settle, files, flush, bounds
<1>13. CASE ReceiptGiveUp
    BY <1>13, <1>0 DEF ReceiptGiveUp, Settle, files, flush, bounds
<1>14. CASE WriteSidecar
    BY <1>14, <1>0 DEF WriteSidecar, Settle, files, flush, bounds
<1>15. CASE Land
    <2>1. Head(mempool) \in Batch /\ Tail(mempool) \in Seq(Batch)
        BY <1>15 DEF Land, Mined
    <2>2. chain' \in Batch
        BY <1>15, <2>1 DEF Land, Batch
    <2> QED BY <1>15, <2>1, <2>2 DEF Land, Mined, files, flush, bounds
<1>16. CASE Revert
    <2>1. Tail(mempool) \in Seq(Batch)
        BY <1>16 DEF Revert, Mined
    <2> QED BY <1>16, <2>1 DEF Revert, Mined, files, flush, bounds
<1>17. CASE Crash
    BY <1>17, <1>0 DEF Crash, files, flush, bounds
<1>18. CASE Boot
    BY <1>18 DEF Boot, files, flush, bounds
<1>19. CASE UNCHANGED vars
    BY <1>19 DEF vars
<1> QED
    BY <1>1, <1>2, <1>3, <1>4, <1>5, <1>6, <1>7, <1>8, <1>9, <1>10, <1>11,
       <1>12, <1>13, <1>14, <1>15, <1>16, <1>17, <1>18, <1>19 DEF Next, FlushStep

\* The state of the sync manager, the mempool and the chain keeps its shape.
THEOREM TypeCorrect == Spec => []TypeOK
BY InitType, StepType, PTL DEF Spec
-----------------------------------------------------------------------------
LEMMA InitOrdered == Init => Ordered
BY SlotsAssumption DEF Init, Ordered, Empty

\* A flush that settles leaves nothing behind that the order speaks of.
LEMMA SettledOrdered ==
    ASSUME TypeOK, Ordered, updates' = Empty, pc' # "upload",
           UNCHANGED <<local, chain, mempool>>
    PROVE  Ordered'
<1>1. \A s \in Slots : updates'[s] = 0 /\ local[s] \in Nat
    BY DEF Empty, TypeOK, Batch
<1>2. \A s \in Slots : /\ chain'[s] <= local'[s] /\ updates'[s] <= local'[s]
                       /\ updates'[s] # 0 => chain'[s] <= updates'[s]
    BY <1>1 DEF Ordered
<1> QED
    BY <1>1, <1>2 DEF Ordered

\* Mining takes the oldest transaction, so the batches behind it keep their order.
LEMMA MinedOrdered ==
    ASSUME TypeOK, Ordered, mempool # <<>>, mempool' = Tail(mempool),
           UNCHANGED <<local, pc, at, up, updates>>,
           \/ UNCHANGED chain
           \/ chain' = [s \in Slots |-> IF Head(mempool)[s] = 0 THEN chain[s]
                                                               ELSE Head(mempool)[s]]
    PROVE  Ordered'
<1>1. /\ Len(mempool) \in Nat /\ Len(mempool) > 0
      /\ Head(mempool) = mempool[1] /\ Head(mempool) \in Batch
      /\ Len(mempool') = Len(mempool) - 1
      /\ \A i \in 1..Len(mempool') : mempool'[i] = mempool[i + 1] /\ mempool'[i] \in Batch
    BY DEF TypeOK
<1>2. \A s \in Slots : /\ chain[s] \in Nat /\ chain'[s] \in Nat
                       /\ local[s] \in Nat /\ updates[s] \in Nat
                       /\ chain'[s] = chain[s] \/
                          (chain'[s] = mempool[1][s] /\ mempool[1][s] # 0)
    <2>1. \A s \in Slots : mempool[1][s] \in Nat
        BY <1>1 DEF Batch
    <2>2. \A s \in Slots : chain[s] \in Nat /\ local[s] \in Nat /\ updates[s] \in Nat
        BY DEF TypeOK, Batch
    <2> QED BY <1>1, <2>1, <2>2
<1>3. \A s \in Slots, i \in 1..Len(mempool') : mempool'[i][s] \in Nat
    BY <1>1 DEF Batch
<1>s. \A i \in 1..Len(mempool') : /\ i + 1 \in 1..Len(mempool) /\ 1 \in 1..Len(mempool)
                                  /\ 1 < i + 1
    BY <1>1
<1>4. \A s \in Slots : /\ chain'[s] <= local'[s] /\ updates'[s] <= local'[s]
                       /\ updates'[s] # 0 => chain'[s] <= updates'[s]
    BY <1>1, <1>2 DEF Ordered
<1>5. \A s \in Slots, i \in 1..Len(mempool') :
          /\ mempool'[i][s] <= local'[s]
          /\ mempool'[i][s] # 0 => chain'[s] <= mempool'[i][s]
          /\ updates'[s] # 0 => mempool'[i][s] <= updates'[s]
    <2> SUFFICES ASSUME NEW s \in Slots, NEW i \in 1..Len(mempool')
                 PROVE  /\ mempool'[i][s] <= local[s]
                        /\ mempool'[i][s] # 0 => chain'[s] <= mempool'[i][s]
                        /\ updates[s] # 0 => mempool'[i][s] <= updates[s]
        OBVIOUS
    <2>1. mempool'[i] = mempool[i + 1]
        BY <1>1
    <2>2. /\ mempool[i + 1][s] <= local[s]
          /\ mempool[i + 1][s] # 0 => chain[s] <= mempool[i + 1][s]
          /\ updates[s] # 0 => mempool[i + 1][s] <= updates[s]
          /\ mempool[i + 1][s] # 0 => mempool[1][s] <= mempool[i + 1][s]
        BY <1>s DEF Ordered
    <2> QED BY <1>2, <2>1, <2>2
<1>6. \A s \in Slots, i, j \in 1..Len(mempool') :
          i < j /\ mempool'[j][s] # 0 => mempool'[i][s] <= mempool'[j][s]
    BY <1>1, <1>3 DEF Ordered
<1>7. pc' = "upload" =>
          /\ up' # 0 /\ up' <= local'[Visited'] /\ chain'[Visited'] <= up'
          /\ \A i \in 1..Len(mempool') : mempool'[i][Visited'] <= up'
    <2> SUFFICES ASSUME pc = "upload"
                 PROVE  /\ up # 0 /\ up <= local[Visited] /\ chain'[Visited] <= up
                        /\ \A i \in 1..Len(mempool') : mempool'[i][Visited] <= up
        BY DEF Visited
    <2>1. Visited \in Slots
        BY VisitedIsSlot DEF TypeOK
    <2> QED BY <1>1, <1>2, <2>1 DEF Ordered, TypeOK
<1> QED
    BY <1>4, <1>5, <1>6, <1>7 DEF Ordered

LEMMA StepOrdered == TypeOK /\ Ordered /\ [Next]_vars => Ordered'
<1> SUFFICES ASSUME TypeOK, Ordered, [Next]_vars PROVE Ordered'
    OBVIOUS
<1>t. TypeOK'
    BY StepType
<1>n. /\ Len(mempool) \in Nat /\ at \in Nat /\ up \in Nat
      /\ \A i \in 1..Len(mempool) : mempool[i] \in Batch
      /\ \A i \in 1..Len(mempool), s \in Slots : mempool[i][s] \in Nat
      /\ \A s \in Slots : /\ local[s] \in Nat /\ chain[s] \in Nat
                          /\ updates[s] \in Nat /\ cache[s] \in Nat
    <2>1. \A i \in 1..Len(mempool) : mempool[i] \in Batch
        BY DEF TypeOK
    <2>2. Len(mempool) \in Nat /\ at \in Nat /\ up \in Nat
        BY SlotsAssumption DEF TypeOK
    <2> QED BY <2>1, <2>2 DEF TypeOK, Batch
<1>1. ASSUME NEW s \in Slots, Save(s) PROVE Ordered'
    <2>1. /\ UNCHANGED <<chain, mempool, pc, at, up, updates>>
          /\ \A r \in Slots : local'[r] \in Nat /\ local[r] <= local'[r]
        BY <1>1 DEF Save, flush, TypeOK, Batch
    <2>2. pc = "upload" => Visited \in Slots
        BY VisitedIsSlot DEF TypeOK
    <2>3. Visited' = Visited
        BY <2>1 DEF Visited
    <2>4. \A r \in Slots, v \in Nat : v <= local[r] => v <= local'[r]
        BY <1>n, <2>1
    <2>5. \A r \in Slots : chain[r] <= local'[r] /\ updates[r] <= local'[r]
        BY <1>n, <2>4 DEF Ordered
    <2>6. \A r \in Slots, i \in 1..Len(mempool) : mempool[i][r] <= local'[r]
        BY <1>n, <2>4 DEF Ordered
    <2>7. pc = "upload" => up <= local'[Visited]
        BY <1>n, <2>2, <2>4 DEF Ordered
    <2> QED BY <2>1, <2>3, <2>5, <2>6, <2>7 DEF Ordered
<1>2. CASE UNCHANGED <<local, chain, mempool, pc, at, up, updates>>
    BY <1>2 DEF Ordered, Visited
<1>3. CASE StartFlush
    BY <1>3, SettledOrdered DEF StartFlush
<1>4. CASE Scan
    <2>1. Visited \in Slots
        BY <1>4, VisitedIsSlot DEF Scan
    <2>2. CASE Unchanged(Visited)
        BY <1>4, <2>2 DEF Scan, Ordered
    <2>3. CASE ~Unchanged(Visited)
        <3>1. /\ pc' = "upload" /\ up' = local[Visited] /\ local[Visited] # 0
              /\ UNCHANGED <<local, chain, mempool, at, updates>>
            BY <1>4, <2>3 DEF Scan, Unchanged
        <3>2. Visited' = Visited
            BY <3>1 DEF Visited
        <3>3. /\ up' # 0 /\ up' <= local[Visited] /\ chain[Visited] <= up'
              /\ \A i \in 1..Len(mempool) : mempool[i][Visited] <= up'
            BY <1>n, <2>1, <3>1 DEF Ordered
        <3> QED BY <3>1, <3>2, <3>3 DEF Ordered
    <2> QED BY <2>2, <2>3
<1>5. CASE PutBlob
    <2>1. Visited \in Slots
        BY <1>5, VisitedIsSlot DEF PutBlob, TypeOK
    <2>2. /\ pc = "upload" /\ pc' = "scan"
          /\ UNCHANGED <<local, chain, mempool>>
          /\ \A s \in Slots : updates'[s] = IF s = Visited THEN up ELSE updates[s]
        BY <1>5, <2>1 DEF PutBlob, TypeOK, Batch
    <2> QED BY <1>n, <2>1, <2>2 DEF Ordered
<1>6. CASE PutBlobFails
    <2>1. CASE Visited = Profile
        BY <1>6, <2>1 DEF PutBlobFails, Ordered
    <2>2. CASE Visited # Profile
        BY <1>6, <2>2, SettledOrdered DEF PutBlobFails, Settle
    <2> QED BY <2>1, <2>2
<1>7. CASE NothingToAnchor \/ SubmitFails \/ ReceiptReverted \/ ReceiptGiveUp \/ WriteSidecar
    <2>1. updates' = Empty /\ pc' # "upload" /\ UNCHANGED <<local, chain, mempool>>
        BY <1>7 DEF NothingToAnchor, SubmitFails, ReceiptReverted, ReceiptGiveUp,
                    WriteSidecar, Settle
    <2> QED BY <2>1, SettledOrdered
<1>8. CASE SubmitTx
    <2>1. /\ pc' = "receipt" /\ UNCHANGED <<local, chain, updates>>
          /\ Len(mempool') = Len(mempool) + 1
          /\ \A i \in 1..Len(mempool') :
                mempool'[i] = IF i = Len(mempool) + 1 THEN updates ELSE mempool[i]
        BY <1>8 DEF SubmitTx, TypeOK
    <2>2. \A i \in 1..Len(mempool') : i = Len(mempool) + 1 \/ i \in 1..Len(mempool)
        BY <1>n, <2>1
    <2>3. \A s \in Slots, i \in 1..Len(mempool') :
              /\ mempool'[i][s] <= local[s]
              /\ mempool'[i][s] # 0 => chain[s] <= mempool'[i][s]
              /\ updates[s] # 0 => mempool'[i][s] <= updates[s]
        BY <1>n, <2>1, <2>2 DEF Ordered
    <2>4. \A s \in Slots, i, j \in 1..Len(mempool') :
              i < j /\ mempool'[j][s] # 0 => mempool'[i][s] <= mempool'[j][s]
        BY <1>n, <2>1, <2>2 DEF Ordered
    <2> QED BY <2>1, <2>3, <2>4 DEF Ordered
<1>9. CASE Land
    BY <1>9, MinedOrdered DEF Land, Mined
<1>10. CASE Revert
    BY <1>10, MinedOrdered DEF Revert, Mined
<1>11. CASE Crash
    BY <1>11, SettledOrdered DEF Crash
<1>12. CASE ReceiptSuccess
    BY <1>12 DEF ReceiptSuccess, Ordered
<1>13. CASE Boot
    BY <1>13 DEF Boot, Ordered
<1>14. CASE FlushTurn \/ SetProfileKey \/ UNCHANGED vars
    BY <1>14, <1>2 DEF FlushTurn, SetProfileKey, vars, flush
<1> QED
    BY <1>1, <1>3, <1>4, <1>5, <1>6, <1>7, <1>8, <1>9, <1>10, <1>11, <1>12, <1>13,
       <1>14 DEF Next, FlushStep

\* From disk to chain the versions of a slot never cross (doFlush, update).
THEOREM OrderedCorrect == Spec => []Ordered
BY InitType, StepType, InitOrdered, StepOrdered, PTL DEF Spec

\* Anchoring never goes back: every step of the manager, the mempool and the
\* chain is a step of MemoryAnchor, or invisible to it.
THEOREM Refinement == Spec => ImplementsAnchor
<1>1. Init => Promise!Init
    BY DEF Init, Empty, Promise!Init
<1>2. TypeOK /\ Ordered /\ [Next]_vars => [Promise!Next]_<<local, chain>>
    <2> SUFFICES ASSUME TypeOK, Ordered, [Next]_vars, ~ UNCHANGED <<local, chain>>
                 PROVE  Promise!Next
        OBVIOUS
    <2>1. ASSUME NEW s \in Slots, Save(s) PROVE Promise!Next
        BY <2>1 DEF Save, Promise!Next, Promise!Write
    <2>2. CASE Land
        <3>1. chain' \in Batch
            BY StepType DEF TypeOK
        <3>2. Len(mempool) \in Nat /\ 1 \in 1..Len(mempool) /\ Head(mempool) = mempool[1]
            BY <2>2 DEF Land, Mined, TypeOK
        <3>3. mempool[1] \in Batch
            BY <3>2 DEF TypeOK
        <3>4. \A s \in Slots : chain'[s] = IF mempool[1][s] = 0 THEN chain[s]
                                                               ELSE mempool[1][s]
            BY <2>2, <3>2 DEF Land
        <3>5. \A s \in Slots : /\ chain[s] \in Nat /\ chain[s] <= local[s]
                               /\ mempool[1][s] <= local[s]
                               /\ mempool[1][s] # 0 => chain[s] <= mempool[1][s]
            BY <3>2 DEF Ordered, TypeOK, Batch
        <3>6. \A s \in Slots : chain[s] <= chain'[s] /\ chain'[s] <= local[s]
            BY <3>3, <3>4, <3>5 DEF Batch
        <3> QED BY <2>2, <3>1, <3>6 DEF Land, Mined, Promise!Next, Promise!Anchor, Batch
    <2>3. ~ FlushStep
        BY DEF FlushStep, StartFlush, Scan, PutBlob, PutBlobFails, NothingToAnchor, SubmitTx,
           SubmitFails, ReceiptSuccess, ReceiptReverted, ReceiptGiveUp, WriteSidecar
    <2>4. ~ (FlushTurn \/ SetProfileKey \/ Revert \/ Crash \/ Boot \/ UNCHANGED vars)
        BY DEF FlushTurn, SetProfileKey, Revert, Mined, Crash, Boot, vars
    <2> QED
        BY <2>1, <2>2, <2>3, <2>4 DEF Next
<1> QED
    BY <1>1, <1>2, TypeCorrect, OrderedCorrect, PTL DEF Spec, ImplementsAnchor, Promise!Spec
-----------------------------------------------------------------------------
LEMMA InitTracked == Init => Tracked
BY SlotsAssumption DEF Init, Tracked, Empty

\* A flush that settles, or a process that ends, forgets its transaction.
LEMMA SettledTracked ==
    ASSUME pc' \in {"idle", "down"}, receipt' = "none", updates' = Empty,
           pc' = "down" => cache' = Empty
    PROVE  Tracked'
BY DEF Tracked

\* When the last transaction in the mempool is mined its sender learns the fate.
LEMMA MinedTracked ==
    ASSUME TypeOK, Tracked, NEW fate, Mined(fate),
           \/ /\ fate = "success"
              /\ chain' = [s \in Slots |-> IF Head(mempool)[s] = 0 THEN chain[s]
                                                                  ELSE Head(mempool)[s]]
           \/ fate = "reverted" /\ failed' > 0 /\ UNCHANGED chain
    PROVE  Tracked'
<1>1. /\ UNCHANGED <<pc, updates, cache>> /\ mempool # <<>>
      /\ Len(mempool) \in Nat /\ Len(mempool) > 0
      /\ Len(mempool') = Len(mempool) - 1
      /\ \A i \in 1..Len(mempool') : mempool'[i] = mempool[i + 1]
      /\ Head(mempool) = mempool[1] /\ mempool' \in Seq(Batch)
    BY DEF Mined, TypeOK, files
<1>2. /\ receipt = "pending" \/ receipt = "none"
      /\ receipt = "pending" <=> pc = "receipt"
    BY <1>1 DEF Tracked, TypeOK, PCs
<1>3. CASE pc = "receipt" /\ Len(mempool) = 1
    <2>1. receipt' = fate /\ mempool' = <<>> /\ mempool[1] = updates
        BY <1>1, <1>2, <1>3 DEF Mined, Tracked
    <2>2. CASE fate = "success"
        <3>1. \A s \in Slots : updates[s] \in Nat /\ chain[s] \in Nat
            BY DEF TypeOK, Batch
        <3>2. \A s \in Slots : chain'[s] = IF updates[s] = 0 THEN chain[s] ELSE updates[s]
            BY <1>1, <2>1, <2>2
        <3>3. \A s \in Slots : updates'[s] <= chain'[s]
            BY <1>1, <3>1, <3>2
        <3> QED BY <1>1, <1>3, <2>1, <2>2, <3>3 DEF Tracked
    <2>3. CASE fate = "reverted" /\ failed' > 0
        BY <1>1, <1>3, <2>1, <2>3 DEF Tracked
    <2> QED BY <2>2, <2>3
<1>4. CASE pc = "receipt" /\ Len(mempool) # 1
    <2>1. /\ receipt' = "pending" /\ mempool' # <<>>
          /\ mempool'[Len(mempool')] = updates
        BY <1>1, <1>2, <1>4 DEF Mined, Tracked
    <2> QED BY <1>1, <1>4, <2>1 DEF Tracked
<1>5. CASE pc # "receipt"
    BY <1>1, <1>2, <1>5 DEF Mined, Tracked
<1> QED BY <1>3, <1>4, <1>5

LEMMA StepTracked == TypeOK /\ Tracked /\ [Next]_vars => Tracked'
<1> SUFFICES ASSUME TypeOK, Tracked, [Next]_vars PROVE Tracked'
    OBVIOUS
<1>1. CASE UNCHANGED <<pc, receipt, mempool, updates, chain, cache, failed>>
    BY <1>1 DEF Tracked
<1>2. CASE (\E s \in Slots : Save(s)) \/ FlushTurn \/ SetProfileKey \/ Scan \/ UNCHANGED vars
    BY <1>2, <1>1 DEF Tracked, Save, FlushTurn, SetProfileKey, Scan, files, flush, bounds, vars
<1>3. CASE StartFlush
    BY <1>3 DEF Tracked, StartFlush, files
<1>4. CASE PutBlob
    BY <1>4 DEF Tracked, PutBlob
<1>5. CASE PutBlobFails
    BY <1>5, SettledTracked DEF Tracked, PutBlobFails, Settle, files
<1>6. CASE NothingToAnchor \/ SubmitFails \/ ReceiptReverted \/ ReceiptGiveUp \/ WriteSidecar
    BY <1>6, SettledTracked DEF NothingToAnchor, SubmitFails, ReceiptReverted, ReceiptGiveUp,
       WriteSidecar, Settle
<1>7. CASE SubmitTx
    <2>1. mempool' # <<>> /\ mempool'[Len(mempool')] = updates
        BY <1>7 DEF SubmitTx, TypeOK
    <2> QED BY <1>7, <2>1 DEF Tracked, SubmitTx, files
<1>8. CASE ReceiptSuccess
    BY <1>8 DEF Tracked, ReceiptSuccess, files, bounds
<1>9. CASE Land
    BY <1>9, MinedTracked DEF Land
<1>10. CASE Revert
    BY <1>10, MinedTracked DEF Revert, TypeOK
<1>11. CASE Crash
    BY <1>11, SettledTracked DEF Crash
<1>12. CASE Boot
    BY <1>12 DEF Tracked, Boot, bounds
<1> QED
    BY <1>2, <1>3, <1>4, <1>5, <1>6, <1>7, <1>8, <1>9, <1>10, <1>11, <1>12
       DEF Next, FlushStep
-----------------------------------------------------------------------------
Explained == CacheExplained /\ SidecarExplained

LEMMA InitExplained == Init => Explained
BY SlotsAssumption DEF Init, Explained, CacheExplained, SidecarExplained, Empty

\* Forgetting the batch is harmless when it was empty or is on chain already.
LEMMA SettledExplained ==
    ASSUME TypeOK, Explained,
           \A s \in Slots : updates[s] <= chain[s],
           UNCHANGED <<cache, chain, mempool, failed>>,
           sidecar' = sidecar \/ (sidecar' = cache /\ mempool = <<>>)
    PROVE  Explained'
<1> SUFFICES ASSUME failed = 0
             PROVE  \A s \in Slots : /\ cache'[s] <= chain'[s] \/ EnRoute(s, cache[s])'
                                     /\ sidecar'[s] <= chain'[s]
    BY DEF Explained, CacheExplained, SidecarExplained, EnRoute
<1> TAKE s \in Slots
<1>1. cache[s] <= chain[s] \/ \E i \in 1..Len(mempool) : mempool[i][s] = cache[s]
    BY DEF Explained, CacheExplained, EnRoute
<1>2. mempool = <<>> => cache[s] <= chain[s]
    BY <1>1
<1>3. sidecar'[s] <= chain'[s]
    BY <1>2 DEF Explained, SidecarExplained
<1> QED BY <1>1, <1>3 DEF EnRoute

LEMMA LandExplained ==
    ASSUME TypeOK, Ordered, Explained, Land PROVE Explained'
<1> SUFFICES ASSUME failed = 0, NEW s \in Slots
             PROVE  /\ cache[s] <= chain'[s] \/ EnRoute(s, cache[s])'
                    /\ sidecar[s] <= chain'[s]
    BY DEF Explained, CacheExplained, SidecarExplained, EnRoute, Land, Mined, files
<1>1. /\ UNCHANGED <<updates, cache>> /\ Len(mempool) \in Nat /\ 1 \in 1..Len(mempool)
      /\ Head(mempool) = mempool[1] /\ mempool[1] \in Batch
      /\ Len(mempool') = Len(mempool) - 1
      /\ \A i \in 1..Len(mempool') : mempool'[i] = mempool[i + 1]
    BY DEF Land, Mined, TypeOK, files
<1>2. /\ cache[s] \in Nat /\ sidecar[s] \in Nat /\ chain[s] \in Nat
      /\ mempool[1][s] \in Nat
    BY <1>1 DEF TypeOK, Batch
<1>3. chain'[s] = IF mempool[1][s] = 0 THEN chain[s] ELSE mempool[1][s]
    BY <1>1 DEF Land
<1>4. chain[s] <= chain'[s] /\ mempool[1][s] <= chain'[s]
    BY <1>1, <1>2, <1>3 DEF Ordered
<1>5. sidecar[s] <= chain'[s]
    BY <1>2, <1>3, <1>4 DEF Explained, SidecarExplained
<1>6. cache[s] <= chain[s] \/ EnRoute(s, cache[s])
    BY DEF Explained, CacheExplained
<1>7. CASE cache[s] <= chain[s]
    BY <1>2, <1>3, <1>4, <1>5, <1>7
<1>8. CASE updates[s] = cache[s]
    BY <1>1, <1>5, <1>8 DEF EnRoute
<1>9. ASSUME NEW i \in 1..Len(mempool), mempool[i][s] = cache[s]
      PROVE  cache[s] <= chain'[s] \/ EnRoute(s, cache[s])'
    <2>1. CASE i = 1
        BY <1>4, <1>9, <2>1
    <2>2. CASE i # 1
        <3>1. i - 1 \in 1..Len(mempool') /\ mempool'[i - 1] = mempool[i]
            BY <1>1, <2>2
        <3>2. cache' = cache
            BY DEF Land, Mined, files
        <3> QED BY <1>9, <3>1, <3>2 DEF EnRoute
    <2> QED BY <2>1, <2>2
<1> QED BY <1>5, <1>6, <1>7, <1>8, <1>9 DEF EnRoute

LEMMA StepExplained ==
    TypeOK /\ Ordered /\ Tracked /\ Explained /\ [Next]_vars => Explained'
<1> SUFFICES ASSUME TypeOK, Ordered, Tracked, Explained, [Next]_vars PROVE Explained'
    OBVIOUS
<1>0. failed' = 0 \/ Explained'
    BY DEF Explained, CacheExplained, SidecarExplained
<1>1. CASE UNCHANGED <<cache, sidecar, chain, mempool, updates, failed>>
    BY <1>1 DEF Explained, CacheExplained, SidecarExplained, EnRoute
<1>2. CASE (\E s \in Slots : Save(s)) \/ FlushTurn \/ SetProfileKey \/ Scan
           \/ ReceiptSuccess \/ UNCHANGED vars
    BY <1>2, <1>1 DEF Save, FlushTurn, SetProfileKey, Scan, ReceiptSuccess, files, flush,
       bounds, vars
<1>3. CASE StartFlush
    <2>1. updates = Empty /\ updates' = Empty
        BY <1>3 DEF StartFlush, Tracked
    <2> QED BY <1>3, <2>1, <1>1 DEF StartFlush, files, bounds
<1>4. CASE PutBlob
    <2>1. Visited \in Slots
        BY <1>4, VisitedIsSlot DEF PutBlob, TypeOK
    <2>2. /\ \A s \in Slots : cache'[s] = IF s = Visited THEN up ELSE cache[s]
          /\ \A s \in Slots : updates'[s] = IF s = Visited THEN up ELSE updates[s]
          /\ UNCHANGED <<sidecar, chain, mempool, failed>>
        BY <1>4, <2>1 DEF PutBlob, TypeOK, Batch, bounds
    <2> QED BY <2>2 DEF Explained, CacheExplained, SidecarExplained, EnRoute
<1>5. CASE PutBlobFails \/ SubmitFails \/ ReceiptGiveUp \/ Revert
    <2>1. failed' = failed + 1 /\ failed \in Nat
        BY <1>5 DEF PutBlobFails, SubmitFails, ReceiptGiveUp, Revert, TypeOK
    <2> QED BY <1>0, <2>1
<1>6. CASE NothingToAnchor
    <2>1. \A s \in Slots : updates[s] <= chain[s]
        BY <1>6 DEF NothingToAnchor, Empty, TypeOK, Batch
    <2> QED BY <1>6, <2>1, SettledExplained DEF NothingToAnchor, files, bounds
<1>7. CASE ReceiptReverted
    <2>1. failed' = failed /\ failed > 0
        BY <1>7 DEF ReceiptReverted, Tracked, bounds
    <2> QED BY <1>0, <2>1 DEF TypeOK
<1>8. CASE WriteSidecar
    <2>1. mempool = <<>> /\ \A s \in Slots : updates[s] <= chain[s]
        BY <1>8 DEF WriteSidecar, Tracked
    <2> QED BY <1>8, <2>1, SettledExplained DEF WriteSidecar, bounds
<1>9. CASE SubmitTx
    <2>1. /\ UNCHANGED <<cache, sidecar, chain, updates, failed>>
          /\ Len(mempool) \in Nat /\ Len(mempool') = Len(mempool) + 1
          /\ \A i \in 1..Len(mempool) : mempool'[i] = mempool[i] /\ i \in 1..Len(mempool')
        BY <1>9 DEF SubmitTx, TypeOK, files, bounds
    <2> QED BY <2>1 DEF Explained, CacheExplained, SidecarExplained, EnRoute
<1>10. CASE Land
    BY <1>10, LandExplained
<1>11. CASE Crash
    <2>1. ASSUME failed = 0, NEW s \in Slots, pc = "sidecar"
          PROVE  cache[s] <= chain[s]
        <3>1. mempool = <<>> /\ updates[s] <= chain[s]
            BY <2>1 DEF Tracked
        <3> QED BY <2>1, <3>1 DEF Explained, CacheExplained, EnRoute
    <2>2. \A s \in Slots : Empty[s] <= chain[s]
        BY DEF Empty, TypeOK, Batch
    <2>3. /\ cache' = Empty /\ UNCHANGED <<chain, failed>>
          /\ sidecar' = sidecar \/ sidecar' = Empty \/ (pc = "sidecar" /\ sidecar' = cache)
        BY <1>11 DEF Crash
    <2> QED BY <2>1, <2>2, <2>3 DEF Explained, CacheExplained, SidecarExplained
<1>12. CASE Boot
    BY <1>12 DEF Boot, Explained, CacheExplained, SidecarExplained, bounds
<1> QED
    BY <1>2, <1>3, <1>4, <1>5, <1>6, <1>7, <1>8, <1>9, <1>10, <1>11, <1>12
       DEF Next, FlushStep

LEMMA ExplainedInvariant == Spec => []Explained
<1>1. Init => TypeOK /\ Ordered /\ Tracked /\ Explained
    BY InitType, InitOrdered, InitTracked, InitExplained
<1>2. TypeOK /\ Ordered /\ Tracked /\ Explained /\ [Next]_vars
        => (TypeOK /\ Ordered /\ Tracked /\ Explained)'
    BY StepType, StepOrdered, StepTracked, StepExplained
<1> QED BY <1>1, <1>2, PTL DEF Spec

\* Until something fails, whatever the diff cache would skip is on chain or on
\* its way there, across every crash, restart and interleaving.
THEOREM CacheCorrect == Spec => []CacheExplained
BY ExplainedInvariant, PTL DEF Explained

\* Until something fails, the sidecar never runs ahead of the chain.
THEOREM SidecarCorrect == Spec => []SidecarExplained
BY ExplainedInvariant, PTL DEF Explained

\* A flush that waits for its receipt never waits in vain: its batch is the last
\* one in the mempool, so that a block will tell its fate and no later one can
\* be taken for it, or the fate is known, nothing is left in the mempool and a
\* success has put the whole batch on chain.  This is what remains of
\* EveryFlushRuns without time.  (sync-manager.ts doFlush, updateSlots)
THEOREM ReceiptOwed ==
    Spec => [](pc = "receipt" =>
                   \/ receipt = "pending" /\ mempool # <<>> /\ mempool[Len(mempool)] = updates
                   \/ receipt = "success" /\ mempool = <<>> /\ \A s \in Slots : updates[s] <= chain[s]
                   \/ receipt = "reverted" /\ mempool = <<>>)
<1>1. Spec => []Tracked
    BY InitTracked, StepTracked, TypeCorrect, PTL DEF Spec
<1>2. TypeOK /\ Tracked => (pc = "receipt" =>
                   \/ receipt = "pending" /\ mempool # <<>> /\ mempool[Len(mempool)] = updates
                   \/ receipt = "success" /\ mempool = <<>> /\ \A s \in Slots : updates[s] <= chain[s]
                   \/ receipt = "reverted" /\ mempool = <<>>)
    BY DEF Tracked, TypeOK
<1> QED
    BY <1>1, <1>2, TypeCorrect, PTL
=============================================================================
