------------------------ MODULE MemoryRestoreProofs ------------------------
(***************************************************************************)
(* What MemoryRestore promises for any set of instances that satisfies     *)
(* RestoreAssumption: however many crashes, reprovisions, turns, saves and *)
(* flushes follow each other, a restore never takes away what this disk    *)
(* has and the chain has not, what was ever anchored stays anchored, and   *)
(* an identity that could not be restored is not forgotten.                *)
(***************************************************************************)
EXTENDS MemoryRestore, TLAPS

Marks == Nat \cup Files

\* What a disk, the chain or a snapshot of it holds, file by file.
Shelf == {d \in [Files -> SUBSET Marks] : \A f \in Files : d[f] \in Contents(f)}

RunStates == [phase : {"idle", "fetch", "slots"}, key : BOOLEAN, snap : Shelf,
              slot : [AllSlots -> Steps]]

Filed ==
    /\ setup \in Setups /\ disk \in Shelf /\ chain \in Shelf
    /\ anchored \in [Files -> SUBSET Marks] /\ kept \in [Files -> SUBSET Marks] /\ kept[Index] = {}
    /\ facts \in Nat /\ failed \in Nat /\ blips \in Nat

Saves == save \in [pc : {"none", "write", "list"}, file : Files, body : SUBSET Marks]
         /\ (save.pc # "none" => save.file \in Topics /\ save.body \in Contents(save.file))

Run(r) ==
    /\ run[r].phase # "slots" => run[r].slot = Idle.slot
    /\ \A s \in AllSlots : /\ s \notin Slots => run[r].slot[s] = "none"
                           /\ run[r].slot[s] = "envelope" => s = "profile"

\* Nothing but the boot restore is at work before the daemon is up.
Staged ==
    /\ up \in {"down", "boot", "up"} /\ turn \in {"none", "append"} /\ run \in [Runs -> RunStates]
    /\ profileKey \in BOOLEAN /\ pendingRestoreFailed \in BOOLEAN /\ torn \in BOOLEAN /\ keyless \in BOOLEAN
    /\ Saves /\ \A r \in Runs : Run(r)
    /\ up # "up" => run["key"] = Idle /\ save = NoSave /\ turn = "none"
    /\ up = "down" => run["main"] = Idle
    /\ up = "boot" => run["main"].phase # "idle" /\ run["main"].key = profileKey

\* As long as nothing failed, nothing is restored once the daemon is up, but by
\* the run that a late key starts.
Settled ==
    /\ ~pendingRestoreFailed
    /\ \A r \in Runs, s \in AllSlots : run[r].slot[s] # "failed"
    /\ up = "up" => run["main"] = Idle
    /\ up = "boot" /\ run["main"].phase = "slots" =>
          run["main"].snap = chain /\ \A s \in Slots : run["main"].slot[s] # "none"

Agents == Slots \ {"profile"}

\* The disk has the slot, with all of it that is anchored or was saved.
Present(s) == /\ disk[Root[s]] # {}
              /\ \A f \in FilesOf(s) \ {Index} : chain[f] \cup kept[f] \subseteq disk[f]

Absent(s) == \A f \in FilesOf(s) : disk[f] = {} /\ kept[f] = {}

\* The disk holds what is anchored or was saved, and the root comes first, but
\* for the file that memory.save has yet to list.
Holds(s) ==
    /\ \A f \in FilesOf(s) \ {Index} : chain[f] \cup kept[f] \subseteq disk[f]
    /\ disk[Root[s]] = {} => /\ chain[Root[s]] = {}
                             /\ \A f \in Siblings[s] : disk[f] # {} => save.pc = "list"

\* A pack without its root is never anchored.
Rooted(s) == (\E f \in FilesOf(s) : chain[f] # {}) => chain[Root[s]] # {}

Booting(s, at) ==
    /\ at \in {"none", "todo"} => Present(s) \/ Absent(s)
    /\ at \in {"download", "root"} => Absent(s) /\ \E f \in FilesOf(s) : chain[f] # {}
    /\ at = "siblings" => /\ chain[Root[s]] # {} /\ disk[Root[s]] = chain[Root[s]]
                          /\ \A f \in FilesOf(s) : kept[f] = {}
    /\ at \in {"skipped", "restored"} => (Present(s) \/ Absent(s)) /\ Holds(s)

Serving(s) ==
    /\ Holds(s) /\ run["key"].slot[s] \in {"none", "todo", "skipped"}
    /\ IsSet("key", s) => disk[Root[s]] # {}
    /\ save.pc = "write" /\ save.file \in FilesOf(s) => save.body = disk[save.file]

Agent(s) ==
    /\ \A f \in FilesOf(s) \ {Index} : anchored[f] \subseteq chain[f]
    /\ Rooted(s)
    /\ up = "down" => Present(s) \/ Absent(s)
    /\ up = "boot" => Booting(s, run["main"].slot[s])
    /\ up = "up" => Serving(s)

\* The profile's slot, while every boot had the key.
P == "profile"
OnDisk == \A f \in FilesOf(P) : chain[f] \subseteq disk[f]

KeyedBoot(at) ==
    /\ at \in {"none", "todo", "skipped"} => (disk[Root[P]] # {} => OnDisk)
    /\ at \in {"download", "envelope"} => disk[Root[P]] = {}
    /\ at \in {"root", "siblings"} => chain[Root[P]] \subseteq disk[Root[P]]
    /\ at = "restored" \/ (at = "skipped" /\ profileKey) => OnDisk

Profile ==
    /\ \A f \in FilesOf(P) : anchored[f] \subseteq chain[f]
    /\ up = "down" => (disk[Root[P]] # {} => OnDisk)
    /\ up = "boot" => KeyedBoot(run["main"].slot[P])
    /\ up = "up" => /\ OnDisk /\ profileKey /\ run["key"] = Idle
                    /\ save.pc = "write" /\ save.file \in FilesOf(P) => save.body = disk[save.file]

\* The invariant: types and stages always, and while nothing has failed, what each
\* agent slot and the profile have at the point their restore has come to.
RestoreInv ==
    /\ Filed /\ Staged
    /\ NoTrouble => /\ Settled /\ \A s \in Agents : Agent(s)
                    /\ P \in Slots /\ ~keyless => Profile
-----------------------------------------------------------------------------
(* Files and slots.                                                        *)

LEMMA Names ==
    /\ \A s \in AllSlots : /\ FilesOf(s) = {Root[s]} \cup Siblings[s] /\ FilesOf(s) \subseteq Files
                           /\ Root[s] \in Files /\ Root[s] \notin Siblings[s] /\ Index \notin Siblings[s]
    /\ \A s, t \in AllSlots : s # t => FilesOf(s) \cap FilesOf(t) = {}
    /\ Root["memory-index"] = Index /\ Root["activity-log"] = "activity.jsonl"
    /\ Siblings["activity-log"] = {} /\ Index \notin FilesOf("profile")
<1>. USE DEF AllSlots
<1>1. /\ Root["memory-index"] = "MEMORY.md" /\ Root["identity"] = "identity.md"
      /\ Root["activity-log"] = "activity.jsonl" /\ Root["profile"] = "profile.md"
    BY DEF Root, Index
<1>2. /\ Siblings["memory-index"] = {"agent/note.md"} /\ Siblings["identity"] = {}
      /\ Siblings["activity-log"] = {} /\ Siblings["profile"] = {"user/topic.md"}
    BY DEF Siblings
<1>3. \A s \in AllSlots : FilesOf(s) = {Root[s]} \cup Siblings[s] /\ FilesOf(s) \subseteq Files
    BY DEF FilesOf, Files
<1>4. \A s \in AllSlots : Root[s] \notin Siblings[s] /\ Index \notin Siblings[s]
    BY <1>1, <1>2 DEF Index
<1>5. ASSUME NEW s \in AllSlots, NEW t \in AllSlots, s # t PROVE FilesOf(s) \cap FilesOf(t) = {}
    BY <1>1, <1>2, <1>3, <1>5
<1>6. Index \notin FilesOf("profile") /\ Root["memory-index"] = Index
    BY <1>1, <1>2, <1>3 DEF Index
<1>. QED
    BY <1>1, <1>2, <1>3, <1>4, <1>5, <1>6

LEMMA FileNames ==
    /\ Index \in Files /\ "activity.jsonl" \in Files /\ "activity.jsonl" # Index
    /\ Synthetic \subseteq Files /\ Topics \subseteq Files /\ Index \notin Topics
<1>1. /\ Root["memory-index"] = "MEMORY.md" /\ Root["identity"] = "identity.md"
      /\ Root["activity-log"] = "activity.jsonl" /\ Root["profile"] = "profile.md"
    BY DEF Root, Index, AllSlots
<1>2. /\ Siblings["memory-index"] = {"agent/note.md"} /\ Siblings["identity"] = {}
      /\ Siblings["activity-log"] = {} /\ Siblings["profile"] = {"user/topic.md"}
    BY DEF Siblings, AllSlots
<1>3. {"MEMORY.md", "identity.md", "activity.jsonl", "profile.md", "agent/note.md", "user/topic.md"} \subseteq Files
    BY <1>1, <1>2, Names DEF AllSlots
<1>. QED
    BY <1>3 DEF Synthetic, Topics, Index

\* memory.save writes none of the roots that are the agent's.
LEMMA TopicsAreSiblings ==
    ASSUME NEW s \in AllSlots \ {"profile"}, NEW f \in Topics, f \in FilesOf(s)
    PROVE  f \in Siblings[s]
<1>1. /\ Root["memory-index"] = "MEMORY.md" /\ Root["identity"] = "identity.md"
      /\ Root["activity-log"] = "activity.jsonl"
    BY DEF Root, Index, AllSlots
<1>2. f # Root[s]
    BY <1>1 DEF Topics, AllSlots
<1>. QED
    BY <1>2, Names

LEMMA OneSibling ==
    \A s \in AllSlots \ {"profile"} : Siblings[s] = {} \/ Root[s] = Index
BY DEF Siblings, Root, AllSlots

LEMMA SlotsKnown == Filed => Slots \subseteq AllSlots /\ Agents \subseteq AllSlots \ {"profile"}
BY RestoreAssumption DEF Filed, Slots, Agents

LEMMA ContentFacts ==
    /\ \A f \in Files : {} \in Contents(f)
    /\ \A f \in Files : \A c, d \in Contents(f) : c \cup d \in Contents(f)
    /\ \A f \in Files : Contents(f) \subseteq SUBSET Marks
    /\ \A f \in Files \ {Index} : Contents(f) = SUBSET Nat
    /\ Contents(Index) = SUBSET Files
BY DEF Contents, Marks

LEMMA ShelfIs == \A d \in Shelf : d \in [Files -> SUBSET Marks] /\ \A f \in Files : d[f] \in Contents(f)
BY DEF Shelf

LEMMA ShelfOf ==
    ASSUME NEW d, d \in [Files -> SUBSET Marks], \A f \in Files : d[f] \in Contents(f)
    PROVE  d \in Shelf
BY DEF Shelf

LEMMA DiskPut ==
    ASSUME disk \in Shelf, NEW f \in Files, NEW c \in Contents(f), disk' = [disk EXCEPT ![f] = c]
    PROVE  /\ disk' \in Shelf /\ disk'[f] = c
           /\ \A g \in Files : g # f => disk'[g] = disk[g]
<1>1. disk \in [Files -> SUBSET Marks] /\ \A g \in Files : disk[g] \in Contents(g)
    BY ShelfIs
<1>2. c \in SUBSET Marks
    BY ContentFacts
<1>3. disk' \in [Files -> SUBSET Marks] /\ disk'[f] = c /\ \A g \in Files : g # f => disk'[g] = disk[g]
    BY <1>1, <1>2
<1>. QED
    BY <1>1, <1>3, ShelfOf

LEMMA EmptyShelf == Empty \in Shelf /\ \A f \in Files : Empty[f] = {}
BY ContentFacts DEF Empty, Shelf

LEMMA IdleRun ==
    /\ Idle \in RunStates /\ Idle.phase = "idle" /\ Idle.snap = Empty /\ Idle.slot \in [AllSlots -> Steps]
    /\ \A s \in AllSlots : Idle.slot[s] = "none"
BY EmptyShelf DEF Idle, RunStates, Steps

LEMMA StartedRun ==
    ASSUME NEW key \in BOOLEAN
    PROVE  /\ Started(key) \in RunStates /\ Started(key).phase = "fetch" /\ Started(key).key = key
           /\ Started(key).snap = Empty /\ Started(key).slot = Idle.slot
BY EmptyShelf DEF Started, Idle, RunStates, Steps
-----------------------------------------------------------------------------
(* The steps of a restore.                                                 *)

\* One run in the place of another.
LEMMA RunPut ==
    ASSUME run \in [Runs -> RunStates], NEW r \in Runs, NEW x \in RunStates, run' = [run EXCEPT ![r] = x]
    PROVE  run' \in [Runs -> RunStates] /\ run'[r] = x /\ \A q \in Runs : q # r => run'[q] = run[q]
OBVIOUS

LEMMA GotoFacts ==
    ASSUME run \in [Runs -> RunStates], NEW r \in Runs, NEW s \in AllSlots, NEW w \in Steps, Goto(r, s, w)
    PROVE  /\ run' \in [Runs -> RunStates] /\ \A q \in Runs : q # r => run'[q] = run[q]
           /\ run'[r].phase = run[r].phase /\ run'[r].key = run[r].key /\ run'[r].snap = run[r].snap
           /\ run'[r].slot[s] = w /\ \A t \in AllSlots : t # s => run'[r].slot[t] = run[r].slot[t]
<1>. DEFINE sl == [run[r].slot EXCEPT ![s] = w]
            x == [run[r] EXCEPT !.slot = sl]
<1>1. run[r] \in RunStates /\ run[r].slot \in [AllSlots -> Steps]
    BY DEF RunStates
<1>2. sl \in [AllSlots -> Steps] /\ sl[s] = w /\ \A t \in AllSlots : t # s => sl[t] = run[r].slot[t]
    BY <1>1
<1>3. run' = [run EXCEPT ![r] = x]
    BY Zenon DEF Goto
<1>. HIDE DEF sl
<1>4. x \in RunStates /\ x.phase = run[r].phase /\ x.key = run[r].key /\ x.snap = run[r].snap /\ x.slot = sl
    BY <1>1, <1>2 DEF RunStates
<1>. HIDE DEF x
<1>. QED
    BY <1>2, <1>3, <1>4, RunPut

SlotStep(r, s) == \/ Check(r, s) \/ Downloaded(r, s) \/ DownloadFails(r, s)
                  \/ WriteEnvelope(r, s) \/ WriteRoot(r, s) \/ WriteSiblings(r, s)

LEMMA RestoreCases ==
    ASSUME [Next]_vars
    PROVE  \/ Boot \/ Turn \/ AppendActivity \/ SaveWrite \/ SaveList \/ Flush \/ SetProfileKey \/ Crash
           \/ \E f \in Topics : SaveRead(f)
           \/ \E r \in Runs : FetchSlots(r) \/ FetchFails(r) \/ Finish(r)
           \/ \E r \in Runs, s \in Slots : SlotStep(r, s)
           \/ UNCHANGED vars
BY DEF Next, RestoreStep, SlotStep

Busy == {"todo", "download", "envelope", "root", "siblings"}

\* What a step of one slot changes: the outcome of the slot and its files.
LEMMA SlotStepFacts ==
    ASSUME Filed, Staged, NEW r \in Runs, NEW s \in Slots, SlotStep(r, s)
    PROVE  /\ run[r].phase = "slots" /\ run[r].slot[s] \in Busy /\ run' \in [Runs -> RunStates]
           /\ \A q \in Runs : q # r => run'[q] = run[q]
           /\ run'[r].phase = "slots" /\ run'[r].key = run[r].key /\ run'[r].snap = run[r].snap
           /\ run'[r].slot[s] # "none" /\ run'[r].slot[s] \in Steps
           /\ run'[r].slot[s] = "envelope" => s = "profile"
           /\ \A t \in AllSlots : t # s => run'[r].slot[t] = run[r].slot[t]
           /\ disk' \in Shelf /\ \A f \in Files \ FilesOf(s) : disk'[f] = disk[f]
           /\ UNCHANGED <<setup, chain, up, profileKey, pendingRestoreFailed, turn, save, facts, crashes,
                          torn, keyless, anchored, kept>>
<1>1. s \in AllSlots /\ disk \in Shelf /\ run \in [Runs -> RunStates]
    BY SlotsKnown DEF Filed, Staged
<1>2. run[r].slot[s] \in Busy
    BY DEF SlotStep, Check, Downloaded, DownloadFails, WriteEnvelope, WriteRoot, WriteSiblings, Busy
<1>3. run[r].phase = "slots"
    BY <1>1, <1>2, IdleRun DEF Staged, Run, Busy
<1>4. PICK w \in Steps : /\ Goto(r, s, w) /\ w # "none"
                         /\ w = "envelope" => s = "profile"
    <2>1. CASE Check(r, s)
        BY <2>1 DEF Check, Steps
    <2>2. CASE Downloaded(r, s)
        BY <2>2 DEF Downloaded, Steps
    <2>3. CASE DownloadFails(r, s)
        BY <2>3 DEF DownloadFails, Steps
    <2>4. CASE WriteEnvelope(r, s)
        BY <2>4 DEF WriteEnvelope, Steps
    <2>5. CASE WriteRoot(r, s)
        BY <2>5 DEF WriteRoot, Steps
    <2>6. CASE WriteSiblings(r, s)
        BY <2>6 DEF WriteSiblings, Steps
    <2>. QED
        BY <2>1, <2>2, <2>3, <2>4, <2>5, <2>6 DEF SlotStep
<1>5. UNCHANGED <<setup, chain, up, profileKey, pendingRestoreFailed, turn, save, facts, crashes,
                  torn, keyless, anchored, kept>>
    BY DEF SlotStep, Check, Downloaded, DownloadFails, WriteEnvelope, WriteRoot, WriteSiblings, Restoring,
           daemon, work, history
<1>6. run[r].snap \in Shelf
    BY <1>1 DEF RunStates
<1>7. disk' \in Shelf /\ \A f \in Files \ FilesOf(s) : disk'[f] = disk[f]
    <2>1. CASE disk' = disk
        BY <1>1, <2>1
    <2>2. CASE WriteEnvelope(r, s)
        <3>. DEFINE c == UNION {run[r].snap[f] : f \in FilesOf(s)}
        <3>1. s = "profile"
            BY <1>1, <2>2 DEF WriteEnvelope, Staged, Run
        <3>2. \A f \in FilesOf(s) : f \in Files /\ f # Index
            BY <1>1, <3>1, Names
        <3>3. \A f \in FilesOf(s) : run[r].snap[f] \in SUBSET Nat
            BY <1>6, <3>2, ContentFacts, ShelfIs
        <3>4. Root[s] \in FilesOf(s)
            BY <1>1, Names
        <3>5. c \in Contents(Root[s]) /\ Root[s] \in Files
            BY <3>2, <3>3, <3>4, ContentFacts
        <3>6. disk' = [disk EXCEPT ![Root[s]] = c]
            BY <2>2 DEF WriteEnvelope
        <3>. HIDE DEF c
        <3>. QED
            BY <1>1, <3>4, <3>5, <3>6, DiskPut
    <2>3. CASE WriteRoot(r, s)
        <3>1. Root[s] \in Files /\ Root[s] \in FilesOf(s)
            BY <1>1, Names
        <3>2. disk' = disk \/ disk' = [disk EXCEPT ![Root[s]] = run[r].snap[Root[s]]]
            BY <2>3 DEF WriteRoot
        <3>3. run[r].snap[Root[s]] \in Contents(Root[s])
            BY <1>6, <3>1, ShelfIs
        <3>. QED
            BY <1>1, <3>1, <3>2, <3>3, DiskPut
    <2>4. CASE WriteSiblings(r, s)
        <3>1. disk' = [f \in Files |-> IF f \in Siblings[s] /\ run[r].snap[f] # {}
                                       THEN run[r].snap[f] ELSE disk[f]]
            BY <2>4 DEF WriteSiblings
        <3>2. Siblings[s] \subseteq FilesOf(s)
            BY <1>1, Names
        <3>3. \A f \in Files : disk[f] \in Contents(f) /\ run[r].snap[f] \in Contents(f)
            BY <1>1, <1>6, ShelfIs
        <3>4. \A f \in Files : disk'[f] \in Contents(f)
            BY <3>1, <3>3
        <3>5. disk' \in [Files -> SUBSET Marks]
            BY <3>1, <3>3, ContentFacts
        <3>. QED
            BY <3>1, <3>2, <3>4, <3>5, ShelfOf
    <2>5. CASE Check(r, s) \/ Downloaded(r, s) \/ DownloadFails(r, s)
        BY <2>1, <2>5 DEF Check, Downloaded, DownloadFails
    <2>. QED
        BY <2>2, <2>3, <2>4, <2>5 DEF SlotStep
<1>8. /\ run' \in [Runs -> RunStates] /\ \A q \in Runs : q # r => run'[q] = run[q]
      /\ run'[r].phase = run[r].phase /\ run'[r].key = run[r].key /\ run'[r].snap = run[r].snap
      /\ run'[r].slot[s] = w /\ \A t \in AllSlots : t # s => run'[r].slot[t] = run[r].slot[t]
    BY <1>1, <1>4, GotoFacts
<1>. QED
    BY <1>2, <1>3, <1>4, <1>5, <1>7, <1>8

LEMMA FetchFacts ==
    ASSUME Filed, Staged, NEW r \in Runs, FetchSlots(r) \/ FetchFails(r)
    PROVE  /\ run[r].phase = "fetch" /\ run' \in [Runs -> RunStates]
           /\ \A q \in Runs : q # r => run'[q] = run[q]
           /\ run'[r].phase = "slots" /\ run'[r].key = run[r].key
           /\ FetchSlots(r) => /\ run'[r].snap = chain
                               /\ \A s \in AllSlots : run'[r].slot[s] = IF s \in Slots THEN "todo" ELSE "none"
           /\ FetchFails(r) => run'[r].snap = run[r].snap /\ run'[r].slot = run[r].slot
           /\ UNCHANGED <<setup, disk, chain, up, profileKey, pendingRestoreFailed, turn, save, facts, crashes,
                          torn, keyless, anchored, kept, failed>>
<1>1. run \in [Runs -> RunStates] /\ run[r] \in RunStates /\ chain \in Shelf /\ run[r].phase = "fetch"
    BY DEF Filed, Staged, FetchSlots, FetchFails
<1>2. UNCHANGED <<setup, disk, chain, up, profileKey, pendingRestoreFailed, turn, save, facts, crashes,
                  torn, keyless, anchored, kept, failed>>
    BY DEF FetchSlots, FetchFails, Restoring, daemon, work, history
<1>3. CASE FetchSlots(r)
    <2>. DEFINE sl == [s \in AllSlots |-> IF s \in Slots THEN "todo" ELSE "none"]
                y == [run[r] EXCEPT !.phase = "slots"]
                z == [y EXCEPT !.snap = chain]
                x == [z EXCEPT !.slot = sl]
    <2>1. run' = [run EXCEPT ![r] = x]
        BY <1>3, Zenon DEF FetchSlots
    <2>2. sl \in [AllSlots -> Steps] /\ \A s \in AllSlots : sl[s] = IF s \in Slots THEN "todo" ELSE "none"
        BY DEF Steps
    <2>3. y \in RunStates /\ y.phase = "slots" /\ y.key = run[r].key
        BY <1>1 DEF RunStates
    <2>. HIDE DEF y, sl
    <2>4. z \in RunStates /\ z.phase = "slots" /\ z.key = run[r].key /\ z.snap = chain
        BY <1>1, <2>3 DEF RunStates
    <2>. HIDE DEF z
    <2>5. x \in RunStates /\ x.phase = "slots" /\ x.key = run[r].key /\ x.snap = chain /\ x.slot = sl
        BY <2>2, <2>4 DEF RunStates
    <2>. HIDE DEF x
    <2>6. run' \in [Runs -> RunStates] /\ run'[r] = x /\ \A q \in Runs : q # r => run'[q] = run[q]
        BY <1>1, <2>1, <2>5, RunPut
    <2>7. FetchFails(r) => run'[r].snap = run[r].snap /\ run'[r].slot = run[r].slot
        <3>. SUFFICES ASSUME FetchFails(r) PROVE FALSE
            OBVIOUS
        <3>1. blips' = blips + 1 /\ blips' = blips /\ blips \in Nat
            BY <1>3 DEF FetchFails, FetchSlots, Filed
        <3>. QED
            BY <3>1
    <2>. QED
        BY <1>1, <1>2, <2>2, <2>5, <2>6, <2>7
<1>4. CASE FetchFails(r) /\ ~FetchSlots(r)
    <2>. DEFINE x == [run[r] EXCEPT !.phase = "slots"]
    <2>1. run' = [run EXCEPT ![r] = x]
        BY <1>4, Zenon DEF FetchFails
    <2>2. x \in RunStates /\ x.phase = "slots" /\ x.key = run[r].key /\ x.snap = run[r].snap /\ x.slot = run[r].slot
        BY <1>1 DEF RunStates
    <2>. HIDE DEF x
    <2>3. run' \in [Runs -> RunStates] /\ run'[r] = x /\ \A q \in Runs : q # r => run'[q] = run[q]
        BY <1>1, <2>1, <2>2, RunPut
    <2>. QED
        BY <1>1, <1>2, <1>4, <2>2, <2>3
<1>. QED
    BY <1>3, <1>4

LEMMA FinishFacts ==
    ASSUME Filed, Staged, NEW r \in Runs, Finish(r)
    PROVE  /\ run[r].phase = "slots" /\ \A s \in AllSlots : run[r].slot[s] \in Outcomes
           /\ run' \in [Runs -> RunStates] /\ run'[r] = Idle /\ \A q \in Runs : q # r => run'[q] = run[q]
           /\ disk' \in Shelf /\ disk[Index] \subseteq disk'[Index]
           /\ \A f \in Files \ {Index} : disk'[f] = disk[f]
           /\ pendingRestoreFailed' = IF r = "main" THEN StillFailed(r) ELSE pendingRestoreFailed
           /\ up' = IF r = "main" THEN "up" ELSE up
           /\ keyless' = (keyless \/ ~profileKey)
           /\ UNCHANGED <<setup, chain, profileKey, turn, save, facts, failed, blips, crashes, torn, anchored, kept>>
<1>1. run \in [Runs -> RunStates] /\ Idle \in RunStates /\ run' = [run EXCEPT ![r] = Idle]
    BY IdleRun DEF Staged, Finish
<1>. DEFINE new == {f \in Synthetic : disk[f] # {}}
            c == disk[Index] \cup new
<1>2. disk \in Shelf /\ disk[Index] \in Contents(Index) /\ new \in Contents(Index)
    BY FileNames, ContentFacts, ShelfIs DEF Filed
<1>3. disk' = [disk EXCEPT ![Index] = c]
    BY DEF Finish
<1>. HIDE DEF new
<1>7. c \in Contents(Index) /\ disk[Index] \subseteq c
    BY <1>2, FileNames, ContentFacts
<1>. HIDE DEF c
<1>4. disk' \in Shelf /\ disk'[Index] = c /\ \A f \in Files : f # Index => disk'[f] = disk[f]
    BY <1>2, <1>3, <1>7, FileNames, DiskPut
<1>5. run' \in [Runs -> RunStates] /\ run'[r] = Idle /\ \A q \in Runs : q # r => run'[q] = run[q]
    BY <1>1, RunPut
<1>6. /\ run[r].phase = "slots" /\ \A s \in AllSlots : run[r].slot[s] \in Outcomes
      /\ pendingRestoreFailed' = IF r = "main" THEN StillFailed(r) ELSE pendingRestoreFailed
      /\ up' = IF r = "main" THEN "up" ELSE up
      /\ keyless' = (keyless \/ ~profileKey)
      /\ UNCHANGED <<setup, chain, profileKey, turn, save, facts, failed, blips, crashes, torn, anchored, kept>>
    BY DEF Finish, work, bounds
<1>. QED
    BY <1>7, <1>4, <1>5, <1>6
-----------------------------------------------------------------------------
(* Filed.                                                                  *)

LEMMA FiledStep ==
    ASSUME Filed, Staged, [Next]_vars
    PROVE  Filed'
<1>1. CASE Boot \/ Turn \/ SetProfileKey \/ \E f \in Topics : SaveRead(f)
    BY <1>1 DEF Boot, Turn, SetProfileKey, SaveRead, bounds, history, Filed
<1>2. CASE AppendActivity
    <2>. DEFINE c == disk["activity.jsonl"] \cup {1}
    <2>1. c \in Contents("activity.jsonl")
        BY FileNames, ContentFacts, ShelfIs DEF Filed
    <2>2. disk' = [disk EXCEPT !["activity.jsonl"] = c]
        BY <1>2 DEF AppendActivity
    <2>. HIDE DEF c
    <2>3. disk' \in Shelf
        BY <2>1, <2>2, FileNames, DiskPut DEF Filed
    <2>. QED
        BY <1>2, <2>3 DEF AppendActivity, bounds, history, Filed
<1>3. CASE SaveWrite
    <2>. DEFINE c == save.body \cup {facts'}
    <2>1. save.file \in Topics /\ save.file \in Files \ {Index} /\ save.body \in Contents(save.file)
        BY <1>3, FileNames DEF SaveWrite, Staged, Saves
    <2>2. facts' \in Nat /\ facts' \in Marks
        BY <1>3 DEF SaveWrite, Filed, Marks
    <2>3. c \in Contents(save.file)
        BY <2>1, <2>2, ContentFacts
    <2>4. disk' = [disk EXCEPT ![save.file] = c]
        BY <1>3 DEF SaveWrite
    <2>. HIDE DEF c
    <2>5. disk' \in Shelf
        BY <2>1, <2>3, <2>4, DiskPut DEF Filed
    <2>6. kept' \in [Files -> SUBSET Marks] /\ kept'[Index] = {}
        BY <1>3, <2>1, <2>2, FileNames DEF SaveWrite, Filed
    <2>. QED
        BY <1>3, <2>2, <2>5, <2>6 DEF SaveWrite, Filed
<1>4. CASE SaveList
    <2>. DEFINE c == disk[Index] \cup {save.file}
    <2>1. save.file \in Files
        BY <1>4, FileNames DEF SaveList, Staged, Saves
    <2>2. c \in Contents(Index)
        BY <2>1, FileNames, ContentFacts, ShelfIs DEF Filed
    <2>3. disk' = [disk EXCEPT ![Index] = c]
        BY <1>4 DEF SaveList
    <2>. HIDE DEF c
    <2>4. disk' \in Shelf
        BY <2>2, <2>3, FileNames, DiskPut DEF Filed
    <2>. QED
        BY <1>4, <2>4 DEF SaveList, bounds, history, Filed
<1>5. CASE Flush
    <2>. DEFINE files == UNION {FilesOf(s) : s \in {t \in Slots : Flushed(t)}}
    <2>1. chain' = [f \in Files |-> IF f \in files THEN disk[f] ELSE chain[f]]
        BY <1>5 DEF Flush
    <2>. HIDE DEF files
    <2>2. \A f \in Files : chain'[f] \in Contents(f)
        BY <2>1, ShelfIs DEF Filed
    <2>3. chain' \in [Files -> SUBSET Marks]
        BY <2>1, ShelfIs DEF Filed
    <2>4. anchored' \in [Files -> SUBSET Marks]
        BY <1>5, <2>3 DEF Flush, Filed
    <2>. QED
        BY <1>5, <2>2, <2>3, <2>4, ShelfOf DEF Flush, bounds, Filed
<1>6. CASE Crash
    <2>1. Empty \in [Files -> SUBSET Marks] /\ Empty[Index] = {} /\ Empty \in Shelf
        BY EmptyShelf, FileNames, ShelfIs
    <2>. QED
        BY <1>6, <2>1 DEF Crash, Filed
<1>7. ASSUME NEW r \in Runs, FetchSlots(r) \/ FetchFails(r) PROVE Filed'
    <2>1. blips' \in Nat
        BY <1>7 DEF FetchSlots, FetchFails, Filed
    <2>. QED
        BY <1>7, <2>1, FetchFacts DEF Filed
<1>8. ASSUME NEW r \in Runs, Finish(r) PROVE Filed'
    BY <1>8, FinishFacts DEF Filed
<1>9. ASSUME NEW r \in Runs, NEW s \in Slots, SlotStep(r, s) PROVE Filed'
    <2>1. failed' \in Nat /\ blips' \in Nat
        BY <1>9 DEF SlotStep, Check, Downloaded, DownloadFails, WriteEnvelope, WriteRoot, WriteSiblings, Filed
    <2>. QED
        BY <1>9, <2>1, SlotStepFacts DEF Filed
<1>10. CASE UNCHANGED vars
    BY <1>10 DEF vars, Filed
<1>. QED
    BY <1>1, <1>2, <1>3, <1>4, <1>5, <1>6, <1>7, <1>8, <1>9, <1>10, RestoreCases
-----------------------------------------------------------------------------
(* Staged.                                                                 *)

LEMMA StartedIs ==
    ASSUME NEW r \in Runs, NEW key \in BOOLEAN, run'[r] = Started(key)
    PROVE  Run(r)'
BY StartedRun, IdleRun DEF Run

LEMMA IdleIs ==
    ASSUME NEW r \in Runs, run'[r] = Idle
    PROVE  Run(r)'
BY IdleRun DEF Run

LEMMA NoSaveIs == NoSave \in [pc : {"none", "write", "list"}, file : Files, body : SUBSET Marks]
                  /\ NoSave.pc = "none"
BY FileNames DEF NoSave

LEMMA StagedStep ==
    ASSUME Filed, Staged, [Next]_vars
    PROVE  Staged'
<1>. USE DEF Runs
<1>1. CASE Boot
    <2>1. PICK key \in BOOLEAN : profileKey' = key /\ run' = [run EXCEPT !["main"] = Started(key)]
        BY <1>1 DEF Boot
    <2>2. run' \in [Runs -> RunStates] /\ run'["main"] = Started(key) /\ run'["key"] = run["key"]
        BY <2>1, StartedRun, RunPut DEF Staged
    <2>3. run["key"] = Idle
        BY <1>1 DEF Boot, Staged
    <2>4. \A r \in Runs : Run(r)'
        BY <2>2, <2>3, StartedIs, IdleIs
    <2>. QED
        BY <1>1, <2>1, <2>2, <2>3, <2>4, StartedRun DEF Boot, work, history, Staged, Saves, Topics, Followed, Slots
<1>2. CASE Turn
    <2>1. run' = run \/ (run' = [run EXCEPT !["main"] = Started(profileKey)])
        BY <1>2 DEF Turn
    <2>2. run' \in [Runs -> RunStates] /\ run'["key"] = run["key"]
          /\ (run'["main"] = run["main"] \/ run'["main"] = Started(profileKey))
        BY <2>1, StartedRun, RunPut DEF Staged
    <2>3. setup' = setup
        BY <1>2 DEF Turn
    <2>4. \A r \in Runs : Run(r)'
        BY <2>2, <2>3, StartedIs DEF Staged, Run, Slots
    <2>. QED
        BY <1>2, <2>2, <2>4, StartedRun DEF Turn, daemon, history, Staged, Saves, Topics, Followed, Slots
<1>3. CASE AppendActivity
    BY <1>3 DEF AppendActivity, daemon, history, Staged, Saves, Run, Slots, Topics, Followed
<1>4. ASSUME NEW f \in Topics, SaveRead(f) PROVE Staged'
    <2>1. disk[f] \in SUBSET Marks /\ disk[f] \in Contents(f) /\ f \in Files
        BY FileNames, ShelfIs DEF Filed
    <2>2. save' = [pc |-> "write", file |-> f, body |-> disk[f]] /\ setup' = setup /\ Topics' = Topics
        BY <1>4 DEF SaveRead, Topics, Followed, Slots
    <2>3. Saves'
        BY <2>1, <2>2 DEF Saves
    <2>. QED
        BY <1>4, <2>3 DEF SaveRead, daemon, history, Staged, Run, Slots
<1>5. CASE SaveWrite
    <2>1. Topics' = Topics /\ save' = [save EXCEPT !.pc = "list", !.body = {}] /\ save.pc = "write"
        BY <1>5 DEF SaveWrite, Topics, Followed, Slots
    <2>2. save'.pc = "list" /\ save'.body = {} /\ save'.file = save.file
          /\ save' \in [pc : {"none", "write", "list"}, file : Files, body : SUBSET Marks]
        BY <2>1 DEF Staged, Saves
    <2>3. Saves'
        BY <2>1, <2>2, FileNames, ContentFacts DEF Staged, Saves
    <2>. QED
        BY <1>5, <2>1, <2>3 DEF SaveWrite, daemon, Staged, Run, Slots, NoSave
<1>6. CASE SaveList
    <2>1. Saves' /\ save' = NoSave
        BY <1>6, NoSaveIs DEF SaveList, Saves
    <2>. QED
        BY <1>6, <2>1 DEF SaveList, daemon, history, Staged, Run, Slots
<1>7. CASE Flush
    <2>1. torn' \in BOOLEAN
        BY <1>7 DEF Flush, MidWrite, Staged
    <2>. QED
        BY <1>7, <2>1 DEF Flush, daemon, work, Staged, Saves, Run, Slots, Topics, Followed
<1>8. CASE SetProfileKey
    <2>1. run' = [run EXCEPT !["key"] = Started(TRUE)] /\ setup' = setup
        BY <1>8 DEF SetProfileKey
    <2>2. run' \in [Runs -> RunStates] /\ run'["key"] = Started(TRUE) /\ run'["main"] = run["main"]
        BY <2>1, StartedRun, RunPut DEF Staged
    <2>3. \A r \in Runs : Run(r)'
        BY <2>1, <2>2, StartedIs DEF Staged, Run, Slots
    <2>. QED
        BY <1>8, <2>2, <2>3 DEF SetProfileKey, work, history, Staged, Saves, Topics, Followed, Slots
<1>9. CASE Crash
    <2>1. run' = [r \in Runs |-> Idle] /\ save' = NoSave /\ torn' \in BOOLEAN
        BY <1>9 DEF Crash, MidWrite, Staged
    <2>2. run' \in [Runs -> RunStates] /\ run'["main"] = Idle /\ run'["key"] = Idle
        BY <2>1, IdleRun
    <2>3. Saves' /\ \A r \in Runs : Run(r)'
        BY <2>1, <2>2, NoSaveIs, IdleIs DEF Saves
    <2>. QED
        BY <1>9, <2>1, <2>2, <2>3 DEF Crash, Staged
<1>10. ASSUME NEW r \in Runs, FetchSlots(r) \/ FetchFails(r) PROVE Staged'
    <2>1. /\ run[r].phase = "fetch" /\ run' \in [Runs -> RunStates]
          /\ \A q \in Runs : q # r => run'[q] = run[q]
          /\ run'[r].phase = "slots" /\ run'[r].key = run[r].key
          /\ \A s \in AllSlots : run'[r].slot[s] \in {"none", "todo"} /\ (s \notin Slots => run'[r].slot[s] = "none")
        BY <1>10, FetchFacts, IdleRun DEF Staged, Run
    <2>2. up # "down" /\ (up = "boot" => r = "main")
        BY <2>1, IdleRun DEF Staged
    <2>3. UNCHANGED <<setup, up, profileKey, pendingRestoreFailed, turn, save, torn, keyless>>
        BY <1>10, FetchFacts
    <2>4. \A q \in Runs : Run(q)'
        BY <2>1, <2>3 DEF Staged, Run, Slots
    <2>. QED
        BY <2>1, <2>2, <2>3, <2>4 DEF Staged, Saves, Topics, Followed, Slots
<1>11. ASSUME NEW r \in Runs, Finish(r) PROVE Staged'
    <2>1. /\ run[r].phase = "slots" /\ run' \in [Runs -> RunStates] /\ run'[r] = Idle
          /\ \A q \in Runs : q # r => run'[q] = run[q]
          /\ pendingRestoreFailed' \in BOOLEAN /\ keyless' \in BOOLEAN
          /\ up' = (IF r = "main" THEN "up" ELSE up)
          /\ UNCHANGED <<setup, profileKey, turn, save, torn>>
        BY <1>11, FinishFacts DEF Staged, StillFailed
    <2>2. up # "down" /\ (up = "boot" => r = "main")
        BY <2>1, IdleRun DEF Staged
    <2>3. \A q \in Runs : Run(q)'
        BY <2>1, IdleIs DEF Staged, Run, Slots
    <2>. QED
        BY <2>1, <2>2, <2>3 DEF Staged, Saves, Topics, Followed, Slots
<1>12. ASSUME NEW r \in Runs, NEW s \in Slots, SlotStep(r, s) PROVE Staged'
    <2>1. /\ run[r].phase = "slots" /\ run' \in [Runs -> RunStates]
          /\ \A q \in Runs : q # r => run'[q] = run[q]
          /\ run'[r].phase = "slots" /\ run'[r].key = run[r].key
          /\ run'[r].slot[s] = "envelope" => s = "profile"
          /\ \A t \in AllSlots : t # s => run'[r].slot[t] = run[r].slot[t]
          /\ UNCHANGED <<setup, up, profileKey, pendingRestoreFailed, turn, save, torn, keyless>>
        BY <1>12, SlotStepFacts
    <2>2. up # "down" /\ (up = "boot" => r = "main")
        BY <2>1, IdleRun DEF Staged
    <2>3. \A q \in Runs : Run(q)'
        BY <2>1 DEF Staged, Run, Slots
    <2>. QED
        BY <2>1, <2>2, <2>3 DEF Staged, Saves, Topics, Followed, Slots
<1>13. CASE UNCHANGED vars
    BY <1>13 DEF vars, Staged, Saves, Run, Slots, Topics, Followed
<1>. QED
    BY <1>1, <1>2, <1>3, <1>4, <1>5, <1>6, <1>7, <1>8, <1>9, <1>10, <1>11, <1>12, <1>13, RestoreCases
-----------------------------------------------------------------------------
(* Settled: failures never cease to be on record.                          *)

LEMMA TroubleStays ==
    ASSUME Filed, Staged, [Next]_vars, NoTrouble'
    PROVE  /\ NoTrouble
           /\ \A r \in Runs : ~FetchFails(r)
           /\ \A r \in Runs, s \in Slots : ~DownloadFails(r, s)
<1>1. failed \in Nat /\ blips \in Nat /\ failed' = 0 /\ blips' = 0 /\ ~torn' /\ torn \in BOOLEAN
    BY DEF Filed, Staged, NoTrouble
<1>2. ASSUME \/ Boot \/ Turn \/ AppendActivity \/ SaveList \/ SetProfileKey \/ \E f \in Topics : SaveRead(f)
             \/ SaveWrite \/ Flush \/ Crash
      PROVE  failed' = failed /\ blips' = blips /\ (torn => torn')
    <2>1. CASE Boot
        BY <2>1 DEF Boot, bounds, history
    <2>6. CASE Turn
        BY <2>6 DEF Turn, bounds, history
    <2>7. CASE AppendActivity \/ SaveList
        BY <2>7 DEF AppendActivity, SaveList, bounds, history
    <2>8. CASE SetProfileKey
        BY <2>8 DEF SetProfileKey, bounds, history
    <2>5. CASE \E f \in Topics : SaveRead(f)
        BY <2>5 DEF SaveRead, bounds, history
    <2>2. CASE SaveWrite
        BY <2>2 DEF SaveWrite
    <2>3. CASE Flush
        BY <2>3, <1>1 DEF Flush, bounds
    <2>4. CASE Crash
        BY <2>4, <1>1 DEF Crash
    <2>. QED
        BY <1>2, <2>1, <2>2, <2>3, <2>4, <2>5, <2>6, <2>7, <2>8
<1>3. ASSUME NEW r \in Runs, FetchSlots(r) \/ FetchFails(r) \/ Finish(r)
      PROVE  failed' = failed /\ torn' = torn /\ (blips' = blips \/ blips' = blips + 1)
    BY <1>3 DEF FetchSlots, FetchFails, Finish, bounds, Restoring, history
<1>4. ASSUME NEW r \in Runs, NEW s \in Slots, SlotStep(r, s)
      PROVE  blips' = blips /\ torn' = torn /\ (failed' = failed \/ failed' = failed + 1)
    BY <1>4 DEF SlotStep, Check, Downloaded, DownloadFails, WriteEnvelope, WriteRoot, WriteSiblings,
                Restoring, history
<1>5. ASSUME UNCHANGED vars PROVE failed' = failed /\ blips' = blips /\ torn' = torn
    BY <1>5 DEF vars
<1>6. failed = 0 /\ blips = 0 /\ ~torn
    BY <1>1, <1>2, <1>3, <1>4, <1>5, RestoreCases DEF NoTrouble
<1>. QED
    BY <1>1, <1>6 DEF NoTrouble, FetchFails, DownloadFails

LEMMA SlotMoves ==
    ASSUME Filed, Staged, NEW r \in Runs, NEW s \in Slots
    PROVE  /\ Check(r, s) => /\ run[r].slot[s] = "todo" /\ disk' = disk
                             /\ run'[r].slot[s] = IF Wanted(r, s) THEN "download" ELSE "skipped"
           /\ Downloaded(r, s) => /\ run[r].slot[s] = "download" /\ disk' = disk
                                  /\ run'[r].slot[s] = IF s = "profile" THEN "envelope" ELSE "root"
           /\ WriteEnvelope(r, s) => run[r].slot[s] = "envelope" /\ run'[r].slot[s] = "root"
           /\ WriteRoot(r, s) => /\ run[r].slot[s] = "root"
                                 /\ run'[r].slot[s] = IF Siblings[s] = {} THEN "restored" ELSE "siblings"
           /\ WriteSiblings(r, s) => run[r].slot[s] = "siblings" /\ run'[r].slot[s] = "restored"
<1>1. s \in AllSlots /\ run \in [Runs -> RunStates]
    BY SlotsKnown DEF Staged
<1>2. \A w \in Steps : Goto(r, s, w) => run'[r].slot[s] = w
    BY <1>1, GotoFacts
<1>3. {"download", "skipped", "envelope", "root", "restored", "siblings"} \subseteq Steps
    BY DEF Steps
<1>. QED
    BY <1>2, <1>3 DEF Check, Downloaded, WriteEnvelope, WriteRoot, WriteSiblings

LEMMA SettledStep ==
    ASSUME Filed, Staged, Settled, NoTrouble', [Next]_vars
    PROVE  Settled'
<1>. USE DEF Runs
<1>1. CASE Boot
    <2>1. PICK key \in BOOLEAN : profileKey' = key /\ run' = [run EXCEPT !["main"] = Started(key)]
        BY <1>1 DEF Boot
    <2>2. run'["main"] = Started(key) /\ run'["key"] = run["key"]
        BY <2>1, StartedRun, RunPut DEF Staged
    <2>. QED
        BY <1>1, <2>2, StartedRun, IdleRun DEF Boot, Settled
<1>2. CASE Turn
    <2>1. run' = run
        BY <1>2 DEF Turn, Settled
    <2>. QED
        BY <1>2, <2>1 DEF Turn, daemon, Settled, Slots
<1>3. CASE AppendActivity \/ SaveList
    BY <1>3 DEF AppendActivity, SaveList, daemon, Settled, Slots
<1>4. ASSUME NEW f \in Topics, SaveRead(f) PROVE Settled'
    BY <1>4 DEF SaveRead, daemon, Settled, Slots
<1>5. CASE SaveWrite
    BY <1>5 DEF SaveWrite, daemon, Settled, Slots
<1>6. CASE Flush
    BY <1>6 DEF Flush, daemon, Settled, Slots
<1>7. CASE SetProfileKey
    <2>1. run'["main"] = run["main"] /\ run'["key"] = Started(TRUE)
        BY <1>7, StartedRun, RunPut DEF SetProfileKey, Staged
    <2>. QED
        BY <1>7, <2>1, StartedRun, IdleRun DEF SetProfileKey, Settled, Slots
<1>8. CASE Crash
    <2>1. run' = [r \in Runs |-> Idle]
        BY <1>8 DEF Crash
    <2>. QED
        BY <1>8, <2>1, IdleRun DEF Crash, Settled
<1>9. ASSUME NEW r \in Runs, FetchSlots(r) \/ FetchFails(r) PROVE Settled'
    <2>1. FetchSlots(r)
        BY <1>9, TroubleStays
    <2>2. /\ run[r].phase = "fetch" /\ \A q \in Runs : q # r => run'[q] = run[q]
          /\ run'[r].snap = chain /\ chain' = chain /\ up' = up /\ setup' = setup
          /\ pendingRestoreFailed' = pendingRestoreFailed
          /\ \A s \in AllSlots : run'[r].slot[s] = IF s \in Slots THEN "todo" ELSE "none"
        BY <1>9, <2>1, FetchFacts
    <2>3. Slots \subseteq AllSlots /\ Slots' = Slots
        BY <2>2, SlotsKnown DEF Slots
    <2>4. up = "up" => r = "key"
        BY <2>2, IdleRun DEF Settled
    <2>. QED
        BY <2>2, <2>3, <2>4 DEF Settled
<1>10. ASSUME NEW r \in Runs, Finish(r) PROVE Settled'
    <2>1. /\ run[r].phase = "slots" /\ run'[r] = Idle /\ \A q \in Runs : q # r => run'[q] = run[q]
          /\ pendingRestoreFailed' = (IF r = "main" THEN StillFailed(r) ELSE pendingRestoreFailed)
          /\ up' = (IF r = "main" THEN "up" ELSE up)
          /\ UNCHANGED <<setup, chain>>
        BY <1>10, FinishFacts
    <2>2. ~StillFailed(r) /\ Slots' = Slots
        BY <2>1, SlotsKnown DEF StillFailed, Settled, Slots
    <2>. QED
        BY <2>1, <2>2, IdleRun DEF Settled
<1>11. ASSUME NEW r \in Runs, NEW s \in Slots, SlotStep(r, s) PROVE Settled'
    <2>1. /\ run[r].phase = "slots" /\ \A q \in Runs : q # r => run'[q] = run[q]
          /\ run'[r].phase = "slots" /\ run'[r].snap = run[r].snap /\ run'[r].slot[s] # "none"
          /\ \A t \in AllSlots : t # s => run'[r].slot[t] = run[r].slot[t]
          /\ UNCHANGED <<setup, chain, up, pendingRestoreFailed>>
        BY <1>11, SlotStepFacts
    <2>2. run'[r].slot[s] # "failed"
        BY <1>11, SlotMoves, TroubleStays DEF SlotStep
    <2>3. Slots \subseteq AllSlots /\ Slots' = Slots
        BY <2>1, SlotsKnown DEF Slots
    <2>4. up = "up" => r = "key"
        BY <2>1, IdleRun DEF Settled
    <2>. QED
        BY <2>1, <2>2, <2>3, <2>4 DEF Settled
<1>12. CASE UNCHANGED vars
    BY <1>12 DEF vars, Settled, Slots
<1>. QED
    BY <1>1, <1>2, <1>3, <1>4, <1>5, <1>6, <1>7, <1>8, <1>9, <1>10, <1>11, <1>12, RestoreCases
-----------------------------------------------------------------------------
(* The agent's slots.                                                      *)

\* What a step leaves alone.
LEMMA AgentFrame ==
    ASSUME NEW s \in AllSlots, Agent(s), up' = up,
           \A f \in FilesOf(s) : /\ disk'[f] = disk[f] /\ chain'[f] = chain[f]
                                 /\ anchored'[f] = anchored[f] /\ kept'[f] = kept[f],
           up = "boot" => run'["main"].slot[s] = run["main"].slot[s],
           up = "up" => /\ run'["key"].slot[s] \in {"none", "todo", "skipped"}
                        /\ IsSet("key", s)' => disk[Root[s]] # {},
           save.pc = "list" => save'.pc = "list",
           up = "up" /\ save'.pc = "write" /\ save'.file \in FilesOf(s) => save'.body = disk[save'.file]
    PROVE  Agent(s)'
<1>1. Root[s] \in FilesOf(s) /\ Siblings[s] \subseteq FilesOf(s) /\ FilesOf(s)' = FilesOf(s)
    BY Names DEF FilesOf
<1>2. /\ disk'[Root[s]] = disk[Root[s]] /\ chain'[Root[s]] = chain[Root[s]]
      /\ \A f \in Siblings[s] : disk'[f] = disk[f]
    BY <1>1
<1>3. (Present(s) => Present(s)') /\ (Absent(s) => Absent(s)')
    BY <1>1, <1>2 DEF Present, Absent
<1>4. Holds(s) => Holds(s)'
    BY <1>1, <1>2 DEF Holds
<1>5. Rooted(s)' /\ \A f \in FilesOf(s) \ {Index} : anchored'[f] \subseteq chain'[f]
    BY <1>1, <1>2 DEF Agent, Rooted
<1>6. ASSUME up = "boot" PROVE Booting(s, run["main"].slot[s])'
    <2>1. Booting(s, run["main"].slot[s]) /\ run'["main"].slot[s] = run["main"].slot[s]
        BY <1>6 DEF Agent
    <2>2. (\E f \in FilesOf(s) : chain[f] # {}) => \E f \in FilesOf(s) : chain'[f] # {}
        OBVIOUS
    <2>3. (\A f \in FilesOf(s) : kept[f] = {}) => \A f \in FilesOf(s) : kept'[f] = {}
        OBVIOUS
    <2>. QED
        BY <1>1, <1>2, <1>3, <1>4, <2>1, <2>2, <2>3 DEF Booting
<1>7. ASSUME up = "up" PROVE Serving(s)'
    BY <1>1, <1>2, <1>4, <1>7 DEF Agent, Serving
<1>. QED
    BY <1>3, <1>5, <1>6, <1>7 DEF Agent

\* A slot that has been looked at, and what is in the way.
LEMMA AgentCheck ==
    ASSUME Filed, Staged, Settled, NEW s \in Agents, Agent(s), up = "boot", Check("main", s)
    PROVE  Agent(s)'
<1>. USE DEF Runs
<1>1. s \in AllSlots /\ s \in Slots /\ s # "profile" /\ Slots \subseteq AllSlots
    BY SlotsKnown DEF Agents
<1>2. /\ run["main"].slot[s] = "todo" /\ disk' = disk /\ run["main"].phase = "slots"
      /\ run'["main"].slot[s] = (IF Wanted("main", s) THEN "download" ELSE "skipped")
      /\ UNCHANGED <<up, chain, save, anchored, kept>>
    BY <1>1, SlotMoves, SlotStepFacts DEF SlotStep
<1>3. Root[s] \in FilesOf(s) /\ Siblings[s] \subseteq FilesOf(s)
    BY <1>1, Names
<1>4. IsSet("main", s) <=> \E f \in FilesOf(s) : chain[f] # {}
    BY <1>2 DEF Settled, IsSet
<1>5. Present(s) \/ Absent(s)
    BY <1>2 DEF Agent, Booting
<1>6. Wanted("main", s) => Absent(s) /\ \E f \in FilesOf(s) : chain[f] # {}
    BY <1>4, <1>5 DEF Wanted, Present
<1>7. ~Wanted("main", s) => Holds(s)
    <2>1. CASE disk[Root[s]] # {}
        BY <1>3, <1>5, <2>1 DEF Present, Absent, Holds
    <2>2. CASE disk[Root[s]] = {} /\ ~Wanted("main", s)
        <3>1. \A f \in FilesOf(s) : chain[f] = {}
            BY <1>1, <1>4, <2>2 DEF Wanted
        <3>2. Absent(s)
            BY <1>5, <2>2 DEF Present
        <3>. QED
            BY <1>3, <3>1, <3>2 DEF Absent, Holds
    <2>. QED
        BY <2>1, <2>2
<1>8. /\ Present(s) => Present(s)'
      /\ Absent(s) => Absent(s)'
      /\ Holds(s) => Holds(s)'
      /\ Rooted(s) => Rooted(s)'
    BY <1>2 DEF Present, Absent, Holds, Rooted, FilesOf
<1>9. Booting(s, run["main"].slot[s])'
    <2>1. CASE Wanted("main", s)
        BY <1>2, <1>6, <1>8, <2>1 DEF Booting, FilesOf
    <2>2. CASE ~Wanted("main", s)
        BY <1>2, <1>5, <1>7, <1>8, <2>2 DEF Booting
    <2>. QED
        BY <2>1, <2>2
<1>. QED
    BY <1>2, <1>8, <1>9 DEF Agent, FilesOf

LEMMA AgentRoot ==
    ASSUME Filed, Staged, Settled, NEW s \in Agents, Agent(s), up = "boot", WriteRoot("main", s)
    PROVE  Agent(s)'
<1>. USE DEF Runs
<1>1. s \in AllSlots /\ s \in Slots /\ s # "profile"
    BY SlotsKnown DEF Agents
<1>2. /\ run["main"].slot[s] = "root" /\ run["main"].phase = "slots"
      /\ run'["main"].slot[s] = (IF Siblings[s] = {} THEN "restored" ELSE "siblings")
      /\ UNCHANGED <<up, chain, save, anchored, kept>>
    BY <1>1, SlotMoves, SlotStepFacts DEF SlotStep
<1>3. Root[s] \in FilesOf(s) /\ FilesOf(s) = {Root[s]} \cup Siblings[s] /\ Root[s] \in Files /\ Root[s] \notin Siblings[s]
      /\ FilesOf(s) \subseteq Files
    BY <1>1, Names
<1>4. Absent(s) /\ chain[Root[s]] # {}
    BY <1>2 DEF Agent, Booting, Rooted
<1>5. run["main"].snap = chain
    BY <1>2 DEF Settled
<1>6. disk' = [disk EXCEPT ![Root[s]] = chain[Root[s]]]
    BY <1>4, <1>5 DEF WriteRoot
<1>7. disk'[Root[s]] = chain[Root[s]] /\ \A f \in Siblings[s] : disk'[f] = {}
    BY <1>3, <1>4, <1>6, ShelfIs DEF Absent, Filed
<1>8. \A f \in FilesOf(s) : kept'[f] = {}
    BY <1>2, <1>4 DEF Absent
<1>9. Siblings[s] = {} => Present(s)' /\ Holds(s)'
    BY <1>2, <1>3, <1>4, <1>7, <1>8 DEF Present, Holds, FilesOf
<1>10. Booting(s, run["main"].slot[s])'
    BY <1>2, <1>4, <1>7, <1>8, <1>9 DEF Booting, FilesOf
<1>. QED
    BY <1>2, <1>10 DEF Agent, Rooted, FilesOf

LEMMA AgentSiblings ==
    ASSUME Filed, Staged, Settled, NEW s \in Agents, Agent(s), up = "boot", WriteSiblings("main", s)
    PROVE  Agent(s)'
<1>. USE DEF Runs
<1>1. s \in AllSlots /\ s \in Slots /\ s # "profile"
    BY SlotsKnown DEF Agents
<1>2. /\ run["main"].slot[s] = "siblings" /\ run["main"].phase = "slots"
      /\ run'["main"].slot[s] = "restored"
      /\ UNCHANGED <<up, chain, save, anchored, kept>>
    BY <1>1, SlotMoves, SlotStepFacts DEF SlotStep
<1>3. FilesOf(s) = {Root[s]} \cup Siblings[s] /\ Root[s] \in Files /\ Root[s] \notin Siblings[s]
      /\ FilesOf(s) \subseteq Files
    BY <1>1, Names
<1>4. chain[Root[s]] # {} /\ disk[Root[s]] = chain[Root[s]] /\ \A f \in FilesOf(s) : kept[f] = {}
    BY <1>2 DEF Agent, Booting
<1>5. run["main"].snap = chain
    BY <1>2 DEF Settled
<1>6. disk' = [f \in Files |-> IF f \in Siblings[s] /\ chain[f] # {} THEN chain[f] ELSE disk[f]]
    BY <1>5 DEF WriteSiblings
<1>7. disk'[Root[s]] = chain[Root[s]] /\ \A f \in Siblings[s] : chain[f] \subseteq disk'[f]
    BY <1>3, <1>4, <1>6
<1>8. Present(s)' /\ Holds(s)'
    BY <1>2, <1>3, <1>4, <1>7 DEF Present, Holds, FilesOf
<1>. QED
    BY <1>2, <1>8 DEF Booting, Agent, Rooted, FilesOf

LEMMA SnapSame ==
    ASSUME NEW r \in Runs, NEW s \in AllSlots, run'[r].snap = run[r].snap
    PROVE  IsSet(r, s)' <=> IsSet(r, s)
BY DEF IsSet, FilesOf

LEMMA AgentSlot ==
    ASSUME Filed, Staged, Settled, NoTrouble', [Next]_vars, NEW s \in Agents, Agent(s),
           NEW r \in Runs, NEW t \in Slots, SlotStep(r, t)
    PROVE  Agent(s)'
<1>. USE DEF Runs
<1>1. s \in AllSlots /\ t \in AllSlots /\ s # "profile" /\ ~DownloadFails(r, t) /\ s \in Slots
    BY SlotsKnown, TroubleStays DEF Agents
<1>2. /\ run[r].phase = "slots" /\ \A q \in Runs : q # r => run'[q] = run[q]
      /\ run'[r].snap = run[r].snap
      /\ \A u \in AllSlots : u # t => run'[r].slot[u] = run[r].slot[u]
      /\ \A f \in Files \ FilesOf(t) : disk'[f] = disk[f]
      /\ UNCHANGED <<setup, chain, up, save, anchored, kept>>
    BY SlotStepFacts
<1>3. up # "down" /\ (up = "boot" => r = "main") /\ (up = "up" => r = "key")
    BY <1>2, IdleRun DEF Staged, Settled
<1>4. \A f \in FilesOf(s) : f \in Files
    BY <1>1, Names
<1>5. Root[s] \in FilesOf(s)
    BY <1>1, Names
<1>6. IsSet("key", s)' <=> IsSet("key", s)
    BY <1>1, <1>2, SnapSame
<1>7. CASE t # s
    <2>1. \A f \in FilesOf(s) : disk'[f] = disk[f]
        BY <1>1, <1>2, <1>4, <1>7, Names
    <2>2. run'["main"].slot[s] = run["main"].slot[s] /\ run'["key"].slot[s] = run["key"].slot[s]
        BY <1>1, <1>2, <1>7
    <2>. QED
        BY <1>1, <1>2, <1>6, <2>1, <2>2, AgentFrame DEF Agent, Serving
<1>8. CASE t = s /\ r = "key"
    <2>1. up = "up" /\ run["key"].slot[s] \in {"none", "todo", "skipped"}
        BY <1>3, <1>8 DEF Agent, Serving, Staged
    <2>2. Check("key", s)
        BY <1>1, <1>8, <2>1, SlotMoves DEF SlotStep
    <2>3. disk' = disk /\ run'["key"].slot[s] = (IF Wanted("key", s) THEN "download" ELSE "skipped")
        BY <1>1, <2>2, SlotMoves
    <2>4. ~Wanted("key", s)
        BY <2>1 DEF Wanted, Agent, Serving
    <2>. QED
        BY <1>1, <1>2, <1>6, <2>1, <2>3, <2>4, AgentFrame DEF Agent, Serving
<1>9. CASE t = s /\ r = "main"
    <2>1. up = "boot" /\ run["main"].slot[s] # "envelope"
        BY <1>1, <1>3, <1>9 DEF Staged, Run
    <2>2. CASE Check("main", s)
        BY <2>1, <2>2, AgentCheck
    <2>3. CASE WriteRoot("main", s)
        BY <2>1, <2>3, AgentRoot
    <2>4. CASE WriteSiblings("main", s)
        BY <2>1, <2>4, AgentSiblings
    <2>5. CASE Downloaded("main", s)
        <3>1. run["main"].slot[s] = "download" /\ disk' = disk /\ run'["main"].slot[s] = "root"
            BY <1>1, <2>5, SlotMoves
        <3>2. Absent(s) /\ (\E f \in FilesOf(s) : chain[f] # {})
            BY <2>1, <3>1 DEF Agent, Booting
        <3>3. Booting(s, run["main"].slot[s])'
            BY <1>2, <3>1, <3>2 DEF Booting, Absent, FilesOf
        <3>. QED
            BY <1>2, <2>1, <3>3 DEF Agent, Rooted, FilesOf
    <2>6. ~WriteEnvelope("main", s)
        BY <1>1, <2>1, SlotMoves
    <2>. QED
        BY <1>1, <1>9, <2>2, <2>3, <2>4, <2>5, <2>6 DEF SlotStep
<1>. QED
    BY <1>7, <1>8, <1>9

LEMMA AgentFetch ==
    ASSUME Filed, Staged, Settled, NEW s \in Agents, Agent(s), NEW r \in Runs, FetchSlots(r)
    PROVE  Agent(s)'
<1>. USE DEF Runs
<1>1. s \in AllSlots /\ s \in Slots /\ Root[s] \in FilesOf(s)
    BY SlotsKnown, Names DEF Agents
<1>2. /\ run[r].phase = "fetch" /\ \A q \in Runs : q # r => run'[q] = run[q]
      /\ run'[r].snap = chain /\ run'[r].slot[s] = "todo"
      /\ UNCHANGED <<setup, disk, chain, up, save, anchored, kept>>
    BY <1>1, FetchFacts
<1>3. up # "down" /\ (up = "boot" => r = "main") /\ (up = "up" => r = "key")
    BY <1>2, IdleRun DEF Staged, Settled
<1>4. CASE up = "boot"
    <2>1. run["main"].slot[s] = "none"
        BY <1>1, <1>2, <1>3, <1>4, IdleRun DEF Staged, Run
    <2>2. Present(s) \/ Absent(s)
        BY <1>4, <2>1 DEF Agent, Booting
    <2>3. Present(s)' \/ Absent(s)'
        BY <1>2, <2>2 DEF Present, Absent, FilesOf
    <2>4. Booting(s, run["main"].slot[s])'
        BY <1>2, <1>3, <1>4, <2>3 DEF Booting
    <2>. QED
        BY <1>2, <1>4, <2>4 DEF Agent, Rooted, FilesOf
<1>5. CASE up = "up"
    <2>1. IsSet("key", s)' => \E f \in FilesOf(s) : chain[f] # {}
        BY <1>2, <1>3, <1>5 DEF IsSet, FilesOf
    <2>2. IsSet("key", s)' => disk[Root[s]] # {}
        BY <1>5, <2>1 DEF Agent, Rooted, Serving, Holds
    <2>. QED
        BY <1>1, <1>2, <1>3, <1>5, <2>2, AgentFrame DEF Agent, Serving
<1>. QED
    BY <1>3, <1>4, <1>5 DEF Staged

LEMMA AgentFinish ==
    ASSUME Filed, Staged, Settled, NEW s \in Agents, Agent(s), NEW r \in Runs, Finish(r)
    PROVE  Agent(s)'
<1>. USE DEF Runs
<1>1. s \in AllSlots /\ s \in Slots /\ FilesOf(s) = {Root[s]} \cup Siblings[s] /\ FilesOf(s) \subseteq Files
      /\ Index \notin Siblings[s]
    BY SlotsKnown, Names DEF Agents
<1>2. /\ run[r].phase = "slots" /\ \A u \in AllSlots : run[r].slot[u] \in Outcomes
      /\ run'[r] = Idle /\ \A q \in Runs : q # r => run'[q] = run[q]
      /\ disk[Index] \subseteq disk'[Index] /\ \A f \in Files \ {Index} : disk'[f] = disk[f]
      /\ up' = (IF r = "main" THEN "up" ELSE up)
      /\ UNCHANGED <<setup, chain, save, anchored, kept>>
    BY FinishFacts
<1>3. up # "down" /\ (up = "boot" => r = "main") /\ (up = "up" => r = "key")
    BY <1>2, IdleRun DEF Staged, Settled
<1>4. up' = "up"
    BY <1>2, <1>3 DEF Staged
<1>5. Holds(s)
    <2>1. CASE up = "boot"
        <3>1. run["main"].slot[s] \in {"skipped", "restored"}
            BY <1>1, <1>2, <1>3, <2>1 DEF Settled, Outcomes
        <3>. QED
            BY <2>1, <3>1 DEF Agent, Booting
    <2>2. CASE up = "up"
        BY <2>2 DEF Agent, Serving
    <2>. QED
        BY <1>3, <2>1, <2>2 DEF Staged
<1>6. Holds(s)'
    <2>1. \A f \in FilesOf(s) \ {Index} : disk'[f] = disk[f]
        BY <1>1, <1>2
    <2>2. disk'[Root[s]] = {} => disk[Root[s]] = {}
        BY <1>1, <1>2
    <2>. QED
        BY <1>1, <1>2, <1>5, <2>1, <2>2 DEF Holds, FilesOf
<1>7. run'["key"] = Idle
    BY <1>2, <1>3 DEF Staged
<1>8. run'["key"].slot[s] = "none" /\ ~IsSet("key", s)'
    BY <1>1, <1>7, IdleRun, EmptyShelf DEF IsSet, FilesOf
<1>9. save'.pc = "write" /\ save'.file \in FilesOf(s) => save'.body = disk'[save'.file]
    <2>. SUFFICES ASSUME save'.pc = "write", save'.file \in FilesOf(s) PROVE save'.body = disk'[save'.file]
        OBVIOUS
    <2>1. up = "up" /\ save.pc = "write" /\ save.file \in FilesOf(s) /\ save.file # Index
        BY <1>2, <1>3, NoSaveIs, FileNames DEF Staged, Saves
    <2>. QED
        BY <1>1, <1>2, <2>1 DEF Agent, Serving
<1>. QED
    BY <1>2, <1>4, <1>6, <1>8, <1>9 DEF Agent, Serving, Rooted, FilesOf

LEMMA AgentFlush ==
    ASSUME Filed, Staged, Settled, NoTrouble', NEW s \in Agents, Agent(s), Flush
    PROVE  Agent(s)'
<1>1. s \in AllSlots /\ s \in Slots /\ s # "profile" /\ Slots \subseteq AllSlots
      /\ FilesOf(s) = {Root[s]} \cup Siblings[s] /\ FilesOf(s) \subseteq Files /\ Index \notin Siblings[s]
    BY SlotsKnown, Names DEF Agents
<1>2. up = "up" /\ save.pc # "list"
    BY DEF Flush, NoTrouble, MidWrite
<1>3. UNCHANGED <<up, disk, run, save, kept>>
    BY DEF Flush, daemon, work
<1>. DEFINE files == UNION {FilesOf(u) : u \in {t \in Slots : Flushed(t)}}
<1>4. chain' = [f \in Files |-> IF f \in files THEN disk[f] ELSE chain[f]]
      /\ anchored' = [f \in Files |-> anchored[f] \cup chain'[f]]
    BY DEF Flush
<1>5. \A f \in FilesOf(s) : f \in files <=> Flushed(s)
    BY <1>1, Names
<1>. HIDE DEF files
<1>6. Flushed(s) <=> \E f \in FilesOf(s) : disk[f] # {}
    BY <1>1 DEF Flushed
<1>7. Serving(s) /\ Holds(s)
    BY <1>2 DEF Agent, Serving
<1>8. \A f \in FilesOf(s) : chain'[f] = IF Flushed(s) THEN disk[f] ELSE chain[f]
    BY <1>1, <1>4, <1>5
<1>9. ASSUME NEW f \in FilesOf(s), f # Index
      PROVE  chain[f] \subseteq chain'[f] /\ chain'[f] \subseteq disk[f]
    BY <1>7, <1>8, <1>9 DEF Holds
<1>10. chain'[Root[s]] # {} => disk[Root[s]] # {}
    BY <1>1, <1>7, <1>8 DEF Holds
<1>11. ASSUME NEW f \in FilesOf(s), disk[f] # {} PROVE disk[Root[s]] # {}
    BY <1>1, <1>2, <1>7, <1>11 DEF Holds
<1>12. Rooted(s)'
    <2>. SUFFICES ASSUME NEW f \in FilesOf(s), chain'[f] # {} PROVE chain'[Root[s]] # {}
        BY DEF Rooted, FilesOf
    <2>1. CASE Flushed(s)
        BY <1>1, <1>8, <1>11, <2>1
    <2>2. CASE ~Flushed(s)
        BY <1>1, <1>8, <2>2 DEF Agent, Rooted
    <2>. QED
        BY <2>1, <2>2
<1>13. Holds(s)'
    BY <1>1, <1>3, <1>7, <1>9, <1>10 DEF Holds, FilesOf
<1>14. \A f \in FilesOf(s) \ {Index} : anchored'[f] \subseteq chain'[f]
    BY <1>1, <1>4, <1>9 DEF Agent
<1>15. Serving(s)'
    BY <1>3, <1>7, <1>13 DEF Serving, IsSet, FilesOf
<1>. QED
    BY <1>2, <1>3, <1>12, <1>14, <1>15 DEF Agent, FilesOf

LEMMA AgentSaves ==
    ASSUME Filed, Staged, Settled, NEW s \in Agents, Agent(s),
           SaveWrite \/ SaveList \/ AppendActivity \/ \E f \in Topics : SaveRead(f)
    PROVE  Agent(s)'
<1>. USE DEF Runs
<1>1. s \in AllSlots \ {"profile"} /\ s \in AllSlots /\ Root[s] \in Files
      /\ FilesOf(s) = {Root[s]} \cup Siblings[s] /\ FilesOf(s) \subseteq Files /\ Index \notin Siblings[s]
      /\ Root[s] \notin Siblings[s] /\ FilesOf(s)' = FilesOf(s)
    BY SlotsKnown, Names DEF Agents, FilesOf
<1>2. run' = run /\ up' = up /\ chain' = chain /\ anchored' = anchored /\ up = "up"
    BY NoSaveIs DEF SaveWrite, SaveList, AppendActivity, SaveRead, daemon, history, Staged
<1>3. Serving(s) /\ Holds(s) /\ (IsSet("key", s)' <=> IsSet("key", s))
    BY <1>1, <1>2, SnapSame DEF Agent, Serving
<1>4. disk \in [Files -> SUBSET Marks] /\ kept \in [Files -> SUBSET Marks]
    BY ShelfIs DEF Filed
<1>5. ASSUME Holds(s)', disk[Root[s]] \subseteq disk'[Root[s]],
             save'.pc = "write" /\ save'.file \in FilesOf(s) => save'.body = disk'[save'.file]
      PROVE  Agent(s)'
    BY <1>1, <1>2, <1>3, <1>5 DEF Agent, Serving, Rooted
<1>6. CASE \E f \in Topics : SaveRead(f)
    <2>1. PICK f \in Topics : SaveRead(f)
        BY <1>6
    <2>2. disk' = disk /\ kept' = kept /\ save.pc = "none"
          /\ save' = [pc |-> "write", file |-> f, body |-> disk[f]]
        BY <2>1 DEF SaveRead, history
    <2>3. Holds(s)'
        BY <1>1, <1>2, <1>3, <2>2 DEF Holds
    <2>. QED
        BY <1>5, <2>2, <2>3
<1>7. CASE SaveWrite
    <2>1. save.pc = "write" /\ save'.pc = "list"
        BY <1>7 DEF SaveWrite, Staged, Saves
    <2>2. /\ disk' = [disk EXCEPT ![save.file] = save.body \cup {facts'}]
          /\ kept' = [kept EXCEPT ![save.file] = kept[save.file] \cup {facts'}]
        BY <1>7 DEF SaveWrite
    <2>3. save.file \in Topics /\ save.file \in Files
        BY <2>1, FileNames DEF Staged, Saves
    <2>4. CASE save.file \in FilesOf(s)
        <3>1. save.file \in Siblings[s] /\ save.body = disk[save.file]
            BY <1>1, <1>3, <2>1, <2>3, <2>4, TopicsAreSiblings DEF Serving
        <3>2. disk'[Root[s]] = disk[Root[s]]
            BY <1>1, <1>4, <2>2, <3>1
        <3>3. \A f \in FilesOf(s) \ {Index} : chain[f] \cup kept'[f] \subseteq disk'[f]
            BY <1>1, <1>3, <1>4, <2>2, <2>3, <3>1 DEF Holds
        <3>4. Holds(s)'
            BY <1>1, <1>2, <1>3, <2>1, <3>2, <3>3 DEF Holds
        <3>. QED
            BY <1>5, <2>1, <3>2, <3>4
    <2>5. CASE save.file \notin FilesOf(s)
        <3>1. \A f \in FilesOf(s) : disk'[f] = disk[f] /\ kept'[f] = kept[f]
            BY <1>1, <1>4, <2>2, <2>3, <2>5
        <3>2. Holds(s)'
            BY <1>1, <1>2, <1>3, <2>1, <3>1 DEF Holds
        <3>. QED
            BY <1>1, <1>5, <2>1, <3>1, <3>2
    <2>. QED
        BY <2>4, <2>5
<1>8. CASE SaveList
    <2>1. /\ disk' = [disk EXCEPT ![Index] = disk[Index] \cup {save.file}]
          /\ save' = NoSave /\ kept' = kept
        BY <1>8 DEF SaveList, history
    <2>2. \A f \in FilesOf(s) \ {Index} : disk'[f] = disk[f]
        BY <1>1, <1>4, <2>1
    <2>3. disk[Root[s]] \subseteq disk'[Root[s]] /\ (Root[s] = Index => disk'[Root[s]] # {})
        BY <1>1, <1>4, <2>1
    <2>4. Root[s] = Index \/ Siblings[s] = {}
        BY <1>1, OneSibling
    <2>5. Holds(s)'
        BY <1>1, <1>2, <1>3, <2>1, <2>2, <2>3, <2>4 DEF Holds
    <2>. QED
        BY <1>5, <2>1, <2>3, <2>5, NoSaveIs
<1>9. CASE AppendActivity
    <2>1. /\ disk' = [disk EXCEPT !["activity.jsonl"] = disk["activity.jsonl"] \cup {1}]
          /\ save' = save /\ kept' = kept
        BY <1>9 DEF AppendActivity, history
    <2>2. \A f \in FilesOf(s) : disk[f] \subseteq disk'[f] /\ (f # "activity.jsonl" => disk'[f] = disk[f])
        BY <1>1, <1>4, <2>1, FileNames
    <2>3. "activity.jsonl" \notin FilesOf(s) \/ s = "activity-log"
        BY <1>1, Names DEF AllSlots
    <2>4. "activity.jsonl" \notin Siblings[s]
        BY <1>1, <2>3, Names
    <2>5. "activity.jsonl" \notin Topics
        BY DEF Topics
    <2>6. Holds(s)'
        BY <1>1, <1>2, <1>3, <2>1, <2>2, <2>4 DEF Holds
    <2>7. save'.pc = "write" /\ save'.file \in FilesOf(s) => save'.body = disk'[save'.file]
        BY <1>3, <2>1, <2>2, <2>5 DEF Serving, Staged, Saves
    <2>. QED
        BY <1>1, <1>5, <2>2, <2>6, <2>7
<1>. QED
    BY <1>6, <1>7, <1>8, <1>9

LEMMA AgentCrash ==
    ASSUME Filed, Staged, Settled, NoTrouble', NEW s \in Agents, Agent(s), Crash
    PROVE  Agent(s)'
<1>. USE DEF Runs
<1>1. s \in AllSlots /\ s \in Slots /\ Slots \subseteq AllSlots /\ Index \notin Siblings[s]
      /\ FilesOf(s) = {Root[s]} \cup Siblings[s] /\ FilesOf(s) \subseteq Files /\ FilesOf(s)' = FilesOf(s)
    BY SlotsKnown, Names DEF Agents, FilesOf
<1>2. up' = "down" /\ chain' = chain /\ anchored' = anchored /\ up # "down"
    BY DEF Crash
<1>3. CASE disk' = Empty /\ kept' = Empty
    <2>1. Absent(s)'
        BY <1>1, <1>3, EmptyShelf DEF Absent
    <2>. QED
        BY <1>1, <1>2, <2>1 DEF Agent, Rooted
<1>4. CASE disk' = disk /\ kept' = kept /\ torn' = (torn \/ MidWrite)
    <2>1. save.pc # "list" /\ run["main"].slot[s] \notin {"root", "siblings"}
        BY <1>1, <1>4 DEF NoTrouble, MidWrite
    <2>2. Present(s) \/ Absent(s)
        <3>1. CASE up = "boot"
            <4>1. run["main"].slot[s] \in {"none", "todo", "download", "skipped", "restored"}
                BY <1>1, <2>1 DEF Staged, Run, RunStates, Steps, Settled, Agents
            <4>. QED
                BY <3>1, <4>1 DEF Agent, Booting
        <3>2. CASE up = "up"
            <4>1. Holds(s)
                BY <3>2 DEF Agent, Serving
            <4>2. CASE disk[Root[s]] # {}
                BY <4>1, <4>2 DEF Holds, Present
            <4>3. CASE disk[Root[s]] = {}
                <5>1. \A f \in FilesOf(s) : disk[f] = {}
                    BY <1>1, <2>1, <4>1, <4>3 DEF Holds
                <5>2. \A f \in FilesOf(s) : kept[f] = {}
                    BY <4>1, <5>1 DEF Holds, Filed
                <5>. QED
                    BY <5>1, <5>2 DEF Absent
            <4>. QED
                BY <4>2, <4>3
        <3>. QED
            BY <1>2, <3>1, <3>2 DEF Staged
    <2>3. Present(s)' \/ Absent(s)'
        BY <1>1, <1>2, <1>4, <2>2 DEF Present, Absent
    <2>. QED
        BY <1>1, <1>2, <2>3 DEF Agent, Rooted
<1>. QED
    BY <1>3, <1>4 DEF Crash

LEMMA AgentStep ==
    ASSUME Filed, Staged, Settled, NoTrouble', [Next]_vars, NEW s \in Agents, Agent(s)
    PROVE  Agent(s)'
<1>. USE DEF Runs
<1>1. s \in AllSlots /\ s \in Slots
    BY SlotsKnown DEF Agents
<1>2. CASE Boot
    <2>1. PICK key \in BOOLEAN : run' = [run EXCEPT !["main"] = Started(key)]
        BY <1>2 DEF Boot
    <2>2. run'["main"] = Started(key)
        BY <2>1, StartedRun, RunPut DEF Staged
    <2>3. run'["main"].slot[s] = "none"
        BY <1>1, <2>2, StartedRun, IdleRun
    <2>4. up = "down" /\ up' = "boot" /\ UNCHANGED <<disk, chain, kept, anchored>>
        BY <1>2 DEF Boot, history
    <2>5. Present(s)' \/ Absent(s)'
        BY <2>4 DEF Agent, Present, Absent, FilesOf
    <2>. QED
        BY <2>3, <2>4, <2>5 DEF Agent, Booting, Rooted, FilesOf
<1>3. CASE Turn
    <2>1. UNCHANGED <<run, up, disk, chain, anchored, kept, save>>
        BY <1>3 DEF Turn, Settled, daemon, history
    <2>2. IsSet("key", s)' <=> IsSet("key", s)
        BY <1>1, <2>1, SnapSame
    <2>. QED
        BY <1>1, <2>1, <2>2, AgentFrame DEF Agent, Serving
<1>4. CASE SetProfileKey
    <2>1. run'["key"] = Started(TRUE) /\ up = "up" /\ UNCHANGED <<up, disk, chain, anchored, kept, save>>
        BY <1>4, StartedRun, RunPut DEF SetProfileKey, work, history, Staged
    <2>2. FilesOf(s) \subseteq Files
        BY <1>1, Names
    <2>3. run'["key"].slot[s] = "none" /\ ~IsSet("key", s)'
        BY <1>1, <2>1, <2>2, StartedRun, IdleRun, EmptyShelf DEF IsSet, FilesOf
    <2>. QED
        BY <1>1, <2>1, <2>3, AgentFrame DEF Agent, Serving
<1>5. ASSUME NEW r \in Runs, FetchSlots(r) \/ FetchFails(r) PROVE Agent(s)'
    BY <1>5, TroubleStays, AgentFetch
<1>6. CASE UNCHANGED vars
    <2>1. UNCHANGED <<run, up, disk, chain, anchored, kept, save>>
        BY <1>6 DEF vars
    <2>2. IsSet("key", s)' <=> IsSet("key", s)
        BY <1>1, <2>1, SnapSame
    <2>. QED
        BY <1>1, <2>1, <2>2, AgentFrame DEF Agent, Serving
<1>. QED
    BY <1>2, <1>3, <1>4, <1>5, <1>6, AgentSlot, AgentFinish, AgentFlush, AgentSaves, AgentCrash, RestoreCases
-----------------------------------------------------------------------------
(* The profile's slot.                                                     *)

LEMMA ProfileFilesAre ==
    /\ P \in AllSlots /\ FilesOf(P) = {Root[P]} \cup Siblings[P] /\ FilesOf(P) \subseteq Files
    /\ Root[P] \notin Siblings[P] /\ Siblings[P] # {} /\ Index \notin FilesOf(P)
    /\ "activity.jsonl" \notin FilesOf(P)
<1>1. P \in AllSlots /\ P # "activity-log" /\ Siblings[P] # {} /\ "activity-log" \in AllSlots
    BY DEF P, AllSlots, Siblings
<1>2. "activity.jsonl" \in FilesOf("activity-log")
    BY <1>1, Names
<1>. QED
    BY <1>1, <1>2, Names DEF P

LEMMA KeylessStays ==
    ASSUME Staged, [Next]_vars, keyless
    PROVE  keyless'
<1>1. CASE Boot
    BY <1>1 DEF Boot, history
<1>2. CASE Turn
    BY <1>2 DEF Turn, history
<1>3. CASE AppendActivity \/ SaveList
    BY <1>3 DEF AppendActivity, SaveList, history
<1>4. CASE SaveWrite \/ Flush \/ Crash
    BY <1>4 DEF SaveWrite, Flush, Crash
<1>5. CASE SetProfileKey
    BY <1>5 DEF SetProfileKey, history
<1>6. CASE \E f \in Topics : SaveRead(f)
    BY <1>6 DEF SaveRead, history
<1>7. ASSUME NEW r \in Runs, FetchSlots(r) \/ FetchFails(r) \/ Finish(r) PROVE keyless'
    BY <1>7 DEF FetchSlots, FetchFails, Finish, Restoring, history
<1>8. ASSUME NEW r \in Runs, NEW s \in Slots, SlotStep(r, s) PROVE keyless'
    BY <1>8 DEF SlotStep, Check, Downloaded, DownloadFails, WriteEnvelope, WriteRoot, WriteSiblings,
                Restoring, history
<1>9. CASE UNCHANGED vars
    BY <1>9 DEF vars
<1>. QED
    BY <1>1, <1>2, <1>3, <1>4, <1>5, <1>6, <1>7, <1>8, <1>9, RestoreCases

LEMMA OnDiskSame ==
    ASSUME \A f \in FilesOf(P) : disk'[f] = disk[f] /\ chain'[f] = chain[f]
    PROVE  /\ OnDisk => OnDisk'
           /\ disk'[Root[P]] = disk[Root[P]] /\ chain'[Root[P]] = chain[Root[P]]
<1>1. Root[P] \in FilesOf(P)
    BY ProfileFilesAre
<1>. QED
    BY <1>1 DEF OnDisk, FilesOf

\* The slot's own steps, which are the boot's.
LEMMA ProfileSlot ==
    ASSUME Filed, Staged, Settled, P \in Slots, Profile, up = "boot", SlotStep("main", P), ~DownloadFails("main", P)
    PROVE  KeyedBoot(run["main"].slot[P])'
<1>. USE DEF Runs
<1>1. /\ run["main"].phase = "slots" /\ run["main"].snap = chain /\ chain' = chain /\ profileKey' = profileKey
      /\ run["main"].key = profileKey
    BY SlotStepFacts DEF Settled, Staged
<1>2. KeyedBoot(run["main"].slot[P]) /\ disk \in [Files -> SUBSET Marks]
    BY ShelfIs DEF Profile, Filed
<1>3. CASE Check("main", P)
    <2>1. /\ run["main"].slot[P] = "todo" /\ disk' = disk
          /\ run'["main"].slot[P] = (IF Wanted("main", P) THEN "download" ELSE "skipped")
        BY <1>3, SlotMoves
    <2>2. disk[Root[P]] # {} => OnDisk
        BY <1>2, <2>1 DEF KeyedBoot
    <2>3. OnDisk' <=> OnDisk
        BY <1>1, <2>1 DEF OnDisk, FilesOf
    <2>4. CASE Wanted("main", P)
        <3>1. disk[Root[P]] = {}
            BY <2>4 DEF Wanted
        <3>. QED
            BY <2>1, <2>4, <3>1 DEF KeyedBoot
    <2>5. CASE ~Wanted("main", P)
        <3>1. IsSet("main", P) \/ OnDisk
            BY <1>1 DEF IsSet, OnDisk
        <3>2. profileKey => OnDisk
            BY <1>1, <2>2, <2>5, <3>1 DEF Wanted
        <3>. QED
            BY <1>1, <2>1, <2>2, <2>3, <2>5, <3>2 DEF KeyedBoot
    <2>. QED
        BY <2>4, <2>5
<1>4. CASE Downloaded("main", P)
    <2>1. run["main"].slot[P] = "download" /\ disk' = disk /\ run'["main"].slot[P] = "envelope"
        BY <1>4, SlotMoves DEF P
    <2>. QED
        BY <1>2, <2>1 DEF KeyedBoot
<1>5. CASE WriteEnvelope("main", P)
    <2>. DEFINE c == UNION {chain[f] : f \in FilesOf(P)}
    <2>1. run'["main"].slot[P] = "root" /\ disk' = [disk EXCEPT ![Root[P]] = c]
        BY <1>1, <1>5, SlotMoves DEF WriteEnvelope
    <2>2. chain[Root[P]] \subseteq c
        BY ProfileFilesAre
    <2>. HIDE DEF c
    <2>3. disk'[Root[P]] = c
        BY <1>2, <2>1, ProfileFilesAre
    <2>. QED
        BY <1>1, <2>1, <2>2, <2>3 DEF KeyedBoot
<1>6. CASE WriteRoot("main", P)
    <2>1. run'["main"].slot[P] = "siblings"
        BY <1>6, SlotMoves, ProfileFilesAre
    <2>2. disk' = IF chain[Root[P]] = {} THEN disk ELSE [disk EXCEPT ![Root[P]] = chain[Root[P]]]
        BY <1>1, <1>6 DEF WriteRoot
    <2>3. chain[Root[P]] \subseteq disk'[Root[P]]
        BY <1>2, <2>2, ProfileFilesAre
    <2>. QED
        BY <1>1, <2>1, <2>3 DEF KeyedBoot
<1>7. CASE WriteSiblings("main", P)
    <2>1. run["main"].slot[P] = "siblings" /\ run'["main"].slot[P] = "restored"
        BY <1>7, SlotMoves
    <2>2. disk' = [f \in Files |-> IF f \in Siblings[P] /\ chain[f] # {} THEN chain[f] ELSE disk[f]]
        BY <1>1, <1>7 DEF WriteSiblings
    <2>3. chain[Root[P]] \subseteq disk[Root[P]]
        BY <1>2, <2>1 DEF KeyedBoot
    <2>4. \A f \in FilesOf(P) : chain[f] \subseteq disk'[f]
        BY <2>2, <2>3, ProfileFilesAre
    <2>5. OnDisk'
        BY <1>1, <2>4 DEF OnDisk, FilesOf
    <2>. QED
        BY <2>1, <2>5 DEF KeyedBoot
<1>. QED
    BY <1>3, <1>4, <1>5, <1>6, <1>7 DEF SlotStep

LEMMA ProfileFlush ==
    ASSUME Filed, Staged, P \in Slots, Profile, Flush
    PROVE  Profile'
<1>1. up = "up" /\ OnDisk /\ profileKey /\ Slots \subseteq AllSlots
    BY SlotsKnown DEF Flush, Profile
<1>2. UNCHANGED <<up, disk, run, save, profileKey>>
    BY DEF Flush, daemon, work
<1>. DEFINE files == UNION {FilesOf(u) : u \in {t \in Slots : Flushed(t)}}
<1>3. chain' = [f \in Files |-> IF f \in files THEN disk[f] ELSE chain[f]]
      /\ anchored' = [f \in Files |-> anchored[f] \cup chain'[f]]
    BY DEF Flush
<1>4. \A f \in FilesOf(P) : f \in files <=> Flushed(P)
    BY <1>1, Names, ProfileFilesAre
<1>. HIDE DEF files
<1>5. \A f \in FilesOf(P) : chain'[f] = IF Flushed(P) THEN disk[f] ELSE chain[f]
    BY <1>3, <1>4, ProfileFilesAre
<1>6. ASSUME NEW f \in FilesOf(P)
      PROVE  chain'[f] \subseteq disk[f] /\ anchored'[f] \subseteq chain'[f]
    <2>1. chain[f] \subseteq disk[f] /\ anchored[f] \subseteq chain[f]
        BY <1>1 DEF OnDisk, Profile
    <2>2. anchored'[f] = anchored[f] \cup chain'[f]
        BY <1>3, ProfileFilesAre
    <2>. QED
        BY <1>5, <2>1, <2>2
<1>7. OnDisk' /\ \A f \in FilesOf(P)' : anchored'[f] \subseteq chain'[f]
    BY <1>2, <1>6 DEF OnDisk, FilesOf
<1>. QED
    BY <1>1, <1>2, <1>7 DEF Profile, FilesOf

LEMMA ProfileSaves ==
    ASSUME Filed, Staged, P \in Slots, Profile,
           SaveWrite \/ SaveList \/ AppendActivity \/ \E f \in Topics : SaveRead(f)
    PROVE  Profile'
<1>1. /\ up = "up" /\ up' = up /\ run' = run /\ chain' = chain /\ anchored' = anchored /\ profileKey' = profileKey
      /\ FilesOf(P)' = FilesOf(P)
    BY NoSaveIs DEF SaveWrite, SaveList, AppendActivity, SaveRead, daemon, history, Staged, FilesOf
<1>2. disk \in [Files -> SUBSET Marks] /\ FilesOf(P) \subseteq Files
    BY ShelfIs, ProfileFilesAre DEF Filed
<1>3. ASSUME \A f \in FilesOf(P) : disk[f] \subseteq disk'[f],
             save'.pc = "write" /\ save'.file \in FilesOf(P) => save'.body = disk'[save'.file]
      PROVE  Profile'
    BY <1>1, <1>3 DEF Profile, OnDisk
<1>4. CASE \E f \in Topics : SaveRead(f)
    <2>1. PICK f \in Topics : SaveRead(f)
        BY <1>4
    <2>2. disk' = disk /\ save' = [pc |-> "write", file |-> f, body |-> disk[f]]
        BY <2>1 DEF SaveRead
    <2>. QED
        BY <1>3, <2>2
<1>5. CASE SaveWrite
    <2>1. save.pc = "write" /\ save'.pc = "list"
        BY <1>5 DEF SaveWrite, Staged, Saves
    <2>2. disk' = [disk EXCEPT ![save.file] = save.body \cup {facts'}]
        BY <1>5 DEF SaveWrite
    <2>3. save.file \in FilesOf(P) => save.body = disk[save.file]
        BY <1>1, <2>1 DEF Profile
    <2>4. \A f \in FilesOf(P) : disk[f] \subseteq disk'[f]
        BY <1>2, <2>2, <2>3
    <2>. QED
        BY <1>3, <2>1, <2>4
<1>6. CASE SaveList
    <2>1. disk' = [disk EXCEPT ![Index] = disk[Index] \cup {save.file}] /\ save' = NoSave
        BY <1>6 DEF SaveList
    <2>. QED
        BY <1>2, <1>3, <2>1, NoSaveIs
<1>7. CASE AppendActivity
    <2>1. disk' = [disk EXCEPT !["activity.jsonl"] = disk["activity.jsonl"] \cup {1}] /\ save' = save
        BY <1>7 DEF AppendActivity
    <2>2. \A f \in FilesOf(P) : disk'[f] = disk[f]
        BY <1>2, <2>1, ProfileFilesAre
    <2>. QED
        BY <1>1, <1>3, <2>1, <2>2 DEF Profile
<1>. QED
    BY <1>4, <1>5, <1>6, <1>7

LEMMA ProfileCrash ==
    ASSUME Filed, Staged, Settled, NoTrouble', P \in Slots, Profile, Crash
    PROVE  Profile'
<1>. USE DEF Runs
<1>1. /\ up' = "down" /\ chain' = chain /\ anchored' = anchored /\ up # "down"
      /\ FilesOf(P)' = FilesOf(P) /\ Root[P] \in FilesOf(P) /\ FilesOf(P) \subseteq Files
    BY ProfileFilesAre DEF Crash, FilesOf
<1>2. CASE disk' = Empty
    BY <1>1, <1>2, EmptyShelf DEF Profile
<1>3. CASE disk' = disk /\ torn' = (torn \/ MidWrite)
    <2>1. run["main"].slot[P] \notin {"root", "siblings"}
        BY <1>3 DEF NoTrouble, MidWrite
    <2>2. disk[Root[P]] # {} => OnDisk
        <3>1. CASE up = "boot"
            <4>1. run["main"].slot[P] \in {"none", "todo", "download", "envelope", "skipped", "restored"}
                BY <2>1, ProfileFilesAre DEF Staged, RunStates, Steps, Settled
            <4>. QED
                BY <3>1, <4>1 DEF Profile, KeyedBoot
        <3>2. CASE up = "up"
            BY <3>2 DEF Profile
        <3>. QED
            BY <1>1, <3>1, <3>2 DEF Staged
    <2>3. OnDisk => OnDisk'
        BY <1>1, <1>3 DEF OnDisk
    <2>. QED
        BY <1>1, <1>3, <2>2, <2>3 DEF Profile
<1>. QED
    BY <1>2, <1>3 DEF Crash

LEMMA ProfileStep ==
    ASSUME Filed, Staged, Settled, NoTrouble', [Next]_vars, P \in Slots, ~keyless', Profile
    PROVE  Profile'
<1>. USE DEF Runs
<1>1. /\ P \in AllSlots /\ Root[P] \in FilesOf(P) /\ FilesOf(P) \subseteq Files /\ FilesOf(P)' = FilesOf(P)
      /\ Index \notin FilesOf(P)
    BY ProfileFilesAre DEF FilesOf
<1>2. CASE Boot
    <2>1. PICK key \in BOOLEAN : run' = [run EXCEPT !["main"] = Started(key)]
        BY <1>2 DEF Boot
    <2>2. run'["main"] = Started(key)
        BY <2>1, StartedRun, RunPut DEF Staged
    <2>3. run'["main"].slot[P] = "none"
        BY <1>1, <2>2, StartedRun, IdleRun
    <2>4. up = "down" /\ up' = "boot" /\ UNCHANGED <<disk, chain, anchored>>
        BY <1>2 DEF Boot, history
    <2>5. OnDisk => OnDisk'
        BY <1>1, <2>4 DEF OnDisk
    <2>. QED
        BY <1>1, <2>3, <2>4, <2>5 DEF Profile, KeyedBoot
<1>3. CASE Turn
    <2>1. UNCHANGED <<run, up, disk, chain, anchored, save, profileKey>>
        BY <1>3 DEF Turn, Settled, daemon, history
    <2>. QED
        BY <1>1, <2>1 DEF Profile, OnDisk, KeyedBoot
<1>4. ~SetProfileKey
    BY DEF SetProfileKey, Profile
<1>5. ASSUME NEW r \in Runs, FetchSlots(r) \/ FetchFails(r) PROVE Profile'
    <2>1. FetchSlots(r)
        BY <1>5, TroubleStays
    <2>2. /\ run[r].phase = "fetch" /\ run'[r].slot[P] = "todo"
          /\ UNCHANGED <<disk, chain, up, anchored>>
        BY <1>1, <1>5, <2>1, FetchFacts
    <2>3. up = "boot" /\ r = "main"
        BY <2>2, IdleRun DEF Staged, Settled, Profile
    <2>4. run["main"].slot[P] = "none"
        BY <1>1, <2>2, <2>3, IdleRun DEF Staged, Run
    <2>5. disk[Root[P]] # {} => OnDisk
        BY <2>3, <2>4 DEF Profile, KeyedBoot
    <2>6. OnDisk => OnDisk'
        BY <1>1, <2>2 DEF OnDisk
    <2>. QED
        BY <1>1, <2>2, <2>3, <2>5, <2>6 DEF Profile, KeyedBoot
<1>6. ASSUME NEW r \in Runs, Finish(r) PROVE Profile'
    <2>1. /\ run[r].phase = "slots" /\ \A u \in AllSlots : run[r].slot[u] \in Outcomes
          /\ run'[r] = Idle /\ \A q \in Runs : q # r => run'[q] = run[q]
          /\ \A f \in Files \ {Index} : disk'[f] = disk[f]
          /\ up' = (IF r = "main" THEN "up" ELSE up) /\ keyless' = (keyless \/ ~profileKey)
          /\ UNCHANGED <<chain, profileKey, save, anchored>>
        BY <1>6, FinishFacts
    <2>2. up = "boot" /\ r = "main" /\ profileKey
        BY <2>1, IdleRun DEF Staged, Settled, Profile
    <2>3. run["main"].slot[P] \in {"skipped", "restored"}
        BY <1>1, <2>1, <2>2 DEF Settled, Outcomes
    <2>4. OnDisk
        BY <2>2, <2>3 DEF Profile, KeyedBoot
    <2>5. OnDisk' /\ run'["key"] = Idle /\ save'.pc = "none"
        BY <1>1, <2>1, <2>2, <2>4, NoSaveIs DEF OnDisk, Staged
    <2>. QED
        BY <1>1, <2>1, <2>2, <2>5 DEF Profile
<1>7. ASSUME NEW r \in Runs, NEW t \in Slots, SlotStep(r, t) PROVE Profile'
    <2>1. /\ run[r].phase = "slots" /\ UNCHANGED <<chain, up, anchored, profileKey>>
          /\ \A u \in AllSlots : u # t => run'[r].slot[u] = run[r].slot[u]
          /\ \A f \in Files \ FilesOf(t) : disk'[f] = disk[f]
        BY <1>7, SlotStepFacts
    <2>2. up = "boot" /\ r = "main" /\ ~DownloadFails(r, t) /\ t \in AllSlots
        BY <2>1, IdleRun, TroubleStays, SlotsKnown DEF Staged, Settled, Profile
    <2>3. CASE t = P
        BY <1>1, <1>7, <2>1, <2>2, <2>3, ProfileSlot DEF Profile
    <2>4. CASE t # P
        <3>1. \A f \in FilesOf(P) : disk'[f] = disk[f] /\ chain'[f] = chain[f]
            BY <1>1, <2>1, <2>2, <2>4, Names
        <3>2. run'["main"].slot[P] = run["main"].slot[P]
            BY <1>1, <2>1, <2>2, <2>4
        <3>3. KeyedBoot(run["main"].slot[P])'
            BY <2>1, <2>2, <3>1, <3>2, OnDiskSame DEF Profile, KeyedBoot
        <3>. QED
            BY <1>1, <2>1, <2>2, <3>3 DEF Profile
    <2>. QED
        BY <2>3, <2>4
<1>8. CASE UNCHANGED vars
    <2>1. UNCHANGED <<run, up, disk, chain, anchored, save, profileKey>>
        BY <1>8 DEF vars
    <2>. QED
        BY <1>1, <2>1 DEF Profile, OnDisk, KeyedBoot
<1>. QED
    BY <1>2, <1>3, <1>4, <1>5, <1>6, <1>7, <1>8, ProfileFlush, ProfileSaves, ProfileCrash, RestoreCases
-----------------------------------------------------------------------------
LEMMA RestoreInvInit == Init => RestoreInv
<1>. SUFFICES ASSUME Init PROVE RestoreInv
    OBVIOUS
<1>. USE DEF Runs
<1>1. Seeded \in Shelf
    <2>1. {0} \in SUBSET Nat
        OBVIOUS
    <2>2. Followed \cap (Topics \cup Synthetic) \in SUBSET Files
        BY FileNames
    <2>3. \A f \in Files : Seeded[f] = IF f \notin Followed THEN {}
                           ELSE IF f = Index THEN Followed \cap (Topics \cup Synthetic) ELSE {0}
        BY DEF Seeded
    <2>4. \A f \in Files : Seeded[f] \in Contents(f)
        BY <2>1, <2>2, <2>3, ContentFacts
    <2>5. Seeded \in [Files -> SUBSET Marks]
        <3>1. Seeded = [f \in Files |-> Seeded[f]]
            BY DEF Seeded
        <3>. QED
            BY <2>4, <3>1, ContentFacts
    <2>. QED
        BY <2>4, <2>5, ShelfOf
<1>2. chain \in Shelf /\ chain \in [Files -> SUBSET Marks]
    BY <1>1, EmptyShelf, ShelfIs DEF Init
<1>3. Filed
    BY <1>2, EmptyShelf, ShelfIs, FileNames DEF Init, Filed
<1>4. run \in [Runs -> RunStates] /\ run["main"] = Idle /\ run["key"] = Idle /\ save = NoSave
    BY IdleRun DEF Init
<1>5. Staged
    BY <1>4, IdleRun, NoSaveIs DEF Init, Staged, Saves, Run
<1>6. Settled
    BY <1>4, IdleRun DEF Init, Settled
<1>7. \A f \in Files : chain[f] \in Contents(f) /\ anchored = chain /\ disk[f] = {} /\ kept[f] = {}
    BY <1>2, EmptyShelf, ShelfIs DEF Init
<1>8. ASSUME NEW s \in Agents PROVE Agent(s)
    <2>1. s \in AllSlots /\ s \in Slots /\ FilesOf(s) \subseteq Files /\ Root[s] \in FilesOf(s) /\ Root[s] \in Files
        BY <1>3, SlotsKnown, Names DEF Agents
    <2>2. Absent(s)
        BY <1>7, <2>1 DEF Absent
    <2>3. Rooted(s)
        <3>1. CASE chain = Empty
            BY <2>1, <3>1, EmptyShelf DEF Rooted
        <3>2. CASE chain = Seeded
            <4>1. FilesOf(s) \subseteq Followed /\ Root[s] \in Followed
                BY <2>1 DEF Followed
            <4>2. Root[s] # Index => Seeded[Root[s]] = {0}
                BY <2>1, <4>1 DEF Seeded
            <4>3. Root[s] = Index => Seeded[Root[s]] # {}
                <5>. SUFFICES ASSUME Root[s] = Index PROVE Seeded[Root[s]] # {}
                    OBVIOUS
                <5>1. s = "memory-index" /\ Siblings[s] = {"agent/note.md"}
                    BY <2>1 DEF Root, Siblings, AllSlots, Index
                <5>2. "agent/note.md" \in Followed
                    BY <2>1, <4>1, <5>1, Names
                <5>3. "agent/note.md" \in Followed \cap (Topics \cup Synthetic)
                    BY <5>2 DEF Topics
                <5>4. Seeded[Root[s]] = Followed \cap (Topics \cup Synthetic)
                    BY <2>1, <4>1 DEF Seeded
                <5>. QED
                    BY <5>3, <5>4
            <4>. QED
                BY <3>2, <4>2, <4>3 DEF Rooted
        <3>. QED
            BY <3>1, <3>2 DEF Init
    <2>4. \A f \in FilesOf(s) \ {Index} : anchored[f] \subseteq chain[f]
        BY <1>7, <2>1
    <2>. QED
        BY <2>2, <2>3, <2>4 DEF Agent, Init
<1>9. Profile
    BY <1>7, ProfileFilesAre DEF Init, Profile
<1>. QED
    BY <1>3, <1>5, <1>6, <1>8, <1>9 DEF RestoreInv

LEMMA RestoreInvStep == RestoreInv /\ [Next]_vars => RestoreInv'
<1>. SUFFICES ASSUME RestoreInv, [Next]_vars PROVE RestoreInv'
    OBVIOUS
<1>1. Filed /\ Staged /\ Filed' /\ Staged' /\ Slots \subseteq AllSlots
    BY FiledStep, StagedStep, SlotsKnown DEF RestoreInv
<1>2. setup' = setup
    <2>1. CASE Boot \/ SetProfileKey \/ \E f \in Topics : SaveRead(f)
        BY <2>1 DEF Boot, SetProfileKey, SaveRead
    <2>2. CASE Turn
        BY <2>2 DEF Turn
    <2>3. CASE AppendActivity \/ SaveWrite \/ SaveList
        BY <2>3 DEF AppendActivity, SaveWrite, SaveList
    <2>4. CASE Flush
        BY <2>4 DEF Flush
    <2>5. CASE Crash
        BY <2>5 DEF Crash
    <2>6. CASE UNCHANGED vars
        BY <2>6 DEF vars
    <2>. QED
        BY <1>1, <2>1, <2>2, <2>3, <2>4, <2>5, <2>6, FetchFacts, FinishFacts, SlotStepFacts, RestoreCases
<1>3. Slots' = Slots /\ Agents' = Agents
    BY <1>2 DEF Slots, Agents
<1>4. ASSUME NoTrouble' PROVE Settled' /\ \A s \in Agents' : Agent(s)'
    <2>1. NoTrouble /\ Settled /\ \A s \in Agents : Agent(s)
        BY <1>1, <1>4, TroubleStays DEF RestoreInv
    <2>. QED
        BY <1>1, <1>3, <1>4, <2>1, SettledStep, AgentStep
<1>5. ASSUME NoTrouble', P \in Slots', ~keyless' PROVE Profile'
    <2>1. NoTrouble /\ P \in Slots /\ ~keyless
        BY <1>1, <1>3, <1>5, TroubleStays, KeylessStays
    <2>. QED
        BY <1>1, <1>5, <2>1, ProfileStep DEF RestoreInv
<1>. QED
    BY <1>1, <1>4, <1>5 DEF RestoreInv

LEMMA RestoreInvCorrect == Spec => []RestoreInv
BY RestoreInvInit, RestoreInvStep, PTL DEF Spec

\* The disk, the chain, the restores and memory.save are well typed, and nothing
\* is at work but the boot restore before the daemon is up.
THEOREM TypeCorrect == Spec => []TypeOK
<1>1. ASSUME RestoreInv PROVE TypeOK
    <2>1. Filed /\ Staged
        BY <1>1 DEF RestoreInv
    <2>2. \A f \in Files : disk[f] \in Contents(f) /\ chain[f] \in Contents(f)
        BY <2>1, ShelfIs DEF Filed
    <2>3. ASSUME NEW r \in Runs
          PROVE  /\ run[r].phase \in {"idle", "fetch", "slots"}
                 /\ run[r].phase # "slots" => run[r].slot = Idle.slot
                 /\ \A s \in AllSlots : run[r].slot[s] \in Steps
        BY <2>1 DEF Staged, RunStates, Run
    <2>4. up = "down" => run = [r \in Runs |-> Idle] /\ save = NoSave /\ turn = "none"
        BY <2>1 DEF Staged, Runs
    <2>5. save.pc \in {"none", "write", "list"}
        BY <2>1 DEF Staged, Saves
    <2>. QED
        BY <2>1, <2>2, <2>3, <2>4, <2>5 DEF Staged, TypeOK
<1>. QED
    BY <1>1, RestoreInvCorrect, PTL

LEMMA AgentFileHasSlot ==
    ASSUME NEW f \in AgentFiles
    PROVE  \E s \in Agents : f \in FilesOf(s) /\ f # Index
<1>1. f \in UNION {FilesOf(s) : s \in Slots \ {"profile"}} /\ f # Index
    BY DEF AgentFiles
<1>2. PICK F \in {FilesOf(s) : s \in Slots \ {"profile"}} : f \in F
    BY <1>1, Zenon
<1>3. PICK s \in Slots \ {"profile"} : F = FilesOf(s)
    BY <1>2, Zenon
<1>. QED
    BY <1>1, <1>2, <1>3, Zenon DEF Agents, P

\* Without a failed download or chain read and without a torn write, a restore
\* never takes away what was saved to this disk and not yet flushed, in the
\* agent's slots.  (the conflict rule of restoreMemoryFromChain)
THEOREM LocalWinsCorrect == Spec => []LocalWins
<1>1. ASSUME RestoreInv, NoTrouble, NEW f \in AgentFiles PROVE kept[f] \subseteq disk[f]
    <2>1. PICK s \in Agents : f \in FilesOf(s) /\ f # Index
        BY AgentFileHasSlot
    <2>2. Agent(s) /\ Filed /\ Staged /\ Settled /\ s \in AllSlots /\ s # "profile"
        BY <1>1, SlotsKnown DEF RestoreInv
    <2>3. Present(s) \/ Absent(s) \/ Holds(s) => kept[f] \subseteq disk[f]
        BY <2>1 DEF Present, Absent, Holds
    <2>4. CASE up = "boot"
        <3>1. run["main"].slot[s] \in Steps \ {"envelope", "failed"}
            BY <2>2 DEF Staged, Run, RunStates, Settled, Runs
        <3>2. Booting(s, run["main"].slot[s])
            BY <2>2, <2>4 DEF Agent
        <3>. QED
            BY <2>1, <2>3, <3>1, <3>2 DEF Steps, Booting
    <2>. QED
        BY <2>2, <2>3, <2>4 DEF Agent, Serving, Staged
<1>2. RestoreInv => LocalWins
    BY <1>1 DEF LocalWins
<1>. QED
    BY <1>2, RestoreInvCorrect, PTL

\* Under the same proviso, and for the profile if its key was at hand at every
\* boot, a fact that was anchored stays anchored, whatever crashes,
\* reprovisions, turns, saves and flushes follow each other.
THEOREM SurvivesCorrect == Spec => []AnchoredSurvives
<1>1. ASSUME RestoreInv, NoTrouble, NEW f \in AgentFiles PROVE anchored[f] \subseteq chain[f]
    <2>1. PICK s \in Agents : f \in FilesOf(s) /\ f # Index
        BY AgentFileHasSlot
    <2>. QED
        BY <1>1, <2>1 DEF RestoreInv, Agent
<1>2. ASSUME RestoreInv, NoTrouble, ~keyless, NEW f \in ProfileFiles PROVE anchored[f] \subseteq chain[f]
    <2>1. P \in Slots /\ f \in FilesOf(P)
        BY DEF ProfileFiles, P
    <2>. QED
        BY <1>2, <2>1 DEF RestoreInv, Profile
<1>3. RestoreInv => AnchoredSurvives
    BY <1>1, <1>2 DEF AnchoredSurvives
<1>. QED
    BY <1>3, RestoreInvCorrect, PTL
-----------------------------------------------------------------------------
(* The identity is not forgotten.  Its file has no writer but the restore: *)
(* on the disk and in every snapshot it is missing or what the chain has.  *)

I  == "identity"
Id == "identity.md"

Copied(content) == content \in {{}, chain[Id]}
Sourced == Copied(disk[Id]) /\ \A r \in Runs : Copied(run[r].snap[Id])

\* A restore that read the slots has seen the identity, and has it where it says so.
Seen(r) == run[r].phase = "slots" =>
    /\ run[r].snap[Id] = chain[Id] /\ run[r].slot[I] # "none"
    /\ run[r].slot[I] \in {"skipped", "siblings", "restored"} => disk[Id] = chain[Id]

Remembered == up = "up" => disk[Id] = chain[Id] \/ pendingRestoreFailed

IdentityInv == I \in Slots => Sourced /\ (blips = 0 => Remembered /\ \A r \in Runs : Seen(r))

LEMMA IdentityNames ==
    /\ I \in AllSlots /\ I # "profile" /\ Root[I] = Id /\ Siblings[I] = {} /\ FilesOf(I) = {Id}
    /\ Id \in Files /\ Id # Index /\ Id \notin Topics /\ Id # "activity.jsonl"
    /\ \A s \in AllSlots : s # I => Id \notin FilesOf(s)
<1>1. I \in AllSlots /\ I # "profile" /\ Root[I] = Id /\ Siblings[I] = {} /\ Id # Index
      /\ Id # "activity.jsonl"
    BY DEF I, Id, AllSlots, Root, Siblings, Index
<1>2. FilesOf(I) = {Id}
    BY <1>1, Names
<1>3. Id \notin Topics
    BY DEF Topics, Id
<1>. QED
    BY <1>1, <1>2, <1>3, Names

\* The instance is fixed, and what could not be read stays counted.
LEMMA BlipsStay ==
    ASSUME Filed, Staged, [Next]_vars
    PROVE  setup' = setup /\ (blips' = 0 => blips = 0)
<1>1. CASE Boot \/ SetProfileKey \/ \E f \in Topics : SaveRead(f)
    BY <1>1 DEF Boot, SetProfileKey, SaveRead, bounds
<1>2. CASE Turn \/ AppendActivity \/ SaveWrite \/ SaveList
    BY <1>2 DEF Turn, AppendActivity, SaveWrite, SaveList, bounds
<1>3. CASE Flush \/ Crash
    BY <1>3 DEF Flush, Crash, bounds
<1>4. ASSUME NEW r \in Runs, FetchSlots(r) \/ FetchFails(r) \/ Finish(r)
      PROVE  setup' = setup /\ (blips' = 0 => blips = 0)
    <2>1. CASE FetchSlots(r)
        BY <2>1 DEF FetchSlots
    <2>2. CASE FetchFails(r)
        BY <2>2 DEF FetchFails, Filed
    <2>3. CASE Finish(r)
        BY <2>3 DEF Finish, bounds
    <2>. QED
        BY <1>4, <2>1, <2>2, <2>3
<1>5. ASSUME NEW r \in Runs, NEW s \in Slots, SlotStep(r, s) PROVE setup' = setup /\ blips' = blips
    BY <1>5 DEF SlotStep, Check, Downloaded, DownloadFails, WriteEnvelope, WriteRoot, WriteSiblings
<1>6. CASE UNCHANGED vars
    BY <1>6 DEF vars
<1>. QED
    BY <1>1, <1>2, <1>3, <1>4, <1>5, <1>6, RestoreCases

\* Steps of the daemon: each restore is idle, newly started or as it was.
LEMMA IdentityFrame ==
    ASSUME Filed, Staged, IdentityInv, setup' = setup, blips' = 0 => blips = 0,
           chain'[Id] = chain[Id], disk'[Id] \in {{}, disk[Id]},
           \A r \in Runs : \/ run'[r] = run[r] /\ disk'[Id] = disk[Id]
                           \/ run'[r].phase # "slots" /\ run'[r].snap = Empty,
           up' = "up" => up = "up" /\ disk'[Id] = disk[Id] /\ pendingRestoreFailed' = pendingRestoreFailed
    PROVE  IdentityInv'
<1>. SUFFICES ASSUME I \in Slots
              PROVE  Sourced' /\ (blips' = 0 => Remembered' /\ \A r \in Runs : Seen(r)')
    BY DEF IdentityInv, Slots
<1>1. Sourced /\ (blips' = 0 => Remembered /\ \A r \in Runs : Seen(r))
    BY DEF IdentityInv
<1>2. Empty[Id] = {}
    BY EmptyShelf, IdentityNames
<1>3. Sourced'
    BY <1>1, <1>2 DEF Sourced, Copied
<1>4. ASSUME blips' = 0, NEW r \in Runs PROVE Seen(r)'
    BY <1>1, <1>4 DEF Seen
<1>5. ASSUME blips' = 0 PROVE Remembered'
    BY <1>1, <1>5 DEF Remembered
<1>. QED
    BY <1>3, <1>4, <1>5

LEMMA IdentityFetch ==
    ASSUME Filed, Staged, IdentityInv, blips' = 0 => blips = 0,
           NEW r \in Runs, FetchSlots(r) \/ FetchFails(r)
    PROVE  IdentityInv'
<1>1. /\ \A q \in Runs : q # r => run'[q] = run[q]
      /\ FetchSlots(r) => run'[r].snap = chain /\ (I \in Slots => run'[r].slot[I] = "todo")
      /\ FetchFails(r) => run'[r].snap = run[r].snap
      /\ UNCHANGED <<setup, disk, chain, up, pendingRestoreFailed>>
    BY FetchFacts, IdentityNames
<1>2. FetchFails(r) => blips' # 0
    BY DEF FetchFails, Filed
<1>. SUFFICES ASSUME I \in Slots
              PROVE  Sourced' /\ (blips' = 0 => Remembered' /\ \A q \in Runs : Seen(q)')
    BY <1>1 DEF IdentityInv, Slots
<1>3. Sourced /\ (blips' = 0 => Remembered /\ \A q \in Runs : Seen(q))
    BY DEF IdentityInv
<1>4. Sourced'
    BY <1>1, <1>3 DEF Sourced, Copied
<1>5. ASSUME blips' = 0, NEW q \in Runs PROVE Seen(q)'
    BY <1>1, <1>2, <1>3, <1>5 DEF Seen
<1>. QED
    BY <1>1, <1>3, <1>4, <1>5 DEF Remembered

\* A step of the identity's slot: it is skipped because it is there or not
\* anchored, and restored with what the chain has.
LEMMA IdentitySlot ==
    ASSUME Filed, Staged, IdentityInv, NEW r \in Runs, I \in Slots, SlotStep(r, I)
    PROVE  /\ disk'[Id] \in {disk[Id], chain[Id]} /\ (disk[Id] = chain[Id] => disk'[Id] = chain[Id])
           /\ blips = 0 /\ run'[r].slot[I] \in {"skipped", "siblings", "restored"} => disk'[Id] = chain[Id]
<1>1. /\ run[r].phase = "slots" /\ run[r].slot[I] # "envelope"
      /\ run' \in [Runs -> RunStates] /\ disk \in Shelf
    BY SlotStepFacts, IdentityNames DEF Staged, Run, Filed
<1>2. Sourced /\ (blips = 0 => Seen(r))
    BY DEF IdentityInv
<1>3. run[r].snap[Id] \in {{}, chain[Id]} /\ disk[Id] \in {{}, chain[Id]}
    BY <1>2 DEF Sourced, Copied
<1>4. CASE Check(r, I)
    <2>1. disk' = disk /\ run'[r].slot[I] = IF Wanted(r, I) THEN "download" ELSE "skipped"
        BY <1>4, SlotMoves
    <2>2. Wanted(r, I) <=> run[r].snap[Id] # {} /\ disk[Id] = {}
        BY IdentityNames DEF Wanted, IsSet
    <2>. QED
        BY <1>1, <1>2, <1>3, <2>1, <2>2 DEF Seen
<1>5. CASE Downloaded(r, I) \/ DownloadFails(r, I)
    <2>1. disk' = disk
        BY <1>5 DEF Downloaded, DownloadFails
    <2>2. run'[r].slot[I] \in {"root", "failed"}
        <3>1. CASE Downloaded(r, I)
            BY <3>1, SlotMoves, IdentityNames
        <3>2. CASE DownloadFails(r, I)
            BY <3>2, GotoFacts, IdentityNames DEF DownloadFails, Staged, Steps
        <3>. QED
            BY <1>5, <3>1, <3>2
    <2>. QED
        BY <2>1, <2>2
<1>6. CASE WriteRoot(r, I)
    <2>1. disk' = IF run[r].snap[Id] = {} THEN disk ELSE [disk EXCEPT ![Id] = run[r].snap[Id]]
        BY <1>6, IdentityNames DEF WriteRoot
    <2>2. disk'[Id] = IF run[r].snap[Id] = {} THEN disk[Id] ELSE run[r].snap[Id]
        BY <1>1, <2>1, IdentityNames, ShelfIs
    <2>. QED
        BY <1>1, <1>2, <1>3, <2>2 DEF Seen
<1>7. CASE WriteSiblings(r, I)
    <2>1. disk'[Id] = disk[Id] /\ run[r].slot[I] = "siblings"
        BY <1>7, IdentityNames DEF WriteSiblings
    <2>. QED
        BY <1>1, <1>2, <2>1 DEF Seen
<1>8. CASE WriteEnvelope(r, I)
    BY <1>1, <1>8 DEF WriteEnvelope
<1>. QED
    BY <1>4, <1>5, <1>6, <1>7, <1>8 DEF SlotStep

LEMMA IdentitySteps ==
    ASSUME Filed, Staged, IdentityInv, NEW r \in Runs, NEW s \in Slots, SlotStep(r, s)
    PROVE  IdentityInv'
<1>1. /\ s \in AllSlots /\ run[r].phase = "slots" /\ run'[r].slot[s] # "none"
      /\ run'[r].phase = "slots" /\ run'[r].snap = run[r].snap
      /\ \A q \in Runs : q # r => run'[q] = run[q]
      /\ \A t \in AllSlots : t # s => run'[r].slot[t] = run[r].slot[t]
      /\ \A f \in Files \ FilesOf(s) : disk'[f] = disk[f]
      /\ UNCHANGED <<setup, chain, up, pendingRestoreFailed>>
    BY SlotStepFacts, SlotsKnown
<1>2. blips' = blips
    BY DEF SlotStep, Check, Downloaded, DownloadFails, WriteEnvelope, WriteRoot, WriteSiblings
<1>. SUFFICES ASSUME I \in Slots
              PROVE  Sourced' /\ (blips = 0 => Remembered' /\ \A q \in Runs : Seen(q)')
    BY <1>1, <1>2 DEF IdentityInv, Slots
<1>3. Sourced /\ (blips = 0 => Remembered /\ \A q \in Runs : Seen(q))
    BY DEF IdentityInv
<1>4. /\ disk'[Id] \in {disk[Id], chain[Id]} /\ (disk[Id] = chain[Id] => disk'[Id] = chain[Id])
      /\ s = I /\ blips = 0 /\ run'[r].slot[I] \in {"skipped", "siblings", "restored"}
            => disk'[Id] = chain[Id]
    <2>1. CASE s = I
        BY <2>1, IdentitySlot
    <2>2. CASE s # I
        BY <1>1, <2>2, IdentityNames
    <2>. QED
        BY <2>1, <2>2
<1>5. Sourced'
    BY <1>1, <1>3, <1>4 DEF Sourced, Copied
<1>6. ASSUME blips = 0, NEW q \in Runs PROVE Seen(q)'
    <2>1. Seen(q)
        BY <1>3, <1>6
    <2>2. CASE q = r
        <3>1. run'[r].slot[I] # "none"
            BY <1>1, <2>1, <2>2, IdentityNames DEF Seen
        <3>2. run'[r].slot[I] \in {"skipped", "siblings", "restored"} => disk'[Id] = chain[Id]
            BY <1>1, <1>4, <1>6, <2>1, <2>2, IdentityNames DEF Seen
        <3>. QED
            BY <1>1, <2>1, <2>2, <3>1, <3>2 DEF Seen
    <2>3. CASE q # r
        BY <1>1, <1>4, <2>1, <2>3 DEF Seen
    <2>. QED
        BY <2>2, <2>3
<1>. QED
    BY <1>1, <1>3, <1>4, <1>5, <1>6 DEF Remembered

\* A restore that ends without the identity ends with its slot failed.
LEMMA IdentityFinish ==
    ASSUME Filed, Staged, IdentityInv, NEW r \in Runs, Finish(r)
    PROVE  IdentityInv'
<1>1. /\ run[r].phase = "slots" /\ run[r].slot[I] \in Outcomes
      /\ run'[r] = Idle /\ \A q \in Runs : q # r => run'[q] = run[q]
      /\ disk'[Id] = disk[Id]
      /\ pendingRestoreFailed' = IF r = "main" THEN StillFailed(r) ELSE pendingRestoreFailed
      /\ up' = IF r = "main" THEN "up" ELSE up
      /\ UNCHANGED <<setup, chain, blips>>
    BY FinishFacts, IdentityNames
<1>. SUFFICES ASSUME I \in Slots
              PROVE  Sourced' /\ (blips = 0 => Remembered' /\ \A q \in Runs : Seen(q)')
    BY <1>1 DEF IdentityInv, Slots
<1>2. Sourced /\ (blips = 0 => Remembered /\ \A q \in Runs : Seen(q))
    BY DEF IdentityInv
<1>3. Idle.phase = "idle" /\ Idle.snap[Id] = {}
    BY IdleRun, EmptyShelf, IdentityNames
<1>4. Sourced'
    BY <1>1, <1>2, <1>3 DEF Sourced, Copied
<1>5. ASSUME blips = 0, NEW q \in Runs PROVE Seen(q)'
    BY <1>1, <1>2, <1>3, <1>5 DEF Seen
<1>6. ASSUME blips = 0 PROVE Remembered'
    <2>1. CASE r = "main"
        <3>1. run[r].slot[I] = "failed" => StillFailed(r)
            BY DEF StillFailed
        <3>2. run[r].slot[I] # "failed" => disk[Id] = chain[Id]
            BY <1>1, <1>2, <1>6 DEF Seen, Outcomes
        <3>3. StillFailed(r) => pendingRestoreFailed'
            BY <1>1, <2>1, Zenon
        <3>. QED
            BY <1>1, <3>1, <3>2, <3>3 DEF Remembered
    <2>2. CASE r # "main"
        <3>1. pendingRestoreFailed' = pendingRestoreFailed
            BY <1>1, <2>2, Zenon
        <3>. QED
            BY <1>1, <1>2, <1>6, <2>2, <3>1 DEF Remembered
    <2>. QED
        BY <2>1, <2>2
<1>. QED
    BY <1>4, <1>5, <1>6

\* What a flush anchors of it came from the chain.
LEMMA IdentityFlush ==
    ASSUME Filed, Staged, I \in Slots, Sourced, Flush
    PROVE  chain'[Id] = chain[Id]
<1>. DEFINE files == UNION {FilesOf(u) : u \in {t \in Slots : Flushed(t)}}
<1>1. chain' = [f \in Files |-> IF f \in files THEN disk[f] ELSE chain[f]]
    BY DEF Flush
<1>2. Id \in files => Flushed(I)
    BY SlotsKnown, IdentityNames
<1>3. Flushed(I) => disk[Id] # {}
    BY IdentityNames DEF Flushed
<1>. HIDE DEF files
<1>. QED
    BY <1>1, <1>2, <1>3, IdentityNames DEF Sourced, Copied

LEMMA IdentityStep ==
    ASSUME Filed, Staged, IdentityInv, [Next]_vars
    PROVE  IdentityInv'
<1>. USE DEF Runs
<1>0. /\ setup' = setup /\ (blips' = 0 => blips = 0) /\ run \in [Runs -> RunStates]
      /\ disk \in Shelf /\ chain \in Shelf /\ Slots' = Slots
    BY BlipsStay DEF Filed, Staged, Slots
<1>1. ASSUME NEW r \in Runs, NEW key \in BOOLEAN, run' = [run EXCEPT ![r] = Started(key)]
      PROVE  /\ run'[r].phase # "slots" /\ run'[r].snap = Empty
             /\ \A q \in Runs : q # r => run'[q] = run[q]
    BY <1>0, <1>1, StartedRun, RunPut
<1>2. CASE Boot
    <2>1. PICK key \in BOOLEAN : run' = [run EXCEPT !["main"] = Started(key)]
        BY <1>2 DEF Boot
    <2>2. UNCHANGED <<disk, chain>> /\ up' = "boot"
        BY <1>2 DEF Boot
    <2>. QED
        BY <1>0, <1>1, <2>1, <2>2, IdentityFrame
<1>3. CASE Turn
    <2>1. UNCHANGED <<disk, chain, up, pendingRestoreFailed>>
        BY <1>3 DEF Turn, daemon
    <2>2. CASE run' = run
        BY <1>0, <2>1, <2>2, IdentityFrame
    <2>3. CASE run' = [run EXCEPT !["main"] = Started(profileKey)]
        BY <1>0, <1>1, <2>1, <2>3, IdentityFrame DEF Staged
    <2>. QED
        BY <1>3, <2>2, <2>3 DEF Turn
<1>4. CASE SetProfileKey
    <2>1. UNCHANGED <<disk, chain, up, pendingRestoreFailed>> /\ run' = [run EXCEPT !["key"] = Started(TRUE)]
        BY <1>4 DEF SetProfileKey
    <2>. QED
        BY <1>0, <1>1, <2>1, IdentityFrame
<1>5. CASE AppendActivity \/ SaveWrite \/ SaveList \/ \E f \in Topics : SaveRead(f)
    <2>1. UNCHANGED <<chain, up, pendingRestoreFailed, run>>
        BY <1>5 DEF AppendActivity, SaveWrite, SaveList, SaveRead, daemon
    <2>2. disk'[Id] = disk[Id]
        <3>1. SaveWrite => save.file # Id
            BY IdentityNames DEF SaveWrite, Staged, Saves
        <3>. QED
            BY <1>0, <1>5, <3>1, IdentityNames, ShelfIs DEF AppendActivity, SaveWrite, SaveList, SaveRead
    <2>. QED
        BY <1>0, <2>1, <2>2, IdentityFrame
<1>6. CASE Flush
    <2>1. UNCHANGED <<disk, up, pendingRestoreFailed, run>>
        BY <1>6 DEF Flush, daemon
    <2>2. CASE I \in Slots
        <3>1. chain'[Id] = chain[Id]
            BY <1>6, <2>2, IdentityFlush DEF IdentityInv
        <3>. QED
            BY <1>0, <2>1, <3>1, IdentityFrame
    <2>3. CASE I \notin Slots
        BY <1>0, <2>3 DEF IdentityInv
    <2>. QED
        BY <2>2, <2>3
<1>7. CASE Crash
    <2>1. run' = [r \in Runs |-> Idle] /\ chain' = chain /\ up' = "down"
        BY <1>7 DEF Crash
    <2>2. disk' = disk \/ disk' = Empty
        BY <1>7 DEF Crash
    <2>3. disk'[Id] \in {{}, disk[Id]}
        BY <2>2, EmptyShelf, IdentityNames
    <2>4. \A r \in Runs : run'[r].phase # "slots" /\ run'[r].snap = Empty
        BY <2>1, IdleRun
    <2>. QED
        BY <1>0, <2>1, <2>3, <2>4, IdentityFrame
<1>8. CASE UNCHANGED vars
    BY <1>0, <1>8, IdentityFrame DEF vars
<1>. QED
    BY <1>0, <1>2, <1>3, <1>4, <1>5, <1>6, <1>7, <1>8, IdentityFetch, IdentitySteps, IdentityFinish,
       RestoreCases

\* Whatever downloads fail and whatever is torn, a daemon that serves turns
\* without its anchored identity holds the flag that makes later turns restore
\* it, as long as the chain could be read.  (triggerLazyRestore)
THEOREM RememberedCorrect == Spec => []FailureRemembered
<1>1. Init => IdentityInv
    <2>. SUFFICES ASSUME Init PROVE IdentityInv
        OBVIOUS
    <2>1. disk[Id] = {} /\ up = "down"
        BY EmptyShelf, IdentityNames DEF Init
    <2>2. \A r \in Runs : run[r] = Idle /\ Idle.phase = "idle" /\ Idle.snap[Id] = {}
        BY IdleRun, EmptyShelf, IdentityNames DEF Init
    <2>. QED
        BY <2>1, <2>2 DEF IdentityInv, Sourced, Copied, Seen, Remembered
<1>2. RestoreInv /\ IdentityInv /\ [Next]_vars => IdentityInv'
    BY IdentityStep DEF RestoreInv
<1>3. IdentityInv => FailureRemembered
    BY DEF IdentityInv, Remembered, FailureRemembered, I, Id
<1>. QED
    BY <1>1, <1>2, <1>3, RestoreInvCorrect, PTL DEF Spec
=============================================================================
