---------------------------- MODULE MemoryRestore ----------------------------
(***************************************************************************)
(* Bringing the anchored memory back to the daemon's disk                  *)
(* (gateway/src/memory-restore.ts, its callers in build-runtime.ts): at    *)
(* boot, lazily on later turns while a slot is known to have failed, and   *)
(* once more when the operator's PROFILE key arrives.  Meanwhile turns run *)
(* memory.save and flush the disk back to the iNFT (module MemorySync is   *)
(* about the flush itself; here it is one step that succeeds).             *)
(*                                                                         *)
(* A file's content is the set of facts it holds, {} when it is missing or *)
(* empty; MEMORY.md holds the names of the files it lists.  Fact 0 is what *)
(* the chain held from the start.  Updates of MEMORY.md are one step.      *)
(***************************************************************************)
EXTENDS Naturals

AllSlots == {"memory-index", "identity", "activity-log", "profile"}

CONSTANT Setups     \* the instances checked; bounds: facts saved, downloads that fail,
                    \* slot reads that fail, crashes and reprovisions

ASSUME RestoreAssumption ==
    Setups \subseteq [slots : SUBSET AllSlots, facts : Nat, failed : Nat, blips : Nat, crashes : Nat]

Index == "MEMORY.md"

\* RESTORE_TARGETS: the file whose presence decides for the whole slot.
Root == [s \in AllSlots |-> CASE s = "memory-index" -> Index
                              [] s = "identity"     -> "identity.md"
                              [] s = "activity-log" -> "activity.jsonl"
                              [] s = "profile"      -> "profile.md"]

\* The other files packed into the slot's blob, one of them each.
Siblings == [s \in AllSlots |-> CASE s = "memory-index" -> {"agent/note.md"}
                                  [] s = "profile"      -> {"user/topic.md"}
                                  [] OTHER              -> {}]

FilesOf(s) == {Root[s]} \cup Siblings[s]
Files      == UNION {FilesOf(s) : s \in AllSlots}

Runs == {"main", "key"}     \* boot and lazy restores; the one of setProfileKey

VARIABLES
    setup,                  \* the instance; its slots are those this iNFT anchors
    disk, chain,            \* [Files -> set of facts]
    up,                     \* "down", "boot" (restoring), "up" (serving turns)
    profileKey,             \* TRUE when profileKeyRef and the sync manager have it
    run,                    \* [Runs -> restore in progress]
    pendingRestoreFailed,
    turn,                   \* "append" while a turn's wake entry is to be written
    save,                   \* memory.save in progress
    facts, failed, blips, crashes,
    torn,                   \* history: a crash or flush fell between two writes of one operation
    keyless,                \* history: turns were served without the PROFILE key
    anchored,               \* history: facts that were ever on chain
    kept                    \* history: facts saved to this disk

daemon  == <<up, profileKey, pendingRestoreFailed>>
work    == <<turn, save>>
bounds  == <<facts, failed, blips, crashes>>
history == <<torn, keyless, anchored, kept>>
vars    == <<setup, disk, chain, up, profileKey, run, pendingRestoreFailed, turn, save,
             facts, failed, blips, crashes, torn, keyless, anchored, kept>>

Slots    == setup.slots
Followed == UNION {FilesOf(s) : s \in Slots}
\* What memory.save writes, and what the index lists without being asked.
Topics    == {"agent/note.md", "profile.md", "user/topic.md"} \cap Followed
Synthetic == {"identity.md", "profile.md"}

Empty   == [f \in Files |-> {}]
Idle    == [phase |-> "idle", key |-> FALSE, snap |-> Empty,
            slot |-> [s \in AllSlots |-> "none"]]
NoSave  == [pc |-> "none", file |-> Index, body |-> {}]
Seeded  == [f \in Files |-> IF f \notin Followed THEN {}
                            ELSE IF f = Index THEN Followed \cap (Topics \cup Synthetic) ELSE {0}]

Init == /\ setup \in Setups /\ disk = Empty /\ chain \in {Empty, Seeded}
        /\ up = "down" /\ profileKey = FALSE /\ pendingRestoreFailed = FALSE
        /\ run = [r \in Runs |-> Idle]
        /\ turn = "none" /\ save = NoSave
        /\ facts = 0 /\ failed = 0 /\ blips = 0 /\ crashes = 0
        /\ torn = FALSE /\ keyless = FALSE /\ anchored = chain /\ kept = Empty

-----------------------------------------------------------------------------
(* restoreMemoryFromChain, cut at its awaits.                              *)

Started(key) == [Idle EXCEPT !.phase = "fetch", !.key = key]

\* Mutant: the boot does not wait for the restore.
Boot_Background ==
    /\ up = "down" /\ up' = "up" /\ pendingRestoreFailed' = FALSE
    /\ \E key \in BOOLEAN : profileKey' = key /\ run' = [run EXCEPT !["main"] = Started(key)]
    /\ UNCHANGED <<setup, disk, chain, work, bounds, history>>

\* buildPromusRuntime: nothing else runs before the boot restore returned.
\* Whether the provision envelope carries a PROFILE key is the operator's choice.
Boot ==
    /\ up = "down" /\ up' = "boot" /\ pendingRestoreFailed' = FALSE
    /\ \E key \in BOOLEAN : profileKey' = key /\ run' = [run EXCEPT !["main"] = Started(key)]
    /\ UNCHANGED <<setup, disk, chain, work, bounds, history>>

Restoring == <<chain, daemon, work, facts, crashes, history>>

FetchSlots(r) ==
    /\ run[r].phase = "fetch"
    /\ run' = [run EXCEPT ![r].phase = "slots", ![r].snap = chain,
                          ![r].slot = [s \in AllSlots |-> IF s \in Slots THEN "todo" ELSE "none"]]
    /\ UNCHANGED <<setup, disk, failed, blips, Restoring>>

\* fetchSlots().catch(() => []): a chain that cannot be read has no slots.
FetchFails(r) ==
    /\ run[r].phase = "fetch" /\ blips < setup.blips
    /\ run' = [run EXCEPT ![r].phase = "slots"]
    /\ blips' = blips + 1
    /\ UNCHANGED <<setup, disk, failed, Restoring>>

Goto(r, s, where) == run' = [run EXCEPT ![r].slot[s] = where]

IsSet(r, s) == \E f \in FilesOf(s) : run[r].snap[f] # {}

\* Mutant: a file that is there already does not stop the restore.
Wanted_Always(r, s) == IsSet(r, s) /\ (s = "profile" => run[r].key)

\* Not the bootstrap placeholder, not local-wins, and the key is at hand.
Wanted(r, s) == IsSet(r, s) /\ disk[Root[s]] = {} /\ (s = "profile" => run[r].key)

Check(r, s) ==
    /\ run[r].slot[s] = "todo"
    /\ Goto(r, s, IF Wanted(r, s) THEN "download" ELSE "skipped")
    /\ UNCHANGED <<setup, disk, failed, blips, Restoring>>

\* Up to three attempts, each cut off by a timeout, end one way or the other.
Downloaded(r, s) ==
    /\ run[r].slot[s] = "download"
    /\ Goto(r, s, IF s = "profile" THEN "envelope" ELSE "root")
    /\ UNCHANGED <<setup, disk, failed, blips, Restoring>>

DownloadFails(r, s) ==
    /\ run[r].slot[s] = "download" /\ failed < setup.failed
    /\ Goto(r, s, "failed")
    /\ failed' = failed + 1
    /\ UNCHANGED <<setup, disk, blips, Restoring>>

\* restoreProfile writes the decrypted envelope itself to profile.md; it is
\* unpacked, over that file too, only after having been read back.
WriteEnvelope(r, s) ==
    /\ run[r].slot[s] = "envelope"
    /\ disk' = [disk EXCEPT ![Root[s]] = UNION {run[r].snap[f] : f \in FilesOf(s)}]
    /\ Goto(r, s, "root")
    /\ UNCHANGED <<setup, failed, blips, Restoring>>

\* writePack, the root first: only a packed root that is not empty is written.
WriteRoot(r, s) ==
    /\ run[r].slot[s] = "root"
    /\ disk' = IF run[r].snap[Root[s]] = {} THEN disk
               ELSE [disk EXCEPT ![Root[s]] = run[r].snap[Root[s]]]
    /\ Goto(r, s, IF Siblings[s] = {} THEN "restored" ELSE "siblings")
    /\ UNCHANGED <<setup, failed, blips, Restoring>>

\* The packed siblings overwrite whatever is there; others stay.
WriteSiblings(r, s) ==
    /\ run[r].slot[s] = "siblings"
    /\ disk' = [f \in Files |-> IF f \in Siblings[s] /\ run[r].snap[f] # {}
                                THEN run[r].snap[f] ELSE disk[f]]
    /\ Goto(r, s, "restored")
    /\ UNCHANGED <<setup, failed, blips, Restoring>>

Outcomes == {"none", "skipped", "restored", "failed"}

\* Mutant: one slot recovered counts as a recovery.
StillFailed_Any(r) == /\ \E s \in Slots : run[r].slot[s] = "failed"
                      /\ \A s \in Slots : run[r].slot[s] # "restored"

StillFailed(r) == \E s \in Slots : run[r].slot[s] = "failed"

\* All slots settled: ensureSyntheticIndexEntries lists the canonical files
\* that exist, creating MEMORY.md when it is missing, and the caller notes
\* what failed.  The restore of setProfileKey leaves pendingRestoreFailed alone.
Finish(r) ==
    /\ run[r].phase = "slots" /\ \A s \in AllSlots : run[r].slot[s] \in Outcomes
    /\ disk' = [disk EXCEPT ![Index] = @ \cup {f \in Synthetic : disk[f] # {}}]
    /\ run' = [run EXCEPT ![r] = Idle]
    /\ pendingRestoreFailed' = IF r = "main" THEN StillFailed(r) ELSE pendingRestoreFailed
    /\ up' = IF r = "main" THEN "up" ELSE up
    /\ keyless' = (keyless \/ ~profileKey)
    /\ UNCHANGED <<setup, chain, profileKey, work, bounds, torn, anchored, kept>>

RestoreStep(r) ==
    \/ FetchSlots(r) \/ FetchFails(r) \/ Finish(r)
    \/ \E s \in Slots : \/ Check(r, s) \/ Downloaded(r, s) \/ DownloadFails(r, s)
                        \/ WriteEnvelope(r, s) \/ WriteRoot(r, s) \/ WriteSiblings(r, s)
-----------------------------------------------------------------------------
(* The daemon that serves turns.                                           *)

\* refreshUserContext kicks the lazy restore, unless one is in flight.
Turn ==
    /\ up = "up" /\ turn = "none" /\ turn' = "append"
    /\ run' = IF pendingRestoreFailed /\ run["main"].phase = "idle"
                THEN [run EXCEPT !["main"] = Started(profileKey)] ELSE run
    /\ UNCHANGED <<setup, disk, chain, daemon, save, bounds, history>>

\* ... and the turn's wake entry is appended to the activity log.
AppendActivity ==
    /\ turn = "append" /\ turn' = "none"
    /\ disk' = [disk EXCEPT !["activity.jsonl"] = @ \cup {1}]
    /\ UNCHANGED <<setup, chain, daemon, run, save, bounds, history>>

\* memory.save: read the topic, write it with the new fact, list it.
SaveRead(f) ==
    /\ up = "up" /\ save.pc = "none" /\ facts < setup.facts
    /\ save' = [pc |-> "write", file |-> f, body |-> disk[f]]
    /\ UNCHANGED <<setup, disk, chain, daemon, run, turn, bounds, history>>

SaveWrite ==
    /\ save.pc = "write"
    /\ facts' = facts + 1
    /\ disk' = [disk EXCEPT ![save.file] = save.body \cup {facts'}]
    /\ kept' = [kept EXCEPT ![save.file] = @ \cup {facts'}]
    /\ save' = [save EXCEPT !.pc = "list", !.body = {}]
    /\ UNCHANGED <<setup, chain, daemon, run, turn, failed, blips, crashes, torn, keyless, anchored>>

SaveList ==
    /\ save.pc = "list"
    /\ disk' = [disk EXCEPT ![Index] = @ \cup {save.file}]
    /\ save' = NoSave
    /\ UNCHANGED <<setup, chain, daemon, run, turn, bounds, history>>

MidWrite == \/ save.pc = "list"
            \/ \E r \in Runs, s \in Slots : run[r].slot[s] \in {"root", "siblings"}

\* doFlush: every slot with something on disk is gathered and anchored, the
\* profile only with its key.
Flushed(s) == (\E f \in FilesOf(s) : disk[f] # {}) /\ (s = "profile" => profileKey)

Flush ==
    /\ up = "up"
    /\ LET files == UNION {FilesOf(s) : s \in {t \in Slots : Flushed(t)}}
       IN  chain' = [f \in Files |-> IF f \in files THEN disk[f] ELSE chain[f]]
    /\ anchored' = [f \in Files |-> anchored[f] \cup chain'[f]]
    /\ torn' = (torn \/ MidWrite)
    /\ UNCHANGED <<setup, disk, daemon, run, work, bounds, keyless, kept>>

\* /admin/profile-key: the sync manager has the key at once, the restore is
\* fired and forgotten.
SetProfileKey ==
    /\ up = "up" /\ ~profileKey /\ profileKey' = TRUE
    /\ run' = [run EXCEPT !["key"] = Started(TRUE)]
    /\ UNCHANGED <<setup, disk, chain, up, pendingRestoreFailed, work, bounds, history>>

\* The process dies; with a reprovision its disk goes too.
Crash ==
    /\ up # "down" /\ crashes < setup.crashes /\ crashes' = crashes + 1
    /\ up' = "down" /\ run' = [r \in Runs |-> Idle]
    /\ turn' = "none" /\ save' = NoSave /\ pendingRestoreFailed' = FALSE /\ profileKey' = FALSE
    /\ \/ /\ disk' = disk /\ kept' = kept /\ torn' = (torn \/ MidWrite)
       \/ disk' = Empty /\ kept' = Empty /\ torn' = torn
    /\ UNCHANGED <<setup, chain, facts, failed, blips, keyless, anchored>>

Next == \/ Boot \/ \E r \in Runs : RestoreStep(r)
        \/ Turn \/ AppendActivity \/ \E f \in Topics : SaveRead(f)
        \/ SaveWrite \/ SaveList \/ Flush \/ SetProfileKey \/ Crash

Spec == Init /\ [][Next]_vars

\* The event loop runs what is ready, restores come to an end, and the
\* operator or a peer keeps sending turns.
FairSpec == /\ Spec /\ WF_vars(Boot) /\ WF_vars(Turn) /\ WF_vars(AppendActivity)
            /\ \A r \in Runs : /\ WF_vars(FetchSlots(r)) /\ WF_vars(Finish(r))
                               /\ \A s \in AllSlots : /\ WF_vars(Check(r, s)) /\ WF_vars(Downloaded(r, s))
                                                   /\ WF_vars(WriteEnvelope(r, s)) /\ WF_vars(WriteRoot(r, s))
                                                   /\ WF_vars(WriteSiblings(r, s))
-----------------------------------------------------------------------------
(* Properties.                                                             *)

Contents(f) == IF f = Index THEN SUBSET Files ELSE SUBSET Nat
Steps == {"none", "todo", "skipped", "download", "envelope", "root", "siblings",
          "restored", "failed"}

TypeOK == /\ \A f \in Files : disk[f] \in Contents(f) /\ chain[f] \in Contents(f)
          /\ up \in {"down", "boot", "up"} /\ turn \in {"none", "append"}
          /\ profileKey \in BOOLEAN /\ pendingRestoreFailed \in BOOLEAN /\ torn \in BOOLEAN
          /\ \A r \in Runs : /\ run[r].phase \in {"idle", "fetch", "slots"}
                             /\ run[r].phase # "slots" => run[r].slot = Idle.slot
                             /\ \A s \in AllSlots : run[r].slot[s] \in Steps
          /\ up = "down" => run = [r \in Runs |-> Idle] /\ save = NoSave /\ turn = "none"
          /\ up = "boot" => run["main"].phase # "idle"
          /\ save.pc \in {"none", "write", "list"}

\* The files that hold facts, of the agent's slots and of the profile.
AgentFiles   == (UNION {FilesOf(s) : s \in Slots \ {"profile"}}) \ {Index}
ProfileFiles == UNION {FilesOf(s) : s \in Slots \cap {"profile"}}

NoTrouble == failed = 0 /\ blips = 0 /\ ~torn

\* Whatever crashes, reprovisions, turns, saves and flushes follow each other,
\* a fact that was anchored stays anchored, provided no download or chain read
\* failed, nothing tore a multi-file write and, for the profile, its key was
\* at hand at every boot.  (restoreMemoryFromChain before brain.init, doFlush)
AnchoredSurvives == NoTrouble =>
    /\ \A f \in AgentFiles : anchored[f] \subseteq chain[f]
    /\ ~keyless => \A f \in ProfileFiles : anchored[f] \subseteq chain[f]

\* Under the same proviso a restore never takes away what was saved to this
\* disk and not yet flushed, in the agent's slots.  (the conflict rule)
LocalWins == NoTrouble => \A f \in AgentFiles : kept[f] \subseteq disk[f]

\* A daemon that came up without its anchored identity knows that it lacks it,
\* whatever downloads failed, in its boot or in a lazy restore, was torn or saved
\* in between: the flag that later turns retry on is not dropped before the file
\* is there.  (triggerLazyRestore, pendingRestoreFailed)
FailureRemembered ==
    up = "up" /\ "identity" \in Slots /\ blips = 0 =>
        chain["identity.md"] \subseteq disk["identity.md"] \/ pendingRestoreFailed

\* Identity has no writer but the restore: as long as turns keep coming,
\* storage recovers and the chain can be read, a daemon that came up without
\* its anchored identity gets it back.  (triggerLazyRestore)
IdentityHeals ==
    up = "up" /\ "identity" \in Slots ~>
        chain["identity.md"] \subseteq disk["identity.md"] \/ up # "up" \/ blips > 0

=============================================================================
