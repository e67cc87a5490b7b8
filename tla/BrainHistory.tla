---------------------------- MODULE BrainHistory ----------------------------
(***************************************************************************)
(* The conversation of one channel: in memory, the array that              *)
(* brain/anthropic.ts and brain/compute.ts keep for it in `histories`; on  *)
(* disk, the JSONL file of brain/history-persist.ts.                       *)
(*                                                                         *)
(* infer() holds on to the array it found when it began, a compaction      *)
(* (brain/compaction.ts) and a reset put another array in its place, and   *)
(* the appends and rewrites of the file are asynchronous.  POST /chat does *)
(* not wait for the turn before, so that turns and resets of a channel     *)
(* overlap.  What is said is abstracted to who said it in which turn.      *)
(***************************************************************************)
EXTENDS Naturals, Sequences, FiniteSets, SequencesExt

CONSTANTS
    MaxTurn,                    \* bound: turns, numbered as they come
    Earlier,                    \* those of an earlier life, which the file tells of
    KeepRecent,                 \* CompactionOpts.keepRecent, in turns
    MaxOverlap,                 \* bound: turns under way at once
    MaxRestarts, MaxResets, MaxFaults   \* bounds

ASSUME HistoryAssumption ==
    /\ KeepRecent \in Nat \ {0}
    /\ MaxTurn \in Nat /\ Earlier \in 0..MaxTurn
    /\ {MaxOverlap, MaxRestarts, MaxResets, MaxFaults} \subseteq Nat

Turns    == 1..MaxTurn
Lines    == Turns \X {"user", "assistant"}
Messages == [lines : SUBSET Lines, summary : BOOLEAN]   \* what a message tells of

Line(t, role) == [lines |-> {<<t, role>>}, summary |-> FALSE]
Pair(t)       == <<Line(t, "user"), Line(t, "assistant")>>

\* The messages of h that tell of a line
Telling(l, h) == {i \in DOMAIN h : l \in h[i].lines}

VARIABLES
    arrays,         \* the arrays made since the start; histories.get(key) is the last
    pc,             \* [Turns -> where its infer() is]
    ref,            \* [Turns -> the index of the array it holds]
    made,           \* [Turns -> what it writes: the compacted history, then its file]
    linked,         \* [Turns -> the path still names the file it has open]
    file,           \* the complete lines of the file
    torn,           \* the file ends in a part of a line
    restarts, resets, faults,
    overlap,        \* history: since the start, two turns were under way at once
    tangled,        \* history: since the start, a fold or a reset met a turn, or a file
                    \* operation failed
    excused,        \* history: the turns a fold, a reset or a failure may have cost
    cleared,        \* history: the turns said before a reset
    gone,           \* history: those said before a reset that met no fold and no append
    twofold         \* history: a rewrite took along a turn yet to be appended

disk    == <<file, torn>>
bounds  == <<restarts, resets, faults>>
history == <<overlap, tangled, excused, cleared, gone, twofold>>
historyVars == <<arrays, pc, ref, made, linked, file, torn, restarts, resets, faults,
                 overlap, tangled, excused, cleared, gone, twofold>>

\* The lines of an earlier life, two a turn
Hydrated == [i \in 1..2 * Earlier |-> Line((i + 1) \div 2, IF i % 2 = 1 THEN "user" ELSE "assistant")]

\* init() has hydrated the history.
HistoryInit ==
    /\ file = Hydrated /\ torn = FALSE
    /\ arrays = <<file>>
    /\ pc = [t \in Turns |-> IF t <= Earlier THEN "done" ELSE "new"]
    /\ ref = [t \in Turns |-> 0] /\ made = [t \in Turns |-> <<>>] /\ linked = [t \in Turns |-> FALSE]
    /\ restarts = 0 /\ resets = 0 /\ faults = 0
    /\ overlap = FALSE /\ tangled = FALSE /\ twofold = FALSE
    /\ excused = {} /\ cleared = {} /\ gone = {}

Current == Last(arrays)

Compacting == {"folding", "rewriting", "renaming", "folded"}
Appending  == {"opening", "writing"}
UnderWay   == Compacting \cup Appending \cup {"asking"}
In(S)      == {t \in Turns : pc[t] \in S}
-----------------------------------------------------------------------------
(* Compaction.                                                             *)

RecentCount == 2 * KeepRecent

SummaryOf(older) == [lines |-> UNION {m.lines : m \in Range(older)}, summary |-> TRUE]

\* Mutant: the last of the messages it folds is kept as well.
Fold_Overlaps(h) ==
    LET n == Len(h) - RecentCount
    IN  <<SummaryOf(SubSeq(h, 1, n))>> \o SubSeq(h, n, Len(h))

\* Mutant: the message between the two parts is lost.
Fold_Skips(h) ==
    LET n == Len(h) - RecentCount
    IN  <<SummaryOf(SubSeq(h, 1, n - 1))>> \o SubSeq(h, n + 1, Len(h))

\* compactHistory: one summary in the place of all but the recent messages.
Fold(h) ==
    LET n == Len(h) - RecentCount
    IN  <<SummaryOf(SubSeq(h, 1, n))>> \o SubSeq(h, n + 1, Len(h))

\* shouldCompact, whose count of tokens may be above the limit or not
MayCompact(h) == Len(h) >= RecentCount + 4
-----------------------------------------------------------------------------
(* History variables: t goes on to where; a fold next to another turn      *)
(* excuses both.                                                           *)

Goto(t, there) ==
    LET active == (In(UnderWay) \ {t}) \cup (IF there \in UnderWay THEN {t} ELSE {})
        fold   == In(Compacting) \ {t} # {} \/ there \in Compacting
        two    == Cardinality(active) > 1
    IN  /\ pc' = [pc EXCEPT ![t] = there]
        /\ overlap' = (overlap \/ two)
        /\ tangled' = (tangled \/ (fold /\ two))
        /\ excused' = (IF fold /\ two THEN excused \cup active ELSE excused)

\* A file operation of t fails, and is ignored.
Fails(t, there) ==
    /\ faults < MaxFaults /\ faults' = faults + 1
    /\ pc' = [pc EXCEPT ![t] = there]
    /\ tangled' = TRUE /\ excused' = excused \cup {t} /\ UNCHANGED overlap
-----------------------------------------------------------------------------
(* infer().                                                                *)

At(t, here) == pc[t] = here

\* getOrCreateHistory: the turn holds the array that is current now.
Hold(t) == ref' = [ref EXCEPT ![t] = Len(arrays)] /\ Goto(t, "asking")

\* A turn begins, and may compact first: what is folded is read at once.
Begin(t) ==
    /\ At(t, "new") /\ \A s \in Turns : s < t => ~At(s, "new")
    /\ Cardinality(In(UnderWay)) < MaxOverlap
    /\ \/ Hold(t) /\ UNCHANGED made
       \/ /\ MayCompact(Current)
          /\ made' = [made EXCEPT ![t] = Fold(Current)]
          /\ Goto(t, "folding") /\ UNCHANGED ref
    /\ UNCHANGED <<arrays, linked, disk, bounds, cleared, gone, twofold>>

\* The summary is there: whatever the channel's array has become, the compacted
\* history takes its place.
Folded(t) ==
    /\ At(t, "folding")
    /\ arrays' = Append(arrays, made[t])
    /\ ref' = [ref EXCEPT ![t] = Len(arrays')]
    /\ Goto(t, "rewriting")
    /\ UNCHANGED <<made, linked, disk, bounds, cleared, gone, twofold>>

\* The call for the summary throws: the turn goes on without.
FoldFails(t) ==
    /\ At(t, "folding") /\ Hold(t)
    /\ made' = [made EXCEPT ![t] = <<>>]
    /\ UNCHANGED <<arrays, linked, disk, bounds, cleared, gone, twofold>>

\* rewriteChannel writes the array as it stands when its loop gets to the end,
\* with what other turns have pushed by then.
WriteTemp(t) ==
    /\ At(t, "rewriting")
    /\ made' = [made EXCEPT ![t] = arrays[ref[t]]]
    /\ twofold' = (twofold \/ \E s \in In(Appending) : Telling(<<s, "assistant">>, made'[t]) # {})
    /\ Goto(t, "renaming")
    /\ UNCHANGED <<arrays, ref, linked, disk, bounds, cleared, gone>>

\* Mutant: the rename is forgotten, the temporary file stays.
Rename_Forgotten(t) ==
    /\ At(t, "renaming") /\ UNCHANGED <<disk, linked>>
    /\ made' = [made EXCEPT ![t] = <<>>] /\ Goto(t, "folded")
    /\ UNCHANGED <<arrays, ref, bounds, cleared, gone, twofold>>

Rename(t) ==
    /\ At(t, "renaming")
    /\ file' = made[t] /\ torn' = FALSE /\ linked' = [s \in Turns |-> FALSE]
    /\ made' = [made EXCEPT ![t] = <<>>] /\ Goto(t, "folded")
    /\ UNCHANGED <<arrays, ref, bounds, cleared, gone, twofold>>

RewriteFails(t) ==
    /\ pc[t] \in {"rewriting", "renaming"} /\ Fails(t, "folded")
    /\ made' = [made EXCEPT ![t] = <<>>]
    /\ UNCHANGED <<arrays, ref, linked, disk, restarts, resets, cleared, gone, twofold>>

Compacted(t) ==
    /\ At(t, "folded") /\ Hold(t)
    /\ UNCHANGED <<arrays, made, linked, disk, bounds, cleared, gone, twofold>>

\* The model's last answer, after any number of rounds with its tools, is
\* pushed to the array the turn holds.
Answer(t) ==
    /\ At(t, "asking")
    /\ arrays' = [arrays EXCEPT ![ref[t]] = @ \o Pair(t)]
    /\ ref' = [ref EXCEPT ![t] = 0] /\ Goto(t, "opening")
    /\ UNCHANGED <<made, linked, disk, bounds, cleared, gone, twofold>>

\* A call of the model or a tool throws, or the turn is aborted: nothing is kept.
TurnFails(t) ==
    /\ At(t, "asking") /\ ref' = [ref EXCEPT ![t] = 0] /\ Goto(t, "failed")
    /\ UNCHANGED <<arrays, made, linked, disk, bounds, cleared, gone, twofold>>
-----------------------------------------------------------------------------
(* appendTurn: open(path, 'a') and one write, whose result nobody reads.   *)

AppendOpen(t) ==
    /\ At(t, "opening")
    /\ linked' = [linked EXCEPT ![t] = TRUE] /\ Goto(t, "writing")
    /\ UNCHANGED <<arrays, ref, made, disk, bounds, cleared, gone, twofold>>

\* The lines go behind what the file ends in: a part of a line spoils the first.
Put(t, lines, cut) ==
    IF linked[t]
    THEN /\ file' = file \o (IF torn /\ lines # <<>> THEN Tail(lines) ELSE lines)
         /\ torn' = (cut \/ (torn /\ lines = <<>>))
    ELSE UNCHANGED disk

AppendWrite(t) ==
    /\ At(t, "writing") /\ Put(t, Pair(t), FALSE)
    /\ IF linked[t] /\ torn
       THEN /\ pc' = [pc EXCEPT ![t] = "done"] /\ tangled' = TRUE
            /\ UNCHANGED <<overlap, excused>>
       ELSE Goto(t, "done")
    /\ linked' = [linked EXCEPT ![t] = FALSE]
    /\ UNCHANGED <<arrays, ref, made, bounds, cleared, gone, twofold>>

\* The open fails, or the disk is full and the write is short.
AppendFails(t) ==
    /\ \/ At(t, "opening") /\ UNCHANGED disk
       \/ At(t, "writing") /\ \E n \in 0..1, cut \in BOOLEAN : Put(t, SubSeq(Pair(t), 1, n), cut)
    /\ Fails(t, "done") /\ linked' = [linked EXCEPT ![t] = FALSE]
    /\ UNCHANGED <<arrays, ref, made, restarts, resets, cleared, gone, twofold>>
-----------------------------------------------------------------------------
(* clearChannel, for /reset and /new, and the daemon's restart.            *)

Said == In(Appending \cup {"done"})

Cleared(clean) ==
    /\ resets < MaxResets /\ resets' = resets + 1
    /\ arrays' = Append(arrays, <<>>)
    /\ cleared' = cleared \cup Said
    /\ gone' = (IF clean THEN cleared' ELSE gone)
    /\ excused' = excused \cup In(UnderWay)
    /\ tangled' = (tangled \/ In(UnderWay) # {} \/ ~clean)
    /\ UNCHANGED <<pc, ref, made, restarts, overlap, twofold>>

\* Mutant: the file is left.
Reset_KeepsFile ==
    /\ Cleared(In(Compacting \cup Appending) = {})
    /\ UNCHANGED <<disk, linked, faults>>

\* The array is replaced and the file unlinked in one synchronous step.
Reset ==
    /\ Cleared(In(Compacting \cup Appending) = {})
    /\ file' = <<>> /\ torn' = FALSE /\ linked' = [s \in Turns |-> FALSE]
    /\ UNCHANGED faults

\* The unlink fails; the caller is told of the reset all the same.
ResetFails ==
    /\ file # <<>> /\ faults < MaxFaults /\ faults' = faults + 1
    /\ Cleared(FALSE) /\ UNCHANGED <<disk, linked>>

\* The process is killed where it is; its successor hydrates the history from
\* the file, line by line, without the lines that do not parse.
Restart ==
    /\ restarts < MaxRestarts /\ restarts' = restarts + 1
    /\ arrays' = <<file>>
    /\ pc' = [t \in Turns |-> IF pc[t] \in UnderWay THEN "failed" ELSE pc[t]]
    /\ ref' = [t \in Turns |-> 0] /\ made' = [t \in Turns |-> <<>>]
    /\ linked' = [t \in Turns |-> FALSE]
    /\ overlap' = FALSE /\ tangled' = FALSE
    /\ UNCHANGED <<disk, resets, faults, excused, cleared, gone, twofold>>
-----------------------------------------------------------------------------
Step(t) == \/ Begin(t) \/ Folded(t) \/ FoldFails(t) \/ WriteTemp(t) \/ Rename(t)
           \/ RewriteFails(t) \/ Compacted(t) \/ Answer(t) \/ TurnFails(t)
           \/ AppendOpen(t) \/ AppendWrite(t) \/ AppendFails(t)

HistoryNext == (\E t \in Turns : Step(t)) \/ Reset \/ ResetFails \/ Restart

HistorySpec == HistoryInit /\ [][HistoryNext]_historyVars
-----------------------------------------------------------------------------
(* Properties.                                                             *)

\* Type invariant; who holds an array holds one that was made.
HistoryTypeOK ==
    /\ arrays \in Seq(Seq(Messages)) /\ arrays # <<>>
    /\ pc \in [Turns -> UnderWay \cup {"new", "done", "failed"}]
    /\ made \in [Turns -> Seq(Messages)] /\ linked \in [Turns -> BOOLEAN]
    /\ ref \in [Turns -> 0..Len(arrays)] /\ \A t \in Turns : At(t, "asking") => ref[t] > 0
    /\ file \in Seq(Messages) /\ torn \in BOOLEAN
    /\ restarts \in 0..MaxRestarts /\ resets \in 0..MaxResets /\ faults \in 0..MaxFaults
    /\ {overlap, tangled, twofold} \subseteq BOOLEAN
    /\ {excused, cleared, gone} \subseteq SUBSET Turns

\* Between two turns the file holds what the agent remembers, so that a restart
\* changes nothing, as long as since the last start no fold and no reset met a
\* turn and no file operation failed: line for line if the turns came one after
\* the other, and the same lines if they overlapped.
\* (rewriteChannel, appendTurn, clearChannel against the pushes of infer)
MemoryIsDisk ==
    In(UnderWay) = {} /\ ~tangled =>
        /\ Range(file) = Range(Current)
        /\ ~overlap => file = Current

\* A turn that was answered and saved stays in the agent's memory, verbatim or
\* folded into a summary, however often the channel is compacted and the daemon
\* killed, until a reset; unless a fold, a reset or a failing disk met it.
EveryTurnKept ==
    \A t \in Turns \ (excused \cup cleared) : At(t, "done") => Telling(<<t, "assistant">>, Current) # {}

\* What was said before a reset never comes back, not after a restart either,
\* if no fold and no append was under way at the reset and the unlink succeeded.
ResetSticks ==
    \A l \in Lines : l[1] \in gone => \A h \in {Current, file} : Telling(l, h) = {}

\* No turn is remembered twice, as if it had been said again, unless a rewrite
\* took along a turn that was yet to be appended.
RememberedOnce == ~twofold => \A l \in Lines : Cardinality(Telling(l, Current)) <= 1
=============================================================================
