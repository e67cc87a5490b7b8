--------------------------- MODULE TurnPermission ---------------------------
(***************************************************************************)
(* Approval of tool calls: the one PermissionService of the process        *)
(* (core/src/permission/service.ts) shared by the operator's TUI turns and *)
(* by one Telegram turn per chat, each of which overrides the service's    *)
(* mode and prompter and puts them back when it ends (the dispatcher in    *)
(* gateway/src/build-runtime.ts); the ApprovalRelay with its HTTP answers  *)
(* and its sweep (approval-relay.ts, server.ts); the map of pending        *)
(* Telegram keyboards with its timeout.                                    *)
(*                                                                         *)
(* A turn makes one tool call at a time.  What follows a decision          *)
(* (applyDecision) runs before any other event of the process.  Time is    *)
(* abstracted: an approval that waits may expire at any moment.            *)
(***************************************************************************)
EXTENDS Naturals, FiniteSets

CONSTANTS
    Chats, Tui, Relay,      \* Telegram chats; turns not from Telegram; their prompter
    Calls,                  \* the tool calls that turns make
    MaxAsks,                \* bound: approvals asked for
    MaxPosts,               \* bound: answers being verified at once
    MaxEdits                \* bound: /yolo and /perms commands

ASSUME PermissionAssumption ==
    /\ Tui \notin Chats /\ Relay \notin Chats
    /\ {MaxAsks, MaxPosts, MaxEdits} \subseteq Nat
    /\ Calls \subseteq {"write", "shell", "danger", "value"}

Modes     == {"strict", "prompt", "off"}
Actors    == Chats \cup {Tui}
Prompters == Chats \cup {Relay}
Decisions == {"allow", "allow-session", "deny"}
Ids       == 1..MaxAsks

\* resolve tells apart a plain fs.write, a harmless shell command, a command
\* that matches a dangerous pattern and a value-moving transaction.
Risky     == {"shell", "danger", "value"}
Forbidden == {"danger", "value"}

VARIABLES
    bridge,             \* Telegram turns ask by keyboard (else PROMUS_TG_YOLO)
    mode, prompter, sessionAllowed,     \* PermissionService
    turn,               \* [Actors -> turn in progress]
    relay, keyboards,   \* ids pending in ApprovalRelay, in telegramPendingApprovals
    verifying,          \* POST /approval/:id/respond past has(), awaiting the signature check
    running,            \* "up", "stopping", "down"
    edits,
    asked, by,          \* ids used; who asked under an id
    wanted,             \* history: the mode the operator chose last
    tangled,            \* history: the mode was set during a turn that will put an older one back
    ending,             \* history: [Ids -> what ended the approval]
    granted,            \* history: call classes some operator allowed for the session
    outcome             \* history: how the last step resolved tool calls

service == <<mode, prompter, sessionAllowed>>
pending == <<relay, keyboards>>
asks    == <<asked, by>>
history == <<wanted, tangled, ending, granted>>
vars    == <<bridge, mode, prompter, sessionAllowed, turn, relay, keyboards, verifying, running,
             edits, asked, by, wanted, tangled, ending, granted, outcome>>

NoTurn    == [pc |-> "idle", prevMode |-> "off", prevPrompter |-> Relay, call |-> "none", id |-> 0]

Init == /\ bridge \in BOOLEAN
        /\ mode \in Modes /\ prompter = Relay /\ sessionAllowed = {}
        /\ turn = [a \in Actors |-> NoTurn]
        /\ relay = {} /\ keyboards = {} /\ verifying = {} /\ running = "up" /\ edits = 0
        /\ asked = 0 /\ by = [i \in Ids |-> Tui]
        /\ wanted = mode /\ tangled = FALSE /\ ending = [i \in Ids |-> "none"] /\ granted = {}
        /\ outcome = {}

InTelegramTurn == \E c \in Chats : turn[c].pc # "idle"
-----------------------------------------------------------------------------
(* Commands of the operator, from the TUI or from an idle chat.            *)

Perms(m) ==
    /\ running = "up" /\ edits < MaxEdits /\ edits' = edits + 1
    /\ mode' = m /\ wanted' = m /\ tangled' = (tangled \/ InTelegramTurn)
    /\ UNCHANGED <<bridge, prompter, sessionAllowed, turn, pending, verifying, running, asks,
                   ending, granted>>
    /\ outcome' = {}

Yolo ==
    /\ running = "up" /\ edits < MaxEdits /\ edits' = edits + 1
    /\ mode' = (IF mode = "off" THEN "prompt" ELSE "off") /\ wanted' = mode'
    /\ tangled' = (tangled \/ InTelegramTurn)
    /\ UNCHANGED <<bridge, prompter, sessionAllowed, turn, pending, verifying, running, asks,
                   ending, granted>>
    /\ outcome' = {}
-----------------------------------------------------------------------------
(* Turns.                                                                  *)

BeginTui ==
    /\ running = "up" /\ turn[Tui].pc = "idle"
    /\ turn' = [turn EXCEPT ![Tui].pc = "on"]
    /\ outcome' = {}
    /\ UNCHANGED <<bridge, service, pending, verifying, running, edits, asks, history>>

\* The mode a Telegram turn runs in: the keyboard override sets 'prompt' only
\* where it is 'prompt' already.
TurnMode == IF bridge THEN mode ELSE "off"

BeginChat(c) ==
    /\ running # "down" /\ turn[c].pc = "idle"
    /\ turn' = [turn EXCEPT ![c].pc = "on", ![c].prevMode = mode, ![c].prevPrompter = prompter]
    /\ mode' = TurnMode /\ prompter' = (IF bridge THEN c ELSE prompter)
    /\ tangled' = (tangled \/ (InTelegramTurn /\ ~bridge))
    /\ outcome' = {}
    /\ UNCHANGED <<bridge, sessionAllowed, pending, verifying, running, edits, asks, wanted,
                   ending, granted>>

\* Mutant: the finally block forgets the mode.
EndChat_KeepsMode(c) ==
    /\ turn[c].pc = "on" /\ turn' = [turn EXCEPT ![c] = NoTurn]
    /\ prompter' = (IF bridge THEN turn[c].prevPrompter ELSE prompter)
    /\ outcome' = {}
    /\ UNCHANGED <<bridge, mode, sessionAllowed, pending, verifying, running, edits, asks, history>>

\* The finally block, after the reply or an error.
EndChat(c) ==
    /\ turn[c].pc = "on"
    /\ turn' = [turn EXCEPT ![c] = NoTurn]
    /\ mode' = turn[c].prevMode
    /\ prompter' = (IF bridge THEN turn[c].prevPrompter ELSE prompter)
    /\ outcome' = {}
    /\ UNCHANGED <<bridge, sessionAllowed, pending, verifying, running, edits, asks, history>>

EndTui ==
    /\ turn[Tui].pc = "on"
    /\ turn' = [turn EXCEPT ![Tui] = NoTurn]
    /\ outcome' = {}
    /\ UNCHANGED <<bridge, service, pending, verifying, running, edits, asks, history>>
-----------------------------------------------------------------------------
(* PermissionService.resolve, called by the pre_tool_call hook.            *)

\* What resolve answers without asking; "ask" when it consults the prompter.
Verdict(k) ==
    CASE mode = "off" -> "yolo"
      [] mode # "off" /\ k \in sessionAllowed -> "session-allow"
      [] mode = "strict" /\ k \notin sessionAllowed ->
            IF k \in Forbidden THEN "strict-deny" ELSE "allow"
      [] OTHER -> IF k \in Risky THEN "ask" ELSE "allow"

Resolve(a, k) ==
    /\ turn[a].pc = "on" /\ Verdict(k) # "ask"
    /\ outcome' = {[call |-> k, mode |-> mode, via |-> Verdict(k), id |-> 0]}
    /\ UNCHANGED <<bridge, service, turn, pending, verifying, running, edits, asks, history>>

Ask(a, k) ==
    /\ turn[a].pc = "on" /\ Verdict(k) = "ask" /\ asked < MaxAsks
    /\ asked' = asked + 1
    /\ by' = [by EXCEPT ![asked'] = a]
    /\ turn' = [turn EXCEPT ![a].pc = "ask", ![a].call = k, ![a].id = asked']
    /\ IF prompter = Relay THEN relay' = relay \cup {asked'} /\ keyboards' = keyboards
                           ELSE keyboards' = keyboards \cup {asked'} /\ relay' = relay
    /\ outcome' = {}
    /\ UNCHANGED <<bridge, service, verifying, running, edits, history>>

\* The promise of approval i is resolved with d: the turn that awaits it goes
\* on and applies the decision.
Via(d) == CASE d = "allow" -> "once" [] d = "allow-session" -> "session-allow" [] OTHER -> "deny"

Awake(t) == [t EXCEPT !.pc = "on", !.id = 0, !.call = "none"]

Decide(i, d) ==
    LET a == by[i]
        k == turn[a].call
    IN /\ relay' = relay \ {i} /\ keyboards' = keyboards \ {i}
       /\ sessionAllowed' = (IF d = "allow-session" THEN sessionAllowed \cup {k} ELSE sessionAllowed)
       /\ turn' = [turn EXCEPT ![a] = Awake(@)]
       /\ outcome' = {[call |-> k, mode |-> "prompt", via |-> Via(d), id |-> i]}

\* The operator's answer d to approval i took effect.
Answered(i, d) ==
    /\ ending' = [ending EXCEPT ![i] = d]
    /\ granted' = (IF d = "allow-session" THEN granted \cup {turn[by[i]].call} ELSE granted)
-----------------------------------------------------------------------------
(* Answers, timeouts, shutdown.                                            *)

\* POST /approval/:id/respond up to the await of verifyApprovalSig.
Post(i, d) ==
    /\ running # "down" /\ i \in relay /\ [id |-> i, decision |-> d] \notin verifying
    /\ Cardinality(verifying) < MaxPosts
    /\ verifying' = verifying \cup {[id |-> i, decision |-> d]}
    /\ outcome' = {}
    /\ UNCHANGED <<bridge, service, turn, pending, running, edits, asks, history>>

\* Verified: 200 if the approval is still pending.
Verified(v) ==
    /\ v \in verifying /\ v.id \in relay
    /\ verifying' = verifying \ {v} /\ Decide(v.id, v.decision) /\ Answered(v.id, v.decision)
    /\ UNCHANGED <<bridge, mode, prompter, running, edits, asks, wanted, tangled>>

\* 401, or 409 when it was answered or swept meanwhile.
Refused(v) ==
    /\ v \in verifying /\ verifying' = verifying \ {v}
    /\ outcome' = {}
    /\ UNCHANGED <<bridge, service, turn, pending, running, edits, asks, history>>

\* A button of the inline keyboard; one that was answered or timed out is ignored.
Tap(i, d) ==
    /\ running = "up" /\ i \in keyboards
    /\ Decide(i, d) /\ Answered(i, d)
    /\ UNCHANGED <<bridge, mode, prompter, verifying, running, edits, asks, wanted, tangled>>

\* Mutant: the sweep leaves the expired entry in the map.
Expire_KeepsEntry(i) ==
    /\ i \in keyboards \/ (i \in relay /\ running = "up")
    /\ turn[by[i]].pc = "ask" /\ turn' = [turn EXCEPT ![by[i]] = Awake(@)]
    /\ ending' = [ending EXCEPT ![i] = "expired"]
    /\ outcome' = {}
    /\ UNCHANGED <<bridge, service, pending, verifying, running, edits, asks, wanted, tangled, granted>>

\* Mutant: an approval that times out is let through.
Expire_Allows(i) ==
    /\ i \in keyboards \/ (i \in relay /\ running = "up")
    /\ Decide(i, "allow") /\ ending' = [ending EXCEPT ![i] = "expired"]
    /\ UNCHANGED <<bridge, mode, prompter, verifying, running, edits, asks, wanted, tangled, granted>>

\* #sweepExpired; the five-minute timer of a keyboard, or its message not sent.
Expire(i) ==
    /\ i \in keyboards \/ (i \in relay /\ running = "up")
    /\ running # "down"
    /\ Decide(i, "deny") /\ ending' = [ending EXCEPT ![i] = "expired"]
    /\ UNCHANGED <<bridge, mode, prompter, verifying, running, edits, asks, wanted, tangled, granted>>

\* Signal handler: ApprovalRelay.stop denies what is pending there.
Shutdown ==
    /\ running = "up" /\ running' = "stopping" /\ relay' = {}
    /\ LET stopped(a) == turn[a].pc = "ask" /\ turn[a].id \in relay
       IN /\ turn' = [a \in Actors |->
                        IF stopped(a) THEN Awake(turn[a]) ELSE turn[a]]
          /\ outcome' = {[call |-> turn[a].call, mode |-> "prompt", via |-> "deny",
                          id |-> turn[a].id] : a \in {b \in Actors : stopped(b)}}
          /\ ending' = [i \in Ids |-> IF i \in relay THEN "expired" ELSE ending[i]]
    /\ UNCHANGED <<bridge, service, keyboards, verifying, edits, asks, wanted, tangled, granted>>

\* runtime.stop and server.close are done, or the ten-second backstop fired.
Exit ==
    /\ running = "stopping" /\ running' = "down"
    /\ turn' = [a \in Actors |-> NoTurn] /\ relay' = {} /\ keyboards' = {} /\ verifying' = {}
    /\ outcome' = {}
    /\ UNCHANGED <<bridge, service, edits, asks, history>>
-----------------------------------------------------------------------------
Next == \/ \E m \in Modes : Perms(m)
        \/ Yolo
        \/ BeginTui \/ EndTui
        \/ \E c \in Chats : BeginChat(c) \/ EndChat(c)
        \/ \E a \in Actors, k \in Calls : Resolve(a, k) \/ Ask(a, k)
        \/ \E i \in Ids, d \in Decisions : Post(i, d) \/ Tap(i, d)
        \/ \E v \in verifying : Verified(v) \/ Refused(v)
        \/ \E i \in Ids : Expire(i)
        \/ Shutdown \/ Exit

Spec == Init /\ [][Next]_vars

-----------------------------------------------------------------------------
TypeOK ==
    /\ bridge \in BOOLEAN /\ mode \in Modes /\ prompter \in Prompters
    /\ sessionAllowed \subseteq Calls /\ granted \subseteq Calls
    /\ turn \in [Actors -> [pc : {"idle", "on", "ask"}, prevMode : Modes, prevPrompter : Prompters,
                            call : Calls \cup {"none"}, id : 0..MaxAsks]]
    /\ relay \subseteq Ids /\ keyboards \subseteq Ids
    /\ verifying \subseteq [id : Ids, decision : Decisions]
    /\ running \in {"up", "stopping", "down"} /\ edits \in 0..MaxEdits /\ asked \in 0..MaxAsks
    /\ by \in [Ids -> Actors] /\ wanted \in Modes /\ tangled \in BOOLEAN
    /\ ending \in [Ids -> Decisions \cup {"none", "expired"}]
    /\ outcome \subseteq
          [call : Calls, mode : Modes, id : 0..MaxAsks,
           via : {"yolo", "allow", "session-allow", "once", "deny", "strict-deny"}]

\* A turn waits exactly for an approval that is pending under its own id, in
\* one place: no answer, sweep, timeout or shutdown, in whatever order they
\* race, leaves a turn waiting for an approval nobody can answer any more or
\* an approval that wakes nobody.
WaitsForPending ==
    /\ \A a \in Actors : turn[a].pc = "ask" => turn[a].id \in relay \cup keyboards
    /\ \A i \in relay \cup keyboards : turn[by[i]].pc = "ask" /\ turn[by[i]].id = i
    /\ relay \cap keyboards = {}

\* A risky call that ran in prompt mode ran because somebody said so: this very
\* approval was answered with allow before it expired, or its class was allowed
\* for the session by an answer that took effect.
RunsWithConsent ==
    /\ sessionAllowed \subseteq granted
    /\ \A o \in outcome :
        (o.call \in Risky /\ o.mode = "prompt") =>
            \/ o.via = "deny"
            \/ o.via = "once" /\ ending[o.id] = "allow"
            \/ o.via = "session-allow" /\ o.call \in granted

\* When no Telegram turn is in progress the service is in the mode the operator
\* chose last, however turns of the chats and the TUI followed and overlapped,
\* unless the mode was changed under a turn: by a command, or by the turn of
\* another chat where keyboards are off (the finally block of the dispatcher).
ModeKept == ~InTelegramTurn /\ running # "down" /\ ~tangled => mode = wanted

=============================================================================
