----------------------------- MODULE AutoTopup -----------------------------
(***************************************************************************)
(* The manager that lets the agent pay its own compute bills               *)
(* (core/src/economy/auto-topup.ts), as the gateway wires it               *)
(* (gateway/src/build-runtime.ts): a pass of tick() reads the wallet and   *)
(* the provider's envelope and, when the envelope is low, deposits into    *)
(* the ledger and moves the deposit on to the provider.                    *)
(*                                                                         *)
(* Nothing keeps two passes apart: the first tick of start(), the timer    *)
(* and POST /admin/autotopup/tick all call tick(), which awaits a node or  *)
(* the broker at every step.  What a node answers and the continuation     *)
(* that uses the answer are two steps.  An envelope stands for its         *)
(* available part, the pending refund taken off.                           *)
(*                                                                         *)
(* Whatever the manager sends is paid for, gas and all, from the wallet    *)
(* whose balance it checks.  A transaction whose caller gave up waiting,   *)
(* or died, is mined later, or never.                                      *)
(***************************************************************************)
EXTENDS Integers, FiniteSets

CONSTANTS
    Passes,                                 \* calls of tick() that may be under way together
    TopUp, Reserve, LowThreshold, Notify,   \* topUpAmount, minRetainedAfterTopup, ...
    MaxPerDay, DayLength,
    InitBackoff, WalletBackoff,             \* the two cool-downs
    None,
    Gas,                                    \* bound: what a transaction costs
    MaxLate,                                \* bound: transactions nobody waits for
    MaxNow,                                 \* bound: the clock
    MaxMoney                                \* bound: money in the system

ASSUME TopupAssumption ==
    /\ IsFiniteSet(Passes) /\ Passes # {}
    /\ TopUp \in Nat /\ Reserve \in Nat /\ LowThreshold \in Nat /\ Notify \in Nat
    /\ MaxPerDay \in Nat \ {0} /\ DayLength \in Nat \ {0}
    /\ InitBackoff \in Nat /\ WalletBackoff \in Nat
    /\ Gas \in Nat /\ MaxLate \in Nat
    /\ MaxNow \in Nat /\ MaxMoney \in Nat
    /\ None \notin Int

VARIABLES
    wallet, ledger, envelope,   \* the agent's account, the ledger's free part, the provider's part
    late,                       \* transactions sent that nobody waits for any more, per kind
    clock,
    broker,                     \* brain.getLedger() answers
    pc, ts, seen,               \* per pass: where it is, its ts, its walletWei
    count,                      \* #counter: [day -> top-ups]
    initFailedAt, thinAt,       \* #brainInitFailedAt, #insufficientWalletFailedAt
    wasLow, stopping,           \* #lastWalletBalanceWei is below the threshold, #stopping
    event,                      \* the kind of event this step hands to onEvent, "restarted"
                                \* for a new process, or "none"
    fired,                      \* history: top-ups of this life, per day
    crossed,                    \* history: two passes were under way together, or someone
                                \* else took money from the wallet
    taken                       \* history, until then: what late transactions took since the
                                \* pass under way read the balance

money   == <<wallet, ledger, envelope>>
chain   == <<money, late>>
memory  == <<count, initFailedAt, thinAt, wasLow, stopping, fired>>
history == <<crossed, taken>>
topupVars == <<chain, clock, broker, pc, ts, seen, memory, event, history>>

Times == 0..MaxNow
Day(t) == t \div DayLength
Days == 0..MaxNow

\* The transactions of a pass: depositFund and transferFund.
Txs == {"deposit", "transfer"}

TopupInit ==
    /\ wallet \in 0..MaxMoney /\ ledger = 0 /\ envelope = 0
    /\ late = [tx \in Txs |-> 0]
    /\ clock = 0 /\ broker = FALSE
    /\ pc = [p \in Passes |-> "idle"] /\ ts = [p \in Passes |-> 0] /\ seen = [p \in Passes |-> 0]
    /\ count = [d \in Days |-> 0] /\ initFailedAt = None /\ thinAt = None
    /\ wasLow = FALSE /\ stopping = FALSE /\ event = "none"
    /\ fired = [d \in Days |-> 0]
    /\ crossed = FALSE /\ taken = 0

Quiet == event' = "none"
Go(p, there) == pc' = [pc EXCEPT ![p] = there] /\ Quiet /\ UNCHANGED ts

\* A pass ends, with an event of this kind or "none"; its locals are gone.
End(p, kind) ==
    /\ pc' = [pc EXCEPT ![p] = "idle"] /\ event' = kind
    /\ ts' = [ts EXCEPT ![p] = 0] /\ seen' = [seen EXCEPT ![p] = 0]
-----------------------------------------------------------------------------
(* Transactions, at the price of their gas.                                *)

Deposit(gas)  == wallet >= TopUp + gas /\ wallet' = wallet - TopUp - gas /\ ledger' = ledger + TopUp
                 /\ UNCHANGED envelope
Transfer(gas) == wallet >= gas /\ wallet' = wallet - gas
                 /\ ledger >= TopUp /\ ledger' = ledger - TopUp /\ envelope' = envelope + TopUp

Mined(tx) == \E gas \in 0..Gas :
    \/ tx = "deposit" /\ Deposit(gas)
    \/ tx = "transfer" /\ Transfer(gas)

\* Gas and nothing else: the acknowledgement, or a transaction that reverts; for
\* no gas, one that was never sent or is dropped.
GasOnly == \E gas \in 0..Gas : wallet >= gas /\ wallet' = wallet - gas /\ UNCHANGED <<ledger, envelope>>

\* Those that were sent and are left to the chain.
Leave(sent) == LET n(tx) == Cardinality({p \in sent : pc[p] = tx}) IN
               /\ late' = [late EXCEPT !["deposit"] = @ + n("deposit"), !["transfer"] = @ + n("transfer")]
               /\ late'["deposit"] + late'["transfer"] <= MaxLate /\ UNCHANGED money

\* Where a pass goes by a balance that it has read.
Counting == {"answered", "providers", "low", "deposit"}

\* One that nobody waits for is mined, reverts or is dropped.
LateLands == \E tx \in Txs :
    /\ late[tx] > 0 /\ late' = [late EXCEPT ![tx] = @ - 1]
    /\ Mined(tx) \/ GasOnly
    /\ taken' = (IF crossed \/ \A p \in Passes : pc[p] \notin Counting THEN 0
                 ELSE taken + (wallet - wallet'))
    /\ Quiet
    /\ UNCHANGED <<clock, broker, pc, ts, seen, memory, crossed>>
-----------------------------------------------------------------------------
(* A pass of tick().                                                       *)

Start(p, there) == /\ pc' = [pc EXCEPT ![p] = there] /\ ts' = [ts EXCEPT ![p] = clock]
                   /\ Quiet /\ UNCHANGED seen

Begin(p) ==
    /\ ~stopping /\ pc[p] = "idle"
    /\ crossed' = (crossed \/ \E q \in Passes : pc[q] # "idle")
    /\ \/ broker /\ initFailedAt' = None /\ Start(p, "balance")
       \/ /\ ~broker /\ UNCHANGED initFailedAt
          /\ IF initFailedAt = None \/ clock - initFailedAt >= InitBackoff
             THEN Start(p, "init") ELSE End(p, "skipped")
    /\ UNCHANGED <<chain, clock, broker, count, thinAt, wasLow, stopping, fired, taken>>

\* brain.init() sets the broker before its last calls, which may still throw; it
\* pays to acknowledge the provider's signer.  (What an acknowledgement costs that
\* is mined only later is among the things that others spend.)
InitReturns(p) ==
    /\ pc[p] = "init"
    /\ GasOnly
    /\ \/ broker' = TRUE /\ initFailedAt' = None /\ Go(p, "balance") /\ UNCHANGED seen
       \/ (UNCHANGED broker \/ broker' = TRUE) /\ initFailedAt' = ts[p] /\ End(p, "skipped")
    /\ UNCHANGED <<late, clock, count, thinAt, wasLow, stopping, fired, history>>

\* getBalance: the node answers, or the call throws.
BalanceRead(p) ==
    /\ pc[p] = "balance"
    /\ \/ seen' = [seen EXCEPT ![p] = wallet] /\ taken' = 0 /\ Go(p, "answered")
       \/ End(p, "skipped") /\ UNCHANGED taken
    /\ UNCHANGED <<chain, clock, broker, memory, crossed>>

FallsLow(p) == seen[p] < Notify /\ ~wasLow

\* #maybeEmitWalletLow: one event for each time the wallet is seen to fall below.
BalanceUsed(p) ==
    /\ pc[p] = "answered" /\ pc' = [pc EXCEPT ![p] = "providers"]
    /\ event' = (IF FallsLow(p) THEN "wallet-low" ELSE "none")
    /\ wasLow' = ~(seen[p] >= Notify)
    /\ UNCHANGED <<chain, clock, broker, ts, seen, count, initFailedAt, thinAt, stopping,
                   fired, history>>

\* getProvidersWithBalance: throws, finds the envelope full enough, or low.
ProvidersRead(p) ==
    /\ pc[p] = "providers"
    /\ \/ End(p, "skipped")
       \/ envelope >= LowThreshold /\ End(p, "none")
       \/ envelope < LowThreshold /\ Go(p, "low") /\ UNCHANGED seen
    /\ UNCHANGED <<chain, clock, broker, memory, history>>

CapReached(p) == count[Day(ts[p])] >= MaxPerDay

\* Mutant: the deposit must fit, not what should be left after it.
Thin_NoReserve(p) == seen[p] < TopUp

Thin(p) == seen[p] < TopUp + Reserve

\* The cap, then the wallet as it was read; a thin wallet is reported once per
\* cool-down, reckoned between the starts of the passes.
Decide(p) ==
    /\ pc[p] = "low"
    /\ \/ CapReached(p) /\ End(p, "failed") /\ UNCHANGED thinAt
       \/ /\ ~CapReached(p) /\ Thin(p)
          /\ IF thinAt # None /\ ts[p] - thinAt < WalletBackoff
             THEN End(p, "none") /\ UNCHANGED thinAt
             ELSE End(p, "failed") /\ thinAt' = ts[p]
       \/ /\ ~CapReached(p) /\ ~Thin(p) /\ thinAt' = None
          /\ Go(p, "deposit") /\ seen' = [seen EXCEPT ![p] = 0]
    /\ UNCHANGED <<chain, clock, broker, count, initFailedAt, wasLow, stopping, fired,
                   history>>

DepositDone(p) ==
    /\ pc[p] = "deposit" /\ Mined("deposit") /\ Go(p, "transfer")
    /\ UNCHANGED <<late, clock, broker, seen, memory, history>>

\* Mutant: the top-up is not counted.
TransferDone_Uncounted(p) ==
    /\ pc[p] = "transfer" /\ Mined("transfer") /\ End(p, "fired")
    /\ fired' = [fired EXCEPT ![Day(ts[p])] = @ + 1]
    /\ UNCHANGED <<late, clock, broker, count, initFailedAt, thinAt, wasLow, stopping,
                   history>>

\* Both calls returned: the top-up counts for the day the pass began on.
TransferDone(p) ==
    /\ pc[p] = "transfer" /\ Mined("transfer") /\ End(p, "fired")
    /\ count' = [count EXCEPT ![Day(ts[p])] = @ + 1]
    /\ fired' = [fired EXCEPT ![Day(ts[p])] = @ + 1]
    /\ UNCHANGED <<late, clock, broker, initFailedAt, thinAt, wasLow, stopping, history>>

\* The call throws: nothing was sent, the transaction reverted, it was mined all
\* the same, or it is still to be.
Throws(p) == /\ pc[p] \in {"deposit", "transfer"}
             /\ \/ (Mined(pc[p]) \/ GasOnly) /\ UNCHANGED late
                \/ Leave({p})

\* Mutant: a failed transaction is not reported.
TxFails_Silent(p) ==
    /\ Throws(p) /\ End(p, "none")
    /\ UNCHANGED <<clock, broker, memory, history>>

\* depositFund or transferFund throws, whatever became of its transaction.  The
\* other one is neither undone nor tried again, and nothing is counted.
TxFails(p) ==
    /\ Throws(p) /\ End(p, "failed")
    /\ UNCHANGED <<clock, broker, memory, history>>
-----------------------------------------------------------------------------
\* stop(): passes under way go on.
Stop == /\ ~stopping /\ stopping' = TRUE /\ Quiet
        /\ UNCHANGED <<chain, clock, broker, pc, ts, seen, count, initFailedAt, thinAt,
                       wasLow, fired, history>>

\* The process ends and a new one builds a new manager.  The transactions under
\* way, those of them that were sent, are left to the chain.
Restart ==
    /\ \E sent \in SUBSET {p \in Passes : pc[p] \in {"deposit", "transfer"}} : Leave(sent)
    /\ broker' = FALSE /\ pc' = [p \in Passes |-> "idle"]
    /\ ts' = [p \in Passes |-> 0] /\ seen' = [p \in Passes |-> 0]
    /\ count' = [d \in Days |-> 0] /\ fired' = [d \in Days |-> 0]
    /\ initFailedAt' = None /\ thinAt' = None /\ wasLow' = FALSE /\ stopping' = FALSE
    /\ event' = "restarted" /\ UNCHANGED <<clock, history>>

\* The rest of the world: a chat turn wakes the brain, inference uses up the
\* envelope, the wallet is filled, or spent from by other tools, time passes.
World ==
    /\ \/ broker' = TRUE /\ UNCHANGED <<money, clock, crossed>>
       \/ envelope > 0 /\ envelope' = envelope - 1 /\ UNCHANGED <<wallet, ledger, broker, clock, crossed>>
       \/ /\ wallet + ledger + envelope < MaxMoney /\ wallet' = wallet + 1
          /\ UNCHANGED <<ledger, envelope, broker, clock, crossed>>
       \/ wallet > 0 /\ wallet' = wallet - 1 /\ crossed' = TRUE /\ UNCHANGED <<ledger, envelope, broker, clock>>
       \/ clock < MaxNow /\ clock' = clock + 1 /\ UNCHANGED <<money, broker, crossed>>
    /\ Quiet
    /\ UNCHANGED <<late, pc, ts, seen, memory, taken>>
-----------------------------------------------------------------------------
Answer(p) == \/ InitReturns(p) \/ BalanceRead(p) \/ BalanceUsed(p) \/ ProvidersRead(p) \/ Decide(p)
             \/ DepositDone(p) \/ TransferDone(p) \/ TxFails(p)

TopupNext == Stop \/ Restart \/ World \/ LateLands \/ \E p \in Passes : Begin(p) \/ Answer(p)

TopupSpec == TopupInit /\ [][TopupNext]_topupVars

\* The timer goes on calling, and of the calls of the passes under way some
\* returns or throws.
TopupFairSpec == TopupSpec /\ WF_topupVars(\E p \in Passes : Begin(p) \/ Answer(p))
-----------------------------------------------------------------------------
(* Properties.                                                             *)

Active(p) == pc[p] # "idle"
Stages == {"idle", "init", "balance", "answered", "providers", "low", "deposit", "transfer"}

FlagsOK ==
    /\ broker \in BOOLEAN /\ wasLow \in BOOLEAN /\ stopping \in BOOLEAN
    /\ crossed \in BOOLEAN

\* Type invariant: money is nowhere negative, and the counter of a manager says
\* what it fired.
TopupTypeOK ==
    /\ FlagsOK
    /\ wallet \in Nat /\ ledger \in Nat /\ envelope \in Nat
    /\ late \in [Txs -> Nat] /\ taken \in Nat
    /\ clock \in Times
    /\ pc \in [Passes -> Stages] /\ ts \in [Passes -> Times] /\ seen \in [Passes -> Nat]
    /\ count \in [Days -> Nat] /\ fired \in [Days -> Nat] /\ count = fired
    /\ initFailedAt \in Times \cup {None} /\ thinAt \in Times \cup {None}
    /\ event \in {"none", "skipped", "failed", "fired", "wallet-low", "restarted"}

\* However passes overlap and fail, a life of the gateway tops up on one day at
\* most as often as maxPerDay allows and once more for every further pass that
\* may be under way: the cap is read long before it is counted (tick).
CapOvershoot == \A d \in Days : fired[d] <= MaxPerDay + Cardinality(Passes) - 1

\* A deposit that a pass waits for leaves in the wallet what minRetainedAfterTopup
\* promises, but for two things nobody reckons with: the deposit's own gas, and
\* what transactions of earlier passes, given up as failed or cut off by a crash,
\* took since the balance was read.  So it is however often deposits and transfers
\* fail, as long as passes do not overlap and nobody else spends (tick, walletWei).
ReserveKept ==
    [][~crossed /\ ledger' > ledger /\ UNCHANGED late
         => wallet' + Gas + taken >= Reserve]_topupVars

\* A low envelope is filled, or the operator hears why not: a pass skipped, a
\* cap, a wallet that was reported thin and still is, a failed transaction; or the
\* gateway restarts, and begins again.
RefillOrTold ==
    envelope < LowThreshold ~>
        \/ envelope >= LowThreshold \/ stopping
        \/ event \in {"skipped", "failed", "fired", "restarted"} \/ thinAt # None
=============================================================================
