---------------------------- MODULE PromusMarket ----------------------------
(***************************************************************************)
(* The job escrow contract (contracts/src/PromusMarket.sol).  A transaction*)
(* is one step: every entry point is nonReentrant and a failed native      *)
(* transfer reverts the whole call, so a payee can only make the step      *)
(* impossible, never interleave with it.  A job's id is its position in    *)
(* `jobs` minus one.  A split proposal's hash stands for the buyer's share,*)
(* since the provider's is the rest of the amount; NoHash is bytes32(0).   *)
(***************************************************************************)
EXTENDS Integers, Sequences, FiniteSetsExt

CONSTANTS
    Accounts,               \* externally owned accounts and contracts
    feeRecipient,
    PROTOCOL_FEE_BPS, BPS_DENOMINATOR,
    ACCEPTANCE_PERIOD, MAX_JOB_LIFETIME, MIN_JOB_AMOUNT,
    Amounts,                \* bound: values sent with createJob
    Shares,                 \* bound: buyer's shares proposed
    MaxJobs,                \* bound: jobs created
    MaxTime                 \* bound: block.timestamp

ASSUME MarketAssumption ==
    /\ feeRecipient \in Accounts
    /\ Amounts \subseteq Nat /\ Shares \subseteq Nat
    /\ PROTOCOL_FEE_BPS \in Nat /\ BPS_DENOMINATOR \in Nat \ {0}
    /\ PROTOCOL_FEE_BPS <= BPS_DENOMINATOR
    /\ MIN_JOB_AMOUNT \in Nat \ {0}
    /\ ACCEPTANCE_PERIOD \in Nat /\ MAX_JOB_LIFETIME \in Nat
    /\ MaxTime \in Nat /\ MaxJobs \in Nat

NoHash == -1

VARIABLES
    jobs,                   \* Seq of Job, the _jobs mapping below jobCount
    splitProposals,         \* Seq of [buyer, provider -> hash]
    paid,                   \* Seq of what left the contract for each job
    balance,                \* the contract's native balance
    rejecting,              \* accounts whose receive() reverts right now
    now                     \* block.timestamp

vars == <<jobs, splitProposals, paid, balance, rejecting, now>>

Nothing == [buyer |-> 0, provider |-> 0, fee |-> 0]

Init == /\ jobs = <<>> /\ splitProposals = <<>> /\ paid = <<>>
        /\ balance = 0 /\ rejecting \in SUBSET Accounts /\ now = 0

-----------------------------------------------------------------------------
createJob(caller, provider, value) ==
    /\ Len(jobs) < MaxJobs
    /\ provider # caller /\ value >= MIN_JOB_AMOUNT
    /\ jobs' = Append(jobs, [buyer |-> caller, provider |-> provider, amount |-> value,
                             status |-> "Funded", createdAt |-> now, doneAt |-> 0])
    /\ splitProposals' = Append(splitProposals, [buyer |-> NoHash, provider |-> NoHash])
    /\ paid' = Append(paid, Nothing)
    /\ balance' = balance + value
    /\ UNCHANGED <<rejecting, now>>

JobIds == 1..Len(jobs)

markDone(caller, id) ==
    /\ caller = jobs[id].provider /\ jobs[id].status = "Funded"
    /\ jobs' = [jobs EXCEPT ![id].status = "Done", ![id].doneAt = now]
    /\ UNCHANGED <<splitProposals, paid, balance, rejecting, now>>

Fee(amount) == (amount * PROTOCOL_FEE_BPS) \div BPS_DENOMINATOR

\* Who is called with value: the fee always, a party only when it gets a payout.
Payees(id, parts) == {a \in Accounts :
    \/ a = feeRecipient /\ parts.fee > 0
    \/ a = jobs[id].buyer /\ parts.buyer > 0
    \/ a = jobs[id].provider /\ parts.provider > 0}

\* Mutant: the status is not flipped to Settled.
Release_Unsettled(id, parts) ==
    /\ Payees(id, parts) \cap rejecting = {}
    /\ paid' = [paid EXCEPT ![id] = parts]
    /\ balance' = balance - (parts.buyer + parts.provider + parts.fee)
    /\ UNCHANGED <<jobs, rejecting, now>>

\* Status flips to Settled, then every transfer succeeds or all of it reverts.
Release(id, parts) ==
    /\ Payees(id, parts) \cap rejecting = {}
    /\ jobs' = [jobs EXCEPT ![id].status = "Settled"]
    /\ paid' = [paid EXCEPT ![id] = parts]
    /\ balance' = balance - (parts.buyer + parts.provider + parts.fee)
    /\ UNCHANGED <<rejecting, now>>

\* Mutant: the provider gets the whole amount and the fee comes on top.
ToProvider_FeeOnTop(amount) == [buyer |-> 0, provider |-> amount, fee |-> Fee(amount)]

ToProvider(amount) == [buyer |-> 0, provider |-> amount - Fee(amount), fee |-> Fee(amount)]

ToBuyer(amount) == [buyer |-> amount, provider |-> 0, fee |-> 0]

\* Pro-rata after the fee; the provider absorbs the rounding dust.
Split(amount, share) ==
    LET distributable == amount - Fee(amount)
        buyerPayout == (distributable * share) \div amount
    IN  [buyer |-> buyerPayout, provider |-> distributable - buyerPayout, fee |-> Fee(amount)]

acceptResult(caller, id) ==
    /\ caller = jobs[id].buyer /\ jobs[id].status = "Done"
    /\ Release(id, ToProvider(jobs[id].amount))
    /\ UNCHANGED splitProposals

AcceptanceOver(id) == now >= jobs[id].doneAt + ACCEPTANCE_PERIOD

\* Mutant: the buyer may dispute at any time.
dispute_AnyTime(caller, id) ==
    /\ caller = jobs[id].buyer /\ jobs[id].status = "Done"
    /\ jobs' = [jobs EXCEPT ![id].status = "Disputed"]
    /\ UNCHANGED <<splitProposals, paid, balance, rejecting, now>>

dispute(caller, id) ==
    /\ caller = jobs[id].buyer /\ jobs[id].status = "Done"
    /\ ~AcceptanceOver(id)
    /\ jobs' = [jobs EXCEPT ![id].status = "Disputed"]
    /\ UNCHANGED <<splitProposals, paid, balance, rejecting, now>>

\* Anyone may call it.
claimTimeout(id) ==
    /\ jobs[id].status = "Done" /\ AcceptanceOver(id)
    /\ Release(id, ToProvider(jobs[id].amount))
    /\ UNCHANGED splitProposals

\* Mutant: the caller's own earlier proposal is looked up instead.
Agreed_Own(id, other, share) ==
    splitProposals[id][IF other = "buyer" THEN "provider" ELSE "buyer"] = share

Agreed(id, other, share) == splitProposals[id][other] = share

\* One party (its role names its slot of the mapping) posts a split of the
\* amount; last write wins, a match settles.
proposeSplit(role, id, share) ==
    LET other == IF role = "buyer" THEN "provider" ELSE "buyer"
    IN  /\ jobs[id].status = "Disputed"
        /\ share <= jobs[id].amount         \* the rest is the provider's
        /\ splitProposals' = [splitProposals EXCEPT ![id][role] = share]
        /\ IF Agreed(id, other, share)
             THEN Release(id, Split(jobs[id].amount, share))
             ELSE UNCHANGED <<jobs, paid, balance, rejecting, now>>

\* Mutant: a disputed job past its lifetime is settled to the provider.
forceClose_ToProvider(id) ==
    /\ jobs[id].status # "Settled"
    /\ now >= jobs[id].createdAt + MAX_JOB_LIFETIME
    /\ Release(id, IF jobs[id].status = "Funded" THEN ToBuyer(jobs[id].amount)
                                                 ELSE ToProvider(jobs[id].amount))
    /\ UNCHANGED splitProposals

\* Anyone may call it once the job outlived MAX_JOB_LIFETIME.
forceClose(id) ==
    /\ jobs[id].status # "Settled"
    /\ now >= jobs[id].createdAt + MAX_JOB_LIFETIME
    /\ Release(id, IF jobs[id].status = "Done" THEN ToProvider(jobs[id].amount)
                                               ELSE ToBuyer(jobs[id].amount))
    /\ UNCHANGED splitProposals

\* Outside the contract: blocks are mined, a payee contract changes its mind.
Tick == /\ now < MaxTime /\ now' = now + 1
        /\ UNCHANGED <<jobs, splitProposals, paid, balance, rejecting>>

SetRejecting == /\ rejecting' \in SUBSET Accounts
                /\ UNCHANGED <<jobs, splitProposals, paid, balance, now>>

Next == \/ \E caller, provider \in Accounts, value \in Amounts :
              createJob(caller, provider, value)
        \/ \E caller \in Accounts, id \in JobIds :
              markDone(caller, id) \/ acceptResult(caller, id) \/ dispute(caller, id)
        \/ \E id \in JobIds : claimTimeout(id) \/ forceClose(id)
        \/ \E role \in {"buyer", "provider"}, id \in JobIds, share \in Shares :
              proposeSplit(role, id, share)
        \/ Tick \/ SetRejecting

Spec == Init /\ [][Next]_vars
-----------------------------------------------------------------------------
(* Properties.                                                             *)

Statuses == {"Funded", "Done", "Disputed", "Settled"}
JobType == [buyer : Accounts, provider : Accounts, amount : Nat \ {0},
            status : Statuses, createdAt : Nat, doneAt : Nat]
Hashes == Nat \cup {NoHash}
ProposalType == [buyer : Hashes, provider : Hashes]

TypeOK == /\ jobs \in Seq(JobType)
          /\ splitProposals \in Seq(ProposalType)
          /\ paid \in Seq([buyer : Nat, provider : Nat, fee : Nat])
          /\ Len(splitProposals) = Len(jobs) /\ Len(paid) = Len(jobs)
          /\ balance \in Int /\ now \in Nat /\ rejecting \subseteq Accounts

\* The contract holds exactly what the unsettled jobs locked.
Solvent == balance = MapThenSumSet(LAMBDA id : jobs[id].amount,
                                   {id \in JobIds : jobs[id].status # "Settled"})

\* A split on record never exceeds the job, and both parties agreeing settles:
\* no disputed job is left with two matching proposals.  (proposeSplit)
NoUnsettledAgreement == \A id \in JobIds :
    /\ \A role \in {"buyer", "provider"} : splitProposals[id][role] <= jobs[id].amount
    /\ jobs[id].status = "Disputed" =>
          \/ splitProposals[id].buyer # splitProposals[id].provider
          \/ splitProposals[id].buyer = NoHash

\* Once a job is disputed the provider is paid only what the buyer signed for:
\* its own last proposal, or nothing.  (dispute, proposeSplit, forceClose)
DisputePaysByConsent == [][\A id \in JobIds :
    jobs[id].status = "Disputed" /\ paid'[id].provider > 0 =>
        /\ splitProposals'[id].buyer = splitProposals'[id].provider
        /\ paid'[id] = Split(jobs[id].amount, splitProposals'[id].buyer)]_vars

\* A delivered job whose buyer let the acceptance window pass.
Silent(id) == id \in JobIds /\ jobs[id].status = "Done" /\ AcceptanceOver(id)

ProvidersOnly(id) == id \in JobIds => paid[id] \in {Nothing, ToProvider(jobs[id].amount)}

\* Silence is acceptance: once the window of a delivered job has passed, whatever
\* anybody calls from then on, and whichever payee rejects for a while, its money
\* stays where it is or goes to the provider, less the fee.  The buyer's silence
\* can be turned into neither a dispute nor a refund.  (dispute, claimTimeout,
\* forceClose)
SilenceIsAcceptance == \A id \in 1..MaxJobs :
    [](Silent(id) => []ProvidersOnly(id))

\* The market is an escrow: deals keep their terms, close once, pay in full.
Deals == [id \in JobIds |->
    [terms |-> [buyer |-> jobs[id].buyer, provider |-> jobs[id].provider,
                amount |-> jobs[id].amount],
     open  |-> jobs[id].status # "Settled",
     parts |-> paid[id]]]
Promise == INSTANCE Escrow WITH deals <- Deals
ImplementsEscrow == Promise!Spec
=============================================================================
