--------------------------- MODULE PaymentProofs ---------------------------
(***************************************************************************)
(* Proofs about the two places where money moves.  PromusMarket: for any   *)
(* accounts, amounts, fee, periods and bounds that satisfy                 *)
(* MarketAssumption, the escrow implements Escrow and stays solvent.       *)
(* AutoTopup: for any number of overlapping passes, amounts and restarts,  *)
(* how far the daily cap can be overshot, and what a deposit leaves in the *)
(* wallet.                                                                 *)
(***************************************************************************)
EXTENDS PromusMarket, AutoTopup, FiniteSetTheorems, TLAPS

(* The invariant behind the refinement.                                    *)

Total(parts) == parts.buyer + parts.provider + parts.fee

\* Each job is paid out exactly once and to the last wei: nothing before it is
\* settled, the whole amount when it is, on every path and for every split.
\* (the Custody note of PromusMarket.sol and its CEI comment)
PaidOnce == \A id \in JobIds :
    IF jobs[id].status = "Settled" THEN Total(paid[id]) = jobs[id].amount
                                   ELSE paid[id] = Nothing
-----------------------------------------------------------------------------
\* Integer division never returns more than the factor it scales down.
LEMMA DivBound ==
    ASSUME NEW a \in Nat, NEW b \in Nat, NEW c \in Nat \ {0}, b <= c
    PROVE  (a * b) \div c \in 0..a
<1> DEFINE q == (a * b) \div c
           m == a * b
<1>1. m \in Nat /\ m <= a * c
    OBVIOUS
<1>2. q \in Nat /\ c * q <= m
    BY <1>1
<1>3. ASSUME q > a PROVE FALSE
    <2>1. q >= a + 1
        BY <1>2, <1>3
    <2>2. c * q >= c * (a + 1)
        BY <1>2, <2>1
    <2>3. c * (a + 1) = a * c + c
        OBVIOUS
    <2> QED BY <1>1, <1>2, <2>2, <2>3
<1> QED BY <1>2, <1>3

LEMMA FeeBound == ASSUME NEW amount \in Nat PROVE Fee(amount) \in 0..amount
BY DivBound, MarketAssumption DEF Fee

PartsType == [buyer : Nat, provider : Nat, fee : Nat]

\* Every way to release a job distributes exactly its amount.
LEMMA ToProviderTotal ==
    ASSUME NEW amount \in Nat
    PROVE  ToProvider(amount) \in PartsType /\ Total(ToProvider(amount)) = amount
BY FeeBound DEF ToProvider, Total, PartsType

LEMMA ToBuyerTotal ==
    ASSUME NEW amount \in Nat
    PROVE  ToBuyer(amount) \in PartsType /\ Total(ToBuyer(amount)) = amount
BY DEF ToBuyer, Total, PartsType

LEMMA SplitTotal ==
    ASSUME NEW amount \in Nat \ {0}, NEW share \in Nat, share <= amount
    PROVE  Split(amount, share) \in PartsType /\ Total(Split(amount, share)) = amount
<1> DEFINE d == amount - Fee(amount)
           b == (d * share) \div amount
<1>1. Fee(amount) \in 0..amount
    BY FeeBound
<1>2. d \in Nat
    BY <1>1
<1>3. b \in 0..d
    BY <1>2, DivBound
<1>4. Split(amount, share) = [buyer |-> b, provider |-> d - b, fee |-> Fee(amount)]
    BY DEF Split
<1> HIDE DEF b
<1> QED BY <1>1, <1>3, <1>4 DEF Total, PartsType
-----------------------------------------------------------------------------
LEMMA InitInv == Init => TypeOK /\ PaidOnce
BY MarketAssumption DEF Init, TypeOK, PaidOnce, JobIds

\* What releasing one job does to the invariant and to the abstract deals.
LEMMA ReleaseInv ==
    ASSUME TypeOK, PaidOnce, NEW id \in JobIds, NEW parts \in PartsType,
           jobs[id].status # "Settled", Total(parts) = jobs[id].amount, Release(id, parts),
           splitProposals' \in Seq(ProposalType),
           Len(splitProposals') = Len(splitProposals)
    PROVE  TypeOK' /\ PaidOnce'
<1>1. /\ id \in 1..Len(jobs) /\ Len(jobs) \in Nat /\ Len(paid) = Len(jobs)
      /\ jobs[id] \in JobType
    BY DEF TypeOK, JobIds
<1>2. [jobs[id] EXCEPT !.status = "Settled"] \in JobType
    BY <1>1 DEF JobType, Statuses
<1>3. /\ jobs' \in Seq(JobType) /\ Len(jobs') = Len(jobs)
      /\ \A i \in 1..Len(jobs) : jobs'[i] = IF i = id THEN [jobs[id] EXCEPT !.status = "Settled"]
                                                      ELSE jobs[i]
    BY <1>1, <1>2 DEF Release, TypeOK
<1>4. /\ paid' \in Seq(PartsType) /\ Len(paid') = Len(paid)
      /\ \A i \in 1..Len(jobs) : paid'[i] = IF i = id THEN parts ELSE paid[i]
    <2>1. paid \in Seq(PartsType)
        BY DEF TypeOK, PartsType
    <2> QED BY <1>1, <2>1 DEF Release
<1>5. balance' \in Int
    BY DEF Release, TypeOK, PartsType
<1>6. TypeOK'
    BY <1>3, <1>4, <1>5 DEF TypeOK, Release, PartsType
<1>7. ASSUME NEW i \in 1..Len(jobs)
      PROVE  IF jobs'[i].status = "Settled" THEN Total(paid'[i]) = jobs'[i].amount
                                            ELSE paid'[i] = Nothing
    <2>1. CASE i = id
        BY <1>1, <1>3, <1>4, <2>1 DEF JobType
    <2>2. CASE i # id
        BY <1>3, <1>4, <2>2 DEF PaidOnce, JobIds
    <2> QED BY <2>1, <2>2
<1> QED BY <1>3, <1>6, <1>7 DEF PaidOnce, JobIds

\* A step that only moves a job between two unsettled statuses.
LEMMA MarkInv ==
    ASSUME TypeOK, PaidOnce, NEW id \in JobIds, jobs[id].status # "Settled",
           NEW j \in JobType, j.status # "Settled", jobs' = [jobs EXCEPT ![id] = j],
           UNCHANGED <<splitProposals, paid, balance, rejecting, now>>
    PROVE  TypeOK' /\ PaidOnce'
<1>1. /\ id \in 1..Len(jobs) /\ Len(jobs') = Len(jobs) /\ jobs' \in Seq(JobType)
      /\ \A i \in 1..Len(jobs) : jobs'[i] = IF i = id THEN j ELSE jobs[i]
    BY DEF TypeOK, JobIds
<1> QED BY <1>1 DEF TypeOK, PaidOnce, JobIds

LEMMA StepInv == TypeOK /\ PaidOnce /\ [Next]_vars => TypeOK' /\ PaidOnce'
<1> SUFFICES ASSUME TypeOK, PaidOnce, [Next]_vars PROVE TypeOK' /\ PaidOnce'
    OBVIOUS
<1>j. \A id \in JobIds : /\ jobs[id] \in JobType /\ jobs[id].amount \in Nat \ {0}
                         /\ id \in 1..Len(splitProposals)
                         /\ splitProposals[id] \in ProposalType
    <2>0. /\ jobs \in Seq(JobType) /\ splitProposals \in Seq(ProposalType)
          /\ Len(splitProposals) = Len(jobs)
        BY DEF TypeOK
    <2>1. \A id \in JobIds : jobs[id] \in JobType
        BY <2>0 DEF JobIds
    <2>2. \A id \in JobIds : id \in 1..Len(splitProposals)
        BY <2>0 DEF JobIds
    <2>3. \A id \in 1..Len(splitProposals) : splitProposals[id] \in ProposalType
        BY <2>0
    <2> QED BY <2>1, <2>2, <2>3 DEF JobType
<1>1. ASSUME NEW caller \in Accounts, NEW provider \in Accounts, NEW value \in Amounts,
             createJob(caller, provider, value)
      PROVE  TypeOK' /\ PaidOnce'
    <2> DEFINE job == [buyer |-> caller, provider |-> provider, amount |-> value,
                       status |-> "Funded", createdAt |-> now, doneAt |-> 0]
               none == [buyer |-> NoHash, provider |-> NoHash]
    <2>1. job \in JobType /\ job.status = "Funded"
        BY <1>1, MarketAssumption DEF createJob, JobType, Statuses, TypeOK
    <2>2. none \in ProposalType /\ Nothing \in PartsType
        BY DEF ProposalType, Hashes, PartsType, Nothing
    <2> HIDE DEF job, none
    <2>3. /\ jobs' = Append(jobs, job) /\ splitProposals' = Append(splitProposals, none)
          /\ paid' = Append(paid, Nothing) /\ UNCHANGED <<rejecting, now>>
          /\ balance' = balance + value
        BY <1>1 DEF createJob, job, none
    <2>4. paid \in Seq(PartsType)
        BY DEF TypeOK, PartsType
    <2>5. TypeOK'
        BY <2>1, <2>2, <2>3, <2>4, MarketAssumption DEF TypeOK, PartsType
    <2>6. /\ Len(jobs') = Len(jobs) + 1 /\ Len(jobs) \in Nat /\ Len(paid) = Len(jobs)
          /\ jobs'[Len(jobs) + 1] = job /\ paid'[Len(jobs) + 1] = Nothing
          /\ \A i \in 1..Len(jobs) : jobs'[i] = jobs[i] /\ paid'[i] = paid[i]
        BY <2>3 DEF TypeOK
    <2>7. ASSUME NEW i \in 1..Len(jobs')
          PROVE  IF jobs'[i].status = "Settled" THEN Total(paid'[i]) = jobs'[i].amount
                                                ELSE paid'[i] = Nothing
        <3>1. i = Len(jobs) + 1 \/ i \in 1..Len(jobs)
            BY <2>6
        <3> QED BY <2>1, <2>6, <3>1 DEF PaidOnce, JobIds
    <2> QED BY <2>5, <2>7 DEF PaidOnce, JobIds
<1>2. ASSUME NEW caller \in Accounts, NEW id \in JobIds, markDone(caller, id)
      PROVE  TypeOK' /\ PaidOnce'
    <2> DEFINE j == [jobs[id] EXCEPT !.status = "Done", !.doneAt = now]
    <2>1. j \in JobType /\ j.status = "Done"
        BY <1>j DEF JobType, Statuses, TypeOK
    <2>2. jobs' = [jobs EXCEPT ![id] = j]
        BY <1>2, <1>j DEF markDone, TypeOK, JobIds
    <2> HIDE DEF j
    <2> QED BY <1>2, <2>1, <2>2, MarkInv DEF markDone
<1>3. ASSUME NEW caller \in Accounts, NEW id \in JobIds, dispute(caller, id)
      PROVE  TypeOK' /\ PaidOnce'
    <2> DEFINE j == [jobs[id] EXCEPT !.status = "Disputed"]
    <2>1. j \in JobType /\ j.status = "Disputed"
        BY <1>j DEF JobType, Statuses
    <2>2. jobs' = [jobs EXCEPT ![id] = j]
        BY <1>3, <1>j DEF dispute, TypeOK, JobIds
    <2> HIDE DEF j
    <2> QED BY <1>3, <2>1, <2>2, MarkInv DEF dispute
<1>4. ASSUME NEW id \in JobIds, UNCHANGED splitProposals, jobs[id].status # "Settled",
             \/ Release(id, ToProvider(jobs[id].amount))
             \/ Release(id, ToBuyer(jobs[id].amount))
      PROVE  TypeOK' /\ PaidOnce'
    BY <1>4, <1>j, ReleaseInv, ToProviderTotal, ToBuyerTotal DEF TypeOK
<1>5. ASSUME NEW id \in JobIds,
             (\E caller \in Accounts : acceptResult(caller, id)) \/ claimTimeout(id) \/ forceClose(id)
      PROVE  TypeOK' /\ PaidOnce'
    <2>1. CASE \E caller \in Accounts : acceptResult(caller, id)
        BY <2>1, <1>4 DEF acceptResult
    <2>2. CASE claimTimeout(id)
        BY <2>2, <1>4 DEF claimTimeout
    <2>3. CASE forceClose(id)
        BY <2>3, <1>4 DEF forceClose
    <2> QED BY <1>5, <2>1, <2>2, <2>3
<1>6. ASSUME NEW role \in {"buyer", "provider"}, NEW id \in JobIds, NEW share \in Shares,
             proposeSplit(role, id, share)
      PROVE  TypeOK' /\ PaidOnce'
    <2> DEFINE other == IF role = "buyer" THEN "provider" ELSE "buyer"
               h == [splitProposals[id] EXCEPT ![role] = share]
    <2>1. share \in Nat /\ share <= jobs[id].amount /\ jobs[id].status = "Disputed"
        BY <1>6, MarketAssumption DEF proposeSplit
    <2>2. h \in ProposalType
        BY <1>j, <2>1 DEF ProposalType, Hashes
    <2>3. splitProposals' = [splitProposals EXCEPT ![id] = h]
        BY <1>6, <1>j DEF proposeSplit, TypeOK
    <2> HIDE DEF h
    <2>4. /\ splitProposals' \in Seq(ProposalType)
          /\ Len(splitProposals') = Len(splitProposals)
        BY <1>j, <2>2, <2>3 DEF TypeOK
    <2>5. CASE Release(id, Split(jobs[id].amount, share))
        BY <1>j, <2>1, <2>4, <2>5, SplitTotal, ReleaseInv
    <2>6. CASE UNCHANGED <<jobs, paid, balance, rejecting, now>>
        BY <2>4, <2>6 DEF TypeOK, PaidOnce, JobIds
    <2> QED BY <1>6, <2>5, <2>6 DEF proposeSplit
<1>7. CASE Tick \/ SetRejecting \/ UNCHANGED vars
    BY <1>7 DEF Tick, SetRejecting, vars, TypeOK, PaidOnce, JobIds
<1> QED
    BY <1>1, <1>2, <1>3, <1>5, <1>6, <1>7 DEF Next

\* The contract's variables keep their types, and every job has its two lists.
THEOREM TypeCorrect == Spec => []TypeOK
BY InitInv, StepInv, PTL DEF Spec

\* Every job is paid out at most once, and then exactly its amount.
THEOREM Conservation == Spec => []PaidOnce
BY InitInv, StepInv, PTL DEF Spec
-----------------------------------------------------------------------------
(* Splits: before a dispute nothing is on record, and in it each proposal  *)
(* that does not settle the job differs from the other party's.            *)

Hash(p, role) == IF role = "buyer" THEN p.buyer ELSE p.provider

SignedFor(j, p) ==
    /\ p.buyer <= j.amount /\ p.provider <= j.amount
    /\ j.status \in {"Funded", "Done"} => p.buyer = NoHash /\ p.provider = NoHash
    /\ j.status = "Disputed" => p.buyer # p.provider \/ p.buyer = NoHash

Signed == \A id \in JobIds : SignedFor(jobs[id], splitProposals[id])

\* The places of the three sequences.
LEMMA Places ==
    ASSUME TypeOK
    PROVE  /\ Len(jobs) \in Nat /\ Len(splitProposals) = Len(jobs) /\ Len(paid) = Len(jobs)
           /\ \A i \in 1..Len(jobs) : /\ jobs[i] \in JobType /\ splitProposals[i] \in ProposalType
                                      /\ paid[i] \in PartsType
<1>1. /\ jobs \in Seq(JobType) /\ splitProposals \in Seq(ProposalType) /\ paid \in Seq(PartsType)
      /\ Len(splitProposals) = Len(jobs) /\ Len(paid) = Len(jobs)
    BY DEF TypeOK, PartsType
<1>. HIDE DEF PartsType
<1>2. \A i \in 1..Len(jobs) : jobs[i] \in JobType
    BY <1>1
<1>3. \A i \in 1..Len(splitProposals) : splitProposals[i] \in ProposalType
    BY <1>1
<1>4. \A i \in 1..Len(paid) : paid[i] \in PartsType
    BY <1>1
<1>. QED
    BY <1>1, <1>2, <1>3, <1>4

\* What a release changes at each place.
LEMMA ReleasePlaces ==
    ASSUME TypeOK, NEW id \in JobIds, NEW parts, Release(id, parts)
    PROVE  /\ Len(jobs') = Len(jobs)
           /\ \A i \in 1..Len(jobs) :
                 /\ jobs'[i] = IF i = id THEN [jobs[id] EXCEPT !.status = "Settled"] ELSE jobs[i]
                 /\ paid'[i] = IF i = id THEN parts ELSE paid[i]
<1>1. jobs \in Seq(JobType) /\ paid \in Seq(PartsType) /\ Len(paid) = Len(jobs) /\ id \in 1..Len(jobs)
    BY DEF TypeOK, PartsType, JobIds
<1>2. jobs' = [jobs EXCEPT ![id].status = "Settled"] /\ paid' = [paid EXCEPT ![id] = parts]
    BY DEF Release
<1>3. \A i \in 1..Len(paid) : paid'[i] = IF i = id THEN parts ELSE paid[i]
    BY <1>1, <1>2
<1>4. Len(jobs') = Len(jobs)
      /\ \A i \in 1..Len(jobs) :
            jobs'[i] = IF i = id THEN [jobs[id] EXCEPT !.status = "Settled"] ELSE jobs[i]
    BY <1>1, <1>2
<1>. QED
    BY <1>1, <1>3, <1>4

\* What a proposal changes on record.
LEMMA ProposalPlaces ==
    ASSUME TypeOK, NEW role \in {"buyer", "provider"}, NEW id \in JobIds, NEW share \in Nat,
           splitProposals' = [splitProposals EXCEPT ![id][role] = share]
    PROVE  /\ \A i \in 1..Len(jobs) : i # id => splitProposals'[i] = splitProposals[i]
           /\ Hash(splitProposals'[id], role) = share
           /\ role = "buyer" => splitProposals'[id].provider = splitProposals[id].provider
           /\ role = "provider" => splitProposals'[id].buyer = splitProposals[id].buyer
<1>1. splitProposals \in Seq(ProposalType) /\ Len(splitProposals) = Len(jobs) /\ id \in 1..Len(jobs)
    BY DEF TypeOK, JobIds
<1>2. splitProposals[id] \in ProposalType
    BY <1>1
<1>3. splitProposals'[id] = [splitProposals[id] EXCEPT ![role] = share]
    BY <1>1
<1>. QED
    BY <1>1, <1>2, <1>3 DEF ProposalType, Hash

LEMMA SignedStep == TypeOK /\ Signed /\ [Next]_vars => Signed'
<1> SUFFICES ASSUME TypeOK, Signed, [Next]_vars PROVE Signed'
    OBVIOUS
<1>1. ASSUME NEW caller \in Accounts, NEW provider \in Accounts, NEW value \in Amounts,
             createJob(caller, provider, value)
      PROVE  Signed'
    <2> DEFINE job == [buyer |-> caller, provider |-> provider, amount |-> value,
                       status |-> "Funded", createdAt |-> now, doneAt |-> 0]
               none == [buyer |-> NoHash, provider |-> NoHash]
    <2>1. SignedFor(job, none)
        BY MarketAssumption DEF SignedFor, NoHash
    <2>2. jobs' = Append(jobs, job) /\ splitProposals' = Append(splitProposals, none)
        BY <1>1 DEF createJob
    <2> HIDE DEF job, none
    <2>3. /\ Len(jobs') = Len(jobs) + 1 /\ Len(jobs) \in Nat /\ jobs'[Len(jobs) + 1] = job
          /\ splitProposals'[Len(jobs) + 1] = none
          /\ \A i \in 1..Len(jobs) : jobs'[i] = jobs[i] /\ splitProposals'[i] = splitProposals[i]
        BY <2>2 DEF TypeOK
    <2>4. ASSUME NEW i \in 1..Len(jobs') PROVE SignedFor(jobs'[i], splitProposals'[i])
        <3>1. i = Len(jobs) + 1 \/ i \in 1..Len(jobs)
            BY <2>3
        <3> QED BY <2>1, <2>3, <3>1 DEF Signed, JobIds
    <2> QED BY <2>4 DEF Signed, JobIds
<1>2. ASSUME NEW caller \in Accounts, NEW id \in JobIds, markDone(caller, id) \/ dispute(caller, id)
      PROVE  Signed'
    <2>0. id \in 1..Len(jobs) /\ jobs \in Seq(JobType) /\ jobs[id] \in JobType
        BY Places DEF TypeOK, JobIds
    <2>1. PICK j \in {[jobs[id] EXCEPT !.status = "Done", !.doneAt = now],
                      [jobs[id] EXCEPT !.status = "Disputed"]} :
              jobs' = [jobs EXCEPT ![id] = j]
        BY <1>2, <2>0 DEF markDone, dispute
    <2>2. j.amount = jobs[id].amount /\ j.status \in {"Done", "Disputed"}
        BY <2>0 DEF JobType
    <2>3. jobs[id].status \in {"Funded", "Done"} /\ splitProposals' = splitProposals
        BY <1>2 DEF markDone, dispute
    <2>4. /\ Len(jobs') = Len(jobs)
          /\ \A i \in 1..Len(jobs) : jobs'[i] = IF i = id THEN j ELSE jobs[i]
        BY <2>0, <2>1
    <2>5. SignedFor(j, splitProposals[id])
        BY <2>2, <2>3 DEF Signed, SignedFor
    <2> QED BY <2>3, <2>4, <2>5 DEF Signed, JobIds
<1>3. ASSUME NEW id \in JobIds, NEW parts, Release(id, parts),
             \A i \in 1..Len(jobs) : i # id => splitProposals'[i] = splitProposals[i],
             splitProposals'[id].buyer <= jobs[id].amount /\ splitProposals'[id].provider <= jobs[id].amount
      PROVE  Signed'
    <2>1. ASSUME NEW i \in 1..Len(jobs) PROVE SignedFor(jobs'[i], splitProposals'[i])
        <3>1. CASE i = id
            <4>1. jobs'[i].amount = jobs[id].amount /\ jobs'[i].status = "Settled"
                BY <1>3, <3>1, ReleasePlaces, Places DEF JobType
            <4> QED BY <1>3, <3>1, <4>1 DEF SignedFor
        <3>2. CASE i # id
            BY <1>3, <3>2, ReleasePlaces DEF Signed, JobIds
        <3> QED BY <3>1, <3>2
    <2>2. Len(jobs') = Len(jobs)
        BY <1>3, ReleasePlaces
    <2> QED BY <2>1, <2>2 DEF Signed, JobIds
<1>4. ASSUME NEW id \in JobIds,
             (\E caller \in Accounts : acceptResult(caller, id)) \/ claimTimeout(id) \/ forceClose(id)
      PROVE  Signed'
    <2>1. /\ splitProposals' = splitProposals
          /\ Release(id, ToProvider(jobs[id].amount)) \/ Release(id, ToBuyer(jobs[id].amount))
        BY <1>4 DEF acceptResult, claimTimeout, forceClose
    <2>2. SignedFor(jobs[id], splitProposals[id])
        BY DEF Signed
    <2> QED BY <1>3, <2>1, <2>2 DEF SignedFor
<1>5. ASSUME NEW role \in {"buyer", "provider"}, NEW id \in JobIds, NEW share \in Shares,
             proposeSplit(role, id, share)
      PROVE  Signed'
    <2>1. /\ share \in Nat /\ share <= jobs[id].amount /\ jobs[id].status = "Disputed"
          /\ splitProposals' = [splitProposals EXCEPT ![id][role] = share]
        BY <1>5, MarketAssumption DEF proposeSplit
    <2>2. SignedFor(jobs[id], splitProposals[id]) /\ id \in 1..Len(jobs)
        BY DEF Signed, JobIds
    <2>3. \A i \in 1..Len(jobs) : i # id => splitProposals'[i] = splitProposals[i]
        BY <2>1, ProposalPlaces
    <2>4. splitProposals'[id].buyer <= jobs[id].amount /\ splitProposals'[id].provider <= jobs[id].amount
        BY <2>1, <2>2, ProposalPlaces DEF SignedFor, Hash
    <2>5. CASE Release(id, Split(jobs[id].amount, share))
        BY <1>3, <2>3, <2>4, <2>5
    <2>6. CASE UNCHANGED <<jobs, paid, balance, rejecting, now>> /\ ~Agreed(id, IF role = "buyer" THEN "provider" ELSE "buyer", share)
        <3>1. splitProposals'[id].buyer # splitProposals'[id].provider
            <4>1. CASE role = "buyer"
                BY <2>1, <2>6, <4>1, ProposalPlaces DEF Agreed, Hash
            <4>2. CASE role = "provider"
                BY <2>1, <2>6, <4>2, ProposalPlaces DEF Agreed, Hash
            <4> QED BY <4>1, <4>2
        <3>2. SignedFor(jobs[id], splitProposals'[id])
            BY <2>1, <2>4, <3>1 DEF SignedFor
        <3> QED BY <2>3, <2>6, <3>2 DEF Signed, JobIds
    <2> QED BY <1>5, <2>5, <2>6 DEF proposeSplit
<1>6. CASE Tick \/ SetRejecting \/ UNCHANGED vars
    BY <1>6 DEF Tick, SetRejecting, vars, Signed, JobIds
<1> QED
    BY <1>1, <1>2, <1>4, <1>5, <1>6 DEF Next

\* No disputed job is left with two matching proposals on record.
THEOREM AgreementCorrect == Spec => []NoUnsettledAgreement
<1>1. Init => Signed
    BY DEF Init, Signed, JobIds
<1>2. TypeOK /\ Signed => NoUnsettledAgreement
    <2> SUFFICES ASSUME TypeOK, Signed, NEW id \in JobIds
                 PROVE  /\ \A role \in {"buyer", "provider"} : splitProposals[id][role] <= jobs[id].amount
                        /\ jobs[id].status = "Disputed" =>
                              \/ splitProposals[id].buyer # splitProposals[id].provider
                              \/ splitProposals[id].buyer = NoHash
        BY DEF NoUnsettledAgreement
    <2>1. SignedFor(jobs[id], splitProposals[id])
        BY DEF Signed
    <2> QED BY <2>1 DEF SignedFor
<1> QED
    BY <1>1, <1>2, InitInv, StepInv, SignedStep, PTL DEF Spec

\* Out of a dispute the provider is paid what the buyer proposed, or nothing.
THEOREM ConsentCorrect == Spec => DisputePaysByConsent
<1> DEFINE Pays(id) == jobs[id].status = "Disputed" /\ paid'[id].provider > 0 =>
                          /\ splitProposals'[id].buyer = splitProposals'[id].provider
                          /\ paid'[id] = Split(jobs[id].amount, splitProposals'[id].buyer)
<1>1. TypeOK /\ PaidOnce /\ [Next]_vars => \A id \in JobIds : Pays(id)
    <2> SUFFICES ASSUME TypeOK, PaidOnce, [Next]_vars, NEW id \in JobIds,
                        jobs[id].status = "Disputed", paid'[id].provider > 0
                 PROVE  /\ splitProposals'[id].buyer = splitProposals'[id].provider
                        /\ paid'[id] = Split(jobs[id].amount, splitProposals'[id].buyer)
        OBVIOUS
    <2>1. id \in 1..Len(jobs) /\ paid[id].provider = 0
        BY DEF PaidOnce, JobIds, Nothing
    <2>2. CASE paid'[id] = paid[id]
        BY <2>1, <2>2
    <2>3. ASSUME NEW k \in JobIds, NEW parts, Release(k, parts), k # id PROVE FALSE
        <3>1. paid'[id] = paid[id]
            BY <2>1, <2>3, ReleasePlaces
        <3> QED BY <2>1, <3>1
    <2>4. ASSUME NEW caller \in Accounts, NEW provider \in Accounts, NEW value \in Amounts,
                 createJob(caller, provider, value)
          PROVE  FALSE
        <3>1. paid' = Append(paid, Nothing) /\ paid \in Seq(PartsType) /\ Len(paid) = Len(jobs)
            BY <2>4 DEF createJob, TypeOK, PartsType
        <3>2. paid'[id] = paid[id]
            BY <2>1, <3>1
        <3> QED BY <2>1, <3>2
    <2>5. ASSUME NEW k \in JobIds,
                 (\E caller \in Accounts : acceptResult(caller, k)) \/ claimTimeout(k) \/ forceClose(k)
          PROVE  FALSE
        <3>1. CASE k = id
            <4>1. Release(id, ToBuyer(jobs[id].amount))
                BY <2>5, <3>1 DEF acceptResult, claimTimeout, forceClose
            <4>2. paid'[id] = ToBuyer(jobs[id].amount)
                BY <2>1, <4>1, ReleasePlaces
            <4> QED BY <4>2 DEF ToBuyer
        <3>2. CASE k # id
            BY <2>3, <2>5, <3>2 DEF acceptResult, claimTimeout, forceClose
        <3> QED BY <3>1, <3>2
    <2>6. ASSUME NEW role \in {"buyer", "provider"}, NEW k \in JobIds, NEW share \in Shares,
                 proposeSplit(role, k, share)
          PROVE  /\ splitProposals'[id].buyer = splitProposals'[id].provider
                 /\ paid'[id] = Split(jobs[id].amount, splitProposals'[id].buyer)
        <3> DEFINE other == IF role = "buyer" THEN "provider" ELSE "buyer"
        <3>1. /\ share \in Nat /\ splitProposals' = [splitProposals EXCEPT ![k][role] = share]
              /\ \/ Agreed(k, other, share) /\ Release(k, Split(jobs[k].amount, share))
                 \/ paid' = paid
            BY <2>6, MarketAssumption DEF proposeSplit
        <3>2. Agreed(k, other, share) /\ Release(k, Split(jobs[k].amount, share)) /\ k = id
            BY <2>1, <2>3, <3>1
        <3>3. splitProposals'[id].buyer = share /\ splitProposals'[id].provider = share
            <4>1. CASE role = "buyer"
                <5>1. other = "provider" /\ splitProposals[id].provider = share
                    BY <3>2, <4>1 DEF Agreed
                <5>2. /\ Hash(splitProposals'[id], "buyer") = share
                      /\ splitProposals'[id].provider = splitProposals[id].provider
                    BY <3>1, <3>2, <4>1, ProposalPlaces
                <5> QED BY <5>1, <5>2 DEF Hash
            <4>2. CASE role = "provider"
                <5>1. other = "buyer" /\ splitProposals[id].buyer = share
                    BY <3>2, <4>2 DEF Agreed
                <5>2. /\ Hash(splitProposals'[id], "provider") = share
                      /\ splitProposals'[id].buyer = splitProposals[id].buyer
                    BY <3>1, <3>2, <4>2, ProposalPlaces
                <5> QED BY <5>1, <5>2 DEF Hash
            <4> QED BY <4>1, <4>2
        <3>4. paid'[id] = Split(jobs[id].amount, share)
            BY <2>1, <3>2, ReleasePlaces
        <3> QED BY <3>3, <3>4
    <2>7. CASE UNCHANGED paid
        BY <2>2, <2>7
    <2>8. ASSUME NEW caller \in Accounts, NEW k \in JobIds, markDone(caller, k) \/ dispute(caller, k)
          PROVE  UNCHANGED paid
        BY <2>8 DEF markDone, dispute
    <2>9. CASE Tick \/ SetRejecting \/ UNCHANGED vars
        BY <2>7, <2>9 DEF Tick, SetRejecting, vars
    <2> QED
        BY <2>4, <2>5, <2>6, <2>7, <2>8, <2>9 DEF Next
<1> QED
    BY <1>1, InitInv, StepInv, PTL DEF Spec, DisputePaysByConsent
-----------------------------------------------------------------------------
(* Silence: a job that nobody disputed in time is the provider's.          *)

Accepted(id) ==
    \/ Silent(id)
    \/ id \in JobIds /\ jobs[id].status = "Settled" /\ paid[id] = ToProvider(jobs[id].amount)

\* A step keeps a job silent, or settles it to the provider, or is not about it.
LEMMA AcceptedStep ==
    ASSUME TypeOK, TypeOK', NEW id \in 1..MaxJobs, Accepted(id), [Next]_vars
    PROVE  Accepted(id)'
<1>1. id \in 1..Len(jobs) /\ id \in JobIds
    BY DEF Accepted, Silent, JobIds
<1>2. /\ jobs[id].amount \in Nat /\ jobs[id].doneAt \in Nat /\ now \in Nat /\ now' \in Nat
      /\ ACCEPTANCE_PERIOD \in Nat
    BY <1>1, Places, MarketAssumption DEF JobType, TypeOK
<1>3. CASE id \in JobIds' /\ jobs'[id] = jobs[id] /\ paid'[id] = paid[id] /\ now' >= now
    BY <1>2, <1>3 DEF Accepted, Silent, AcceptanceOver
<1>4. ASSUME NEW k \in JobIds, NEW parts, Release(k, parts),
             k = id => parts = ToProvider(jobs[id].amount)
      PROVE  Accepted(id)'
    <2>1. id \in JobIds' /\ now' = now
        BY <1>1, <1>4, ReleasePlaces DEF JobIds, Release
    <2>2. CASE k # id
        <3>1. jobs'[id] = jobs[id] /\ paid'[id] = paid[id]
            BY <1>1, <1>4, <2>2, ReleasePlaces
        <3> QED BY <1>2, <1>3, <2>1, <3>1
    <2>3. CASE k = id
        <3>1. /\ jobs'[id] = [jobs[id] EXCEPT !.status = "Settled"]
              /\ paid'[id] = ToProvider(jobs[id].amount)
            BY <1>1, <1>4, <2>3, ReleasePlaces
        <3>2. jobs'[id].status = "Settled" /\ jobs'[id].amount = jobs[id].amount
            BY <1>1, <3>1, Places DEF JobType
        <3> QED BY <2>1, <3>1, <3>2 DEF Accepted
    <2> QED BY <2>2, <2>3
<1>5. ASSUME NEW caller \in Accounts, NEW provider \in Accounts, NEW value \in Amounts,
             createJob(caller, provider, value)
      PROVE  Accepted(id)'
    <2>1. /\ jobs' = Append(jobs, jobs'[Len(jobs) + 1]) /\ paid' = Append(paid, Nothing)
          /\ now' = now
        BY <1>5 DEF createJob, TypeOK
    <2>2. jobs \in Seq(JobType) /\ paid \in Seq(PartsType) /\ Len(paid) = Len(jobs)
        BY DEF TypeOK, PartsType
    <2>3. jobs'[id] = jobs[id] /\ paid'[id] = paid[id] /\ id \in 1..Len(jobs')
        BY <1>1, <2>1, <2>2
    <2> QED BY <1>2, <1>3, <2>1, <2>3 DEF JobIds
<1>6. ASSUME NEW caller \in Accounts, NEW k \in JobIds,
             markDone(caller, k) \/ acceptResult(caller, k) \/ dispute(caller, k)
      PROVE  Accepted(id)'
    <2>1. CASE acceptResult(caller, k)
        BY <1>4, <2>1 DEF acceptResult
    <2>2. CASE markDone(caller, k) \/ dispute(caller, k)
        <3>1. k # id
            BY <1>2, <2>2 DEF markDone, dispute, Accepted, Silent
        <3>2. /\ jobs'[id] = jobs[id] /\ Len(jobs') = Len(jobs) /\ paid' = paid /\ now' = now
            BY <1>1, <2>2, <3>1 DEF markDone, dispute, TypeOK
        <3> QED BY <1>1, <1>2, <1>3, <3>2 DEF JobIds
    <2> QED BY <1>6, <2>1, <2>2
<1>7. ASSUME NEW k \in JobIds, claimTimeout(k) \/ forceClose(k) PROVE Accepted(id)'
    <2>1. CASE claimTimeout(k)
        BY <1>4, <2>1 DEF claimTimeout
    <2>2. CASE forceClose(k)
        <3>1. k = id => jobs[id].status = "Done"
            BY <2>2 DEF forceClose, Accepted, Silent
        <3> QED BY <1>4, <2>2, <3>1 DEF forceClose
    <2> QED BY <1>7, <2>1, <2>2
<1>8. ASSUME NEW role \in {"buyer", "provider"}, NEW k \in JobIds, NEW share \in Shares,
             proposeSplit(role, k, share)
      PROVE  Accepted(id)'
    <2>1. k # id
        BY <1>8 DEF proposeSplit, Accepted, Silent
    <2>2. CASE Release(k, Split(jobs[k].amount, share))
        BY <1>4, <2>1, <2>2
    <2>3. CASE UNCHANGED <<jobs, paid, balance, rejecting, now>>
        BY <1>1, <1>2, <1>3, <2>3 DEF JobIds
    <2> QED BY <1>8, <2>2, <2>3 DEF proposeSplit
<1>9. CASE Tick \/ SetRejecting \/ UNCHANGED vars
    BY <1>1, <1>2, <1>3, <1>9 DEF Tick, SetRejecting, vars, JobIds
<1> QED
    BY <1>5, <1>6, <1>7, <1>8, <1>9 DEF Next

\* Once the acceptance window of a delivered job has passed no sequence of calls
\* gives its money to anyone but the provider, whatever the two deadlines.
THEOREM SilenceCorrect == Spec => SilenceIsAcceptance
<1> SUFFICES ASSUME NEW id \in 1..MaxJobs
             PROVE  Spec => [](Silent(id) => []ProvidersOnly(id))
    BY DEF SilenceIsAcceptance
<1>1. Silent(id) => Accepted(id)
    BY DEF Accepted
<1>2. TypeOK /\ TypeOK' /\ Accepted(id) /\ [Next]_vars => Accepted(id)'
    BY AcceptedStep
<1>3. PaidOnce /\ Accepted(id) => ProvidersOnly(id)
    BY DEF PaidOnce, Accepted, Silent, ProvidersOnly
<1> QED
    BY <1>1, <1>2, <1>3, TypeCorrect, Conservation, PTL DEF Spec
-----------------------------------------------------------------------------
DealType == [terms : Promise!Terms, open : BOOLEAN, parts : PartsType]

\* The deal the market keeps for one job.
DealOf(j, p) == [terms |-> [buyer |-> j.buyer, provider |-> j.provider, amount |-> j.amount],
                 open |-> j.status # "Settled", parts |-> p]

DealsOf(js, ps) == [i \in 1..Len(js) |-> DealOf(js[i], ps[i])]

LEMMA DealsAre == Deals = DealsOf(jobs, paid) /\ Deals' = DealsOf(jobs', paid')
BY DEF Deals, DealsOf, DealOf, JobIds

LEMMA DealsShape ==
    ASSUME NEW js \in Seq(JobType), NEW ps \in Seq(PartsType), Len(ps) = Len(js)
    PROVE  /\ DealsOf(js, ps) \in Seq(DealType) /\ Len(DealsOf(js, ps)) = Len(js)
           /\ \A i \in 1..Len(js) : DealsOf(js, ps)[i] = DealOf(js[i], ps[i])
<1>1. \A i \in 1..Len(js) : js[i] \in JobType
    OBVIOUS
<1>2. \A i \in 1..Len(js) : ps[i] \in PartsType
    OBVIOUS
<1>3. \A i \in 1..Len(js) : DealOf(js[i], ps[i]) \in DealType
    BY <1>1, <1>2 DEF DealOf, DealType, Promise!Terms, JobType
<1> QED BY <1>3 DEF DealsOf

\* The deals before and after a step that respects the types.
LEMMA DealsStep ==
    ASSUME TypeOK, TypeOK'
    PROVE  /\ Deals \in Seq(DealType) /\ Len(Deals) = Len(jobs)
           /\ \A i \in 1..Len(jobs) : Deals[i] = DealOf(jobs[i], paid[i])
           /\ Deals' \in Seq(DealType) /\ Len(Deals') = Len(jobs')
           /\ \A i \in 1..Len(jobs') : Deals'[i] = DealOf(jobs'[i], paid'[i])
<1>1. /\ jobs \in Seq(JobType) /\ jobs' \in Seq(JobType)
      /\ paid \in Seq(PartsType) /\ paid' \in Seq(PartsType)
      /\ Len(paid) = Len(jobs) /\ Len(paid') = Len(jobs')
    BY DEF TypeOK, PartsType
<1> QED BY <1>1, DealsAre, DealsShape

\* A sequence that differs from another of its length at one place.
LEMMA ChangedAt ==
    ASSUME NEW S, NEW s \in Seq(S), NEW t \in Seq(S), Len(t) = Len(s), NEW i \in 1..Len(s),
           \A j \in 1..Len(s) : j # i => t[j] = s[j]
    PROVE  t = [s EXCEPT ![i] = t[i]]
OBVIOUS

\* Releasing a job closes its deal with parts that add up.
LEMMA ReleaseCloses ==
    ASSUME TypeOK, TypeOK', NEW id \in JobIds, NEW parts \in PartsType,
           jobs[id].status # "Settled", Total(parts) = jobs[id].amount, Release(id, parts)
    PROVE  Promise!Close
<1> DEFINE d == [terms |-> Deals[id].terms, open |-> FALSE, parts |-> parts]
<1>1. /\ id \in 1..Len(jobs) /\ Len(jobs) \in Nat /\ Len(paid) = Len(jobs)
      /\ jobs \in Seq(JobType) /\ paid \in Seq(PartsType) /\ jobs[id] \in JobType
    BY DEF TypeOK, JobIds, PartsType
<1>2. /\ Len(jobs') = Len(jobs)
      /\ \A i \in 1..Len(jobs) :
            jobs'[i] = IF i = id THEN [jobs[id] EXCEPT !.status = "Settled"] ELSE jobs[i]
    BY <1>1 DEF Release
<1>p. \A i \in 1..Len(jobs) : paid'[i] = IF i = id THEN parts ELSE paid[i]
    BY <1>1 DEF Release
<1>3. /\ Deals \in Seq(DealType) /\ Len(Deals) = Len(jobs)
      /\ \A i \in 1..Len(jobs) : Deals[i] = DealOf(jobs[i], paid[i])
    BY DealsStep
<1>4. /\ Deals' \in Seq(DealType) /\ Len(Deals') = Len(jobs)
      /\ \A i \in 1..Len(jobs) : Deals'[i] = DealOf(jobs'[i], paid'[i])
    BY <1>2, DealsStep
<1>5. /\ Deals[id].open /\ Deals[id].terms.amount = jobs[id].amount
      /\ Deals'[id] = d /\ Deals'[id].parts = parts
    <2>1. Deals[id] = DealOf(jobs[id], paid[id])
        BY <1>1, <1>3
    <2>2. Deals'[id] = DealOf([jobs[id] EXCEPT !.status = "Settled"], parts)
        BY <1>1, <1>2, <1>p, <1>4
    <2>3. /\ DealOf(jobs[id], paid[id]).open
          /\ DealOf(jobs[id], paid[id]).terms.amount = jobs[id].amount
        BY DEF DealOf
    <2>4. DealOf([jobs[id] EXCEPT !.status = "Settled"], parts)
            = [terms |-> DealOf(jobs[id], paid[id]).terms, open |-> FALSE, parts |-> parts]
        BY <1>1 DEF DealOf, JobType
    <2> QED BY <2>1, <2>2, <2>3, <2>4
<1>6. \A i \in 1..Len(jobs) : i # id => Deals'[i] = Deals[i]
    BY <1>2, <1>p, <1>3, <1>4
<1>7. Deals' = [Deals EXCEPT ![id] = Deals'[id]]
    BY <1>1, <1>3, <1>4, <1>6, ChangedAt
<1> HIDE DEF d
<1>8. parts \in Promise!Parts /\ Promise!Total(parts) = Total(parts)
    BY DEF PartsType, Promise!Parts, Promise!Total, Total
<1>9. Deals' = [Deals EXCEPT ![id] = [terms |-> Deals[id].terms, open |-> FALSE,
                                      parts |-> Deals'[id].parts]]
    BY <1>5, <1>7 DEF d
<1>10. /\ Deals'[id].parts \in Promise!Parts
       /\ Promise!Total(Deals'[id].parts) = Deals[id].terms.amount
    BY <1>5, <1>8
<1>11. id \in 1..Len(Deals) /\ Deals[id].open
    BY <1>1, <1>3, <1>5
<1> QED BY <1>9, <1>10, <1>11 DEF Promise!Close

LEMMA UnchangedDeals ==
    ASSUME TypeOK, TypeOK', Len(jobs') = Len(jobs), paid' = paid,
           \A i \in 1..Len(jobs) :
              /\ jobs'[i].buyer = jobs[i].buyer /\ jobs'[i].provider = jobs[i].provider
              /\ jobs'[i].amount = jobs[i].amount
              /\ jobs'[i].status # "Settled" <=> jobs[i].status # "Settled"
    PROVE  UNCHANGED Deals
BY DEF Deals, JobIds

\* The market implements its escrow: deals keep their terms, each closes once,
\* and what it pays out adds up to what the buyer locked.
THEOREM Refinement == Spec => ImplementsEscrow
<1>1. Init => Promise!Init
    BY DEF Init, Promise!Init, Deals, JobIds
<1>2. TypeOK /\ TypeOK' /\ PaidOnce /\ [Next]_vars
        => [Promise!Open \/ Promise!Close]_Deals
    <2> SUFFICES ASSUME TypeOK, TypeOK', PaidOnce, [Next]_vars
                 PROVE  Promise!Open \/ Promise!Close \/ UNCHANGED Deals
        OBVIOUS
    <2>j. \A id \in JobIds : jobs[id] \in JobType /\ jobs[id].amount \in Nat \ {0}
        <3>1. \A id \in 1..Len(jobs) : jobs[id] \in JobType
            BY DEF TypeOK
        <3> QED BY <3>1 DEF JobIds, JobType
    <2>1. ASSUME NEW caller \in Accounts, NEW provider \in Accounts, NEW value \in Amounts,
                 createJob(caller, provider, value)
          PROVE  Promise!Open
        <3> DEFINE job == [buyer |-> caller, provider |-> provider, amount |-> value,
                           status |-> "Funded", createdAt |-> now, doneAt |-> 0]
                   d == DealOf(job, Nothing)
        <3>1. /\ d.terms \in Promise!Terms /\ d.open = TRUE /\ d.parts = Promise!Nothing
            BY MarketAssumption DEF DealOf, Promise!Terms, Nothing, Promise!Nothing
        <3>2. jobs' = Append(jobs, job) /\ paid' = Append(paid, Nothing)
            BY <2>1 DEF createJob
        <3> HIDE DEF job
        <3>3. /\ Len(jobs') = Len(jobs) + 1 /\ Len(jobs) \in Nat /\ jobs'[Len(jobs) + 1] = job
              /\ \A i \in 1..Len(jobs) : jobs'[i] = jobs[i]
            BY <3>2 DEF TypeOK
        <3>4. /\ paid'[Len(jobs) + 1] = Nothing
              /\ \A i \in 1..Len(jobs) : paid'[i] = paid[i]
            BY <3>2 DEF TypeOK
        <3>5. /\ Deals \in Seq(DealType) /\ Len(Deals) = Len(jobs)
              /\ Deals' \in Seq(DealType) /\ Len(Deals') = Len(jobs) + 1
              /\ Deals'[Len(jobs) + 1] = d
              /\ \A i \in 1..Len(jobs) : Deals'[i] = Deals[i]
            BY <3>3, <3>4, DealsStep
        <3> HIDE DEF d
        <3>6. Deals' = Append(Deals, d)
            BY <3>3, <3>5
        <3> QED BY <3>1, <3>3, <3>5, <3>6 DEF Promise!Open
    <2>2. ASSUME Len(jobs') = Len(jobs), paid' = paid,
                 \A i \in 1..Len(jobs) : /\ jobs'[i].buyer = jobs[i].buyer
                                         /\ jobs'[i].provider = jobs[i].provider
                                         /\ jobs'[i].amount = jobs[i].amount
                                         /\ jobs'[i].status # "Settled" <=> jobs[i].status # "Settled"
          PROVE  UNCHANGED Deals
        BY <2>2, UnchangedDeals
    <2>3. ASSUME NEW caller \in Accounts, NEW id \in JobIds,
                 markDone(caller, id) \/ dispute(caller, id)
          PROVE  UNCHANGED Deals
        <3>0. id \in 1..Len(jobs) /\ jobs \in Seq(JobType) /\ jobs[id] \in JobType
            BY <2>j DEF TypeOK, JobIds
        <3>1. PICK j \in {[jobs[id] EXCEPT !.status = "Done", !.doneAt = now],
                          [jobs[id] EXCEPT !.status = "Disputed"]} :
                  jobs' = [jobs EXCEPT ![id] = j]
            BY <2>3, <3>0 DEF markDone, dispute
        <3>2. /\ j.buyer = jobs[id].buyer /\ j.provider = jobs[id].provider
              /\ j.amount = jobs[id].amount /\ j.status # "Settled"
            BY <3>0 DEF JobType
        <3>3. jobs[id].status # "Settled" /\ paid' = paid
            BY <2>3 DEF markDone, dispute
        <3>4. /\ Len(jobs') = Len(jobs)
              /\ \A i \in 1..Len(jobs) : jobs'[i] = IF i = id THEN j ELSE jobs[i]
            BY <3>0, <3>1
        <3> QED BY <2>2, <3>2, <3>3, <3>4
    <2>4. ASSUME NEW id \in JobIds,
                 (\E caller \in Accounts : acceptResult(caller, id)) \/ claimTimeout(id) \/ forceClose(id)
          PROVE  Promise!Close
        <3>1. PICK parts \in {ToProvider(jobs[id].amount), ToBuyer(jobs[id].amount)} :
                  Release(id, parts) /\ jobs[id].status # "Settled"
            BY <2>4 DEF acceptResult, claimTimeout, forceClose
        <3> QED BY <3>1, <2>j, ToProviderTotal, ToBuyerTotal, ReleaseCloses
    <2>5. ASSUME NEW role \in {"buyer", "provider"}, NEW id \in JobIds, NEW share \in Shares,
                 proposeSplit(role, id, share)
          PROVE  Promise!Close \/ UNCHANGED Deals
        <3>1. CASE Release(id, Split(jobs[id].amount, share))
            <4>1. share \in Nat /\ share <= jobs[id].amount /\ jobs[id].status # "Settled"
                BY <2>5, MarketAssumption DEF proposeSplit
            <4> QED BY <3>1, <4>1, <2>j, SplitTotal, ReleaseCloses
        <3>2. CASE UNCHANGED <<jobs, paid, balance, rejecting, now>>
            BY <3>2, <2>2
        <3> QED BY <2>5, <3>1, <3>2 DEF proposeSplit
    <2>6. CASE Tick \/ SetRejecting \/ UNCHANGED vars
        BY <2>6, <2>2 DEF Tick, SetRejecting, vars
    <2> QED BY <2>1, <2>3, <2>4, <2>5, <2>6 DEF Next
<1> QED
    BY <1>1, <1>2, TypeCorrect, Conservation, PTL DEF Spec, ImplementsEscrow, Promise!Spec
-----------------------------------------------------------------------------
(* Solvency.  Solvent adds up with a fold over a set, a recursive function *)
(* whose value is a CHOOSE: that there is such a function, and what it     *)
(* computes, is shown by induction over the subsets of the set of ids.     *)

\* The function by which MapThenSumSet adds up the amounts of j over the subsets of S
IsSum(sum, j, S) ==
    sum = [u \in SUBSET S |->
        IF u = {} THEN 0 ELSE LET x == CHOOSE x \in u : TRUE IN j[x].amount + sum[u \ {x}]]

\* The sum of the amounts of the jobs j with an id in S
Locked(j, S) == (CHOOSE sum : IsSum(sum, j, S))[S]

\* A set of subsets of a finite set has a member that contains no other.
LEMMA SmallestSet ==
    ASSUME NEW S, IsFiniteSet(S), NEW T \in SUBSET SUBSET S, T # {}
    PROVE  \E m \in T : \A k \in T : k \subseteq m => k = m
<1> DEFINE R == StrictSubsetOrdering(S)
<1>1. IsWellFoundedOn(R, SUBSET S)
    BY FS_StrictSubsetOrderingWellFounded, FS_FiniteSubsetsOfFinite
<1> HIDE DEF R
<1>2. PICK m \in T : \A k \in T : ~ (<<k, m>> \in R)
    BY <1>1, WFMin
<1>3. \A k, n \in SUBSET S : <<k, n>> \in R <=> k \subseteq n /\ k # n
    BY DEF R, StrictSubsetOrdering
<1>4. \A k \in T : k \subseteq m => k = m
    BY <1>2, <1>3
<1> QED BY <1>4

\* Induction over the subsets of a finite set, for a set T in the place of a
\* predicate.
LEMMA SetInduct ==
    ASSUME NEW S, IsFiniteSet(S), NEW T,
           \A u \in SUBSET S : (\A x \in u : u \ {x} \in T) => u \in T
    PROVE  \A u \in SUBSET S : u \in T
<1> DEFINE Out == (SUBSET S) \ T
<1> SUFFICES ASSUME Out # {} PROVE FALSE
    OBVIOUS
<1>1. Out \in SUBSET SUBSET S
    OBVIOUS
<1> HIDE DEF Out
<1>2. PICK m \in Out : \A k \in Out : k \subseteq m => k = m
    BY <1>1, SmallestSet
<1>3. \A x \in m : m \ {x} \in T
    BY <1>2 DEF Out
<1> QED BY <1>2, <1>3 DEF Out

\* Two such functions agree where both are defined.
LEMMA SumUnique ==
    ASSUME NEW j, NEW S, IsFiniteSet(S), NEW u \in SUBSET S, NEW w \in SUBSET S,
           NEW s, NEW t, IsSum(s, j, u), IsSum(t, j, w)
    PROVE  \A v \in SUBSET (u \cap w) : s[v] = t[v]
<1> DEFINE T == {v \in SUBSET (u \cap w) : s[v] = t[v]}
<1>1. IsFiniteSet(u \cap w)
    BY FS_Subset
<1>2. ASSUME NEW v \in SUBSET (u \cap w), \A x \in v : v \ {x} \in T
      PROVE  v \in T
    <2> DEFINE c == CHOOSE x \in v : TRUE
    <2>1. /\ s[v] = IF v = {} THEN 0 ELSE j[c].amount + s[v \ {c}]
          /\ t[v] = IF v = {} THEN 0 ELSE j[c].amount + t[v \ {c}]
        BY DEF IsSum
    <2>2. v # {} => c \in v
        OBVIOUS
    <2> HIDE DEF c
    <2> QED BY <1>2, <2>1, <2>2
<1> HIDE DEF T
<1>3. \A v \in SUBSET (u \cap w) : v \in T
    BY <1>1, <1>2, SetInduct
<1> QED BY <1>3 DEF T

\* There is one for every finite set.
LEMMA SumExists ==
    ASSUME NEW j, NEW S, IsFiniteSet(S)
    PROVE  \E sum : IsSum(sum, j, S)
<1> DEFINE Has(v) == \E sum : IsSum(sum, j, v)
           T == {u \in SUBSET S : \A v \in SUBSET u : Has(v)}
<1>1. ASSUME NEW u \in SUBSET S, \A x \in u : u \ {x} \in T
      PROVE  u \in T
    <2>1. ASSUME NEW v \in SUBSET u, v # u PROVE Has(v)
        <3>1. PICK x \in u : v \subseteq u \ {x}
            BY <2>1
        <3> QED BY <1>1, <3>1
    <2>2. ASSUME NEW v \in SUBSET u, v # u
          PROVE  Locked(j, v) = IF v = {} THEN 0
                 ELSE LET x == CHOOSE x \in v : TRUE IN j[x].amount + Locked(j, v \ {x})
        <3> DEFINE c == CHOOSE x \in v : TRUE
                   s == CHOOSE sum : IsSum(sum, j, v)
                   t == CHOOSE sum : IsSum(sum, j, v \ {c})
        <3>1. v \ {c} \in SUBSET u /\ v \ {c} # u
            BY <2>2
        <3>2. IsSum(s, j, v) /\ IsSum(t, j, v \ {c})
            BY <2>1, <2>2, <3>1
        <3>3. Locked(j, v) = s[v] /\ Locked(j, v \ {c}) = t[v \ {c}]
            BY DEF Locked
        <3>4. s[v] = IF v = {} THEN 0 ELSE j[c].amount + s[v \ {c}]
            BY <3>2 DEF IsSum
        <3> HIDE DEF c, s, t
        <3>5. \A w \in SUBSET (v \cap (v \ {c})) : s[w] = t[w]
            <4>1. v \in SUBSET S /\ v \ {c} \in SUBSET S
                OBVIOUS
            <4> QED BY <3>2, <4>1, SumUnique
        <3>6. s[v \ {c}] = t[v \ {c}]
            BY <3>5
        <3> QED BY <3>3, <3>4, <3>6 DEF c
    <2> DEFINE d == CHOOSE x \in u : TRUE
               top == IF u = {} THEN 0 ELSE j[d].amount + Locked(j, u \ {d})
               r == [v \in SUBSET u |-> IF v = u THEN top ELSE Locked(j, v)]
    <2>3. ASSUME NEW v \in SUBSET u
          PROVE  r[v] = IF v = {} THEN 0
                        ELSE LET x == CHOOSE x \in v : TRUE IN j[x].amount + r[v \ {x}]
        <3> DEFINE c == CHOOSE x \in v : TRUE
        <3>1. CASE v = {}
            <4>1. CASE u = {}
                BY <3>1, <4>1
            <4>2. CASE u # {}
                BY <2>2, <3>1, <4>2
            <4> QED BY <4>1, <4>2
        <3>2. CASE v # {}
            <4>1. c \in v /\ v \ {c} \in SUBSET u /\ v \ {c} # u
                BY <3>2
            <4>2. r[v \ {c}] = Locked(j, v \ {c})
                BY <4>1
            <4>3. CASE v = u
                BY <3>2, <4>2, <4>3
            <4>4. CASE v # u
                <5>1. Locked(j, v) = j[c].amount + Locked(j, v \ {c})
                    BY <2>2, <3>2, <4>4
                <5>2. r[v] = Locked(j, v)
                    BY <4>4
                <5> QED BY <3>2, <4>2, <5>1, <5>2
            <4> QED BY <4>3, <4>4
        <3> QED BY <3>1, <3>2
    <2> HIDE DEF r
    <2>4. IsSum(r, j, u)
        <3>1. r = [v \in SUBSET u |-> r[v]]
            BY DEF r
        <3> QED BY <2>3, <3>1 DEF IsSum
    <2>5. Has(u)
        BY <2>4
    <2>6. \A v \in SUBSET u : Has(v)
        BY <2>1, <2>5
    <2> QED BY <2>6
<1> HIDE DEF T
<1>2. \A u \in SUBSET S : u \in T
    BY <1>1, SetInduct
<1>3. S \in SUBSET S
    OBVIOUS
<1> QED BY <1>2, <1>3 DEF T

\* What the recursion says of Locked.
LEMMA SumStep ==
    ASSUME NEW j, NEW S, IsFiniteSet(S), S # {}
    PROVE  LET x == CHOOSE x \in S : TRUE
           IN  x \in S /\ Locked(j, S) = j[x].amount + Locked(j, S \ {x})
<1> DEFINE c == CHOOSE x \in S : TRUE
           s == CHOOSE sum : IsSum(sum, j, S)
           t == CHOOSE sum : IsSum(sum, j, S \ {c})
<1>1. IsFiniteSet(S \ {c})
    BY FS_Subset
<1>2. IsSum(s, j, S) /\ IsSum(t, j, S \ {c})
    BY <1>1, SumExists
<1>3. Locked(j, S) = s[S] /\ Locked(j, S \ {c}) = t[S \ {c}]
    BY DEF Locked
<1>4. c \in S /\ s[S] = j[c].amount + s[S \ {c}]
    BY <1>2 DEF IsSum
<1> HIDE DEF c, s, t
<1>5. s[S \ {c}] = t[S \ {c}]
    <2>1. S \in SUBSET S /\ S \ {c} \in SUBSET S /\ S \ {c} \in SUBSET (S \cap (S \ {c}))
        OBVIOUS
    <2>2. \A v \in SUBSET (S \cap (S \ {c})) : s[v] = t[v]
        BY <1>2, <2>1, SumUnique
    <2> QED BY <2>1, <2>2
<1>6. c \in S /\ Locked(j, S) = j[c].amount + Locked(j, S \ {c})
    BY <1>3, <1>4, <1>5
<1> QED BY <1>6 DEF c

LEMMA SumEmpty == ASSUME NEW j PROVE Locked(j, {}) = 0
<1> DEFINE s == CHOOSE sum : IsSum(sum, j, {})
<1>1. IsSum(s, j, {})
    BY FS_EmptySet, SumExists
<1>2. s[{}] = 0
    BY <1>1 DEF IsSum
<1> QED BY <1>2 DEF Locked

\* A sum of numbers is a number.
LEMMA SumType ==
    ASSUME NEW S, IsFiniteSet(S), NEW j, \A x \in S : j[x].amount \in Nat
    PROVE  Locked(j, S) \in Nat
<1> DEFINE T == {u \in SUBSET S : Locked(j, u) \in Nat}
<1>1. ASSUME NEW u \in SUBSET S, \A x \in u : u \ {x} \in T
      PROVE  u \in T
    <2>1. CASE u = {}
        BY <2>1, SumEmpty
    <2>2. CASE u # {}
        <3>1. IsFiniteSet(u)
            BY FS_Subset
        <3>2. PICK x \in u : Locked(j, u) = j[x].amount + Locked(j, u \ {x})
            BY <2>2, <3>1, SumStep
        <3> QED BY <1>1, <3>2
    <2> QED BY <2>1, <2>2
<1> HIDE DEF T
<1>2. \A u \in SUBSET S : u \in T
    BY <1>1, SetInduct
<1> QED BY <1>2 DEF T

\* Any element may be taken first.
LEMMA SumRemove ==
    ASSUME NEW S, IsFiniteSet(S), NEW j, \A x \in S : j[x].amount \in Nat, NEW y \in S
    PROVE  Locked(j, S) = j[y].amount + Locked(j, S \ {y})
<1> DEFINE T == {u \in SUBSET S : \A x \in u : Locked(j, u) = j[x].amount + Locked(j, u \ {x})}
<1>1. ASSUME NEW u \in SUBSET S, \A x \in u : u \ {x} \in T
      PROVE  u \in T
    <2> SUFFICES ASSUME NEW x \in u PROVE Locked(j, u) = j[x].amount + Locked(j, u \ {x})
        OBVIOUS
    <2>1. \A v \in SUBSET u : IsFiniteSet(v) /\ Locked(j, v) \in Nat
        BY FS_Subset, SumType
    <2>2. PICK c \in u : Locked(j, u) = j[c].amount + Locked(j, u \ {c})
        BY <2>1, SumStep
    <2>3. CASE c = x
        BY <2>2, <2>3
    <2>4. CASE c # x
        <3> DEFINE rest == Locked(j, (u \ {x}) \ {c})
        <3>1. (u \ {c}) \ {x} = (u \ {x}) \ {c}
            OBVIOUS
        <3>2. Locked(j, u \ {c}) = j[x].amount + rest
            BY <1>1, <2>4, <3>1
        <3>3. Locked(j, u \ {x}) = j[c].amount + rest
            BY <1>1, <2>4
        <3>4. rest \in Nat
            BY <2>1
        <3>5. j[x].amount \in Nat /\ j[c].amount \in Nat
            OBVIOUS
        <3> HIDE DEF T, rest
        <3> QED BY <2>2, <3>2, <3>3, <3>4, <3>5
    <2> QED BY <2>3, <2>4
<1> HIDE DEF T
<1>2. \A u \in SUBSET S : u \in T
    BY <1>1, SetInduct
<1> QED BY <1>2 DEF T

\* Only the amounts of the ids in the set count.
LEMMA SumSame ==
    ASSUME NEW S, IsFiniteSet(S), NEW j, NEW k, \A x \in S : j[x].amount = k[x].amount
    PROVE  Locked(j, S) = Locked(k, S)
<1> DEFINE T == {u \in SUBSET S : Locked(j, u) = Locked(k, u)}
<1>1. ASSUME NEW u \in SUBSET S, \A x \in u : u \ {x} \in T
      PROVE  u \in T
    <2>1. CASE u = {}
        BY <2>1, SumEmpty
    <2>2. CASE u # {}
        <3> DEFINE c == CHOOSE x \in u : TRUE
        <3>1. IsFiniteSet(u)
            BY FS_Subset
        <3>2. /\ c \in u
              /\ Locked(j, u) = j[c].amount + Locked(j, u \ {c})
              /\ Locked(k, u) = k[c].amount + Locked(k, u \ {c})
            BY <2>2, <3>1, SumStep
        <3> HIDE DEF c
        <3> QED BY <1>1, <3>2
    <2> QED BY <2>1, <2>2
<1> HIDE DEF T
<1>2. \A u \in SUBSET S : u \in T
    BY <1>1, SetInduct
<1> QED BY <1>2 DEF T

Open(j) == {id \in 1..Len(j) : j[id].status # "Settled"}

LEMMA SolventIs == /\ Solvent <=> balance = Locked(jobs, Open(jobs))
                   /\ Solvent' <=> balance' = Locked(jobs', Open(jobs'))
BY Zenon DEF Solvent, Locked, Open, IsSum, MapThenSumSet, MapThenFoldSet, JobIds

\* The ids of the open jobs are finitely many and their amounts are numbers.
LEMMA OpenFacts ==
    ASSUME NEW j \in Seq(JobType)
    PROVE  /\ IsFiniteSet(Open(j))
           /\ \A id \in 1..Len(j) : j[id].amount \in Nat
           /\ \A S \in SUBSET Open(j) : IsFiniteSet(S) /\ Locked(j, S) \in Nat
<1>1. IsFiniteSet(1..Len(j))
    BY FS_Interval
<1>2. IsFiniteSet(Open(j))
    BY <1>1, FS_Subset DEF Open
<1>3. \A id \in 1..Len(j) : j[id] \in JobType
    OBVIOUS
<1>4. \A id \in 1..Len(j) : j[id].amount \in Nat
    BY <1>3 DEF JobType
<1>5. ASSUME NEW S \in SUBSET Open(j) PROVE IsFiniteSet(S) /\ Locked(j, S) \in Nat
    <2>1. IsFiniteSet(S)
        BY <1>2, FS_Subset
    <2>2. \A id \in S : j[id].amount \in Nat
        BY <1>4 DEF Open
    <2> QED BY <2>1, <2>2, SumType
<1> QED BY <1>2, <1>4, <1>5

\* A step that leaves all amounts and the set of open jobs as they are.
LEMMA SameLocked ==
    ASSUME NEW j \in Seq(JobType), NEW k \in Seq(JobType), Len(k) = Len(j),
           \A id \in 1..Len(j) : /\ k[id].amount = j[id].amount
                                 /\ k[id].status # "Settled" <=> j[id].status # "Settled"
    PROVE  Locked(k, Open(k)) = Locked(j, Open(j))
<1>1. Open(k) = Open(j)
    BY DEF Open
<1>2. \A id \in Open(j) : j[id].amount = k[id].amount
    BY DEF Open
<1> QED BY <1>1, <1>2, OpenFacts, SumSame

\* A release takes one job's amount out of the sum and out of the balance.
LEMMA ReleaseLocked ==
    ASSUME TypeOK, TypeOK', NEW id \in JobIds, NEW parts \in PartsType,
           jobs[id].status # "Settled", Total(parts) = jobs[id].amount, Release(id, parts),
           balance = Locked(jobs, Open(jobs))
    PROVE  balance' = Locked(jobs', Open(jobs'))
<1>1. jobs \in Seq(JobType) /\ jobs' \in Seq(JobType) /\ id \in 1..Len(jobs) /\ jobs[id] \in JobType
    BY Places DEF TypeOK, JobIds
<1>2. /\ Len(jobs') = Len(jobs)
      /\ \A i \in 1..Len(jobs) :
            jobs'[i] = IF i = id THEN [jobs[id] EXCEPT !.status = "Settled"] ELSE jobs[i]
    BY ReleasePlaces
<1>3. jobs'[id].status = "Settled"
    BY <1>1, <1>2 DEF JobType
<1>4. id \in Open(jobs) /\ Open(jobs') = Open(jobs) \ {id}
    BY <1>1, <1>2, <1>3 DEF Open
<1> DEFINE rest == Open(jobs) \ {id}
<1>5. Locked(jobs, Open(jobs)) = jobs[id].amount + Locked(jobs, rest)
    <2>1. \A x \in Open(jobs) : jobs[x].amount \in Nat
        BY <1>1, OpenFacts DEF Open
    <2>2. IsFiniteSet(Open(jobs))
        BY <1>1, OpenFacts
    <2> QED BY <1>4, <2>1, <2>2, SumRemove
<1>6. Locked(jobs', rest) = Locked(jobs, rest)
    <2>1. \A x \in rest : jobs'[x].amount = jobs[x].amount
        BY <1>2 DEF Open
    <2>2. IsFiniteSet(rest)
        BY <1>1, OpenFacts
    <2> HIDE DEF rest
    <2> QED BY <2>1, <2>2, SumSame
<1>7. Locked(jobs, rest) \in Nat /\ jobs[id].amount \in Nat
    BY <1>1, OpenFacts
<1>8. balance' = balance - Total(parts)
    BY DEF Release, Total
<1>9. Open(jobs') = rest
    BY <1>4
<1> HIDE DEF rest
<1>10. balance' = Locked(jobs, rest)
    BY <1>5, <1>7, <1>8
<1> QED BY <1>6, <1>9, <1>10

LEMMA SolventStep ==
    ASSUME TypeOK, TypeOK', PaidOnce, Solvent, [Next]_vars
    PROVE  Solvent'
<1>0. balance = Locked(jobs, Open(jobs))
    BY SolventIs
<1> SUFFICES balance' = Locked(jobs', Open(jobs'))
    BY SolventIs
<1>t. jobs \in Seq(JobType) /\ jobs' \in Seq(JobType)
    BY DEF TypeOK
<1>j. \A id \in JobIds : id \in 1..Len(jobs) /\ jobs[id] \in JobType /\ jobs[id].amount \in Nat \ {0}
    BY Places DEF JobIds, JobType
<1>1. ASSUME NEW caller \in Accounts, NEW provider \in Accounts, NEW value \in Amounts,
             createJob(caller, provider, value)
      PROVE  balance' = Locked(jobs', Open(jobs'))
    <2> DEFINE job == [buyer |-> caller, provider |-> provider, amount |-> value,
                       status |-> "Funded", createdAt |-> now, doneAt |-> 0]
               n == Len(jobs) + 1
    <2>1. job.status = "Funded" /\ job.amount = value
        OBVIOUS
    <2>2. jobs' = Append(jobs, job) /\ balance' = balance + value
        BY <1>1 DEF createJob
    <2> HIDE DEF job
    <2>3. /\ Len(jobs') = n /\ Len(jobs) \in Nat /\ jobs'[n] = job
          /\ \A i \in 1..Len(jobs) : jobs'[i] = jobs[i]
        BY <1>t, <2>2
    <2>4. n \in Open(jobs') /\ Open(jobs') \ {n} = Open(jobs)
        BY <2>1, <2>3 DEF Open
    <2>5. Locked(jobs', Open(jobs')) = jobs'[n].amount + Locked(jobs', Open(jobs))
        <3>1. \A x \in Open(jobs') : jobs'[x].amount \in Nat
            BY <1>t, OpenFacts DEF Open
        <3>2. IsFiniteSet(Open(jobs'))
            BY <1>t, OpenFacts
        <3> HIDE DEF n
        <3>3. Locked(jobs', Open(jobs')) = jobs'[n].amount + Locked(jobs', Open(jobs') \ {n})
            BY <2>4, <3>1, <3>2, SumRemove
        <3> QED BY <2>4, <3>3
    <2>6. Locked(jobs', Open(jobs)) = Locked(jobs, Open(jobs))
        <3>1. \A x \in Open(jobs) : jobs'[x].amount = jobs[x].amount
            BY <2>3 DEF Open
        <3> QED BY <1>t, <3>1, OpenFacts, SumSame
    <2>7. Locked(jobs, Open(jobs)) \in Nat /\ value \in Nat
        BY <1>t, OpenFacts, MarketAssumption
    <2> HIDE DEF n
    <2> QED BY <1>0, <2>1, <2>2, <2>3, <2>4, <2>5, <2>6, <2>7
<1>2. ASSUME NEW caller \in Accounts, NEW id \in JobIds,
             markDone(caller, id) \/ dispute(caller, id)
      PROVE  balance' = Locked(jobs', Open(jobs'))
    <2>1. PICK j \in {[jobs[id] EXCEPT !.status = "Done", !.doneAt = now],
                      [jobs[id] EXCEPT !.status = "Disputed"]} :
              jobs' = [jobs EXCEPT ![id] = j]
        BY <1>2, <1>t, <1>j DEF markDone, dispute
    <2>2. j.amount = jobs[id].amount /\ j.status # "Settled"
        BY <1>j DEF JobType
    <2>3. jobs[id].status # "Settled" /\ balance' = balance
        BY <1>2 DEF markDone, dispute
    <2>4. /\ Len(jobs') = Len(jobs)
          /\ \A i \in 1..Len(jobs) : jobs'[i] = IF i = id THEN j ELSE jobs[i]
        BY <1>t, <1>j, <2>1
    <2>5. Locked(jobs', Open(jobs')) = Locked(jobs, Open(jobs))
        BY <1>t, <2>2, <2>3, <2>4, SameLocked
    <2> QED BY <1>0, <2>3, <2>5
<1>3. ASSUME NEW id \in JobIds,
             (\E caller \in Accounts : acceptResult(caller, id)) \/ claimTimeout(id) \/ forceClose(id)
      PROVE  balance' = Locked(jobs', Open(jobs'))
    <2>1. PICK parts \in {ToProvider(jobs[id].amount), ToBuyer(jobs[id].amount)} :
              Release(id, parts) /\ jobs[id].status # "Settled"
        BY <1>3 DEF acceptResult, claimTimeout, forceClose
    <2> QED BY <1>0, <1>j, <2>1, ToProviderTotal, ToBuyerTotal, ReleaseLocked
<1>4. ASSUME NEW role \in {"buyer", "provider"}, NEW id \in JobIds, NEW share \in Shares,
             proposeSplit(role, id, share)
      PROVE  balance' = Locked(jobs', Open(jobs'))
    <2>1. CASE Release(id, Split(jobs[id].amount, share))
        <3>1. share \in Nat /\ share <= jobs[id].amount /\ jobs[id].status # "Settled"
            BY <1>4, MarketAssumption DEF proposeSplit
        <3> QED BY <1>0, <1>j, <2>1, <3>1, SplitTotal, ReleaseLocked
    <2>2. CASE UNCHANGED <<jobs, paid, balance, rejecting, now>>
        BY <1>0, <2>2
    <2> QED BY <1>4, <2>1, <2>2 DEF proposeSplit
<1>5. CASE Tick \/ SetRejecting \/ UNCHANGED vars
    BY <1>0, <1>5 DEF Tick, SetRejecting, vars
<1> QED BY <1>1, <1>2, <1>3, <1>4, <1>5 DEF Next

\* The contract holds exactly what the unsettled jobs locked, however many there
\* are: no release overdraws it and nothing stays behind.  (the Custody note)
THEOREM SolventCorrect == Spec => []Solvent
<1>1. Init => Solvent
    <2> SUFFICES ASSUME Init PROVE Solvent
        OBVIOUS
    <2>1. Open(jobs) = {}
        BY DEF Init, Open
    <2> QED BY <2>1, SolventIs, SumEmpty DEF Init
<1>2. TypeOK /\ TypeOK' /\ PaidOnce /\ Solvent /\ [Next]_vars => Solvent'
    BY SolventStep
<1> QED BY <1>1, <1>2, TypeCorrect, Conservation, PTL DEF Spec
-----------------------------------------------------------------------------
(* No job is stuck: said with what forceClose may revert on, and with the  *)
(* step that it takes.                                                     *)

\* The contract can pay every job it still owes, whichever is settled first.
Coverage == \A id \in JobIds : jobs[id].status # "Settled" => jobs[id].amount <= balance

\* What forceClose pays out of a job.
Closing(id) == IF jobs[id].status = "Done" THEN ToProvider(jobs[id].amount)
                                           ELSE ToBuyer(jobs[id].amount)

\* Past its lifetime a job is open and its parties take transfers.
Expired(id) ==
    /\ jobs[id].status # "Settled" /\ now >= jobs[id].createdAt + MAX_JOB_LIFETIME
    /\ {jobs[id].buyer, jobs[id].provider, feeRecipient} \cap rejecting = {}

\* None of forceClose's requires and transfers reverts.
Closable(id) ==
    /\ jobs[id].status # "Settled" /\ now >= jobs[id].createdAt + MAX_JOB_LIFETIME
    /\ Closing(id) \in PartsType /\ Total(Closing(id)) <= balance
    /\ Payees(id, Closing(id)) \cap rejecting = {}

LEMMA ClosingTotal ==
    ASSUME TypeOK, NEW id \in JobIds
    PROVE  Closing(id) \in PartsType /\ Total(Closing(id)) = jobs[id].amount
<1>1. jobs[id].amount \in Nat
    BY Places DEF JobType, JobIds
<1> QED BY <1>1, ToProviderTotal, ToBuyerTotal DEF Closing

LEMMA CoverageIs == TypeOK /\ Solvent => Coverage
<1> SUFFICES ASSUME TypeOK, Solvent, NEW id \in JobIds, jobs[id].status # "Settled"
             PROVE  jobs[id].amount <= balance
    BY DEF Coverage
<1>1. jobs \in Seq(JobType)
    BY DEF TypeOK
<1>2. id \in Open(jobs)
    BY DEF Open, JobIds
<1> DEFINE rest == Open(jobs) \ {id}
<1>3. IsFiniteSet(Open(jobs)) /\ Locked(jobs, rest) \in Nat
    BY <1>1, OpenFacts
<1>4. \A x \in Open(jobs) : jobs[x].amount \in Nat
    BY <1>1, OpenFacts DEF Open
<1>5. Locked(jobs, Open(jobs)) = jobs[id].amount + Locked(jobs, rest)
    BY <1>2, <1>3, <1>4, SumRemove
<1>6. balance = Locked(jobs, Open(jobs)) /\ jobs[id].amount \in Nat
    BY <1>2, <1>4, SolventIs
<1> HIDE DEF rest
<1> QED BY <1>3, <1>5, <1>6

\* Every job the contract has not settled can be paid from its balance, for any
\* number of jobs settled in any order before it: the transfers of _settle and
\* _settleDispute never fail for want of funds.
THEOREM CoverageCorrect == Spec => []Coverage
BY TypeCorrect, SolventCorrect, CoverageIs, PTL

\* Past MAX_JOB_LIFETIME nothing stands between an unsettled job whose parties
\* take transfers and its settlement, in whatever status its callers left it:
\* no require of forceClose fails and none of its transfers.  (the "safety valve")
THEOREM NeverStuck == Spec => [](\A id \in JobIds : Expired(id) => Closable(id))
<1>1. ASSUME TypeOK, Coverage, NEW id \in JobIds, Expired(id) PROVE Closable(id)
    <2>1. Closing(id) \in PartsType /\ Total(Closing(id)) <= balance
        BY <1>1, ClosingTotal DEF Coverage, Expired
    <2>2. Payees(id, Closing(id)) \subseteq {jobs[id].buyer, jobs[id].provider, feeRecipient}
        BY DEF Payees
    <2> QED BY <1>1, <2>1, <2>2 DEF Expired, Closable
<1>2. TypeOK /\ Coverage => \A id \in JobIds : Expired(id) => Closable(id)
    BY <1>1
<1> QED BY <1>2, TypeCorrect, CoverageCorrect, PTL

\* The step forceClose takes from there: the state in which this job is settled
\* and paid and nothing else is changed is a next state of the market.
THEOREM ClosingStep ==
    ASSUME TypeOK, NEW id \in JobIds, Closable(id),
           jobs' = [jobs EXCEPT ![id].status = "Settled"],
           paid' = [paid EXCEPT ![id] = Closing(id)],
           balance' = balance - Total(Closing(id)),
           UNCHANGED <<splitProposals, rejecting, now>>
    PROVE  forceClose(id) /\ Next /\ balance' \in Nat
<1>1. balance' = balance - (Closing(id).buyer + Closing(id).provider + Closing(id).fee)
    BY DEF Total
<1>2. Release(id, Closing(id))
    BY <1>1 DEF Release, Closable
<1>3. forceClose(id)
    BY <1>2 DEF forceClose, Closable, Closing
<1>4. balance' \in Nat
    <2>1. Closing(id) \in PartsType
        BY DEF Closable
    <2>2. Total(Closing(id)) \in Nat
        BY <2>1 DEF Total, PartsType
    <2> QED BY <2>2 DEF Closable, TypeOK
<1> QED BY <1>3, <1>4 DEF Next
-----------------------------------------------------------------------------
(* The top-up manager.                                                     *)

\* Passes that have been let past the cap on day d and are not counted yet.
Pending(d) == {p \in Passes : pc[p] \in {"deposit", "transfer"} /\ Day(ts[p]) = d}

CapInv == \A d \in Days : count[d] + Cardinality(Pending(d)) <= MaxPerDay + Cardinality(Passes) - 1

\* What a pass knows of a wallet nobody else spends from: it read no more than is
\* there together with what late transactions have taken since.
Knows(p) == /\ pc[p] \in {"answered", "providers", "low"} => seen[p] <= wallet + taken
            /\ pc[p] = "deposit" => wallet + taken >= TopUp + Reserve

\* As long as nothing crossed there is one pass, and it knows that.
ReserveInv ==
    ~crossed => /\ \A p, q \in Passes : Active(p) /\ Active(q) => p = q
                /\ \A p \in Passes : Knows(p)

TopupInv == TopupTypeOK /\ CapInv /\ ReserveInv

LEMMA DayType == ASSUME NEW t \in Times PROVE Day(t) \in Days
BY TopupAssumption DEF Day, Days, Times

ValuesOK ==
    /\ wallet \in Nat /\ ledger \in Nat /\ envelope \in Nat
    /\ late \in [Txs -> Nat] /\ taken \in Nat
    /\ clock \in Times
    /\ pc \in [Passes -> Stages] /\ ts \in [Passes -> Times] /\ seen \in [Passes -> Nat]
    /\ count \in [Days -> Nat] /\ fired \in [Days -> Nat] /\ count = fired
    /\ initFailedAt \in Times \cup {None} /\ thinAt \in Times \cup {None}
    /\ event \in {"none", "skipped", "failed", "fired", "wallet-low", "restarted"}

LEMMA TypeSplit == TopupTypeOK <=> FlagsOK /\ ValuesOK
BY DEF TopupTypeOK, ValuesOK

LEMMA TypeInit == TopupInit => TopupTypeOK
<1>1. TopupInit => FlagsOK
    BY DEF TopupInit, FlagsOK
<1>2. TopupInit => ValuesOK
    BY TopupAssumption DEF TopupInit, ValuesOK, Times, Days, Stages, Txs
<1>. QED
    BY <1>1, <1>2, TypeSplit

LEMMA FlagsStep == FlagsOK /\ [TopupNext]_topupVars => FlagsOK'
<1> SUFFICES ASSUME FlagsOK, [TopupNext]_topupVars PROVE FlagsOK'
    OBVIOUS
<1> USE DEF FlagsOK
<1>1. CASE Stop
    BY <1>1 DEF Stop, history
<1>2. CASE Restart
    BY <1>2 DEF Restart, history
<1>3. CASE World
    BY <1>3, Zenon DEF World, memory
<1>7. CASE LateLands
    BY <1>7, Zenon DEF LateLands, memory
<1>4. ASSUME NEW p \in Passes, Begin(p) PROVE FlagsOK'
    BY <1>4, Zenon DEF Begin
<1>5. ASSUME NEW p \in Passes, Answer(p) PROVE FlagsOK'
    <2>1. CASE InitReturns(p)
        <3>1. broker' = broker \/ broker' = TRUE
            BY <2>1, Zenon DEF InitReturns
        <3>2. broker' \in BOOLEAN
            BY <3>1
        <3>3. wasLow' = wasLow /\ stopping' = stopping /\ crossed' = crossed
            BY <2>1, Zenon DEF InitReturns, history
        <3>. QED
            BY <3>2, <3>3
    <2>2. CASE BalanceUsed(p)
        <3>1. wasLow' \in BOOLEAN
            BY <2>2 DEF BalanceUsed
        <3>. QED
            BY <2>2, <3>1, Zenon DEF BalanceUsed, history
    <2>3. CASE BalanceRead(p) \/ ProvidersRead(p) \/ Decide(p)
        BY <2>3, Zenon DEF BalanceRead, ProvidersRead, Decide, memory, history
    <2>4. CASE DepositDone(p) \/ TransferDone(p) \/ TxFails(p)
        BY <2>4, Zenon DEF DepositDone, TransferDone, TxFails, memory, history
    <2>. QED
        BY <1>5, <2>1, <2>2, <2>3, <2>4 DEF Answer
<1>6. CASE UNCHANGED topupVars
    BY <1>6 DEF topupVars, memory, history
<1>. QED
    BY <1>1, <1>2, <1>3, <1>4, <1>5, <1>6, <1>7 DEF TopupNext

LEMMA ZeroTime == 0 \in Times /\ 0 \in Nat
BY TopupAssumption DEF Times

\* What a transaction that is mined, or reverts, takes from the wallet.
LEMMA MinedPays ==
    ASSUME ValuesOK, NEW tx, Mined(tx)
    PROVE  /\ wallet' \in Nat /\ ledger' \in Nat /\ envelope' \in Nat /\ wallet' <= wallet
           /\ tx \in Txs
           /\ tx = "deposit" => wallet' + Gas + TopUp >= wallet
           /\ tx = "transfer" => ledger' <= ledger
<1>1. /\ wallet \in Nat /\ ledger \in Nat /\ envelope \in Nat
      /\ TopUp \in Nat /\ Gas \in Nat
    BY TopupAssumption DEF ValuesOK
<1>2. PICK gas \in 0..Gas : (tx = "deposit" /\ Deposit(gas)) \/ (tx = "transfer" /\ Transfer(gas))
    BY DEF Mined
<1>3. CASE tx = "deposit" /\ Deposit(gas)
    BY <1>1, <1>3 DEF Deposit, Txs
<1>4. CASE tx = "transfer" /\ Transfer(gas)
    BY <1>1, <1>4 DEF Transfer, Txs
<1>. QED
    BY <1>2, <1>3, <1>4

LEMMA GasPays ==
    ASSUME ValuesOK, GasOnly
    PROVE  /\ wallet' \in Nat /\ wallet' <= wallet
           /\ ledger' = ledger /\ envelope' = envelope
BY TopupAssumption DEF ValuesOK, GasOnly

LEMMA LeaveType ==
    ASSUME ValuesOK, NEW sent \in SUBSET Passes, Leave(sent)
    PROVE  late' \in [Txs -> Nat] /\ UNCHANGED money
<1> DEFINE n(tx) == Cardinality({p \in sent : pc[p] = tx})
<1>1. \A tx : n(tx) \in Nat
    <2> SUFFICES ASSUME NEW tx PROVE n(tx) \in Nat
        OBVIOUS
    <2>1. {p \in sent : pc[p] = tx} \subseteq Passes
        OBVIOUS
    <2>. QED
        BY <2>1, FS_Subset, FS_CardinalityType, TopupAssumption
<1>2. /\ late' = [late EXCEPT !["deposit"] = @ + n("deposit"), !["transfer"] = @ + n("transfer")]
      /\ UNCHANGED money
    BY DEF Leave
<1> HIDE DEF n
<1>3. late' \in [Txs -> Nat]
    BY <1>1, <1>2 DEF ValuesOK, Txs
<1>. QED
    BY <1>2, <1>3

\* A call that throws leaves the money where some outcome of its transaction puts it.
LEMMA ThrowsPays ==
    ASSUME ValuesOK, NEW p \in Passes, Throws(p)
    PROVE  /\ wallet' \in Nat /\ ledger' \in Nat /\ envelope' \in Nat /\ wallet' <= wallet
           /\ late' \in [Txs -> Nat]
           /\ ledger' > ledger => pc[p] = "deposit" /\ wallet' + Gas + TopUp >= wallet
<1>0. /\ wallet \in Nat /\ ledger \in Nat /\ envelope \in Nat /\ late \in [Txs -> Nat]
      /\ pc[p] \in {"deposit", "transfer"}
    BY DEF ValuesOK, Throws
<1>1. CASE Mined(pc[p]) /\ UNCHANGED late
    BY <1>0, <1>1, MinedPays
<1>2. CASE GasOnly /\ UNCHANGED late
    BY <1>0, <1>2, GasPays
<1>3. CASE Leave({p})
    BY <1>0, <1>3, LeaveType DEF money
<1>. QED
    BY <1>1, <1>2, <1>3 DEF Throws

LEMMA ValuesStep == ValuesOK /\ [TopupNext]_topupVars => ValuesOK'
<1> SUFFICES ASSUME ValuesOK, [TopupNext]_topupVars PROVE ValuesOK'
    OBVIOUS
<1> USE TopupAssumption, ZeroTime DEF ValuesOK, Stages, Go, End, Quiet
<1>1. CASE Stop
    BY <1>1 DEF Stop, chain, money, history
<1>2. CASE Restart
    <2>1. PICK sent \in SUBSET {p \in Passes : pc[p] \in {"deposit", "transfer"}} : Leave(sent)
        BY <1>2 DEF Restart
    <2>2. late' \in [Txs -> Nat] /\ UNCHANGED money
        BY <2>1, LeaveType
    <2>. QED
        BY <1>2, <2>2 DEF Restart, money, history
<1>3. CASE World
    <2>1. wallet' \in Nat /\ ledger' \in Nat /\ envelope' \in Nat
        BY <1>3 DEF World, money
    <2>2. clock' \in Times
        BY <1>3 DEF World, Times
    <2>. QED
        BY <1>3, <2>1, <2>2 DEF World, memory
<1>7. CASE LateLands
    <2>1. PICK tx \in Txs : /\ late[tx] > 0 /\ late' = [late EXCEPT ![tx] = @ - 1]
                            /\ Mined(tx) \/ GasOnly
        BY <1>7 DEF LateLands
    <2>2. late' \in [Txs -> Nat]
        BY <2>1
    <2>3. wallet' \in Nat /\ ledger' \in Nat /\ envelope' \in Nat /\ wallet' <= wallet
        BY <2>1, MinedPays, GasPays
    <2>4. taken' = 0 \/ taken' = taken + (wallet - wallet')
        BY <1>7 DEF LateLands
    <2>5. taken' \in Nat
        BY <2>3, <2>4
    <2>. QED
        BY <1>7, <2>2, <2>3, <2>5 DEF LateLands, memory
<1>4. ASSUME NEW p \in Passes, Begin(p) PROVE ValuesOK'
    BY <1>4 DEF Begin, Start, chain, money
<1>5. ASSUME NEW p \in Passes, Answer(p) PROVE ValuesOK'
    <2>1. CASE InitReturns(p)
        <3>1. /\ \/ initFailedAt' = None /\ Go(p, "balance") /\ UNCHANGED seen
                 \/ initFailedAt' = ts[p] /\ End(p, "skipped")
              /\ UNCHANGED <<late, clock, count, thinAt, fired, history>>
            BY <2>1, Zenon DEF InitReturns
        <3>2. wallet' \in Nat /\ ledger' \in Nat /\ envelope' \in Nat
            BY <2>1, GasPays DEF InitReturns
        <3>. QED
            BY <3>1, <3>2 DEF history
    <2>2. CASE BalanceRead(p)
        BY <2>2 DEF BalanceRead, chain, money, memory
    <2>3. CASE BalanceUsed(p)
        BY <2>3 DEF BalanceUsed, FallsLow, chain, money, history
    <2>4. CASE ProvidersRead(p)
        BY <2>4 DEF ProvidersRead, chain, money, memory, history
    <2>5. CASE Decide(p)
        BY <2>5 DEF Decide, chain, money, history
    <2>6. CASE DepositDone(p)
        <3>1. wallet' \in Nat /\ ledger' \in Nat /\ envelope' \in Nat
            BY <2>6, MinedPays DEF DepositDone
        <3>. QED
            BY <2>6, <3>1 DEF DepositDone, memory, history
    <2>7. CASE TransferDone(p)
        <3>1. Day(ts[p]) \in Days
            BY DayType
        <3>2. wallet' \in Nat /\ ledger' \in Nat /\ envelope' \in Nat
            BY <2>7, MinedPays DEF TransferDone
        <3>. QED
            BY <2>7, <3>1, <3>2 DEF TransferDone, history
    <2>8. CASE TxFails(p)
        <3>1. wallet' \in Nat /\ ledger' \in Nat /\ envelope' \in Nat /\ late' \in [Txs -> Nat]
            BY <2>8, ThrowsPays DEF TxFails
        <3>. QED
            BY <2>8, <3>1 DEF TxFails, memory, history
    <2>. QED
        BY <1>5, <2>1, <2>2, <2>3, <2>4, <2>5, <2>6, <2>7, <2>8 DEF Answer
<1>6. CASE UNCHANGED topupVars
    BY <1>6 DEF topupVars, chain, money, memory, history
<1>. QED
    BY <1>1, <1>2, <1>3, <1>4, <1>5, <1>6, <1>7 DEF TopupNext

LEMMA TypeStep == TopupTypeOK /\ [TopupNext]_topupVars => TopupTypeOK'
<1>1. (FlagsOK /\ ValuesOK)' => TopupTypeOK'
    BY DEF TopupTypeOK, ValuesOK
<1>. QED
    BY <1>1, TypeSplit, FlagsStep, ValuesStep
-----------------------------------------------------------------------------
(* The cap.                                                                *)

LEMMA PendingFinite ==
    ASSUME NEW d PROVE IsFiniteSet(Pending(d)) /\ Cardinality(Pending(d)) \in Nat
BY FS_Subset, FS_CardinalityType, TopupAssumption DEF Pending

\* A pass that may still be let past the cap is one that is not pending.
LEMMA OneNotPending ==
    ASSUME NEW p \in Passes, NEW d, p \notin Pending(d)
    PROVE  Cardinality(Pending(d)) <= Cardinality(Passes) - 1
<1>1. Pending(d) \subseteq Passes \ {p} /\ IsFiniteSet(Passes \ {p})
    BY FS_RemoveElement, TopupAssumption DEF Pending
<1>2. Cardinality(Passes \ {p}) = Cardinality(Passes) - 1
    BY FS_RemoveElement, TopupAssumption
<1>. QED
    BY <1>1, <1>2, FS_Subset

\* Whatever leaves the counter alone and lets no further pass through keeps CapInv.
LEMMA CapFrame ==
    ASSUME TopupTypeOK, TopupTypeOK', CapInv, count' = count,
           \A d \in Days : Pending(d)' \subseteq Pending(d)
    PROVE  CapInv'
<1>1. SUFFICES ASSUME NEW d \in Days
               PROVE  count'[d] + Cardinality(Pending(d)') <= MaxPerDay + Cardinality(Passes) - 1
    BY DEF CapInv
<1>2. /\ Cardinality(Pending(d)') <= Cardinality(Pending(d))
      /\ Cardinality(Pending(d)') \in Nat /\ Cardinality(Pending(d)) \in Nat
    BY PendingFinite, FS_Subset, FS_CardinalityType
<1>3. count[d] \in Nat /\ count[d] + Cardinality(Pending(d)) <= MaxPerDay + Cardinality(Passes) - 1
    BY DEF CapInv, TopupTypeOK
<1>4. Cardinality(Passes) \in Nat /\ MaxPerDay \in Nat
    BY FS_CardinalityType, TopupAssumption
<1>. QED
    BY <1>2, <1>3, <1>4

LEMMA CapInit == TopupInit => CapInv
<1> SUFFICES ASSUME TopupInit, NEW d \in Days
             PROVE  count[d] + Cardinality(Pending(d)) <= MaxPerDay + Cardinality(Passes) - 1
    BY DEF CapInv
<1>1. PICK p : p \in Passes
    BY TopupAssumption
<1>2. p \notin Pending(d)
    BY <1>1 DEF Pending, TopupInit
<1>3. count[d] = 0 /\ MaxPerDay \in Nat \ {0}
    BY TopupAssumption DEF TopupInit
<1>4. Cardinality(Pending(d)) \in Nat /\ Cardinality(Passes) \in Nat
    BY PendingFinite, FS_CardinalityType, TopupAssumption
<1>. QED
    BY <1>1, <1>2, <1>3, <1>4, OneNotPending

LEMMA CapStep == TopupTypeOK /\ TopupTypeOK' /\ CapInv /\ [TopupNext]_topupVars => CapInv'
<1> SUFFICES ASSUME TopupTypeOK, TopupTypeOK', CapInv, [TopupNext]_topupVars PROVE CapInv'
    OBVIOUS
<1>0. MaxPerDay \in Nat /\ Cardinality(Passes) \in Nat
    BY TopupAssumption, FS_CardinalityType
<1>1. CASE Stop \/ World \/ LateLands \/ UNCHANGED topupVars
    BY <1>1, CapFrame DEF Stop, World, LateLands, topupVars, memory, Pending
<1>2. CASE Restart
    <2> SUFFICES ASSUME NEW d \in Days
                 PROVE  count'[d] + Cardinality(Pending(d)') <= MaxPerDay + Cardinality(Passes) - 1
        BY DEF CapInv
    <2>1. Pending(d)' = {} /\ count'[d] = 0
        BY <1>2 DEF Restart, Pending
    <2>2. Cardinality(Pending(d)') = 0
        BY <2>1, FS_EmptySet
    <2>3. Cardinality(Passes) # 0
        BY FS_EmptySet, TopupAssumption
    <2>. QED
        BY <1>0, <2>1, <2>2, <2>3, TopupAssumption
<1>3. ASSUME NEW p \in Passes, Begin(p) PROVE CapInv'
    <2>1. pc[p] = "idle" /\ count' = count
        BY <1>3 DEF Begin
    <2>2. pc' = [pc EXCEPT ![p] = pc'[p]] /\ pc'[p] \in {"idle", "init", "balance"}
        BY <1>3 DEF Begin, Start, End, TopupTypeOK
    <2>3. \A q \in Passes \ {p} : ts'[q] = ts[q]
        BY <1>3 DEF Begin, Start, End, TopupTypeOK
    <2>. QED
        BY <2>1, <2>2, <2>3, CapFrame DEF Pending, TopupTypeOK
<1>4. ASSUME NEW p \in Passes, Answer(p) PROVE CapInv'
    <2>1. CASE InitReturns(p) \/ BalanceRead(p) \/ BalanceUsed(p) \/ ProvidersRead(p)
        <3>1. count' = count
            BY <2>1 DEF InitReturns, BalanceRead, BalanceUsed, ProvidersRead, memory
        <3>2. pc' = [pc EXCEPT ![p] = pc'[p]] /\ pc'[p] \notin {"deposit", "transfer"}
            BY <2>1 DEF InitReturns, BalanceRead, BalanceUsed, ProvidersRead, Go, End, TopupTypeOK
        <3>3. \A q \in Passes \ {p} : ts'[q] = ts[q]
            BY <2>1 DEF InitReturns, BalanceRead, BalanceUsed, ProvidersRead, Go, End, TopupTypeOK
        <3>. QED
            BY <3>1, <3>2, <3>3, CapFrame DEF Pending, TopupTypeOK
    <2>2. CASE Decide(p)
        <3>1. CASE pc'[p] # "deposit"
            <4>1. count' = count /\ pc' = [pc EXCEPT ![p] = "idle"]
                BY <2>2, <3>1 DEF Decide, Go, End, TopupTypeOK
            <4>2. \A q \in Passes \ {p} : ts'[q] = ts[q]
                BY <2>2 DEF Decide, Go, End, TopupTypeOK
            <4>. QED
                BY <4>1, <4>2, CapFrame DEF Pending, TopupTypeOK
        <3>2. CASE pc'[p] = "deposit"
            <4>1. /\ pc[p] = "low" /\ pc' = [pc EXCEPT ![p] = "deposit"] /\ ts' = ts
                  /\ count' = count /\ ~CapReached(p)
                BY <2>2, <3>2 DEF Decide, Go, End, TopupTypeOK
            <4> SUFFICES ASSUME NEW d \in Days
                         PROVE  count'[d] + Cardinality(Pending(d)') <= MaxPerDay + Cardinality(Passes) - 1
                BY DEF CapInv
            <4>2. CASE Day(ts[p]) # d
                <5>1. Pending(d)' = Pending(d)
                    BY <4>1, <4>2 DEF Pending, TopupTypeOK
                <5>. QED
                    BY <4>1, <5>1 DEF CapInv
            <4>3. CASE Day(ts[p]) = d
                <5>1. p \notin Pending(d) /\ Pending(d)' = Pending(d) \cup {p}
                    BY <4>1, <4>3 DEF Pending, TopupTypeOK
                <5>2. Cardinality(Pending(d)') = Cardinality(Pending(d)) + 1
                    BY <5>1, PendingFinite, FS_AddElement
                <5>3. count'[d] < MaxPerDay /\ count'[d] \in Nat
                    BY <1>0, <4>1, <4>3 DEF CapReached, TopupTypeOK
                <5>4. Cardinality(Pending(d)) <= Cardinality(Passes) - 1 /\ Cardinality(Pending(d)) \in Nat
                    BY <5>1, OneNotPending, PendingFinite
                <5>. QED
                    BY <1>0, <5>2, <5>3, <5>4
            <4>. QED
                BY <4>2, <4>3
        <3>. QED
            BY <3>1, <3>2
    <2>3. CASE DepositDone(p)
        <3>1. pc' = [pc EXCEPT ![p] = "transfer"] /\ ts' = ts /\ count' = count /\ pc[p] = "deposit"
            BY <2>3 DEF DepositDone, Go, memory
        <3>. QED
            BY <3>1, CapFrame DEF Pending, TopupTypeOK
    <2>4. CASE TransferDone(p)
        <3>1. /\ pc[p] = "transfer" /\ pc' = [pc EXCEPT ![p] = "idle"] /\ ts' = [ts EXCEPT ![p] = 0]
              /\ count' = [count EXCEPT ![Day(ts[p])] = @ + 1]
            BY <2>4 DEF TransferDone, End
        <3> SUFFICES ASSUME NEW d \in Days
                     PROVE  count'[d] + Cardinality(Pending(d)') <= MaxPerDay + Cardinality(Passes) - 1
            BY DEF CapInv
        <3>2. CASE Day(ts[p]) # d
            <4>1. Pending(d)' = Pending(d) /\ count'[d] = count[d]
                BY <3>1, <3>2 DEF Pending, TopupTypeOK
            <4>. QED
                BY <4>1 DEF CapInv
        <3>3. CASE Day(ts[p]) = d
            <4>1. p \in Pending(d) /\ Pending(d)' = Pending(d) \ {p} /\ count'[d] = count[d] + 1
                BY <3>1, <3>3 DEF Pending, TopupTypeOK
            <4>2. Cardinality(Pending(d)') = Cardinality(Pending(d)) - 1
                BY <4>1, PendingFinite, FS_RemoveElement
            <4>3. count[d] \in Nat /\ Cardinality(Pending(d)) \in Nat
                BY PendingFinite DEF TopupTypeOK
            <4>. QED
                BY <1>0, <4>1, <4>2, <4>3 DEF CapInv
        <3>. QED
            BY <3>2, <3>3
    <2>5. CASE TxFails(p)
        <3>1. pc' = [pc EXCEPT ![p] = "idle"] /\ count' = count
            BY <2>5 DEF TxFails, End, memory
        <3>2. \A q \in Passes \ {p} : ts'[q] = ts[q]
            BY <2>5 DEF TxFails, End, TopupTypeOK
        <3>. QED
            BY <3>1, <3>2, CapFrame DEF Pending, TopupTypeOK
    <2>. QED
        BY <1>4, <2>1, <2>2, <2>3, <2>4, <2>5 DEF Answer
<1>. QED
    BY <1>1, <1>2, <1>3, <1>4 DEF TopupNext
-----------------------------------------------------------------------------
(* The reserve.                                                            *)

LEMMA ReserveInit == TopupInit => ReserveInv
BY TopupAssumption DEF TopupInit, ReserveInv, Active, Knows

LEMMA ReserveStep == TopupTypeOK /\ TopupTypeOK' /\ ReserveInv /\ [TopupNext]_topupVars => ReserveInv'
<1> SUFFICES ASSUME TopupTypeOK, TopupTypeOK', ReserveInv, [TopupNext]_topupVars, ~crossed'
             PROVE  /\ \A p, q \in Passes : Active(p)' /\ Active(q)' => p = q
                    /\ \A p \in Passes : Knows(p)'
    BY DEF ReserveInv
<1>0. /\ TopUp \in Nat /\ Reserve \in Nat /\ wallet \in Nat /\ wallet' \in Nat
      /\ taken \in Nat /\ taken' \in Nat /\ \A p \in Passes : seen[p] \in Nat /\ seen'[p] \in Nat
    BY TopupAssumption DEF TopupTypeOK
<1>t. ValuesOK
    BY TypeSplit
\* Nothing clears the flag.
<1>c. ~crossed
    BY DEF TopupNext, Stop, Restart, World, LateLands, Begin, Answer, InitReturns, BalanceRead, BalanceUsed,
           ProvidersRead, Decide, DepositDone, TransferDone, TxFails, topupVars, history
<1>i. /\ \A p, q \in Passes : Active(p) /\ Active(q) => p = q
      /\ \A p \in Passes : Knows(p)
    BY <1>c DEF ReserveInv
<1>1. CASE Stop \/ UNCHANGED topupVars
    BY <1>1, <1>i DEF Stop, topupVars, chain, money, memory, history, Active, Knows
<1>2. CASE Restart
    BY <1>2 DEF Restart, Active, Knows
<1>3. CASE World
    <2>1. UNCHANGED <<pc, seen, taken>> /\ wallet' >= wallet
        BY <1>0, <1>3 DEF World, money
    <2>2. \A p \in Passes : pc'[p] = pc[p] /\ seen'[p] = seen[p]
        BY <2>1
    <2>3. ASSUME NEW p \in Passes PROVE Knows(p)'
        BY <1>0, <1>i, <2>1, <2>2 DEF Knows
    <2>. QED
        BY <1>i, <2>2, <2>3 DEF Active
<1>7. CASE LateLands
    <2>1. \A p \in Passes : pc'[p] = pc[p] /\ seen'[p] = seen[p]
        BY <1>7 DEF LateLands
    <2>2. CASE \A p \in Passes : pc[p] \notin Counting
        BY <1>i, <2>1, <2>2 DEF Active, Knows, Counting
    <2>3. CASE taken' = taken + (wallet - wallet')
        <3> DEFINE left == wallet'
                   gone == taken'
        <3>0. wallet \in Nat /\ taken \in Nat /\ left \in Nat /\ gone = taken + (wallet - left)
            BY <1>0, <2>3
        <3>1. left + gone = wallet + taken
            <4> HIDE DEF left, gone
            <4> QED BY <3>0
        <3>2. ASSUME NEW p \in Passes PROVE Knows(p)'
            <4>1. Knows(p) /\ pc'[p] = pc[p] /\ seen'[p] = seen[p]
                BY <1>i, <2>1
            <4>2. CASE pc[p] \in {"answered", "providers", "low"}
                BY <3>1, <4>1, <4>2 DEF Knows
            <4>3. CASE pc[p] = "deposit"
                BY <3>1, <4>1, <4>3 DEF Knows
            <4>. QED
                BY <4>1, <4>2, <4>3 DEF Knows
        <3>. QED
            BY <1>i, <2>1, <3>2 DEF Active
    <2>. QED
        BY <1>7, <1>c, <2>2, <2>3 DEF LateLands
<1>4. ASSUME NEW p \in Passes, Begin(p)
      PROVE  /\ \A a, b \in Passes : Active(a)' /\ Active(b)' => a = b
             /\ \A a \in Passes : Knows(a)'
    <2>1. \A q \in Passes : ~Active(q)
        BY <1>4 DEF Begin, Active
    <2>2. /\ \A q \in Passes \ {p} : pc'[q] = pc[q]
          /\ pc'[p] \in {"idle", "init", "balance"}
        BY <1>4 DEF Begin, Start, End, TopupTypeOK
    <2>3. \A q \in Passes : pc'[q] \in {"idle", "init", "balance"}
        BY <2>1, <2>2 DEF Active
    <2>. QED
        BY <2>1, <2>2, <2>3 DEF Active, Knows
<1>5. ASSUME NEW p \in Passes, Answer(p)
      PROVE  /\ \A a, b \in Passes : Active(a)' /\ Active(b)' => a = b
             /\ \A a \in Passes : Knows(a)'
    <2>1. Active(p) /\ pc' = [pc EXCEPT ![p] = pc'[p]]
        BY <1>5 DEF Answer, InitReturns, BalanceRead, BalanceUsed, ProvidersRead, Decide, DepositDone,
                    TransferDone, TxFails, Throws, Go, End, Active, TopupTypeOK
    <2>2. \A q \in Passes \ {p} : pc'[q] = "idle"
        BY <1>i, <2>1 DEF Active, TopupTypeOK
    <2>3. \A a, b \in Passes : Active(a)' /\ Active(b)' => a = b
        BY <2>2 DEF Active
    <2>4. SUFFICES Knows(p)'
        BY <2>2, <2>3 DEF Knows
    <2>5. Knows(p)
        BY <1>i
    <2>6. CASE InitReturns(p)
        <3>1. pc'[p] \in {"idle", "balance"}
            BY <2>6 DEF InitReturns, Go, End, TopupTypeOK
        <3>. QED
            BY <3>1 DEF Knows
    <2>7. CASE BalanceRead(p)
        <3>1. \/ pc'[p] = "answered" /\ seen'[p] = wallet /\ wallet' = wallet
              \/ pc'[p] = "idle"
            BY <2>7 DEF BalanceRead, Go, End, chain, money, TopupTypeOK
        <3>. QED
            BY <1>0, <3>1 DEF Knows
    <2>8. CASE BalanceUsed(p) \/ ProvidersRead(p)
        <3>1. /\ wallet' = wallet /\ taken' = taken /\ pc[p] \in {"answered", "providers"}
              /\ pc'[p] \in {"idle", "providers", "low"} /\ (pc'[p] # "idle" => seen'[p] = seen[p])
            BY <2>8 DEF BalanceUsed, ProvidersRead, Go, End, chain, money, history, TopupTypeOK
        <3>. QED
            BY <2>5, <3>1 DEF Knows
    <2>9. CASE Decide(p)
        <3>1. /\ wallet' = wallet /\ taken' = taken /\ pc[p] = "low" /\ pc'[p] \in {"idle", "deposit"}
              /\ pc'[p] = "deposit" => ~Thin(p)
            BY <2>9 DEF Decide, Go, End, chain, money, history, TopupTypeOK
        <3>. QED
            BY <1>0, <2>5, <3>1 DEF Thin, Knows
    <2>10. CASE DepositDone(p) \/ TransferDone(p) \/ TxFails(p)
        <3>1. pc'[p] \in {"idle", "transfer"}
            BY <2>10 DEF DepositDone, TransferDone, TxFails, Go, End, TopupTypeOK
        <3>. QED
            BY <3>1 DEF Knows
    <2>. QED
        BY <1>5, <2>6, <2>7, <2>8, <2>9, <2>10 DEF Answer
<1>. QED
    BY <1>1, <1>2, <1>3, <1>4, <1>5, <1>7 DEF TopupNext

\* A step that brings a deposit to the ledger while no late transaction ends is
\* the deposit of a pass that waits for it.
LEMMA DepositStep ==
    ASSUME TopupTypeOK, [TopupNext]_topupVars, ledger' > ledger, UNCHANGED late
    PROVE  \E p \in Passes : pc[p] = "deposit" /\ wallet' + Gas + TopUp >= wallet
<1>t. ValuesOK
    BY TypeSplit
<1>0. ledger \in Nat /\ late \in [Txs -> Nat]
    BY <1>t DEF ValuesOK
<1>1. ~(ledger' = ledger)
    BY <1>0
<1>2. ~Stop /\ ~World /\ ~UNCHANGED topupVars
    BY <1>1 DEF Stop, World, topupVars, chain, money
<1>3. ~Restart
    BY <1>1, <1>t, LeaveType DEF Restart, money
<1>4. ~LateLands
    BY <1>0 DEF LateLands
<1>5. ASSUME NEW p \in Passes, Begin(p) PROVE FALSE
    BY <1>1, <1>5 DEF Begin, chain, money
<1>6. ASSUME NEW p \in Passes, Answer(p)
      PROVE  pc[p] = "deposit" /\ wallet' + Gas + TopUp >= wallet
    <2>1. ~InitReturns(p)
        BY <1>1, <1>t, GasPays DEF InitReturns
    <2>2. ~BalanceRead(p) /\ ~BalanceUsed(p) /\ ~ProvidersRead(p) /\ ~Decide(p)
        BY <1>1 DEF BalanceRead, BalanceUsed, ProvidersRead, Decide, chain, money
    <2>3. CASE DepositDone(p)
        BY <1>t, <2>3, MinedPays DEF DepositDone
    <2>4. ~TransferDone(p)
        BY <1>0, <1>t, MinedPays DEF TransferDone
    <2>5. CASE TxFails(p)
        BY <1>t, <2>5, ThrowsPays DEF TxFails
    <2>. QED
        BY <1>6, <2>1, <2>2, <2>3, <2>4, <2>5 DEF Answer
<1>. QED
    BY <1>2, <1>3, <1>4, <1>5, <1>6 DEF TopupNext
-----------------------------------------------------------------------------
LEMMA TopupInductive == TopupSpec => []TopupInv
<1>1. TopupInit => TopupInv
    BY TypeInit, CapInit, ReserveInit DEF TopupInv
<1>2. TopupInv /\ [TopupNext]_topupVars => TopupInv'
    BY TypeStep, CapStep, ReserveStep DEF TopupInv
<1>. QED
    BY <1>1, <1>2, PTL DEF TopupSpec

\* The manager's variables keep their types, and its counter says what it fired.
THEOREM TopupTypeCorrect == TopupSpec => []TopupTypeOK
<1>1. TopupInv => TopupTypeOK
    BY DEF TopupInv
<1>. QED
    BY <1>1, TopupInductive, PTL

\* However passes overlap, fail and restart, a life of the gateway exceeds
\* maxPerDay by at most the number of further passes under way.
THEOREM CapCorrect == TopupSpec => []CapOvershoot
<1>1. TopupInv => CapOvershoot
    <2> SUFFICES ASSUME TopupInv, NEW d \in Days PROVE fired[d] <= MaxPerDay + Cardinality(Passes) - 1
        BY DEF CapOvershoot
    <2>1. count[d] + Cardinality(Pending(d)) <= MaxPerDay + Cardinality(Passes) - 1
        BY DEF TopupInv, CapInv
    <2>2. fired[d] = count[d] /\ count[d] \in Nat
        BY DEF TopupInv, TopupTypeOK
    <2>3. Cardinality(Pending(d)) \in Nat /\ Cardinality(Passes) \in Nat /\ MaxPerDay \in Nat
        BY PendingFinite, FS_CardinalityType, TopupAssumption
    <2>. QED
        BY <2>1, <2>2, <2>3
<1>. QED
    BY <1>1, TopupInductive, PTL

LEMMA Leftover ==
    ASSUME NEW before \in Nat, NEW after \in Nat, NEW gas \in Nat, NEW top \in Nat, NEW least \in Nat,
           NEW gone \in Nat, after + gas + top >= before, before + gone >= top + least
    PROVE  after + gas + gone >= least
OBVIOUS

\* Whatever fails and wherever the gateway dies, a deposit that a pass waits for
\* leaves the reserve in the wallet, but for the deposit's gas and what late
\* transactions took since the balance was read, as long as passes do not overlap
\* and nobody else spends.
THEOREM ReserveCorrect == TopupSpec => ReserveKept
<1>1. TopupInv /\ [TopupNext]_topupVars /\ ~crossed /\ ledger' > ledger /\ UNCHANGED late
        => wallet' + Gas + taken >= Reserve
    <2> SUFFICES ASSUME TopupInv, [TopupNext]_topupVars, ~crossed, ledger' > ledger, UNCHANGED late
                 PROVE  wallet' + Gas + taken >= Reserve
        OBVIOUS
    <2>1. PICK p \in Passes : pc[p] = "deposit" /\ wallet' + Gas + TopUp >= wallet
        BY DepositStep DEF TopupInv
    <2>2. wallet + taken >= TopUp + Reserve
        BY <2>1 DEF TopupInv, ReserveInv, Knows
    <2>3. wallet \in Nat /\ taken \in Nat /\ TopUp \in Nat /\ Reserve \in Nat /\ Gas \in Nat /\ wallet' \in Nat
        BY TypeStep, TopupAssumption DEF TopupInv, TopupTypeOK
    <2>. QED
        BY <2>1, <2>2, <2>3, Leftover
<1>. QED
    BY <1>1, TopupInductive, PTL DEF TopupSpec, ReserveKept
=============================================================================
