SPECIFICATION Spec
CONSTANTS
    alice = alice
    bob = bob
    treasury = treasury
    Accounts <- MCAccounts
    feeRecipient = treasury
    PROTOCOL_FEE_BPS = 500
    BPS_DENOMINATOR = 10000
    ACCEPTANCE_PERIOD = 2
    MAX_JOB_LIFETIME = 4
    MIN_JOB_AMOUNT = 20
    Amounts <- MCAmounts
    Shares <- MCShares
    MaxJobs = 1
    MaxTime = 5
INVARIANTS NoUnsettledAgreement Solvent
PROPERTIES DisputePaysByConsent SilenceIsAcceptance ImplementsEscrow
