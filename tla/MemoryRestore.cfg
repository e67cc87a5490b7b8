SPECIFICATION FairSpec
CONSTANT Setups <- MCSetups
INVARIANTS FailureRemembered LocalWins AnchoredSurvives
PROPERTY IdentityHeals
CHECK_DEADLOCK FALSE
