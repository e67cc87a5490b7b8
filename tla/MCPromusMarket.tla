--------------------------- MODULE MCPromusMarket ---------------------------
(* PromusMarket with two parties and a treasury that may be one of them.   *)
EXTENDS PromusMarket

CONSTANTS alice, bob, treasury

MCAccounts == {alice, bob, treasury}
\* 20 is the smallest amount with a fee of one unit; 41 leaves dust in splits.
MCAmounts == {20, 41}
MCShares == {0, 7, 20, 41}
=============================================================================
