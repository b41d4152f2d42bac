------------------------- MODULE MCTransactionBuild -------------------------
(***************************************************************************)
(* TransactionBuild on a small instance.  A u64 ends at 8, so that the     *)
(* budgets are zero, one that fits and one that does not; the node's       *)
(* reference price always fits.                                            *)
(***************************************************************************)
EXTENDS TransactionBuild

CONSTANTS b1, b2, alice, bob, coin, mine, none, error, emptypage, badaddress, badpayment

MCOneBuild  == {b1}
MCTwoBuilds == {b1, b2}
MCAccounts  == {alice, bob}
MCCoins     == {coin}
MCBudgets   == {0, 3, 9}
MCPrices    == {1, 9}
MCRefPrices == {2, 4}
MCOnePrice  == {2}
MCPayments  == {mine}
=============================================================================
