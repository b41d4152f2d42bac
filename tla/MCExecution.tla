---------------------------- MODULE MCExecution ----------------------------
(***************************************************************************)
(* Execution on a small instance.                                          *)
(***************************************************************************)
EXTENDS Execution

CONSTANTS p1, p2, a1, a2, a3, gas, none

MCPayments      == {p1, p2}
MCOnePayment    == {p1}
MCTwoAttempts   == {a1, a2}
MCThreeAttempts == {a1, a2, a3}
MCCoins         == {gas}
=============================================================================
