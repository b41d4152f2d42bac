------------------------ MODULE MCTransactionBuilder ------------------------
(***************************************************************************)
(* TransactionBuilder on a small instance: one amount that fits a u64 and  *)
(* one that does not, one recipient that is hex and one that is not, one   *)
(* decodable object reference and one that is not.                         *)
(***************************************************************************)
EXTENDS TransactionBuilder

CONSTANTS small, huge, alice, nothex, coinref, badref

MCAmounts    == {small, huge}
MCRecipients == {alice, nothex}
MCEncodable  == {small, alice}
MCObjects    == {coinref, badref}
MCWellFormed == {coinref}

\* A block of four inputs and commands ends the search: its calls are checked, not what follows.
FewCalls == Len(inputs) + Len(commands) <= 3
=============================================================================
