----------------------------- MODULE AtomicBuild -----------------------------
(***************************************************************************)
(* What a caller of build_sync may assume: the bytes are made in one       *)
(* instant, from the block and the configuration of that instant.  Only    *)
(* what was left unset - the price, the gas coin - is the node's choice,   *)
(* and any build may fail.                                                 *)
(***************************************************************************)
EXTENDS Naturals, Sequences

CONSTANTS Builds, Accounts, BadAddress, Budgets, Prices, Payments, BadPayment,
          DefaultBudget, MaxU64, None, Coins, MaxVersion

VARIABLES
  config,   \* what the setters were given
  block,    \* the calls made on the builder
  result    \* the outcome of each build: its status and its payload

vars == <<config, block, result>>

Unfinished == [status |-> "unfinished", payload |-> None]
Failed     == [status |-> "failed", payload |-> None]
Built(p)   == [status |-> "built", payload |-> p]

Init ==
  /\ config = [sender |-> None, budget |-> None, price |-> None, payment |-> None]
  /\ block = <<>>
  /\ result = [b \in Builds |-> Unfinished]

Configure ==
  /\ \/ \E a \in Accounts \cup {BadAddress} : config' = [config EXCEPT !.sender = a]
     \/ \E n \in Budgets : config' = [config EXCEPT !.budget = n]
     \/ \E n \in Prices : config' = [config EXCEPT !.price = n]
     \/ \E p \in Payments \cup {BadPayment} : config' = [config EXCEPT !.payment = p]
  /\ UNCHANGED <<block, result>>

Call ==
  /\ \E call \in {"sound", "unserializable"} : block' = Append(block, call)
  /\ UNCHANGED <<config, result>>

\* An unset field is filled in, a set one is kept.
SenderChoices == IF config.sender = None THEN Accounts ELSE {config.sender} \cap Accounts
PriceChoices == IF config.price = None THEN 0..MaxU64 ELSE {config.price} \cap 0..MaxU64
PaymentChoices == IF config.payment = None THEN [coin : Coins, version : 1..MaxVersion]
                                      ELSE {config.payment} \cap Payments

(* The default is for a budget that is not specified (transaction.py:59).   *)
(* Whether an explicit zero is kept, or taken for no budget, is left open.  *)
BudgetChoices ==
  LET given  == {config.budget} \ {None}
      filled == IF config.budget \in {None, 0} THEN {DefaultBudget} ELSE {}
  IN  (given \cup filled) \cap 0..MaxU64

Succeed(b) ==
  /\ result[b] = Unfinished
  /\ \A i \in DOMAIN block : block[i] = "sound"
  /\ \E s \in SenderChoices, p \in PriceChoices, n \in BudgetChoices, g \in PaymentChoices :
       result' = [result EXCEPT ![b] =
         Built([block |-> block, sender |-> s, price |-> p, budget |-> n, payment |-> g])]
  /\ UNCHANGED <<config, block>>

Fail(b) ==
  /\ result[b] = Unfinished
  /\ result' = [result EXCEPT ![b] = Failed]
  /\ UNCHANGED <<config, block>>

Next == Configure \/ Call \/ \E b \in Builds : Succeed(b) \/ Fail(b)

Spec == Init /\ [][Next]_vars
=============================================================================
