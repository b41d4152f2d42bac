----------------------------- MODULE Settlement -----------------------------
(***************************************************************************)
(* What a program may rely on when it pays through pyiota and repeats the  *)
(* call until it is satisfied: a payment is settled at most once, and what *)
(* a call reports was true when it reported it.  A call may also learn     *)
(* nothing ("unknown"), whether or not the payment was settled.            *)
(***************************************************************************)
CONSTANTS Payments, Attempts, Blocks

VARIABLES
  paid,   \* each payment: the block that settled it and how, if any
  told    \* each attempt: what its caller was told, and about which payment

vars == <<paid, told>>

Nothing == [about |-> "none", what |-> "nothing"]

Init ==
  /\ paid = [p \in Payments |-> {}]
  /\ told = [a \in Attempts |-> Nothing]

\* A block that fails on chain settles its payment too: the gas is spent.
Settle(p) ==
  /\ paid[p] = {}
  /\ \E b \in Blocks, status \in {"success", "failure"} :
       paid' = [paid EXCEPT ![p] = {[block |-> b, status |-> status]}]
  /\ UNCHANGED told

\* "executed" is all a caller learns that did not ask for the effects.
Truths(p) == {"unknown"} \cup UNION {{"executed", r.status} : r \in paid[p]}

Tell(a, p) ==
  /\ told[a] = Nothing
  /\ \E truth \in Truths(p) : told' = [told EXCEPT ![a] = [about |-> p, what |-> truth]]
  /\ UNCHANGED paid

Next ==
  \/ \E p \in Payments : Settle(p)
  \/ \E a \in Attempts, p \in Payments : Tell(a, p)

Spec == Init /\ [][Next]_vars
=============================================================================
