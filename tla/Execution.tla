------------------------------ MODULE Execution ------------------------------
(***************************************************************************)
(* sign_and_execute_transaction of both clients (src/pyiota/client.py,     *)
(* sync_client.py), called by several tasks of a program that share the    *)
(* coins of one account: the blocks they built, the requests on their way, *)
(* the node that executes them, and what each call reports.                *)
(*                                                                         *)
(* The SDK never repeats a submission.  A caller that got an exception may *)
(* repeat the call with the bytes it has (an attempt is one call), and two *)
(* tasks may submit the same bytes.  A request or its reply may be lost,   *)
(* and a request may reach the node after its caller gave up on it.        *)
(***************************************************************************)
EXTENDS Naturals, FiniteSets

CONSTANTS
  Payments,    \* what the program wants done; one block is built for each
  Attempts,    \* calls of sign_and_execute_transaction
  Coins,       \* the coins the blocks may pay gas from
  None,        \* no bytes yet
  MaxVersion   \* bound: versions of a coin

ASSUME ExecutionAssumption ==
  /\ None \notin [payment : Payments, coin : Coins, version : 1..MaxVersion]
  /\ MaxVersion \in Nat \ {0}

VARIABLES
  bytes,     \* what build returned for each payment
  call,      \* each attempt: its bytes, its options, its end
  inFlight,  \* attempts whose request is on its way to the node
  reply,     \* attempts whose answer is on its way back, and the answer
  version,   \* the node: the current version of each coin
  ledger     \* the node: the blocks it executed, and how each ended

vars == <<bytes, call, inFlight, reply, version, ledger>>
node == <<version, ledger>>

-----------------------------------------------------------------------------

Blocks  == [payment : Payments, coin : Coins, version : 1..MaxVersion]
Status  == {"success", "failure"}
Outcome == {"idle", "pending", "returned", "TransactionError", "RpcError", "transport_error"}
Failure == [kind |-> "error"]
Result(status) == [kind |-> "result", status |-> status]
Answers == {Failure} \cup {Result(status) : status \in Status}

NewCall == [bytes |-> None, effects |-> TRUE, outcome |-> "idle"]

Pending(a) == call[a].outcome = "pending"

-----------------------------------------------------------------------------
(* The caller.                                                             *)

\* build() names a coin at the version the node told it.
Build(p) ==
  /\ bytes[p] = None
  /\ \E c \in Coins :
       bytes' = [bytes EXCEPT ![p] = [payment |-> p, coin |-> c, version |-> version[c]]]
  /\ UNCHANGED <<call, inFlight, reply, node>>

\* Mutant: what build returned is not waited for.
SendUnbuilt(a, p, effects) ==
  /\ call[a].outcome = "idle"
  /\ call' = [call EXCEPT ![a] =
       [bytes |-> bytes[p], effects |-> effects, outcome |-> "pending"]]
  /\ UNCHANGED <<bytes, inFlight, reply, node>>

\* Mutant: the gas coin is refreshed each time the block is sent.
SendRefreshed(a, p, effects) ==
  /\ call[a].outcome = "idle" /\ bytes[p] # None
  /\ call' = [call EXCEPT ![a] =
       [bytes |-> [bytes[p] EXCEPT !.version = version[bytes[p].coin]],
        effects |-> effects, outcome |-> "pending"]]
  /\ inFlight' = inFlight \cup {a}
  /\ UNCHANGED <<bytes, reply, node>>

\* Sign, encode and post: the same bytes make the same request every time.
Send(a, p, effects) ==
  /\ call[a].outcome = "idle" /\ bytes[p] # None
  /\ call' = [call EXCEPT ![a] =
       [bytes |-> bytes[p], effects |-> effects, outcome |-> "pending"]]
  /\ inFlight' = inFlight \cup {a}
  /\ UNCHANGED <<bytes, reply, node>>

\* Mutant: a response without a result is as good as one with a result.
ReportErrorIgnored(answer, effects) ==
  IF answer.kind = "result" /\ effects /\ answer.status = "failure"
    THEN "TransactionError" ELSE "returned"

\* _extract_result, then the effects - if the caller asked for them.
Report(answer, effects) ==
  CASE answer.kind = "error" -> "RpcError"
    [] answer.kind = "result" /\ effects /\ answer.status = "failure" -> "TransactionError"
    [] OTHER -> "returned"

Receive(a) ==
  /\ Pending(a) /\ a \in DOMAIN reply
  /\ call' = [call EXCEPT ![a].outcome = Report(reply[a], call[a].effects)]
  /\ reply' = [other \in DOMAIN reply \ {a} |-> reply[other]]
  /\ UNCHANGED <<bytes, inFlight, node>>

\* No connection, an HTTP error status, an answer that is lost or does not
\* parse, or httpx's timeout: an answer that comes later is not read, but the
\* request may still be on its way.
GiveUp(a) ==
  /\ Pending(a)
  /\ call' = [call EXCEPT ![a].outcome = "transport_error"]
  /\ reply' = [other \in DOMAIN reply \ {a} |-> reply[other]]
  /\ UNCHANGED <<bytes, inFlight, node>>

-----------------------------------------------------------------------------
(* The network and the node.  The node executes a block once, if its gas   *)
(* coin still has the block's version, and answers a repeated block with   *)
(* the effects it already has.  It may also fail after executing.          *)

LoseRequest(a) ==
  /\ a \in inFlight
  /\ inFlight' = inFlight \ {a}
  /\ UNCHANGED <<bytes, call, reply, node>>

Executable(b) == b \notin DOMAIN ledger /\ version[b.coin] = b.version

Execute(b, status) ==
  /\ Executable(b) /\ version[b.coin] < MaxVersion
  /\ ledger' = [x \in DOMAIN ledger \cup {b} |-> IF x = b THEN status ELSE ledger[x]]
  /\ version' = [version EXCEPT ![b.coin] = @ + 1]

Respond(a, answer) ==
  /\ inFlight' = inFlight \ {a}
  /\ reply' = IF Pending(a)
                THEN [x \in DOMAIN reply \cup {a} |-> IF x = a THEN answer ELSE reply[x]]
                ELSE reply

Deliver(a) ==
  LET b == call[a].bytes IN
  /\ a \in inFlight
  /\ \/ \E status \in Status :
          /\ Execute(b, status)
          /\ \E answer \in {Failure, Result(status)} :
               Respond(a, answer)
     \/ /\ b \in DOMAIN ledger
        /\ Respond(a, Result(ledger[b]))
        /\ UNCHANGED node
     \/ /\ Respond(a, Failure)
        /\ UNCHANGED node
  /\ UNCHANGED <<bytes, call>>

-----------------------------------------------------------------------------

Init ==
  /\ bytes = [p \in Payments |-> None]
  /\ call = [a \in Attempts |-> NewCall]
  /\ inFlight = {}
  /\ reply = [a \in {} |-> None]
  /\ version = [c \in Coins |-> 1]
  /\ ledger = [b \in {} |-> None]

Next ==
  \/ \E p \in Payments : Build(p)
  \/ \E a \in Attempts, p \in Payments, effects \in BOOLEAN : Send(a, p, effects)
  \/ \E a \in Attempts : Receive(a) \/ GiveUp(a)
  \/ \E a \in Attempts : LoseRequest(a) \/ Deliver(a)

Spec == Init /\ [][Next]_vars

-----------------------------------------------------------------------------
(* Properties.                                                             *)

\* The shape of the state.
TypeOK ==
  /\ bytes \in [Payments -> Blocks \cup {None}]
  /\ call \in [Attempts -> [bytes : Blocks \cup {None}, effects : BOOLEAN, outcome : Outcome]]
  /\ \A a \in Attempts : call[a].bytes = None <=> call[a].outcome = "idle"
  /\ inFlight \subseteq Attempts
  /\ DOMAIN reply \subseteq {a \in Attempts : Pending(a)}
  /\ \A a \in DOMAIN reply : reply[a] \in Answers
  /\ version \in [Coins -> 1..MaxVersion]
  /\ DOMAIN ledger \subseteq Blocks
  /\ \A b \in DOMAIN ledger : ledger[b] \in Status

Reported(a) == call[a].outcome \in {"returned", "TransactionError"}

(* Of two blocks that pay from the same version of a coin - two tasks      *)
(* built for one account at once (transaction.py:531) - at most one is     *)
(* ever reported as executed: the other's caller gets another exception.   *)
ContendersDisagree ==
  \A a, b \in Attempts :
    /\ Reported(a) /\ Reported(b)
    /\ call[a].bytes.coin = call[b].bytes.coin
    /\ call[a].bytes.version = call[b].bytes.version
    => call[a].bytes = call[b].bytes

(* client.py:280-281: "TransactionError: If the transaction execution      *)
(* fails."                                                                 *)
FailureRaises ==
  \A a \in Attempts : call[a].outcome = "returned" => ledger[call[a].bytes] = "success"

-----------------------------------------------------------------------------
(* Refinement.                                                             *)

Receipts(p) ==
  {[block |-> b, status |-> ledger[b]] : b \in {x \in DOMAIN ledger : x.payment = p}}

Truth(c) ==
  CASE c.outcome = "returned" -> IF c.effects THEN "success" ELSE "executed"
    [] c.outcome = "TransactionError" -> "failure"
    [] OTHER -> "unknown"

Untold == [about |-> "none", what |-> "nothing"]

Told(c) ==
  IF c.outcome \in {"idle", "pending"} THEN Untold
                                     ELSE [about |-> c.bytes.payment, what |-> Truth(c)]

Ledger == INSTANCE Settlement
  WITH paid <- [p \in Payments |-> Receipts(p)], told <- [a \in Attempts |-> Told(call[a])]

(* A payment is settled at most once, however often its bytes are sent and *)
(* whatever is lost; a response means the block was executed - with its    *)
(* effects, that it succeeded - and TransactionError that it failed on     *)
(* chain (client.py:290-299).  RpcError and httpx errors mean nothing.     *)
SettledAndTrue == Ledger!Spec
=============================================================================
