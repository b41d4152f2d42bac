--------------------------- MODULE ExecutionProofs ---------------------------
(***************************************************************************)
(* Theorems of Execution: it implements Settlement, and two blocks that    *)
(* pay from the same version of a coin are never both reported executed -  *)
(* for any number of payments, attempts, coins and versions.               *)
(*                                                                         *)
(* The invariant follows one block through the system: what a call sent,   *)
(* what the node executed and what an answer says are all about the bytes  *)
(* that build returned for one payment.                                    *)
(***************************************************************************)
EXTENDS Execution, TLAPS

BytesAgree ==
  /\ \A p \in Payments : bytes[p] # None => bytes[p].payment = p
  /\ \A a \in Attempts : call[a].bytes # None => call[a].bytes = bytes[call[a].bytes.payment]
  /\ \A a \in inFlight : call[a].bytes # None
  /\ \A b \in DOMAIN ledger : b = bytes[b.payment]

AnswersAgree ==
  /\ \A a \in DOMAIN reply : reply[a].kind = "result" =>
       call[a].bytes \in DOMAIN ledger /\ reply[a].status = ledger[call[a].bytes]
  /\ \A a \in Attempts : Reported(a) => call[a].bytes \in DOMAIN ledger

GasSpent ==
  /\ \A b \in DOMAIN ledger : b.version < version[b.coin]
  /\ \A b, c \in DOMAIN ledger : b.coin = c.coin /\ b.version = c.version => b = c

IInv == TypeOK /\ BytesAgree /\ AnswersAgree /\ GasSpent

LEMMA BlockFields ==
  \A b \in Blocks : b # None /\ b.payment \in Payments /\ b.coin \in Coins /\ b.version \in 1..MaxVersion
  BY ExecutionAssumption DEF Blocks

LEMMA InitInvariant == Init => IInv
  BY ExecutionAssumption
  DEF Init, IInv, TypeOK, BytesAgree, AnswersAgree, GasSpent, NewCall, Outcome, Reported, Pending

-----------------------------------------------------------------------------
(* What each step does to the invariant and to what Settlement sees.       *)

Seen == <<[p \in Payments |-> Receipts(p)], [a \in Attempts |-> Told(call[a])]>>

LEMMA BuildStep ==
  ASSUME IInv, NEW p \in Payments, Build(p)
  PROVE  IInv' /\ UNCHANGED Seen
  <1>1. PICK c \in Coins :
          bytes' = [bytes EXCEPT ![p] = [payment |-> p, coin |-> c, version |-> version[c]]]
    BY DEF Build
  <1>2. /\ bytes[p] = None
        /\ UNCHANGED <<call, inFlight, reply, version, ledger>>
    BY DEF Build, node
  <1>3. [payment |-> p, coin |-> c, version |-> version[c]] \in Blocks
    BY <1>1 DEF IInv, TypeOK, Blocks
  <1>4. TypeOK'
    BY <1>1, <1>2, <1>3 DEF IInv, TypeOK, Pending
  <1>5. BytesAgree'
    BY <1>1, <1>2, <1>3, BlockFields DEF IInv, TypeOK, BytesAgree
  <1>6. AnswersAgree' /\ GasSpent' /\ UNCHANGED Seen
    BY <1>2 DEF IInv, AnswersAgree, GasSpent, Reported, Seen, Receipts, Told, Truth, Untold
  <1> QED
    BY <1>4, <1>5, <1>6 DEF IInv

LEMMA SendStep ==
  ASSUME IInv, NEW a \in Attempts, NEW p \in Payments, NEW effects \in BOOLEAN,
         Send(a, p, effects)
  PROVE  IInv' /\ UNCHANGED Seen
  <1> DEFINE c == [bytes |-> bytes[p], effects |-> effects, outcome |-> "pending"]
  <1>1. /\ call[a].outcome = "idle" /\ bytes[p] # None
        /\ call' = [call EXCEPT ![a] = c]
        /\ inFlight' = inFlight \cup {a}
        /\ UNCHANGED <<bytes, reply, version, ledger>>
    BY DEF Send, node
  <1>2. bytes[p] \in Blocks /\ bytes[p].payment = p
    BY <1>1 DEF IInv, TypeOK, BytesAgree
  <1>3. a \notin DOMAIN reply
    BY <1>1 DEF IInv, TypeOK, Pending
  <1>4. TypeOK'
    BY <1>1, <1>2, <1>3 DEF IInv, TypeOK, Pending, Outcome
  <1>5. BytesAgree'
    BY <1>1, <1>2 DEF IInv, TypeOK, BytesAgree
  <1>6. AnswersAgree' /\ GasSpent'
    BY <1>1, <1>3 DEF IInv, TypeOK, AnswersAgree, GasSpent, Reported
  <1>7. UNCHANGED Seen
    <2>1. Told(call'[a]) = Told(call[a])
      BY <1>1 DEF IInv, TypeOK, Told
    <2>2. \A x \in Attempts : Told(call'[x]) = Told(call[x])
      BY <1>1, <2>1 DEF IInv, TypeOK
    <2> QED
      BY <1>1, <2>2 DEF Seen, Receipts
  <1> QED
    BY <1>4, <1>5, <1>6, <1>7 DEF IInv

\* A call that ends keeps its bytes, and Settlement is told of it.
LEMMA EndingCall ==
  ASSUME IInv, NEW a \in Attempts, Pending(a),
         NEW outcome \in {"returned", "TransactionError", "RpcError", "transport_error"},
         call' = [call EXCEPT ![a].outcome = outcome],
         reply' = [x \in DOMAIN reply \ {a} |-> reply[x]],
         UNCHANGED <<bytes, inFlight, version, ledger>>,
         outcome \in {"returned", "TransactionError"} =>
           /\ call[a].bytes \in DOMAIN ledger
           /\ call[a].effects \/ outcome = "TransactionError" =>
                ledger[call[a].bytes] = IF outcome = "returned" THEN "success" ELSE "failure"
  PROVE  IInv' /\ \E p \in Payments : Ledger!Tell(a, p)
  <1> DEFINE p == call[a].bytes.payment
  <1>1. /\ call[a] \in [bytes : Blocks \cup {None}, effects : BOOLEAN, outcome : Outcome]
        /\ call[a].bytes \in Blocks /\ p \in Payments
    BY BlockFields DEF IInv, TypeOK, Pending
  <1>2. /\ call'[a] = [bytes |-> call[a].bytes, effects |-> call[a].effects, outcome |-> outcome]
        /\ \A x \in Attempts \ {a} : call'[x] = call[x]
    BY <1>1 DEF IInv, TypeOK
  <1>3. IInv'
    <2>1. TypeOK'
      BY <1>1, <1>2 DEF IInv, TypeOK, Pending, Outcome
    <2>2. BytesAgree' /\ GasSpent'
      BY <1>2 DEF IInv, TypeOK, BytesAgree, GasSpent
    <2>3. AnswersAgree'
      BY <1>2 DEF IInv, TypeOK, AnswersAgree, Reported
    <2> QED
      BY <2>1, <2>2, <2>3 DEF IInv
  <1>4. Told(call[a]) = Untold /\ Told(call'[a]) = [about |-> p, what |-> Truth(call'[a])]
    BY <1>2 DEF Told, Pending
  <1>5. Truth(call'[a]) \in Ledger!Truths(p)
    <2>1. CASE outcome \in {"RpcError", "transport_error"}
      BY <1>2, <2>1 DEF Truth, Ledger!Truths
    <2>2. CASE outcome \in {"returned", "TransactionError"}
      <3>1. [block |-> call[a].bytes, status |-> ledger[call[a].bytes]] \in Receipts(p)
        BY <2>2 DEF Receipts
      <3>2. {"executed", ledger[call[a].bytes]} \subseteq Ledger!Truths(p)
        BY <1>1, <3>1 DEF Ledger!Truths
      <3>3. Truth(call'[a]) \in {"executed", ledger[call[a].bytes]}
        BY <1>1, <1>2, <2>2 DEF Truth
      <3> QED
        BY <3>2, <3>3
    <2> QED
      BY <2>1, <2>2
  <1>6. [x \in Attempts |-> Told(call'[x])]
          = [[x \in Attempts |-> Told(call[x])] EXCEPT ![a] = [about |-> p, what |-> Truth(call'[a])]]
    <2> DEFINE t == [about |-> p, what |-> Truth(call'[a])]
               before == [x \in Attempts |-> Told(call[x])]
    <2>1. \A x \in Attempts \ {a} : Told(call'[x]) = Told(call[x])
      BY <1>2
    <2>2. Told(call'[a]) = t
      BY <1>4
    <2>3. \A x \in Attempts : Told(call'[x]) = IF x = a THEN t ELSE before[x]
      BY <2>1, <2>2
    <2>4. [before EXCEPT ![a] = t] = [x \in Attempts |-> IF x = a THEN t ELSE before[x]]
      OBVIOUS
    <2> HIDE DEF t, before
    <2> QED
      BY <2>3, <2>4 DEF before, t
  <1>7. [q \in Payments |-> Receipts(q)]' = [q \in Payments |-> Receipts(q)]
    BY DEF Receipts
  <1>8. Ledger!Tell(a, p)
    BY <1>1, <1>4, <1>5, <1>6, <1>7 DEF Ledger!Tell, Ledger!Nothing, Untold
  <1> QED
    BY <1>1, <1>3, <1>8

LEMMA ReceiveStep ==
  ASSUME IInv, NEW a \in Attempts, Receive(a)
  PROVE  IInv' /\ \E p \in Payments : Ledger!Tell(a, p)
  <1> DEFINE outcome == Report(reply[a], call[a].effects)
  <1>1. /\ Pending(a) /\ a \in DOMAIN reply
        /\ call' = [call EXCEPT ![a].outcome = outcome]
        /\ reply' = [x \in DOMAIN reply \ {a} |-> reply[x]]
        /\ UNCHANGED <<bytes, inFlight, version, ledger>>
    BY DEF Receive, node
  <1>2. reply[a] \in Answers
    BY <1>1 DEF IInv, TypeOK
  <1>3. outcome \in {"returned", "TransactionError", "RpcError", "transport_error"}
    BY DEF Report
  <1>4. outcome \in {"returned", "TransactionError"} =>
          /\ call[a].bytes \in DOMAIN ledger
          /\ call[a].effects \/ outcome = "TransactionError" =>
               ledger[call[a].bytes] = IF outcome = "returned" THEN "success" ELSE "failure"
    <2> SUFFICES ASSUME outcome \in {"returned", "TransactionError"}
                 PROVE  /\ call[a].bytes \in DOMAIN ledger
                        /\ call[a].effects \/ outcome = "TransactionError" =>
                             ledger[call[a].bytes] = IF outcome = "returned" THEN "success" ELSE "failure"
      OBVIOUS
    <2>1. reply[a].kind = "result" /\ reply[a].status \in Status
      BY <1>2 DEF Answers, Failure, Result, Report
    <2>2. call[a].bytes \in DOMAIN ledger /\ reply[a].status = ledger[call[a].bytes]
      BY <1>1, <2>1 DEF IInv, AnswersAgree
    <2> QED
      BY <2>1, <2>2 DEF Report, Status
  <1> HIDE DEF outcome
  <1> QED
    BY <1>1, <1>3, <1>4, EndingCall

LEMMA GiveUpStep ==
  ASSUME IInv, NEW a \in Attempts, GiveUp(a)
  PROVE  IInv' /\ \E p \in Payments : Ledger!Tell(a, p)
  BY EndingCall DEF GiveUp, node

LEMMA LoseRequestStep ==
  ASSUME IInv, NEW a \in Attempts, LoseRequest(a)
  PROVE  IInv' /\ UNCHANGED Seen
  BY DEF LoseRequest, node, IInv, TypeOK, BytesAgree, AnswersAgree, GasSpent, Pending, Reported,
         Seen, Receipts

\* The node answers: a result is that of the block that was sent.
LEMMA AnswerKeepsInvariant ==
  ASSUME IInv, NEW a \in inFlight, NEW answer \in Answers, Respond(a, answer),
         answer.kind = "result" =>
           call[a].bytes \in DOMAIN ledger' /\ answer.status = ledger'[call[a].bytes],
         DOMAIN ledger \subseteq DOMAIN ledger',
         \A b \in DOMAIN ledger : ledger'[b] = ledger[b],
         TypeOK', GasSpent', \A b \in DOMAIN ledger' : b = bytes[b.payment],
         UNCHANGED <<bytes, call>>
  PROVE  IInv'
  <1>1. inFlight' = inFlight \ {a}
    BY DEF Respond
  <1>2. BytesAgree'
    BY <1>1 DEF IInv, BytesAgree
  <1>3. \A x \in DOMAIN reply' :
          (x \in DOMAIN reply /\ reply'[x] = reply[x]) \/ (x = a /\ reply'[x] = answer)
    BY DEF Respond
  <1>4. AnswersAgree'
    <2>1. \A x \in DOMAIN reply : reply[x].kind = "result" =>
            call[x].bytes \in DOMAIN ledger' /\ reply[x].status = ledger'[call[x].bytes]
      BY DEF IInv, AnswersAgree
    <2>2. \A x \in Attempts : Reported(x) => call[x].bytes \in DOMAIN ledger'
      BY DEF IInv, AnswersAgree
    <2> QED
      BY <1>3, <2>1, <2>2 DEF AnswersAgree, Reported
  <1> QED
    BY <1>2, <1>4 DEF IInv

\* The types, once the ledger's and the versions' are known.
LEMMA RespondTypes ==
  ASSUME IInv, NEW a \in inFlight, NEW answer \in Answers, Respond(a, answer),
         version' \in [Coins -> 1..MaxVersion], DOMAIN ledger' \subseteq Blocks,
         \A b \in DOMAIN ledger' : ledger'[b] \in Status,
         UNCHANGED <<bytes, call>>
  PROVE  TypeOK'
  <1>1. inFlight' \subseteq Attempts
    BY DEF Respond, IInv, TypeOK
  <1>2. DOMAIN reply' \subseteq {x \in Attempts : Pending(x)} /\ \A x \in DOMAIN reply' : reply'[x] \in Answers
    BY DEF Respond, IInv, TypeOK
  <1> QED
    BY <1>1, <1>2 DEF IInv, TypeOK, Pending

LEMMA ExecuteStep ==
  ASSUME IInv, NEW a \in inFlight, NEW status \in Status,
         NEW answer \in {Failure, Result(status)},
         Execute(call[a].bytes, status), Respond(a, answer), UNCHANGED <<bytes, call>>
  PROVE  IInv' /\ \E p \in Payments : Ledger!Settle(p)
  <1> DEFINE b == call[a].bytes
             p == b.payment
             receipt == [block |-> b, status |-> status]
  <1>1. b \in Blocks /\ p \in Payments /\ b = bytes[p] /\ b.coin \in Coins /\ b.version \in 1..MaxVersion
    BY BlockFields DEF IInv, TypeOK, BytesAgree
  <1>2. /\ b \notin DOMAIN ledger /\ version[b.coin] = b.version /\ version[b.coin] < MaxVersion
        /\ DOMAIN ledger' = DOMAIN ledger \cup {b}
        /\ \A x \in DOMAIN ledger : ledger'[x] = ledger[x]
        /\ ledger'[b] = status
        /\ version' = [version EXCEPT ![b.coin] = @ + 1]
    BY DEF Execute, Executable
  <1>3. answer \in Answers
    BY DEF Answers
  <1>4. version' \in [Coins -> 1..MaxVersion]
    BY <1>1, <1>2, ExecutionAssumption DEF IInv, TypeOK
  <1>5. TypeOK'
    BY <1>1, <1>2, <1>3, <1>4, RespondTypes DEF IInv, TypeOK
  <1>6. GasSpent'
    <2>1. version \in [Coins -> 1..MaxVersion]
      BY DEF IInv, TypeOK
    <2>2. \A c \in Coins : version'[c] = IF c = b.coin THEN version[c] + 1 ELSE version[c]
      BY <1>2, <2>1
    <2>3. \A x \in DOMAIN ledger : x.coin \in Coins /\ x.version \in 1..MaxVersion /\ x.version < version[x.coin]
      BY BlockFields DEF IInv, TypeOK, GasSpent
    <2>4. \A x \in DOMAIN ledger' : x.version < version'[x.coin]
      BY <1>1, <1>2, <2>1, <2>2, <2>3
    <2>5. \A x, y \in DOMAIN ledger' : x.coin = y.coin /\ x.version = y.version => x = y
      BY <1>1, <1>2, <2>3 DEF IInv, GasSpent
    <2> QED
      BY <2>4, <2>5 DEF GasSpent
  <1>7. \A x \in DOMAIN ledger' : x = bytes[x.payment]
    BY <1>1, <1>2 DEF IInv, BytesAgree
  <1>8. IInv'
    <2>1. answer.kind = "result" => b \in DOMAIN ledger' /\ answer.status = ledger'[b]
      BY <1>2 DEF Failure, Result
    <2> QED
      BY <1>2, <1>3, <1>5, <1>6, <1>7, <2>1, AnswerKeepsInvariant
  <1>9. Receipts(p) = {} /\ Receipts(p)' = {receipt}
    <2>1. \A x \in DOMAIN ledger : x.payment # p
      BY <1>1, <1>2 DEF IInv, BytesAgree
    <2>2. {x \in DOMAIN ledger' : x.payment = p} = {b}
      BY <1>2, <2>1
    <2> QED
      BY <1>2, <2>1, <2>2 DEF Receipts
  <1>10. \A q \in Payments \ {p} : Receipts(q)' = Receipts(q)
    BY <1>2 DEF Receipts
  <1>11. [q \in Payments |-> Receipts(q)]' = [[q \in Payments |-> Receipts(q)] EXCEPT ![p] = {receipt}]
    <2> DEFINE before == [q \in Payments |-> Receipts(q)]
    <2>1. \A q \in Payments : Receipts(q)' = IF q = p THEN {receipt} ELSE before[q]
      BY <1>9, <1>10
    <2>2. [before EXCEPT ![p] = {receipt}] = [q \in Payments |-> IF q = p THEN {receipt} ELSE before[q]]
      OBVIOUS
    <2> HIDE DEF p, receipt
    <2> QED
      BY <2>1, <2>2
  <1>12. [x \in Attempts |-> Told(call[x])]' = [x \in Attempts |-> Told(call[x])]
    OBVIOUS
  <1>13. Ledger!Settle(p)
    BY <1>1, <1>9, <1>11, <1>12 DEF Ledger!Settle, Status
  <1> QED
    BY <1>1, <1>8, <1>13

LEMMA DeliverStep ==
  ASSUME IInv, NEW a \in Attempts, Deliver(a)
  PROVE  IInv' /\ (UNCHANGED Seen \/ \E p \in Payments : Ledger!Settle(p))
  <1> DEFINE b == call[a].bytes
  <1>1. a \in inFlight /\ UNCHANGED <<bytes, call>>
    BY DEF Deliver
  <1>2. CASE \E status \in Status : /\ Execute(b, status)
                                   /\ \E answer \in {Failure, Result(status)} : Respond(a, answer)
    BY <1>1, <1>2, ExecuteStep
  <1>3. ASSUME NEW answer \in Answers, Respond(a, answer), UNCHANGED node,
               answer.kind = "result" => b \in DOMAIN ledger /\ answer.status = ledger[b]
        PROVE  IInv' /\ UNCHANGED Seen
    <2>1. UNCHANGED <<version, ledger>>
      BY <1>3 DEF node
    <2>2. TypeOK'
      BY <1>1, <1>3, <2>1, RespondTypes DEF IInv, TypeOK
    <2>3. GasSpent' /\ \A x \in DOMAIN ledger' : x = bytes[x.payment]
      BY <2>1 DEF IInv, GasSpent, BytesAgree
    <2>4. IInv'
      BY <1>1, <1>3, <2>1, <2>2, <2>3, AnswerKeepsInvariant
    <2> QED
      BY <1>1, <2>1, <2>4 DEF Seen, Receipts
  <1>4. CASE b \in DOMAIN ledger /\ Respond(a, Result(ledger[b])) /\ UNCHANGED node
    <2>1. Result(ledger[b]) \in Answers /\ Result(ledger[b]).status = ledger[b]
      BY <1>4 DEF IInv, TypeOK, Answers, Result
    <2> QED
      BY <1>3, <1>4, <2>1
  <1>5. CASE Respond(a, Failure) /\ UNCHANGED node
    <2>1. Failure \in Answers /\ Failure.kind # "result"
      BY DEF Answers, Failure
    <2> QED
      BY <1>3, <1>5, <2>1
  <1> QED
    BY <1>2, <1>4, <1>5 DEF Deliver

-----------------------------------------------------------------------------

LEMMA NextImplements ==
  IInv /\ [Next]_vars => IInv' /\ [Ledger!Next]_Seen
  <1> SUFFICES ASSUME IInv, [Next]_vars PROVE IInv' /\ [Ledger!Next]_Seen
    OBVIOUS
  <1>1. ASSUME NEW p \in Payments, Build(p) PROVE IInv' /\ UNCHANGED Seen
    BY <1>1, BuildStep
  <1>2. ASSUME NEW a \in Attempts, NEW p \in Payments, NEW effects \in BOOLEAN, Send(a, p, effects)
        PROVE  IInv' /\ UNCHANGED Seen
    BY <1>2, SendStep
  <1>3. ASSUME NEW a \in Attempts, Receive(a) \/ GiveUp(a)
        PROVE  IInv' /\ \E p \in Payments : Ledger!Tell(a, p)
    BY <1>3, ReceiveStep, GiveUpStep
  <1>4. ASSUME NEW a \in Attempts, LoseRequest(a) PROVE IInv' /\ UNCHANGED Seen
    BY <1>4, LoseRequestStep
  <1>5. ASSUME NEW a \in Attempts, Deliver(a)
        PROVE  IInv' /\ (UNCHANGED Seen \/ \E p \in Payments : Ledger!Settle(p))
    BY <1>5, DeliverStep
  <1>6. CASE UNCHANGED vars
    BY <1>6 DEF vars, IInv, TypeOK, BytesAgree, AnswersAgree, GasSpent, Pending, Reported, Seen, Receipts
  <1> QED
    BY <1>1, <1>2, <1>3, <1>4, <1>5, <1>6 DEF Next, Ledger!Next

LEMMA InitImplements == Init => Ledger!Init
  <1> SUFFICES ASSUME Init PROVE Ledger!Init
    OBVIOUS
  <1>1. \A p \in Payments : Receipts(p) = {}
    BY DEF Init, Receipts
  <1>2. \A a \in Attempts : Told(call[a]) = Untold
    BY DEF Init, Told, NewCall
  <1> QED
    BY <1>1, <1>2 DEF Ledger!Init, Ledger!Nothing, Untold

LEMMA Invariant == Spec => []IInv
  <1>1. IInv /\ [Next]_vars => IInv'
    BY NextImplements
  <1> QED
    BY <1>1, InitInvariant, PTL DEF Spec

(* The blocks, the calls, the requests and the answers keep their types,   *)
(* and only a pending call has an answer on its way.                       *)
THEOREM TypeCorrect == Spec => []TypeOK
  BY Invariant, PTL DEF IInv

(* Two blocks on one version of a coin are never both reported executed    *)
(* (transaction.py:531 picks such coins, client.py:290-299 reports).       *)
THEOREM OneContenderReported == Spec => []ContendersDisagree
  <1>1. IInv => ContendersDisagree
    BY DEF IInv, AnswersAgree, GasSpent, ContendersDisagree
  <1> QED
    BY <1>1, Invariant, PTL

(* Execution implements Settlement: whatever is lost, repeated or late, a  *)
(* payment is settled at most once and every report about it is true       *)
(* (client.py:257-329).                                                    *)
THEOREM ExecutionSettles == Spec => SettledAndTrue
  <1>1. IInv /\ [Next]_vars => [Ledger!Next]_Ledger!vars
    BY NextImplements DEF Seen, Ledger!vars
  <1> QED
    BY <1>1, InitImplements, Invariant, PTL DEF Spec, SettledAndTrue, Ledger!Spec
=============================================================================
