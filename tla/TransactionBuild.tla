-------------------------- MODULE TransactionBuild --------------------------
(***************************************************************************)
(* Transaction.build and build_sync (src/pyiota/transaction.py): turning   *)
(* the block and the gas configuration of one Transaction into bytes, with *)
(* up to three questions to the node on the way.                           *)
(*                                                                         *)
(* build() is a coroutine: at each question it yields, and the other tasks *)
(* of the program may call the setters and the command methods of the same *)
(* Transaction, or build it again, before it resumes.  build_sync() blocks *)
(* its caller instead (Blocking = TRUE); in both the chain moves on while  *)
(* a question is out.                                                      *)
(*                                                                         *)
(* A block is the sequence of calls that made it; a call is "sound" or     *)
(* "unserializable" (a type argument that does not parse, an index above   *)
(* u16), which the command methods accept and only serialize() refuses.    *)
(***************************************************************************)
EXTENDS Integers, Sequences, FiniteSets

CONSTANTS
  Builds,         \* the calls of build() or build_sync() on the Transaction
  Blocking,       \* TRUE for build_sync, FALSE for build
  Accounts,       \* addresses in hex
  BadAddress,     \* a sender string that is not hex
  Coins,          \* coin objects
  Budgets,        \* arguments of set_gas_budget
  Prices,         \* arguments of set_gas_price
  RefPrices,      \* the reference gas prices of the node
  Payments,       \* arguments of set_gas_payment
  BadPayment,     \* one with a missing key, or an id or digest that fails to decode
  DefaultBudget,  \* DEFAULT_GAS_BUDGET
  MaxU64,         \* the largest u64, scaled down
  None,           \* Python's None
  Error,          \* an RpcError or a transport error
  EmptyPage,      \* get_coins answered with no coins
  MaxEdits,       \* bound: calls of the setters
  MaxCalls,       \* bound: calls of the command methods
  MaxVersion      \* bound: versions of a coin

ASSUME BuildAssumption ==
  /\ Blocking \in BOOLEAN
  /\ Budgets \subseteq Nat /\ Prices \subseteq Nat /\ RefPrices \subseteq 0..MaxU64
  /\ DefaultBudget \in Nat \ {0} /\ MaxU64 \in Nat
  /\ MaxEdits \in Nat /\ MaxCalls \in Nat /\ MaxVersion \in Nat \ {0}
  /\ None \notin Accounts \cup {BadAddress} \cup Budgets \cup Prices \cup Payments \cup Coins
  /\ None # BadPayment /\ None # Error
  /\ Error \notin Coins \cup Nat /\ EmptyPage \notin Coins \cup Nat
  /\ BadAddress \notin Accounts /\ BadPayment \notin Payments
  /\ Payments \cap [coin : Coins, version : 1..MaxVersion] = {}  \* told from the node's choice

VARIABLES
  config,    \* _sender, _gas_budget, _gas_price and _gas_payment
  block,     \* _inputs and _commands
  build,     \* each build: its locals, the answer it waits for, its result
  chain,     \* the node: who owns each coin, and its current version
  refPrice,  \* the node: the reference gas price
  edits,     \* how many setters were called
  began,     \* history: the configuration, signer and block a build began with
  seen,      \* history: every configuration while a build ran
  asked      \* history: whose coins a build listed, and its gas coin's version then

vars == <<config, block, build, chain, refPrice, edits, began, seen, asked>>
node == <<chain, refPrice>>

-----------------------------------------------------------------------------

Nobody == None   \* the owner of a coin that was merged away or spent

CoinRef == [coin : Coins, version : 1..MaxVersion]
Config  == [sender : Accounts \cup {BadAddress, None}, budget : Budgets \cup {None},
            price : Prices \cup {None}, payment : Payments \cup {BadPayment, None}]
Calls   == {"sound", "unserializable"}
Payload == [block : Seq(Calls), sender : Accounts, price : Nat, budget : Nat,
            payment : Payments \cup CoinRef]

ASSUME PayloadAssumption == None \notin Payload

Waiting == {"price", "coins", "object"}
Running(b) == build[b].pc \in Waiting

BuildState == [pc : Waiting \cup {"idle", "done", "failed"},
               sender : Accounts \cup {None}, price : Nat \cup {None},
               budget : Nat \cup {None}, coin : Coins \cup {None},
               reply : Coins \cup Nat \cup {None, Error, EmptyPage},
               result : Payload \cup {None}]

Idle   == [pc |-> "idle", sender |-> None, price |-> None, budget |-> None,
           coin |-> None, reply |-> None, result |-> None]
Failed == [Idle EXCEPT !.pc = "failed"]
Done(payload) == [Idle EXCEPT !.pc = "done", !.result = payload]

SenderOf(c, signer) == IF c.sender # None THEN c.sender ELSE signer

\* _gas_budget or DEFAULT_GAS_BUDGET: zero is as good as None.
BudgetOf(c) == IF c.budget \in {None, 0} THEN DefaultBudget ELSE c.budget

-----------------------------------------------------------------------------
(* The straight-line stretches of build(), from one question to the next.  *)

\* Mutant: the budget is read after the questions.
FinishRereadingBudget(b, r, payment) ==
  build' = [build EXCEPT ![b] =
    Done([block |-> block, sender |-> r.sender,
          price |-> r.price, budget |-> BudgetOf(config), payment |-> payment])]

\* Mutant: what a command method accepted is not checked again.
SerializesAnything(r) == r.price <= MaxU64 /\ r.budget <= MaxU64

\* Serialize the block as it is now, or raise; r holds the locals.
Serializes(r) ==
  r.price <= MaxU64 /\ r.budget <= MaxU64
  /\ \A i \in DOMAIN block : block[i] # "unserializable"

\* Mutant: explicit coin references are not decoded.
FinishUndecoded(b, r, payment) ==
  build' = [build EXCEPT ![b] =
    IF Serializes(r)
      THEN Done([block |-> block, sender |-> r.sender, price |-> r.price,
                 budget |-> r.budget, payment |-> payment])
      ELSE Failed]

\* Mutant: the serialized block is kept, and used again by the next build.
FinishKeepingBlock(b, r, payment) ==
  LET earlier == {other \in Builds : build[other].pc = "done"}
      kept    == IF earlier = {} THEN block
                 ELSE build[CHOOSE other \in earlier : TRUE].result.block
  IN
  build' = [build EXCEPT ![b] =
    IF payment # BadPayment /\ Serializes(r)
      THEN Done([block |-> kept, sender |-> r.sender, price |-> r.price,
                 budget |-> r.budget, payment |-> payment])
      ELSE Failed]

Finish(b, r, payment) ==
  build' = [build EXCEPT ![b] =
    IF payment # BadPayment /\ Serializes(r)
      THEN Done([block |-> block, sender |-> r.sender, price |-> r.price,
                 budget |-> r.budget, payment |-> payment])
      ELSE Failed]

Fail(b) == build' = [build EXCEPT ![b] = Failed]

Await(b, r, question) == build' = [build EXCEPT ![b] = [r EXCEPT !.pc = question, !.reply = None]]

\* With the price known: the budget, then the gas payment.
GotPrice(b, r, price) ==
  LET priced == [r EXCEPT !.price = price, !.budget = BudgetOf(config)] IN
  \/ config.payment # None /\ Finish(b, priced, config.payment)
  \/ config.payment = None /\ Await(b, priced, "coins")

-----------------------------------------------------------------------------
(* The build.                                                              *)

Alone(b) == Blocking => \A other \in Builds \ {b} : ~Running(other)

Start(b, signer) ==
  LET sender == SenderOf(config, signer)
      r      == [Idle EXCEPT !.sender = sender]
  IN
  /\ build[b].pc = "idle" /\ Alone(b)
  /\ \/ sender \notin Accounts /\ Fail(b)
     \/ sender \in Accounts /\ config.price = None /\ Await(b, r, "price")
     \/ sender \in Accounts /\ config.price # None /\ GotPrice(b, r, config.price)
  /\ began' = [began EXCEPT ![b] = [config |-> config, signer |-> signer, length |-> Len(block)]]
  /\ seen' = [seen EXCEPT ![b] = {config}]
  /\ UNCHANGED <<config, block, node, edits, asked>>

ResumePrice(b) ==
  LET r == build[b] IN
  /\ r.pc = "price" /\ r.reply # None
  /\ \/ r.reply = Error /\ Fail(b)
     \/ r.reply # Error /\ GotPrice(b, r, r.reply)
  /\ UNCHANGED <<config, block, node, edits, began, seen, asked>>

\* Mutant: an empty page of coins is asked for again.
ResumeCoinsAgain(b) ==
  LET r == build[b] IN
  /\ r.pc = "coins" /\ r.reply # None
  /\ \/ r.reply = Error /\ Fail(b) /\ UNCHANGED asked
     \/ r.reply = EmptyPage /\ Await(b, r, "coins") /\ UNCHANGED asked
     \/ /\ r.reply \in Coins
        /\ Await(b, [r EXCEPT !.coin = r.reply], "object")
        /\ asked' = [asked EXCEPT ![b] = [account |-> r.sender, version |-> chain[r.reply].version]]
  /\ UNCHANGED <<config, block, node, edits, began, seen>>

\* An empty page of coins raises ValueError; otherwise the first one is taken.
ResumeCoins(b) ==
  LET r == build[b] IN
  /\ r.pc = "coins" /\ r.reply # None
  /\ \/ r.reply \in {Error, EmptyPage} /\ Fail(b) /\ UNCHANGED asked
     \/ /\ r.reply \in Coins
        /\ Await(b, [r EXCEPT !.coin = r.reply], "object")
        /\ asked' = [asked EXCEPT ![b] = [account |-> r.sender, version |-> chain[r.reply].version]]
  /\ UNCHANGED <<config, block, node, edits, began, seen>>

\* Mutant: the first version of the coin is remembered, and used.
ResumeObjectCached(b) ==
  LET r == build[b] IN
  /\ r.pc = "object" /\ r.reply \in Nat
  /\ Finish(b, r, [coin |-> r.coin, version |-> 1])
  /\ UNCHANGED <<config, block, node, edits, began, seen, asked>>

ResumeObject(b) ==
  LET r == build[b] IN
  /\ r.pc = "object" /\ r.reply # None
  /\ \/ r.reply = Error /\ Fail(b)
     \/ r.reply # Error /\ Finish(b, r, [coin |-> r.coin, version |-> r.reply])
  /\ UNCHANGED <<config, block, node, edits, began, seen, asked>>

-----------------------------------------------------------------------------
(* The node answers, from the state it has then; a question that fails or  *)
(* times out is answered by Error, and so is get_object for a coin that is *)
(* gone (ObjectNotFoundError).                                             *)

Owned(account) == {c \in Coins : chain[c].owner = account}

PriceReplies     == {refPrice}
CoinsReplies(r)  == IF Owned(r.sender) = {} THEN {EmptyPage} ELSE Owned(r.sender)
ObjectReplies(r) == IF chain[r.coin].owner = Nobody THEN {} ELSE {chain[r.coin].version}

Replies(r) ==
  {Error} \cup CASE r.pc = "price"  -> PriceReplies
                 [] r.pc = "coins"  -> CoinsReplies(r)
                 [] r.pc = "object" -> ObjectReplies(r)

Answer(b) ==
  /\ Running(b) /\ build[b].reply = None
  /\ \E reply \in Replies(build[b]) : build' = [build EXCEPT ![b].reply = reply]
  /\ UNCHANGED <<config, block, node, edits, began, seen, asked>>

\* A transaction of anyone's changes a coin: its version, maybe its owner.
MoveCoin(c, owner) ==
  /\ chain[c].owner # Nobody /\ chain[c].version < MaxVersion
  /\ chain' = [chain EXCEPT ![c] = [owner |-> owner, version |-> @.version + 1]]
  /\ UNCHANGED <<config, block, build, refPrice, edits, began, seen, asked>>

MovePrice(price) ==
  /\ refPrice' = price
  /\ UNCHANGED <<config, block, build, chain, edits, began, seen, asked>>

-----------------------------------------------------------------------------
(* The setters and the command methods, between two steps of a build.      *)

Free == Blocking => \A b \in Builds : ~Running(b)

Configure(c) ==
  /\ Free /\ edits < MaxEdits
  /\ config' = c
  /\ edits' = edits + 1
  /\ seen' = [b \in Builds |-> IF Running(b) THEN seen[b] \cup {c} ELSE seen[b]]
  /\ UNCHANGED <<block, build, node, began, asked>>

SetSender(a)  == Configure([config EXCEPT !.sender = a])
SetBudget(n)  == Configure([config EXCEPT !.budget = n])
SetPrice(n)   == Configure([config EXCEPT !.price = n])
SetPayment(p) == Configure([config EXCEPT !.payment = p])

Call(call) ==
  /\ Free /\ Len(block) < MaxCalls
  /\ block' = Append(block, call)
  /\ UNCHANGED <<config, build, node, edits, began, seen, asked>>

-----------------------------------------------------------------------------

Init ==
  /\ config = [sender |-> None, budget |-> None, price |-> None, payment |-> None]
  /\ block = <<>>
  /\ build = [b \in Builds |-> Idle]
  /\ chain \in [Coins -> [owner : Accounts, version : {1}]]
  /\ refPrice \in RefPrices
  /\ edits = 0
  /\ began = [b \in Builds |-> None]
  /\ seen  = [b \in Builds |-> {}]
  /\ asked = [b \in Builds |-> None]

Resume(b) == ResumePrice(b) \/ ResumeCoins(b) \/ ResumeObject(b)

Setter ==
  \/ \E a \in Accounts \cup {BadAddress} : SetSender(a)
  \/ \E n \in Budgets : SetBudget(n)
  \/ \E n \in Prices : SetPrice(n)
  \/ \E p \in Payments \cup {BadPayment} : SetPayment(p)

Node ==
  \/ \E c \in Coins, owner \in Accounts \cup {Nobody} : MoveCoin(c, owner)
  \/ \E price \in RefPrices : MovePrice(price)

Next ==
  \/ \E b \in Builds, signer \in Accounts \cup {None} : Start(b, signer)
  \/ \E b \in Builds : Answer(b) \/ Resume(b)
  \/ Setter
  \/ \E call \in Calls : Call(call)
  \/ Node

Spec == Init /\ [][Next]_vars

(* httpx gives every request a timeout (rpc.py:49), so each question is    *)
(* answered, by Error at the latest; the event loop runs a coroutine whose *)
(* answer has come.  Nothing makes a program call a setter or build().     *)
FairSpec == Spec /\ \A b \in Builds : WF_vars(Answer(b)) /\ WF_vars(Resume(b))

-----------------------------------------------------------------------------
(* Properties.                                                             *)

\* The shape of the state.
TypeOK ==
  /\ config \in Config
  /\ block \in Seq(Calls)
  /\ build \in [Builds -> BuildState]
  /\ \A b \in Builds :
       /\ build[b].pc = "done" <=> build[b].result # None
       /\ seen[b] \subseteq Config
  /\ chain \in [Coins -> [owner : Accounts \cup {Nobody}, version : 1..MaxVersion]]
  /\ refPrice \in RefPrices
  /\ edits \in 0..MaxEdits

Built == {b \in Builds : build[b].pc = "done"}

FromNode(payment) == payment \in CoinRef

(* A payload is made of what the Transaction held while it was built: the  *)
(* sender and an explicit price from the moment the build began, and the   *)
(* budget together with the gas payment from one later moment - the same   *)
(* one when the price was explicit (transaction.py:386-402).               *)
PayloadFromWindow ==
  \A b \in Built :
    LET p == build[b].result
        s == began[b].config
    IN
    /\ p.sender = SenderOf(s, began[b].signer)
    /\ s.price # None => p.price = s.price
    /\ \E c \in seen[b] :
         /\ p.budget = BudgetOf(c)
         /\ IF c.payment = None THEN FromNode(p.payment) ELSE p.payment = c.payment
         /\ s.price # None => c = s

(* The gas coin build() picks comes from the coins of the payload's sender *)
(* and has the version it had at some moment after build() chose it        *)
(* (transaction.py:526-542): not the version of the listing.               *)
GasCoinFresh ==
  \A b \in Built :
    LET p == build[b].result IN
    FromNode(p.payment) =>
      /\ p.sender = asked[b].account
      /\ p.payment.version >= asked[b].version
      /\ p.payment.version <= chain[p.payment.coin].version

(* The bytes hold the block as it was when they were made: every call made *)
(* before the build began, none after it ended, in the order of the calls, *)
(* and nothing that does not serialize.                                    *)
BlockInWindow ==
  \A b \in Built :
    LET p == build[b].result.block IN
    /\ began[b].length <= Len(p) /\ Len(p) <= Len(block)
    /\ p = SubSeq(block, 1, Len(p))
    /\ \A i \in DOMAIN p : p[i] # "unserializable"

(* A budget given to set_gas_budget is the budget of the bytes: the        *)
(* default is for a budget that was not specified (transaction.py:59).     *)
ExplicitBudgetKept ==
  \A b \in Built : \E c \in seen[b] :
    \/ build[b].result.budget = c.budget
    \/ c.budget = None /\ build[b].result.budget = DefaultBudget

(* Every build ends, with bytes or an exception, whatever the other tasks  *)
(* and the chain do meanwhile.                                             *)
BuildEnds == \A b \in Builds : Running(b) ~> ~Running(b)

-----------------------------------------------------------------------------
(* Refinement.                                                             *)

ResultOf(b) ==
  [status  |-> CASE build[b].pc = "failed" -> "failed"
                 [] build[b].pc = "done" -> "built"
                 [] OTHER -> "unfinished",
   payload |-> build[b].result]

Atomic == INSTANCE AtomicBuild WITH result <- [b \in Builds |-> ResultOf(b)]

(* build_sync, which lets no setter in while it runs, is atomic: its bytes *)
(* are those of one instant (transaction.py:424-467).  build() is not.     *)
BuildIsAtomic == Atomic!Spec
=============================================================================
