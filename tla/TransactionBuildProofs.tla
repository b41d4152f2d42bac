----------------------- MODULE TransactionBuildProofs -----------------------
(***************************************************************************)
(* Two readings of one machine.                                            *)
(*                                                                         *)
(* build() as a coroutine: setters, command methods and the chain may move *)
(* at each of its awaits, so its locals agree with no configuration of one *)
(* moment.  What they do agree with is the window of the build: each local *)
(* comes from a configuration the Transaction had since the build began,   *)
(* and the coin's version from the chain since the coins were listed.      *)
(* BuildKept says so of one build; it needs no assumption on Blocking.     *)
(*                                                                         *)
(* build_sync is atomic: while it blocks its caller no setter and no       *)
(* command method of the Transaction runs, so that the locals it gathered  *)
(* at different moments still agree with the configuration when it         *)
(* serializes.  LocalsCurrent says so and is the invariant of that proof;  *)
(* it is what an await breaks.                                             *)
(***************************************************************************)
EXTENDS TransactionBuild, TLAPS, SequenceTheorems

(* What an answer to the question a build waits for can be.                *)
Answers(pc) ==
  CASE pc = "price"  -> {None, Error} \cup RefPrices
    [] pc = "coins"  -> {None, Error, EmptyPage} \cup Coins
    [] pc = "object" -> {None, Error} \cup 1..MaxVersion

-----------------------------------------------------------------------------
(* The invariant, by build.                                                *)

\* The histories of a build that has begun.
Begun(b) ==
  /\ began[b] \in [config : Config, signer : Accounts \cup {None}, length : Nat]
  /\ began[b].length <= Len(block)
  /\ began[b].config \in seen[b]

\* Budget and price of a build that began with s come from its window, and so
\* does the payment: they are those of a configuration c it contains.
FromWindow(s, window, budget, price, payment) ==
  /\ s.price # None => price = s.price
  /\ \E c \in window :
       budget = BudgetOf(c) /\ c.payment = payment /\ (s.price # None => c = s)

\* A version the coin had between its listing and now.
SinceListed(listed, version, now) ==
  listed \in 1..MaxVersion /\ listed <= version /\ version <= now

\* The locals of a build that waits for an answer.
WaitingKept(b) ==
  LET r == build[b]
      s == began[b].config
  IN
  /\ config \in seen[b]
  /\ r.sender \in Accounts /\ r.sender = SenderOf(s, began[b].signer)
  /\ r.reply \in Answers(r.pc)
  /\ r.pc = "price" => s.price = None
  /\ r.pc \in {"coins", "object"} =>
       r.price \in Nat /\ r.budget \in Nat /\ FromWindow(s, seen[b], r.budget, r.price, None)
  /\ r.pc = "object" =>
       /\ r.coin \in Coins
       /\ asked[b].account = r.sender
       /\ SinceListed(asked[b].version, chain[r.coin].version, chain[r.coin].version)
       /\ r.reply \notin {None, Error} => SinceListed(asked[b].version, r.reply, chain[r.coin].version)

\* The bytes of a build that succeeded.
PayloadKept(b) ==
  LET p == build[b].result
      s == began[b].config
  IN
  /\ p \in Payload
  /\ p.sender = SenderOf(s, began[b].signer)
  /\ \/ p.payment \in Payments /\ FromWindow(s, seen[b], p.budget, p.price, p.payment)
     \/ /\ p.payment \in CoinRef /\ FromWindow(s, seen[b], p.budget, p.price, None)
        /\ p.sender = asked[b].account
        /\ SinceListed(asked[b].version, p.payment.version, chain[p.payment.coin].version)
  /\ began[b].length <= Len(p.block) /\ Len(p.block) <= Len(block)
  /\ p.block = SubSeq(block, 1, Len(p.block))
  /\ \A i \in DOMAIN p.block : p.block[i] # "unserializable"

BuildKept(b) ==
  /\ build[b].pc = "done" <=> build[b].result # None
  /\ seen[b] \subseteq Config
  /\ build[b].pc \in Waiting \cup {"done"} => Begun(b)
  /\ build[b].pc \in Waiting => WaitingKept(b)
  /\ build[b].pc = "done" => PayloadKept(b)

Shapes ==
  /\ config \in Config
  /\ block \in Seq(Calls)
  /\ build \in [Builds -> BuildState]
  /\ began \in [Builds -> [config : Config, signer : Accounts \cup {None}, length : Nat] \cup {None}]
  /\ seen \in [Builds -> SUBSET Config]
  /\ asked = [b \in Builds |-> asked[b]]
  /\ chain \in [Coins -> [owner : Accounts \cup {Nobody}, version : 1..MaxVersion]]
  /\ refPrice \in RefPrices
  /\ edits \in 0..MaxEdits

IInv == Shapes /\ \A b \in Builds : BuildKept(b)

-----------------------------------------------------------------------------
(* What others do while a build waits, and after it ended.                 *)

\* The window of a build after a step that may have been a setter's.
WindowGrows(b) ==
  /\ config' \in Config
  /\ \/ config' = config /\ seen'[b] = seen[b]
     \/ seen'[b] = IF Running(b) THEN seen[b] \cup {config'} ELSE seen[b]

BlockGrows ==
  \/ block' = block
  \/ \E call \in Calls : block' = Append(block, call)

ChainMovesOn ==
  /\ chain' \in [Coins -> [owner : Accounts \cup {Nobody}, version : 1..MaxVersion]]
  /\ \A c \in Coins : chain[c].version <= chain'[c].version

\* The block only grows at its end.
LEMMA BlockPrefix ==
  ASSUME block \in Seq(Calls), BlockGrows
  PROVE  /\ block' \in Seq(Calls)
         /\ Len(block) \in Nat /\ Len(block') \in Nat /\ Len(block) <= Len(block')
         /\ \A n \in 0..Len(block) : SubSeq(block', 1, n) = SubSeq(block, 1, n)
  <1>1. CASE block' = block
    BY <1>1, LenProperties
  <1>2. CASE \E call \in Calls : block' = Append(block, call)
    <2>1. PICK call \in Calls : block' = Append(block, call)
      BY <1>2
    <2>2. /\ block' \in Seq(Calls) /\ Len(block) \in Nat /\ Len(block') = Len(block) + 1
          /\ \A i \in 1..Len(block) : block'[i] = block[i]
      BY <2>1, AppendProperties, LenProperties
    <2>3. ASSUME NEW n \in 0..Len(block)
          PROVE  SubSeq(block', 1, n) = SubSeq(block, 1, n)
      <3>1. /\ SubSeq(block', 1, n) = [i \in 1..n |-> block'[i]]
            /\ SubSeq(block, 1, n) = [i \in 1..n |-> block[i]]
        BY <2>2
      <3> QED
        BY <2>2, <3>1
    <2> QED
      BY <2>2, <2>3
  <1> QED
    BY <1>1, <1>2 DEF BlockGrows

\* A build keeps its invariant through the steps of others.
LEMMA OthersKeep ==
  ASSUME IInv, NEW b \in Builds,
         build'[b] = build[b], began'[b] = began[b], asked'[b] = asked[b],
         WindowGrows(b), BlockGrows, ChainMovesOn
  PROVE  BuildKept(b)'
  <1> DEFINE r == build[b]
             s == began[b].config
  <1>1. BuildKept(b) /\ r \in BuildState
    BY DEF IInv, Shapes
  <1>2. seen[b] \subseteq seen'[b] /\ seen'[b] \subseteq Config
    BY <1>1 DEF WindowGrows, BuildKept
  <1>3. /\ Len(block) \in Nat /\ Len(block') \in Nat /\ Len(block) <= Len(block')
        /\ \A n \in 0..Len(block) : SubSeq(block', 1, n) = SubSeq(block, 1, n)
    BY BlockPrefix DEF IInv, Shapes
  <1>4. ASSUME r.pc \in Waiting \cup {"done"} PROVE Begun(b)'
    BY <1>1, <1>2, <1>3, <1>4 DEF BuildKept, Begun
  <1>5. \A budget, price, payment :
          FromWindow(s, seen[b], budget, price, payment)
            => FromWindow(s, seen'[b], budget, price, payment)
    BY <1>2 DEF FromWindow
  <1>6. \A coin \in Coins, version \in Nat : \A listed :
          SinceListed(listed, version, chain[coin].version)
            => SinceListed(listed, version, chain'[coin].version)
    BY BuildAssumption DEF SinceListed, ChainMovesOn, IInv, Shapes
  <1>7. ASSUME r.pc \in Waiting PROVE WaitingKept(b)'
    <2>1. WaitingKept(b)
      BY <1>1, <1>7 DEF BuildKept
    <2>2. config' \in seen'[b]
      BY <1>7, <2>1 DEF WindowGrows, WaitingKept, Running
    <2>3. r.pc \in {"coins", "object"} => FromWindow(s, seen'[b], r.budget, r.price, None)
      BY <1>5, <2>1 DEF WaitingKept
    <2>4. ASSUME r.pc = "object"
          PROVE  /\ SinceListed(asked[b].version, chain'[r.coin].version, chain'[r.coin].version)
                 /\ r.reply \notin {None, Error} => SinceListed(asked[b].version, r.reply, chain'[r.coin].version)
      <3>1. r.coin \in Coins /\ SinceListed(asked[b].version, chain[r.coin].version, chain[r.coin].version)
        BY <2>1, <2>4 DEF WaitingKept
      <3>2. SinceListed(asked[b].version, chain'[r.coin].version, chain'[r.coin].version)
        BY <3>1, BuildAssumption DEF SinceListed, ChainMovesOn, IInv, Shapes
      <3>3. r.reply \notin {None, Error} => r.reply \in Nat /\ SinceListed(asked[b].version, r.reply, chain[r.coin].version)
        BY <2>1, <2>4 DEF WaitingKept, Answers
      <3> QED
        BY <1>6, <3>1, <3>2, <3>3
    <2> QED
      BY <2>1, <2>2, <2>3, <2>4 DEF WaitingKept, SenderOf
  <1>8. ASSUME r.pc = "done" PROVE PayloadKept(b)'
    <2> DEFINE p == r.result
    <2>1. PayloadKept(b)
      BY <1>1, <1>8 DEF BuildKept
    <2>2. p \in Payload /\ Len(p.block) \in 0..Len(block)
      BY <1>3, <2>1 DEF PayloadKept, Payload
    <2>3. p.block = SubSeq(block', 1, Len(p.block)) /\ Len(p.block) <= Len(block')
      BY <1>3, <2>1, <2>2 DEF PayloadKept
    <2>4. \/ p.payment \in Payments /\ FromWindow(s, seen'[b], p.budget, p.price, p.payment)
          \/ /\ p.payment \in CoinRef /\ FromWindow(s, seen'[b], p.budget, p.price, None)
             /\ SinceListed(asked[b].version, p.payment.version, chain'[p.payment.coin].version)
             /\ p.sender = asked[b].account
      <3>1. CASE p.payment \in Payments /\ FromWindow(s, seen[b], p.budget, p.price, p.payment)
        BY <1>5, <3>1
      <3>2. CASE /\ p.payment \in CoinRef /\ FromWindow(s, seen[b], p.budget, p.price, None)
                 /\ p.sender = asked[b].account
                 /\ SinceListed(asked[b].version, p.payment.version, chain[p.payment.coin].version)
        <4>1. p.payment.coin \in Coins /\ p.payment.version \in Nat
          BY <3>2, BuildAssumption DEF CoinRef
        <4> QED
          BY <1>5, <1>6, <3>2, <4>1
      <3> QED
        BY <2>1, <3>1, <3>2 DEF PayloadKept
    <2> QED
      BY <2>1, <2>2, <2>3, <2>4 DEF PayloadKept, SenderOf
  <1> QED
    BY <1>1, <1>2, <1>4, <1>7, <1>8 DEF BuildKept

-----------------------------------------------------------------------------
(* The steps of a build.                                                   *)

\* A step of build b alone, which may set its histories.
StepOf(b) ==
  /\ UNCHANGED <<config, block, chain, refPrice, edits>>
  /\ \A x \in Builds \ {b} : /\ build'[x] = build[x] /\ began'[x] = began[x]
                             /\ seen'[x] = seen[x] /\ asked'[x] = asked[x]
  /\ began' \in [Builds -> [config : Config, signer : Accounts \cup {None}, length : Nat] \cup {None}]
  /\ seen' \in [Builds -> SUBSET Config]
  /\ asked' = [x \in Builds |-> asked'[x]]

\* The other builds keep their invariant through it.
LEMMA StepKeeps ==
  ASSUME IInv, NEW b \in Builds, StepOf(b), build' \in [Builds -> BuildState], BuildKept(b)'
  PROVE  IInv'
  <1>1. Shapes'
    BY DEF IInv, Shapes, StepOf
  <1>2. ASSUME NEW x \in Builds, x # b PROVE BuildKept(x)'
    <2>1. /\ build'[x] = build[x] /\ began'[x] = began[x]
          /\ seen'[x] = seen[x] /\ asked'[x] = asked[x]
      BY <1>2 DEF StepOf
    <2>2. WindowGrows(x) /\ BlockGrows
      BY <2>1 DEF StepOf, WindowGrows, BlockGrows, IInv, Shapes
    <2>3. ChainMovesOn
      <3>1. \A c \in Coins : chain[c].version \in Nat /\ chain' = chain
        BY BuildAssumption DEF IInv, Shapes, StepOf
      <3> QED
        BY <3>1 DEF StepOf, ChainMovesOn, IInv, Shapes
    <2> QED
      BY <2>1, <2>2, <2>3, OthersKeep
  <1> QED
    BY <1>1, <1>2 DEF IInv

\* A build that raises keeps nothing.
LEMMA FailKeeps ==
  ASSUME IInv, NEW b \in Builds, StepOf(b), Fail(b)
  PROVE  IInv'
  <1>1. Failed \in BuildState /\ Failed.pc = "failed" /\ Failed.result = None
    BY DEF Failed, Idle, BuildState, Waiting
  <1>2. build' \in [Builds -> BuildState] /\ build'[b] = Failed
    BY <1>1 DEF Fail, IInv, Shapes
  <1>3. BuildKept(b)'
    BY <1>1, <1>2 DEF BuildKept, StepOf, Waiting
  <1> QED
    BY <1>2, <1>3, StepKeeps

(* A build that has gathered its locals r and its payment serializes them  *)
(* with the block of this moment.                                          *)
LEMMA FinishKeeps ==
  ASSUME IInv, NEW b \in Builds, StepOf(b), Begun(b)',
         NEW r, NEW payment, Finish(b, r, payment),
         r.sender \in Accounts,
         r.sender = SenderOf(began'[b].config, began'[b].signer),
         r.price \in Nat, r.budget \in Nat,
         \/ /\ payment \in Payments \cup {BadPayment}
            /\ FromWindow(began'[b].config, seen'[b], r.budget, r.price, payment)
         \/ /\ payment \in CoinRef
            /\ FromWindow(began'[b].config, seen'[b], r.budget, r.price, None)
            /\ r.sender = asked'[b].account
            /\ SinceListed(asked'[b].version, payment.version, chain[payment.coin].version)
  PROVE  IInv'
  <1> DEFINE p == [block |-> block, sender |-> r.sender, price |-> r.price,
                   budget |-> r.budget, payment |-> payment]
  <1>1. CASE ~(payment # BadPayment /\ Serializes(r))
    <2>1. Fail(b)
      BY <1>1 DEF Finish, Fail
    <2> QED
      BY <2>1, FailKeeps
  <1>2. CASE payment # BadPayment /\ Serializes(r)
    <2>1. build' = [build EXCEPT ![b] = Done(p)]
      BY <1>2 DEF Finish
    <2>2. block \in Seq(Calls) /\ block' = block /\ chain' = chain
      BY DEF IInv, Shapes, StepOf
    <2>3. payment \in Payments \cup CoinRef
      BY <1>2
    <2>4. p \in Payload /\ p # None
      BY <2>2, <2>3, PayloadAssumption DEF Payload
    <2>5. Done(p) \in BuildState /\ Done(p).pc = "done" /\ Done(p).result = p
      BY <2>4 DEF Done, Idle, BuildState, Waiting
    <2>6. build' \in [Builds -> BuildState] /\ build'[b] = Done(p)
      BY <2>1, <2>5 DEF IInv, Shapes
    <2>7. /\ p.block = SubSeq(block', 1, Len(p.block)) /\ Len(p.block) \in Nat
          /\ began'[b].length <= Len(p.block) /\ Len(p.block) <= Len(block')
          /\ \A i \in DOMAIN p.block : p.block[i] # "unserializable"
      <3>1. SubSeq(block, 1, Len(block)) = block /\ Len(block) \in Nat
        BY <2>2, SubSeqFull, LenProperties
      <3>2. began'[b].length <= Len(block)
        BY <2>2 DEF Begun
      <3> QED
        BY <1>2, <2>2, <3>1, <3>2 DEF Serializes
    <2>8. PayloadKept(b)'
      <3>1. build'[b].result = p
        BY <2>5, <2>6
      <3>2. /\ p.payment = payment /\ p.sender = r.sender /\ p.price = r.price
            /\ p.budget = r.budget /\ p.block = block
        OBVIOUS
      <3>3. \/ /\ p.payment \in Payments
               /\ FromWindow(began'[b].config, seen'[b], p.budget, p.price, p.payment)
            \/ /\ p.payment \in CoinRef
               /\ FromWindow(began'[b].config, seen'[b], p.budget, p.price, None)
               /\ p.sender = asked'[b].account
               /\ SinceListed(asked'[b].version, p.payment.version, chain'[p.payment.coin].version)
        BY <1>2, <2>2, <3>2
      <3> HIDE DEF p
      <3> QED
        BY <2>2, <2>4, <2>7, <3>1, <3>2, <3>3 DEF PayloadKept, SenderOf
    <2>9. BuildKept(b)'
      BY <2>4, <2>5, <2>6, <2>8 DEF BuildKept, StepOf, Waiting
    <2> QED
      BY <2>6, <2>9, StepKeeps
  <1> QED
    BY <1>1, <1>2

\* A build that asks the next question with the locals r.
LEMMA AwaitKeeps ==
  ASSUME IInv, NEW b \in Builds, StepOf(b), Begun(b)', config \in seen'[b],
         NEW r \in BuildState, NEW question \in Waiting, Await(b, r, question),
         r.result = None,
         r.sender \in Accounts,
         r.sender = SenderOf(began'[b].config, began'[b].signer),
         question = "price" => began'[b].config.price = None,
         question \in {"coins", "object"} =>
           /\ r.price \in Nat /\ r.budget \in Nat
           /\ FromWindow(began'[b].config, seen'[b], r.budget, r.price, None),
         question = "object" =>
           /\ r.coin \in Coins /\ asked'[b].account = r.sender
           /\ SinceListed(asked'[b].version, chain[r.coin].version, chain[r.coin].version)
  PROVE  IInv'
  <1> DEFINE n == [r EXCEPT !.pc = question, !.reply = None]
  <1>1. /\ n \in BuildState /\ n.pc = question /\ n.reply = None
        /\ n.sender = r.sender /\ n.price = r.price /\ n.budget = r.budget
        /\ n.coin = r.coin /\ n.result = None
    BY DEF BuildState
  <1>2. build' \in [Builds -> BuildState] /\ build'[b] = n
    BY <1>1 DEF Await, IInv, Shapes
  <1> HIDE DEF n
  <1>3. None \in Answers(question)
    BY DEF Answers, Waiting
  <1>4. config' = config /\ chain' = chain
    BY DEF StepOf
  <1>5. WaitingKept(b)'
    BY <1>1, <1>2, <1>3, <1>4 DEF WaitingKept, SenderOf
  <1>6. BuildKept(b)'
    BY <1>1, <1>2, <1>5 DEF BuildKept, StepOf, Waiting
  <1> QED
    BY <1>2, <1>6, StepKeeps

\* With the price known, the budget is read, and the payment if it was set.
LEMMA GotPriceKeeps ==
  ASSUME IInv, NEW b \in Builds, StepOf(b), Begun(b)', config \in seen'[b],
         NEW r \in BuildState, NEW price \in Nat, GotPrice(b, r, price),
         r.result = None,
         r.sender \in Accounts,
         r.sender = SenderOf(began'[b].config, began'[b].signer),
         began'[b].config.price # None => began'[b].config = config /\ price = config.price
  PROVE  IInv'
  <1> DEFINE n == [r EXCEPT !.price = price, !.budget = BudgetOf(config)]
  <1>1. config.budget \in Budgets \cup {None} /\ config.payment \in Payments \cup {BadPayment, None}
    BY DEF IInv, Shapes, Config
  <1>2. BudgetOf(config) \in Nat
    BY <1>1, BuildAssumption DEF BudgetOf
  <1>3. /\ n \in BuildState /\ n.price = price /\ n.budget = BudgetOf(config)
        /\ n.sender = r.sender /\ n.result = None
    BY <1>2 DEF BuildState
  <1>4. FromWindow(began'[b].config, seen'[b], n.budget, n.price, config.payment)
    BY <1>3 DEF FromWindow
  <1> HIDE DEF n
  <1>5. CASE config.payment # None /\ Finish(b, n, config.payment)
    BY <1>1, <1>2, <1>3, <1>4, <1>5, FinishKeeps
  <1>6. CASE config.payment = None /\ Await(b, n, "coins")
    BY <1>2, <1>3, <1>4, <1>6, AwaitKeeps DEF Waiting
  <1> QED
    BY <1>5, <1>6 DEF GotPrice, n

LEMMA StartKeeps ==
  ASSUME IInv, NEW b \in Builds, NEW signer \in Accounts \cup {None}, Start(b, signer)
  PROVE  IInv'
  <1> DEFINE sender == SenderOf(config, signer)
             r      == [Idle EXCEPT !.sender = sender]
             s      == [config |-> config, signer |-> signer, length |-> Len(block)]
  <1>1. config \in Config /\ block \in Seq(Calls) /\ Len(block) \in Nat
    BY LenProperties DEF IInv, Shapes
  <1>2. s \in [config : Config, signer : Accounts \cup {None}, length : Nat]
    BY <1>1
  <1>3. /\ began' = [began EXCEPT ![b] = s] /\ seen' = [seen EXCEPT ![b] = {config}]
        /\ UNCHANGED <<config, block, chain, refPrice, edits, asked>>
    BY DEF Start, node
  <1>4. began'[b] = s /\ seen'[b] = {config}
    BY <1>3 DEF IInv, Shapes
  <1>5. began' \in [Builds -> [config : Config, signer : Accounts \cup {None}, length : Nat] \cup {None}]
    BY <1>2, <1>3 DEF IInv, Shapes
  <1>6. seen' \in [Builds -> SUBSET Config] /\ asked' = [x \in Builds |-> asked'[x]]
    BY <1>1, <1>3 DEF IInv, Shapes
  <1>7. \A x \in Builds \ {b} : /\ build'[x] = build[x] /\ began'[x] = began[x]
                                /\ seen'[x] = seen[x] /\ asked'[x] = asked[x]
    BY <1>3 DEF IInv, Shapes, Start, Fail, Await, GotPrice, Finish
  <1>8. StepOf(b)
    BY <1>3, <1>5, <1>6, <1>7 DEF StepOf
  <1>9. Begun(b)'
    BY <1>1, <1>2, <1>3, <1>4 DEF Begun
  <1>10. began'[b].config = config /\ SenderOf(began'[b].config, began'[b].signer) = sender
    BY <1>4 DEF SenderOf
  <1>11. CASE sender \notin Accounts /\ Fail(b)
    BY <1>8, <1>11, FailKeeps
  <1>12. ASSUME sender \in Accounts PROVE r \in BuildState /\ r.sender = sender /\ r.result = None
    BY <1>12 DEF Idle, BuildState, Waiting
  <1> HIDE DEF sender, r
  <1>13. CASE sender \in Accounts /\ config.price = None /\ Await(b, r, "price")
    BY <1>4, <1>8, <1>9, <1>10, <1>12, <1>13, AwaitKeeps DEF Waiting
  <1>14. CASE sender \in Accounts /\ config.price # None /\ GotPrice(b, r, config.price)
    <2>1. config.price \in Nat
      BY <1>1, <1>14, BuildAssumption DEF Config
    <2> QED
      BY <1>4, <1>8, <1>9, <1>10, <1>12, <1>14, <2>1, GotPriceKeeps
  <1> QED
    BY <1>11, <1>13, <1>14 DEF Start, sender, r

\* What a build that waits knows, and that its histories stay.
LEMMA WaitingFacts ==
  ASSUME IInv, NEW b \in Builds, build[b].pc \in Waiting,
         UNCHANGED <<config, block, node, edits, began, seen>>,
         \A x \in Builds \ {b} : build'[x] = build[x] /\ asked'[x] = asked[x],
         asked' = [x \in Builds |-> asked'[x]]
  PROVE  /\ StepOf(b) /\ Begun(b)' /\ config \in seen'[b]
         /\ build[b] \in BuildState /\ build[b].result = None /\ WaitingKept(b)
  <1>1. BuildKept(b)
    BY DEF IInv
  <1>2. StepOf(b)
    BY DEF StepOf, node, IInv, Shapes
  <1>3. build[b].pc # "done"
    BY DEF Waiting
  <1> QED
    BY <1>1, <1>2, <1>3 DEF BuildKept, Begun, WaitingKept, IInv, Shapes

LEMMA ResumePriceKeeps ==
  ASSUME IInv, NEW b \in Builds, ResumePrice(b)
  PROVE  IInv'
  <1> DEFINE r == build[b]
  <1>1. /\ r.pc = "price" /\ r.reply # None
        /\ UNCHANGED <<config, block, node, edits, began, seen, asked>>
    BY DEF ResumePrice
  <1>2. \A x \in Builds \ {b} : build'[x] = build[x]
    BY DEF ResumePrice, Fail, Await, GotPrice, Finish, IInv, Shapes
  <1>3. /\ StepOf(b) /\ Begun(b)' /\ config \in seen'[b]
        /\ r \in BuildState /\ r.result = None /\ WaitingKept(b)
    BY <1>1, <1>2, WaitingFacts DEF Waiting, IInv, Shapes
  <1>4. CASE r.reply = Error /\ Fail(b)
    BY <1>3, <1>4, FailKeeps
  <1>5. CASE r.reply # Error /\ GotPrice(b, r, r.reply)
    <2>1. r.reply \in Nat
      BY <1>1, <1>3, <1>5, BuildAssumption DEF WaitingKept, Answers
    <2>2. /\ began'[b].config.price = None /\ r.sender \in Accounts
          /\ r.sender = SenderOf(began'[b].config, began'[b].signer)
      BY <1>1, <1>3 DEF WaitingKept
    <2> HIDE DEF r
    <2> QED
      BY <1>3, <1>5, <2>1, <2>2, GotPriceKeeps
  <1> QED
    BY <1>4, <1>5 DEF ResumePrice

LEMMA ResumeCoinsKeeps ==
  ASSUME IInv, NEW b \in Builds, ResumeCoins(b)
  PROVE  IInv'
  <1> DEFINE r == build[b]
  <1>1. r.pc = "coins" /\ UNCHANGED <<config, block, node, edits, began, seen>>
    BY DEF ResumeCoins
  <1>2. asked = [x \in Builds |-> asked[x]]
    BY DEF IInv, Shapes
  <1>3. CASE r.reply \in {Error, EmptyPage} /\ Fail(b) /\ UNCHANGED asked
    <2>1. \A x \in Builds \ {b} : build'[x] = build[x] /\ asked'[x] = asked[x]
      BY <1>3 DEF Fail, IInv, Shapes
    <2>2. StepOf(b)
      BY <1>1, <1>2, <1>3, <2>1, WaitingFacts DEF Waiting
    <2> QED
      BY <1>3, <2>2, FailKeeps
  <1>4. CASE /\ r.reply \in Coins
             /\ Await(b, [r EXCEPT !.coin = r.reply], "object")
             /\ asked' = [asked EXCEPT ![b] = [account |-> r.sender, version |-> chain[r.reply].version]]
    <2> DEFINE n == [r EXCEPT !.coin = r.reply]
    <2>1. /\ \A x \in Builds \ {b} : build'[x] = build[x] /\ asked'[x] = asked[x]
          /\ asked' = [x \in Builds |-> asked'[x]]
          /\ asked'[b] = [account |-> r.sender, version |-> chain[r.reply].version]
      BY <1>2, <1>4 DEF Await, IInv, Shapes
    <2>2. /\ StepOf(b) /\ Begun(b)' /\ config \in seen'[b]
          /\ r \in BuildState /\ r.result = None /\ WaitingKept(b)
      BY <1>1, <2>1, WaitingFacts DEF Waiting
    <2>3. /\ n \in BuildState /\ n.coin = r.reply /\ n.sender = r.sender /\ n.price = r.price
          /\ n.budget = r.budget /\ n.result = None
      BY <1>4, <2>2 DEF BuildState
    <2>4. SinceListed(asked'[b].version, chain[n.coin].version, chain[n.coin].version)
      <3>1. chain[r.reply].version \in 1..MaxVersion
        BY <1>4 DEF IInv, Shapes
      <3> QED
        BY <2>1, <2>3, <3>1, BuildAssumption DEF SinceListed
    <2>5. /\ n.sender \in Accounts
          /\ n.sender = SenderOf(began'[b].config, began'[b].signer)
          /\ n.price \in Nat /\ n.budget \in Nat
          /\ FromWindow(began'[b].config, seen'[b], n.budget, n.price, None)
      BY <1>1, <2>2, <2>3 DEF WaitingKept
    <2>6. n.coin \in Coins /\ asked'[b].account = n.sender
      BY <1>4, <2>1, <2>3
    <2>7. Await(b, n, "object")
      BY <1>4
    <2> HIDE DEF n, r
    <2> QED
      BY <2>2, <2>3, <2>4, <2>5, <2>6, <2>7, AwaitKeeps DEF Waiting
  <1> QED
    BY <1>3, <1>4 DEF ResumeCoins

LEMMA ResumeObjectKeeps ==
  ASSUME IInv, NEW b \in Builds, ResumeObject(b)
  PROVE  IInv'
  <1> DEFINE r   == build[b]
             ref == [coin |-> r.coin, version |-> r.reply]
  <1>1. /\ r.pc = "object" /\ r.reply # None
        /\ UNCHANGED <<config, block, node, edits, began, seen, asked>>
    BY DEF ResumeObject
  <1>2. \A x \in Builds \ {b} : build'[x] = build[x]
    BY DEF ResumeObject, Fail, Finish, IInv, Shapes
  <1>3. /\ StepOf(b) /\ Begun(b)' /\ WaitingKept(b)
    BY <1>1, <1>2, WaitingFacts DEF Waiting, IInv, Shapes
  <1>4. CASE r.reply = Error /\ Fail(b)
    BY <1>3, <1>4, FailKeeps
  <1>5. CASE r.reply # Error /\ Finish(b, r, ref)
    <2>1. r.reply \in 1..MaxVersion /\ r.coin \in Coins
      BY <1>1, <1>3, <1>5 DEF WaitingKept, Answers
    <2>2. ref \in CoinRef /\ ref.coin = r.coin /\ ref.version = r.reply
      BY <2>1 DEF CoinRef
    <2>3. /\ r.sender \in Accounts /\ r.price \in Nat /\ r.budget \in Nat
          /\ r.sender = SenderOf(began'[b].config, began'[b].signer)
          /\ FromWindow(began'[b].config, seen'[b], r.budget, r.price, None)
          /\ r.sender = asked'[b].account
      BY <1>1, <1>3 DEF WaitingKept
    <2>4. SinceListed(asked'[b].version, ref.version, chain[ref.coin].version)
      BY <1>1, <1>3, <1>5, <2>2 DEF WaitingKept
    <2> HIDE DEF r, ref
    <2> QED
      BY <1>3, <1>5, <2>2, <2>3, <2>4, FinishKeeps
  <1> QED
    BY <1>4, <1>5 DEF ResumeObject

\* An answer is read from the chain as it is now.
LEMMA AnswerKeeps ==
  ASSUME IInv, NEW b \in Builds, Answer(b)
  PROVE  IInv'
  <1> DEFINE r == build[b]
  <1>1. PICK reply \in Replies(r) : build' = [build EXCEPT ![b].reply = reply]
    BY DEF Answer
  <1>2. /\ r.pc \in Waiting
        /\ UNCHANGED <<config, block, node, edits, began, seen, asked>>
    BY DEF Answer, Running
  <1>3. \A x \in Builds \ {b} : build'[x] = build[x]
    BY <1>1 DEF IInv, Shapes
  <1>4. /\ StepOf(b) /\ Begun(b)' /\ r \in BuildState /\ r.result = None /\ WaitingKept(b)
    BY <1>2, <1>3, WaitingFacts DEF IInv, Shapes
  <1>5. reply \in Answers(r.pc)
    <2>1. CASE r.pc = "price"
      BY <1>1, <2>1 DEF Replies, PriceReplies, Answers, IInv, Shapes
    <2>2. CASE r.pc = "coins"
      BY <1>1, <2>2 DEF Replies, CoinsReplies, Answers, Owned
    <2>3. CASE r.pc = "object"
      <3>1. chain[r.coin].version \in 1..MaxVersion
        BY <1>4, <2>3 DEF WaitingKept, IInv, Shapes
      <3> QED
        BY <1>1, <2>3, <3>1 DEF Replies, ObjectReplies, Answers
    <2> QED
      BY <1>2, <2>1, <2>2, <2>3 DEF Waiting
  <1>6. r.pc = "object" /\ reply \notin {None, Error} =>
          SinceListed(asked[b].version, reply, chain[r.coin].version)
    <2> SUFFICES ASSUME r.pc = "object", reply \notin {None, Error}
                 PROVE  SinceListed(asked[b].version, reply, chain[r.coin].version)
      OBVIOUS
    <2>1. reply = chain[r.coin].version
      BY <1>1 DEF Replies, ObjectReplies
    <2> QED
      BY <1>4, <2>1 DEF WaitingKept
  <1> DEFINE n == [r EXCEPT !.reply = reply]
  <1>7. reply \in Coins \cup Nat \cup {None, Error, EmptyPage}
    <2>1. RefPrices \subseteq Nat /\ 1..MaxVersion \subseteq Nat
      BY BuildAssumption
    <2> QED
      BY <1>2, <1>5, <2>1 DEF Answers, Waiting
  <1>8. /\ n \in BuildState /\ n.pc = r.pc /\ n.sender = r.sender /\ n.price = r.price
        /\ n.budget = r.budget /\ n.coin = r.coin /\ n.result = None /\ n.reply = reply
    BY <1>4, <1>7 DEF BuildState
  <1>9. build' \in [Builds -> BuildState] /\ build'[b] = n
    BY <1>1, <1>8 DEF IInv, Shapes
  <1>10. WaitingKept(b)'
    <2> HIDE DEF n
    <2> QED
      BY <1>2, <1>4, <1>5, <1>6, <1>8, <1>9 DEF WaitingKept, SenderOf, node
  <1>11. BuildKept(b)'
    <2> HIDE DEF n
    <2> QED
      BY <1>2, <1>4, <1>8, <1>9, <1>10 DEF BuildKept, StepOf, Waiting
  <1> QED
    BY <1>4, <1>9, <1>11, StepKeeps

-----------------------------------------------------------------------------
(* The steps of everyone else.                                             *)

LEMMA ConfigureKeeps ==
  ASSUME IInv, NEW c \in Config, Configure(c)
  PROVE  IInv'
  <1>1. /\ config' = c /\ edits' = edits + 1 /\ edits < MaxEdits
        /\ seen' = [b \in Builds |-> IF Running(b) THEN seen[b] \cup {c} ELSE seen[b]]
        /\ UNCHANGED <<block, build, chain, refPrice, began, asked>>
    BY DEF Configure, node
  <1>2. Shapes'
    <2>1. edits' \in 0..MaxEdits
      BY <1>1, BuildAssumption DEF IInv, Shapes
    <2>2. seen' \in [Builds -> SUBSET Config]
      BY <1>1 DEF IInv, Shapes
    <2> QED
      BY <1>1, <2>1, <2>2 DEF IInv, Shapes
  <1>3. ChainMovesOn
    <2>1. \A x \in Coins : chain[x].version \in Nat
      BY BuildAssumption DEF IInv, Shapes
    <2> QED
      BY <1>1, <2>1 DEF ChainMovesOn, IInv, Shapes
  <1>4. ASSUME NEW b \in Builds PROVE BuildKept(b)'
    <2>1. WindowGrows(b) /\ BlockGrows
      BY <1>1 DEF WindowGrows, BlockGrows
    <2> QED
      BY <1>1, <1>3, <2>1, OthersKeep
  <1> QED
    BY <1>2, <1>4 DEF IInv

LEMMA SetterKeeps ==
  ASSUME IInv, Setter
  PROVE  IInv'
  <1>1. config \in Config
    BY DEF IInv, Shapes
  <1>2. ASSUME NEW a \in Accounts \cup {BadAddress}, SetSender(a) PROVE IInv'
    BY <1>1, <1>2, ConfigureKeeps DEF SetSender, Config
  <1>3. ASSUME NEW n \in Budgets, SetBudget(n) PROVE IInv'
    BY <1>1, <1>3, ConfigureKeeps DEF SetBudget, Config
  <1>4. ASSUME NEW n \in Prices, SetPrice(n) PROVE IInv'
    BY <1>1, <1>4, ConfigureKeeps DEF SetPrice, Config
  <1>5. ASSUME NEW p \in Payments \cup {BadPayment}, SetPayment(p) PROVE IInv'
    BY <1>1, <1>5, ConfigureKeeps DEF SetPayment, Config
  <1> QED
    BY <1>2, <1>3, <1>4, <1>5 DEF Setter

LEMMA CallKeeps ==
  ASSUME IInv, NEW call \in Calls, Call(call)
  PROVE  IInv'
  <1>1. /\ block' = Append(block, call)
        /\ UNCHANGED <<config, build, chain, refPrice, edits, began, seen, asked>>
    BY DEF Call, node
  <1>2. Shapes'
    BY <1>1, AppendProperties DEF IInv, Shapes
  <1>3. ChainMovesOn
    <2>1. \A x \in Coins : chain[x].version \in Nat
      BY BuildAssumption DEF IInv, Shapes
    <2> QED
      BY <1>1, <2>1 DEF ChainMovesOn, IInv, Shapes
  <1>4. ASSUME NEW b \in Builds PROVE BuildKept(b)'
    <2>1. WindowGrows(b) /\ BlockGrows
      BY <1>1 DEF WindowGrows, BlockGrows, IInv, Shapes
    <2> QED
      BY <1>1, <1>3, <2>1, OthersKeep
  <1> QED
    BY <1>2, <1>4 DEF IInv

LEMMA NodeKeeps ==
  ASSUME IInv, Node
  PROVE  IInv'
  <1>1. UNCHANGED <<config, block, build, edits, began, seen, asked>>
    BY DEF Node, MoveCoin, MovePrice
  <1>2. refPrice' \in RefPrices /\ ChainMovesOn
    <2>1. \A x \in Coins : chain[x].version \in Nat
      BY BuildAssumption DEF IInv, Shapes
    <2>2. ASSUME NEW c \in Coins, NEW owner \in Accounts \cup {Nobody}, MoveCoin(c, owner)
          PROVE  refPrice' \in RefPrices /\ ChainMovesOn
      <3>1. /\ chain[c].version + 1 \in 1..MaxVersion
            /\ chain' = [chain EXCEPT ![c] = [owner |-> owner, version |-> @.version + 1]]
        BY <2>2, BuildAssumption DEF MoveCoin, IInv, Shapes
      <3>2. refPrice' \in RefPrices
        BY <2>2 DEF MoveCoin, IInv, Shapes
      <3>3. chain' \in [Coins -> [owner : Accounts \cup {Nobody}, version : 1..MaxVersion]]
        BY <3>1 DEF IInv, Shapes
      <3>4. \A x \in Coins : chain'[x].version \in {chain[x].version, chain[x].version + 1}
        BY <3>1 DEF IInv, Shapes
      <3> QED
        BY <2>1, <3>2, <3>3, <3>4 DEF ChainMovesOn
    <2>3. ASSUME NEW price \in RefPrices, MovePrice(price)
          PROVE  refPrice' \in RefPrices /\ ChainMovesOn
      BY <2>1, <2>3 DEF MovePrice, ChainMovesOn, IInv, Shapes
    <2> QED
      BY <2>2, <2>3 DEF Node
  <1>3. Shapes'
    BY <1>1, <1>2 DEF Shapes, IInv, ChainMovesOn
  <1>4. ASSUME NEW b \in Builds PROVE BuildKept(b)'
    <2>1. WindowGrows(b) /\ BlockGrows
      BY <1>1 DEF WindowGrows, BlockGrows, IInv, Shapes
    <2> QED
      BY <1>1, <1>2, <2>1, OthersKeep
  <1> QED
    BY <1>3, <1>4 DEF IInv

LEMMA StutterKeeps ==
  ASSUME IInv, UNCHANGED vars
  PROVE  IInv'
  BY DEF IInv, Shapes, BuildKept, Begun, WaitingKept, PayloadKept, SenderOf, vars

-----------------------------------------------------------------------------
(* The theorems.                                                           *)

LEMMA InitKeeps == Init => IInv
  <1> SUFFICES ASSUME Init PROVE IInv
    OBVIOUS
  <1>1. Idle \in BuildState /\ Idle.pc = "idle" /\ Idle.result = None
    BY DEF Idle, BuildState, Waiting
  <1>2. chain \in [Coins -> [owner : Accounts \cup {Nobody}, version : 1..MaxVersion]]
    BY BuildAssumption DEF Init
  <1>3. Shapes
    BY <1>1, <1>2, BuildAssumption DEF Init, Shapes, Config
  <1>4. ASSUME NEW b \in Builds PROVE BuildKept(b)
    BY <1>1 DEF Init, BuildKept, Waiting
  <1> QED
    BY <1>3, <1>4 DEF IInv

LEMMA NextKeeps == IInv /\ [Next]_vars => IInv'
  <1> SUFFICES ASSUME IInv, [Next]_vars PROVE IInv'
    OBVIOUS
  <1>1. CASE \E b \in Builds, signer \in Accounts \cup {None} : Start(b, signer)
    BY <1>1, StartKeeps
  <1>2. CASE \E b \in Builds : Answer(b) \/ Resume(b)
    BY <1>2, AnswerKeeps, ResumePriceKeeps, ResumeCoinsKeeps, ResumeObjectKeeps DEF Resume
  <1>3. CASE Setter
    BY <1>3, SetterKeeps
  <1>4. CASE \E call \in Calls : Call(call)
    BY <1>4, CallKeeps
  <1>5. CASE Node
    BY <1>5, NodeKeeps
  <1>6. CASE UNCHANGED vars
    BY <1>6, StutterKeeps
  <1> QED
    BY <1>1, <1>2, <1>3, <1>4, <1>5, <1>6 DEF Next

LEMMA Invariant == Spec => []IInv
  BY InitKeeps, NextKeeps, PTL DEF Spec

(* The state has its shape, and a build has a result if and only if it     *)
(* ended well, in both kinds of build.                                     *)
THEOREM TypeCorrect == Spec => []TypeOK
  <1>1. IInv => TypeOK
    BY DEF IInv, Shapes, BuildKept, TypeOK
  <1> QED
    BY <1>1, Invariant, PTL

(* Whatever setters run between its awaits, a build's sender and explicit  *)
(* price are those it began with, and its budget and payment those of one  *)
(* configuration since (transaction.py:386-402).                           *)
THEOREM PayloadAlwaysFromWindow == Spec => []PayloadFromWindow
  <1>1. ASSUME IInv, NEW b \in Built
        PROVE  LET p == build[b].result
                   s == began[b].config
               IN  /\ p.sender = SenderOf(s, began[b].signer)
                   /\ s.price # None => p.price = s.price
                   /\ \E c \in seen[b] :
                        /\ p.budget = BudgetOf(c)
                        /\ IF c.payment = None THEN FromNode(p.payment) ELSE p.payment = c.payment
                        /\ s.price # None => c = s
    <2>1. PayloadKept(b)
      BY <1>1 DEF IInv, BuildKept, Built
    <2>2. None \notin Payments
      BY BuildAssumption
    <2> QED
      BY <2>1, <2>2 DEF PayloadKept, FromWindow, FromNode
  <1>2. IInv => PayloadFromWindow
    BY <1>1 DEF PayloadFromWindow
  <1> QED
    BY <1>2, Invariant, PTL

(* The gas coin build() picks is one that was listed for the payload's     *)
(* sender, with a version it had since (transaction.py:526-542).           *)
THEOREM GasCoinAlwaysFresh == Spec => []GasCoinFresh
  <1>1. ASSUME IInv, NEW b \in Built, FromNode(build[b].result.payment)
        PROVE  LET p == build[b].result IN
               /\ p.sender = asked[b].account
               /\ p.payment.version >= asked[b].version
               /\ p.payment.version <= chain[p.payment.coin].version
    <2> DEFINE p == build[b].result
    <2>1. PayloadKept(b)
      BY <1>1 DEF IInv, BuildKept, Built
    <2>2. p.payment \notin Payments
      BY <1>1, BuildAssumption DEF FromNode, CoinRef
    <2>3. /\ p.payment \in CoinRef /\ p.sender = asked[b].account
          /\ SinceListed(asked[b].version, p.payment.version, chain[p.payment.coin].version)
      BY <2>1, <2>2 DEF PayloadKept
    <2> QED
      BY <2>3, BuildAssumption DEF SinceListed, CoinRef
  <1>2. IInv => GasCoinFresh
    BY <1>1 DEF GasCoinFresh
  <1> QED
    BY <1>2, Invariant, PTL

(* The bytes hold every call made before the build began and none made     *)
(* after it ended, in their order.                                         *)
THEOREM BlockAlwaysInWindow == Spec => []BlockInWindow
  <1>1. IInv => BlockInWindow
    BY DEF IInv, BuildKept, PayloadKept, Built, BlockInWindow
  <1> QED
    BY <1>1, Invariant, PTL

-----------------------------------------------------------------------------
(* build_sync: what its locals agree with while it blocks its caller. *)

\* The locals of a build that blocks its caller agree with the configuration.
LocalsCurrent(r) ==
  /\ r.pc # "done" => r.result = None
  /\ r.pc \in Waiting =>
       /\ r.sender \in Accounts
       /\ config.sender # None => r.sender = config.sender
       /\ r.reply \in Answers(r.pc)
  /\ r.pc = "price" => config.price = None
  /\ r.pc \in {"coins", "object"} =>
       /\ config.payment = None
       /\ r.budget = BudgetOf(config)
       /\ IF config.price = None THEN r.price \in RefPrices ELSE r.price = config.price
  /\ r.pc = "object" => r.coin \in Coins

\* The chain as the node may show it.
NodeTyped ==
  /\ chain \in [Coins -> [owner : Accounts \cup {Nobody}, version : 1..MaxVersion]]
  /\ refPrice \in RefPrices

\* The invariant of builds that block.
BlockingIInv ==
  /\ config \in Config
  /\ block \in Seq(Calls)
  /\ build \in [Builds -> BuildState]
  /\ NodeTyped
  /\ \A b \in Builds : LocalsCurrent(build[b])

-----------------------------------------------------------------------------
(* The end of a build.                                                     *)

\* What a build may serialize with, given the configuration of the moment.
Gathered(r, payment) ==
  /\ r.sender \in Accounts
  /\ config.sender # None => r.sender = config.sender
  /\ r.budget = BudgetOf(config)
  /\ IF config.price = None THEN r.price \in RefPrices ELSE r.price = config.price
  /\ IF config.payment = None THEN payment \in CoinRef ELSE payment = config.payment

Outcome(r) == [status  |-> CASE r.pc = "failed" -> "failed"
                             [] r.pc = "done" -> "built"
                             [] OTHER -> "unfinished",
               payload |-> r.result]

Results == [b \in Builds |-> ResultOf(b)]

\* A step of one build keeps the invariant and maps to that build's outcome.
LEMMA OneBuildSteps ==
  ASSUME BlockingIInv, NEW b \in Builds, NEW n \in BuildState, LocalsCurrent(n),
         build' = [build EXCEPT ![b] = n], UNCHANGED <<config, block, node>>
  PROVE  /\ BlockingIInv'
         /\ Results' = [Results EXCEPT ![b] = Outcome(n)]
  <1>1. build \in [Builds -> BuildState]
    BY DEF BlockingIInv
  <1>2. /\ build' \in [Builds -> BuildState] /\ build'[b] = n
        /\ \A x \in Builds \ {b} : build'[x] = build[x]
    BY <1>1
  <1>3. \A x \in Builds : LocalsCurrent(build[x])'
    <2> SUFFICES ASSUME NEW x \in Builds PROVE LocalsCurrent(build[x])'
      OBVIOUS
    <2>1. CASE x = b
      BY <1>2, <2>1 DEF LocalsCurrent, BudgetOf
    <2>2. CASE x # b
      <3>1. LocalsCurrent(build[x]) /\ build'[x] = build[x]
        BY <1>2, <2>2 DEF BlockingIInv
      <3> QED
        BY <3>1 DEF LocalsCurrent, BudgetOf
    <2> QED
      BY <2>1, <2>2
  <1>4. NodeTyped'
    BY DEF BlockingIInv, NodeTyped, node
  <1>5. BlockingIInv'
    BY <1>2, <1>3, <1>4 DEF BlockingIInv
  <1>6. \A x \in Builds : ResultOf(x) = Outcome(build[x])
    BY DEF ResultOf, Outcome
  <1>7. \A x \in Builds : ResultOf(x)' = Outcome(build'[x])
    BY DEF ResultOf, Outcome
  <1>8. \A x \in Builds : Results'[x] = [Results EXCEPT ![b] = Outcome(n)][x]
    <2> SUFFICES ASSUME NEW x \in Builds
                 PROVE  Results'[x] = [Results EXCEPT ![b] = Outcome(n)][x]
      OBVIOUS
    <2>1. Results'[x] = Outcome(build'[x]) /\ Results[x] = Outcome(build[x])
      BY <1>6, <1>7 DEF Results
    <2>2. x \in DOMAIN Results /\ b \in DOMAIN Results
      BY DEF Results
    <2> HIDE DEF Results, Outcome
    <2> QED
      BY <1>2, <2>1, <2>2
  <1>9. Results' = [Results EXCEPT ![b] = Outcome(n)]
    <2>1. Results' = [x \in Builds |-> Results'[x]]
      BY DEF Results
    <2>2. [Results EXCEPT ![b] = Outcome(n)] =
            [x \in Builds |-> [Results EXCEPT ![b] = Outcome(n)][x]]
      BY DEF Results
    <2> QED
      BY <1>8, <2>1, <2>2
  <1> QED
    BY <1>5, <1>9

\* A build that fails.
LEMMA FailIsAtomic ==
  ASSUME BlockingIInv, NEW b \in Builds, build[b].pc \notin {"done", "failed"}, Fail(b),
         UNCHANGED <<config, block, node>>
  PROVE  Atomic!Next /\ BlockingIInv'
  <1>1. Failed \in BuildState /\ LocalsCurrent(Failed)
    BY DEF Failed, Idle, BuildState, LocalsCurrent, Waiting
  <1>2. BlockingIInv' /\ Results' = [Results EXCEPT ![b] = Outcome(Failed)]
    BY <1>1, OneBuildSteps DEF Fail
  <1>3. Outcome(Failed) = Atomic!Failed
    BY DEF Outcome, Failed, Idle, Atomic!Failed
  <1>4. Results[b] = Atomic!Unfinished
    BY DEF Results, ResultOf, Atomic!Unfinished, BlockingIInv, LocalsCurrent
  <1>5. Atomic!Fail(b)
    BY <1>2, <1>3, <1>4 DEF Atomic!Fail, Results
  <1> QED
    BY <1>2, <1>5 DEF Atomic!Next

(* A build that serializes what it gathered succeeds, or fails, as the     *)
(* atomic build does at that instant.                                      *)
LEMMA FinishIsAtomic ==
  ASSUME BlockingIInv, NEW b \in Builds, build[b].pc \notin {"done", "failed"},
         NEW r, NEW payment, Gathered(r, payment), Finish(b, r, payment),
         UNCHANGED <<config, block, node>>
  PROVE  Atomic!Next /\ BlockingIInv'
  <1> USE BuildAssumption
  <1> DEFINE payload == [block |-> block, sender |-> r.sender, price |-> r.price,
                         budget |-> r.budget, payment |-> payment]
  <1>1. /\ config.sender \in Accounts \cup {BadAddress, None}
        /\ config.budget \in Budgets \cup {None} /\ config.price \in Prices \cup {None}
        /\ config.payment \in Payments \cup {BadPayment, None}
        /\ block \in Seq(Calls)
    BY DEF BlockingIInv, Config
  <1>2. CASE ~(payment # BadPayment /\ Serializes(r))
    <2>1. Fail(b)
      BY <1>2 DEF Finish, Fail
    <2> QED
      BY <2>1, FailIsAtomic
  <1>3. CASE payment # BadPayment /\ Serializes(r)
    <2>1. build' = [build EXCEPT ![b] = Done(payload)]
      BY <1>3 DEF Finish
    <2>2. /\ r.sender \in Accounts
          /\ r.price \in Nat /\ r.price <= MaxU64
          /\ r.budget \in Nat /\ r.budget <= MaxU64
          /\ payment \in Payments \cup CoinRef
      <3>1. r.price <= MaxU64 /\ r.budget <= MaxU64 /\ payment # BadPayment
        BY <1>3 DEF Serializes
      <3>2. r.sender \in Accounts
        BY DEF Gathered
      <3>3. r.price \in Nat
        <4>1. RefPrices \subseteq Nat /\ Prices \subseteq Nat
          BY DEF BuildAssumption
        <4>2. r.price \in RefPrices \cup Prices
          BY <1>1 DEF Gathered
        <4> QED
          BY <4>1, <4>2
      <3>4. r.budget \in Nat
        BY <1>1 DEF Gathered, BudgetOf
      <3>5. payment \in Payments \cup CoinRef
        BY <1>1, <3>1 DEF Gathered
      <3> QED
        BY <3>1, <3>2, <3>3, <3>4, <3>5
    <2>3. payload \in Payload
      BY <1>1, <2>2 DEF Payload
    <2>4. Done(payload) \in BuildState /\ LocalsCurrent(Done(payload))
      BY <2>3 DEF Done, Idle, BuildState, LocalsCurrent, Waiting
    <2>5. BlockingIInv' /\ Results' = [Results EXCEPT ![b] = Outcome(Done(payload))]
      BY <2>1, <2>4, OneBuildSteps
    <2>6. Outcome(Done(payload)) = Atomic!Built(payload)
      BY DEF Outcome, Done, Idle, Atomic!Built
    <2>7. Results[b] = Atomic!Unfinished
      BY DEF Results, ResultOf, Atomic!Unfinished, BlockingIInv, LocalsCurrent
    <2>8. \A i \in DOMAIN block : block[i] = "sound"
      <3>1. \A i \in DOMAIN block : block[i] \in Calls
        BY <1>1
      <3> QED
        BY <1>3, <3>1 DEF Serializes, Calls
    <2>9. r.sender \in Atomic!SenderChoices
      BY <1>1, <2>2 DEF Gathered, Atomic!SenderChoices
    <2>10. r.price \in Atomic!PriceChoices
      BY <1>1, <2>2 DEF Gathered, Atomic!PriceChoices
    <2>11. r.budget \in Atomic!BudgetChoices
      BY <1>1, <2>2 DEF Gathered, Atomic!BudgetChoices, BudgetOf
    <2>12. payment \in Atomic!PaymentChoices
      BY <1>1, <1>3, <2>2 DEF Gathered, Atomic!PaymentChoices, CoinRef
    <2>13. Atomic!Succeed(b)
      <3>1. Results' = [Results EXCEPT ![b] = Atomic!Built(payload)]
        BY <2>5, <2>6
      <3>2. \E s \in Atomic!SenderChoices, p \in Atomic!PriceChoices,
               n \in Atomic!BudgetChoices, g \in Atomic!PaymentChoices :
              Results' = [Results EXCEPT ![b] =
                Atomic!Built([block |-> block, sender |-> s, price |-> p,
                              budget |-> n, payment |-> g])]
        BY <2>9, <2>10, <2>11, <2>12, <3>1
      <3> QED
        BY <2>7, <2>8, <3>2, Zenon DEF Atomic!Succeed, Results
    <2> QED
      BY <2>5, <2>13 DEF Atomic!Next
  <1> QED
    BY <1>2, <1>3

-----------------------------------------------------------------------------
(* The stretches and the steps.                                            *)

\* A question asked with the locals gathered so far.
LEMMA AwaitIsStutter ==
  ASSUME BlockingIInv, NEW b \in Builds, build[b].pc \notin {"done", "failed"},
         NEW r \in BuildState, NEW question \in Waiting,
         Await(b, r, question), UNCHANGED <<config, block, node>>,
         LocalsCurrent([r EXCEPT !.pc = question, !.reply = None])
  PROVE  BlockingIInv' /\ UNCHANGED <<config, block, Results>>
  <1> DEFINE n == [r EXCEPT !.pc = question, !.reply = None]
  <1>1. n \in BuildState
    BY DEF BuildState, Waiting
  <1>2. BlockingIInv' /\ Results' = [Results EXCEPT ![b] = Outcome(n)]
    BY <1>1, OneBuildSteps DEF Await
  <1>3. Outcome(n) = [status |-> "unfinished", payload |-> None]
    BY DEF Outcome, LocalsCurrent, BuildState, Waiting
  <1>4. Results[b] = [status |-> "unfinished", payload |-> None]
    BY DEF Results, ResultOf, BlockingIInv, LocalsCurrent
  <1>5. Results' = Results
    BY <1>2, <1>3, <1>4 DEF Results
  <1> QED
    BY <1>2, <1>5

\* From the price to the next question, or to the bytes.
LEMMA GotPriceIsAtomic ==
  ASSUME BlockingIInv, NEW b \in Builds, build[b].pc \notin {"done", "failed"},
         NEW r \in BuildState, NEW price \in Nat, GotPrice(b, r, price),
         UNCHANGED <<config, block, node>>,
         r.result = None, r.sender \in Accounts,
         config.sender # None => r.sender = config.sender,
         IF config.price = None THEN price \in RefPrices ELSE price = config.price
  PROVE  (Atomic!Next \/ UNCHANGED <<config, block, Results>>) /\ BlockingIInv'
  <1> DEFINE priced == [r EXCEPT !.price = price, !.budget = BudgetOf(config)]
  <1>1. BudgetOf(config) \in Nat
    <2>1. config.budget \in Budgets \cup {None} /\ Budgets \subseteq Nat /\ DefaultBudget \in Nat
      BY BuildAssumption DEF BlockingIInv, Config
    <2> QED
      BY <2>1 DEF BudgetOf
  <1>2. /\ priced \in BuildState
        /\ priced.sender = r.sender /\ priced.price = price
        /\ priced.budget = BudgetOf(config) /\ priced.result = None
    BY <1>1 DEF BuildState
  <1>3. CASE config.payment # None /\ Finish(b, priced, config.payment)
    <2>1. Gathered(priced, config.payment)
      BY <1>2, <1>3 DEF Gathered
    <2> HIDE DEF priced
    <2> QED
      BY <1>3, <2>1, FinishIsAtomic
  <1>4. CASE config.payment = None /\ Await(b, priced, "coins")
    <2> DEFINE n == [priced EXCEPT !.pc = "coins", !.reply = None]
    <2>1. /\ n.sender = r.sender /\ n.price = price /\ n.budget = BudgetOf(config)
          /\ n.result = None /\ n.pc = "coins" /\ n.reply = None
      BY <1>2 DEF BuildState
    <2>2. LocalsCurrent(n)
      BY <1>4, <2>1 DEF LocalsCurrent, Answers, Waiting
    <2> HIDE DEF priced
    <2> QED
      BY <1>2, <1>4, <2>2, AwaitIsStutter DEF Waiting
  <1> QED
    BY <1>3, <1>4 DEF GotPrice

LEMMA StartIsAtomic ==
  ASSUME BlockingIInv, NEW b \in Builds, NEW signer \in Accounts \cup {None}, Start(b, signer)
  PROVE  (Atomic!Next \/ UNCHANGED <<config, block, Results>>) /\ BlockingIInv'
  <1> USE BuildAssumption
  <1> DEFINE sender == SenderOf(config, signer)
             r      == [Idle EXCEPT !.sender = sender]
  <1>1. build[b].pc \notin {"done", "failed"} /\ UNCHANGED <<config, block, node>>
    BY DEF Start
  <1>2. CASE sender \notin Accounts /\ Fail(b)
    BY <1>1, <1>2, FailIsAtomic
  <1>3. ASSUME sender \in Accounts
        PROVE  /\ r \in BuildState /\ r.sender = sender /\ r.result = None
               /\ config.sender # None => r.sender = config.sender
    BY <1>3 DEF Idle, BuildState, SenderOf
  <1>4. CASE sender \in Accounts /\ config.price = None /\ Await(b, r, "price")
    <2> DEFINE n == [r EXCEPT !.pc = "price", !.reply = None]
    <2>1. /\ n.sender = sender /\ n.result = None /\ n.pc = "price" /\ n.reply = None
      BY DEF Idle
    <2>2. LocalsCurrent(n)
      BY <1>3, <1>4, <2>1 DEF LocalsCurrent, Answers, Waiting
    <2> HIDE DEF r
    <2> QED
      BY <1>1, <1>3, <1>4, <2>2, AwaitIsStutter DEF Waiting
  <1>5. CASE sender \in Accounts /\ config.price # None /\ GotPrice(b, r, config.price)
    <2>1. config.price \in Nat
      <3>1. config.price \in Prices /\ Prices \subseteq Nat
        BY <1>5 DEF BlockingIInv, Config
      <3> QED
        BY <3>1
    <2> HIDE DEF r
    <2> QED
      BY <1>1, <1>3, <1>5, <2>1, GotPriceIsAtomic
  <1> QED
    BY <1>2, <1>4, <1>5 DEF Start

LEMMA ResumePriceIsAtomic ==
  ASSUME BlockingIInv, NEW b \in Builds, ResumePrice(b)
  PROVE  (Atomic!Next \/ UNCHANGED <<config, block, Results>>) /\ BlockingIInv'
  <1> DEFINE r == build[b]
  <1>1. r.pc = "price" /\ r.reply # None /\ UNCHANGED <<config, block, node>>
    BY DEF ResumePrice
  <1>2. r \in BuildState /\ LocalsCurrent(r)
    BY DEF BlockingIInv
  <1>3. CASE r.reply = Error /\ Fail(b)
    BY <1>1, <1>3, FailIsAtomic
  <1>4. CASE r.reply # Error /\ GotPrice(b, r, r.reply)
    <2>1. r.reply \in RefPrices /\ config.price = None
      BY <1>1, <1>2, <1>4 DEF LocalsCurrent, Answers, Waiting
    <2>2. r.reply \in Nat
      <3>1. RefPrices \subseteq Nat
        BY BuildAssumption
      <3> QED
        BY <2>1, <3>1
    <2>3. /\ r.result = None /\ r.sender \in Accounts
          /\ config.sender # None => r.sender = config.sender
      BY <1>1, <1>2 DEF LocalsCurrent, Waiting
    <2> QED
      BY <1>1, <1>2, <1>4, <2>1, <2>2, <2>3, GotPriceIsAtomic
  <1> QED
    BY <1>3, <1>4 DEF ResumePrice

LEMMA ResumeCoinsIsAtomic ==
  ASSUME BlockingIInv, NEW b \in Builds, ResumeCoins(b)
  PROVE  (Atomic!Next \/ UNCHANGED <<config, block, Results>>) /\ BlockingIInv'
  <1> DEFINE r == build[b]
  <1>1. r.pc = "coins" /\ UNCHANGED <<config, block, node>>
    BY DEF ResumeCoins
  <1>2. r \in BuildState /\ LocalsCurrent(r)
    BY DEF BlockingIInv
  <1>3. CASE r.reply \in {Error, EmptyPage} /\ Fail(b)
    BY <1>1, <1>3, FailIsAtomic
  <1>4. CASE r.reply \in Coins /\ Await(b, [r EXCEPT !.coin = r.reply], "object")
    <2> DEFINE m == [r EXCEPT !.coin = r.reply]
               n == [m EXCEPT !.pc = "object", !.reply = None]
    <2>1. m \in BuildState
      BY <1>2, <1>4 DEF BuildState
    <2>2. /\ n.sender = r.sender /\ n.result = r.result /\ n.pc = "object" /\ n.reply = None
          /\ n.price = r.price /\ n.budget = r.budget /\ n.coin = r.reply
      BY <1>2 DEF BuildState
    <2>3. LocalsCurrent(n)
      BY <1>1, <1>2, <1>4, <2>2 DEF LocalsCurrent, Answers, Waiting
    <2> HIDE DEF m
    <2> QED
      BY <1>1, <1>4, <2>1, <2>3, AwaitIsStutter DEF Waiting, m
  <1> QED
    BY <1>3, <1>4 DEF ResumeCoins

LEMMA ResumeObjectIsAtomic ==
  ASSUME BlockingIInv, NEW b \in Builds, ResumeObject(b)
  PROVE  (Atomic!Next \/ UNCHANGED <<config, block, Results>>) /\ BlockingIInv'
  <1> DEFINE r   == build[b]
             ref == [coin |-> r.coin, version |-> r.reply]
  <1>1. r.pc = "object" /\ r.reply # None /\ UNCHANGED <<config, block, node>>
    BY DEF ResumeObject
  <1>2. r \in BuildState /\ LocalsCurrent(r)
    BY DEF BlockingIInv
  <1>3. CASE r.reply = Error /\ Fail(b)
    BY <1>1, <1>3, FailIsAtomic
  <1>4. CASE r.reply # Error /\ Finish(b, r, ref)
    <2>1. r.reply \in 1..MaxVersion /\ r.coin \in Coins
      BY <1>1, <1>2, <1>4 DEF LocalsCurrent, Answers, Waiting
    <2>2. ref \in CoinRef
      BY <2>1 DEF CoinRef
    <2>3. Gathered(r, ref)
      BY <1>1, <1>2, <2>2 DEF LocalsCurrent, Gathered, Waiting
    <2> HIDE DEF r, ref
    <2> QED
      BY <1>1, <1>4, <2>3, FinishIsAtomic DEF r
  <1> QED
    BY <1>3, <1>4 DEF ResumeObject

\* An answer is one of those the question can have, and changes no outcome.
LEMMA AnswerIsStutter ==
  ASSUME BlockingIInv, NEW b \in Builds, Answer(b)
  PROVE  UNCHANGED <<config, block, Results>> /\ BlockingIInv'
  <1> DEFINE r == build[b]
  <1>1. PICK reply \in Replies(r) : build' = [build EXCEPT ![b].reply = reply]
    BY DEF Answer
  <1>2. r \in BuildState /\ LocalsCurrent(r) /\ r.pc \in Waiting
    BY DEF BlockingIInv, Answer, Running
  <1>3. reply \in Answers(r.pc)
    <2>1. CASE r.pc = "price"
      BY <1>1, <2>1 DEF Replies, PriceReplies, Answers, BlockingIInv, NodeTyped
    <2>2. CASE r.pc = "coins"
      BY <1>1, <2>2 DEF Replies, CoinsReplies, Answers, Owned
    <2>3. CASE r.pc = "object"
      <3>1. r.coin \in Coins
        BY <1>2, <2>3 DEF LocalsCurrent
      <3>2. chain[r.coin].version \in 1..MaxVersion
        BY <3>1 DEF BlockingIInv, NodeTyped
      <3> QED
        BY <1>1, <2>3, <3>2 DEF Replies, ObjectReplies, Answers
    <2> QED
      BY <1>2, <2>1, <2>2, <2>3 DEF Waiting
  <1> DEFINE n == [r EXCEPT !.reply = reply]
  <1>4. n \in BuildState
    <2>1. RefPrices \subseteq Nat /\ 1..MaxVersion \subseteq Nat
      BY BuildAssumption
    <2>2. reply \in Coins \cup Nat \cup {None, Error, EmptyPage}
      BY <1>2, <1>3, <2>1 DEF Answers, Waiting
    <2> QED
      BY <1>2, <2>2 DEF BuildState
  <1>5. /\ n.pc = r.pc /\ n.sender = r.sender /\ n.price = r.price /\ n.budget = r.budget
        /\ n.coin = r.coin /\ n.result = r.result /\ n.reply = reply
    BY <1>2 DEF BuildState
  <1>6. LocalsCurrent(n)
    BY <1>2, <1>3, <1>5 DEF LocalsCurrent
  <1>7. build' = [build EXCEPT ![b] = n]
    BY <1>1 DEF BlockingIInv
  <1>8. UNCHANGED <<config, block, node>>
    BY DEF Answer
  <1>9. Outcome(n) = Results[b]
    BY <1>5 DEF Outcome, Results, ResultOf
  <1>10. BlockingIInv' /\ Results' = [Results EXCEPT ![b] = Outcome(n)]
    <2> HIDE DEF n
    <2> QED
      BY <1>4, <1>6, <1>7, <1>8, OneBuildSteps
  <1>11. Results' = Results
    <2> HIDE DEF n
    <2> QED
      BY <1>9, <1>10 DEF Results
  <1> QED
    BY <1>8, <1>10, <1>11

(* The only place where blocking matters: a setter or a command method     *)
(* runs when no build does, so that there are no locals to go stale.       *)
LEMMA EditIsAtomic ==
  ASSUME BlockingIInv, Blocking, Setter \/ \E call \in Calls : Call(call)
  PROVE  Atomic!Next /\ BlockingIInv'
  <1>1. \A b \in Builds : build[b].pc \notin Waiting
    BY DEF Setter, SetSender, SetBudget, SetPrice, SetPayment, Configure, Call, Free, Running
  <1>2. UNCHANGED <<build, node>>
    BY DEF Setter, SetSender, SetBudget, SetPrice, SetPayment, Configure, Call
  <1>3. Results' = Results
    BY <1>2 DEF Results, ResultOf
  <1>4. (\A b \in Builds : LocalsCurrent(build[b]))' /\ NodeTyped' /\ build' \in [Builds -> BuildState]
    BY <1>1, <1>2 DEF LocalsCurrent, BlockingIInv, Waiting, NodeTyped, node
  <1>5. CASE Setter
    <2>1. config' \in Config /\ block' = block
      BY <1>5 DEF Setter, SetSender, SetBudget, SetPrice, SetPayment, Configure, BlockingIInv, Config
    <2>2. BlockingIInv'
      BY <1>4, <2>1 DEF BlockingIInv
    <2>3. Atomic!Configure
      BY <1>3, <1>5, <2>1
         DEF Setter, SetSender, SetBudget, SetPrice, SetPayment, Configure,
             Atomic!Configure, Results
    <2> QED
      BY <2>2, <2>3 DEF Atomic!Next
  <1>6. CASE \E call \in Calls : Call(call)
    <2>1. PICK call \in Calls : block' = Append(block, call) /\ config' = config
      BY <1>6 DEF Call
    <2>2. BlockingIInv'
      BY <1>4, <2>1 DEF BlockingIInv
    <2>3. Atomic!Call
      BY <1>3, <2>1 DEF Atomic!Call, Calls, Results
    <2> QED
      BY <2>2, <2>3 DEF Atomic!Next
  <1> QED
    BY <1>5, <1>6

LEMMA NodeIsStutter ==
  ASSUME BlockingIInv, Node
  PROVE  UNCHANGED <<config, block, Results>> /\ BlockingIInv'
  <1>1. UNCHANGED <<config, block, build>>
    BY DEF Node, MoveCoin, MovePrice
  <1>2. NodeTyped'
    <2>1. ASSUME NEW c \in Coins, NEW owner \in Accounts \cup {Nobody}, MoveCoin(c, owner)
          PROVE NodeTyped'
      <3>1. chain[c].version \in 1..MaxVersion /\ chain[c].version < MaxVersion /\ MaxVersion \in Nat
        BY <2>1, BuildAssumption DEF MoveCoin, BlockingIInv, NodeTyped
      <3>2. chain[c].version + 1 \in 1..MaxVersion
        BY <3>1
      <3> QED
        BY <2>1, <3>2 DEF MoveCoin, BlockingIInv, NodeTyped
    <2>2. ASSUME NEW price \in RefPrices, MovePrice(price) PROVE NodeTyped'
      BY <2>2 DEF MovePrice, BlockingIInv, NodeTyped
    <2> QED
      BY <2>1, <2>2 DEF Node
  <1>3. (\A b \in Builds : LocalsCurrent(build[b]))'
    BY <1>1 DEF BlockingIInv, LocalsCurrent, BudgetOf
  <1> QED
    BY <1>1, <1>2, <1>3 DEF BlockingIInv, Results, ResultOf

-----------------------------------------------------------------------------
(* The theorem.                                                            *)

LEMMA InitIsAtomic == Init => Atomic!Init /\ BlockingIInv
  <1> SUFFICES ASSUME Init PROVE Atomic!Init /\ BlockingIInv
    OBVIOUS
  <1>1. Idle \in BuildState /\ LocalsCurrent(Idle)
    BY DEF Idle, BuildState, LocalsCurrent, Waiting
  <1>2. BlockingIInv
    <2>1. \A b \in Builds : LocalsCurrent(build[b])
      BY <1>1 DEF Init
    <2>2. NodeTyped
      BY BuildAssumption DEF Init, NodeTyped
    <2> QED
      BY <1>1, <2>1, <2>2 DEF Init, BlockingIInv, Config
  <1>3. \A b \in Builds : ResultOf(b) = Atomic!Unfinished
    BY DEF Init, ResultOf, Idle, Atomic!Unfinished
  <1>4. Atomic!Init
    BY <1>3 DEF Init, Atomic!Init
  <1> QED
    BY <1>2, <1>4

LEMMA NextIsAtomic ==
  ASSUME Blocking
  PROVE  BlockingIInv /\ [Next]_vars => (Atomic!Next \/ UNCHANGED <<config, block, Results>>) /\ BlockingIInv'
  <1> SUFFICES ASSUME BlockingIInv, [Next]_vars
               PROVE  (Atomic!Next \/ UNCHANGED <<config, block, Results>>) /\ BlockingIInv'
    OBVIOUS
  <1>1. CASE \E b \in Builds, signer \in Accounts \cup {None} : Start(b, signer)
    BY <1>1, StartIsAtomic
  <1>2. CASE \E b \in Builds : Answer(b) \/ Resume(b)
    BY <1>2, AnswerIsStutter, ResumePriceIsAtomic, ResumeCoinsIsAtomic, ResumeObjectIsAtomic
       DEF Resume
  <1>3. CASE Setter \/ \E call \in Calls : Call(call)
    BY <1>3, EditIsAtomic
  <1>4. CASE Node
    BY <1>4, NodeIsStutter
  <1>5. CASE UNCHANGED vars
    <2>1. UNCHANGED <<config, block, build, chain, refPrice>>
      BY <1>5 DEF vars
    <2> QED
      BY <2>1 DEF BlockingIInv, LocalsCurrent, NodeTyped, BudgetOf, Results, ResultOf
  <1> QED
    BY <1>1, <1>2, <1>3, <1>4, <1>5 DEF Next

(* build_sync makes its bytes in one instant: it implements AtomicBuild,   *)
(* for any number of builds, setters and calls in between                  *)
(* (transaction.py:424-467).                                               *)
THEOREM BlockingBuildIsAtomic ==
  ASSUME Blocking
  PROVE  Spec => BuildIsAtomic
  <1>1. BlockingIInv /\ [Next]_vars => [Atomic!Next]_(Atomic!vars) /\ BlockingIInv'
    BY NextIsAtomic DEF Atomic!vars, Results
  <1> QED
    BY <1>1, InitIsAtomic, PTL DEF Spec, BuildIsAtomic, Atomic!Spec
=============================================================================
