---------------------- MODULE TransactionBuilderProofs ----------------------
(***************************************************************************)
(* Theorems of TransactionBuilder, for every set of values and every       *)
(* bound.  HandlesDenote and ReferencesResolve are not inductive apart: a  *)
(* new command resolves because the handles it is given denote, and the    *)
(* handles denote because what they name never moves.                      *)
(***************************************************************************)
EXTENDS TransactionBuilder, NaturalFacts, FiniteSetTheorems, SequenceTheorems

IInv == TypeOK /\ HandlesDenote /\ ReferencesResolve

-----------------------------------------------------------------------------
(* What a caller can pass.                                                 *)

\* A list drawn from S is a sequence of members of S.
LEMMA ListsAreSeqs ==
  ASSUME NEW S, NEW max \in Nat, NEW l \in Lists(S, max)
  PROVE  /\ l \in Seq(S)
         /\ Len(l) \in Nat
         /\ DOMAIN l = 1..Len(l)
         /\ \A k \in 1..Len(l) : l[k] \in S
  BY DEF Lists

\* A usable argument resolves in a command appended to the block as it is,
\* and in the block with any inputs appended.
LEMMA UsableResolves ==
  ASSUME IInv, NEW a \in Usable
  PROVE  /\ a \in Argument
         /\ a.kind = "INPUT" => a.index < Len(inputs)
         /\ a.kind \in {"RESULT", "NESTED_RESULT"} => a.index < Len(commands)
  <1> USE BuilderAssumption
  <1>1. DOMAIN handles \subseteq Argument
    BY DEF IInv, TypeOK
  <1>2. CASE a \in DOMAIN handles
    <2>1. a.kind # "NESTED_RESULT"
      BY <1>2 DEF IInv, TypeOK
    <2> QED
      BY <1>1, <1>2, <2>1 DEF IInv, HandlesDenote
  <1>3. CASE a \notin DOMAIN handles
    <2>1. PICK h \in HeldResults, k \in 0..MaxNested : a = NestedResultArg(h.index, k)
      BY <1>3 DEF Usable
    <2>2. h \in Argument /\ h.index < Len(commands)
      BY <1>1 DEF HeldResults, IInv, HandlesDenote
    <2> QED
      BY <2>1, <2>2 DEF NestedResultArg, Argument, ArgumentKind
  <1> QED
    BY <1>2, <1>3

-----------------------------------------------------------------------------
(* The inputs split_coins registers.                                       *)

\* The integer amounts of a list are counted by a natural number.
LEMMA RankType ==
  ASSUME NEW amounts, NEW n \in Nat
  PROVE  IsFiniteSet(IntAmounts(amounts, n)) /\ AmountRank(amounts, n) \in Nat
  <1>1. IsFiniteSet(1..n)
    BY FS_Interval
  <1>2. IntAmounts(amounts, n) \subseteq 1..n
    BY DEF IntAmounts
  <1>3. IsFiniteSet(IntAmounts(amounts, n))
    BY <1>1, <1>2, FS_Subset
  <1> QED
    BY <1>3, FS_CardinalityType DEF AmountRank

\* The k-th amount's rank is a position among the inputs the call registers.
LEMMA RankBounds ==
  ASSUME NEW amounts, NEW n \in Nat, NEW k \in IntAmounts(amounts, n)
  PROVE  AmountRank(amounts, k) \in 1..AmountRank(amounts, n)
  <1>1. k \in 1..n /\ k \in IntAmounts(amounts, k)
    BY DEF IntAmounts
  <1>2. IntAmounts(amounts, k) \subseteq IntAmounts(amounts, n)
    BY <1>1 DEF IntAmounts
  <1>3. /\ IsFiniteSet(IntAmounts(amounts, n)) /\ AmountRank(amounts, n) \in Nat
        /\ IsFiniteSet(IntAmounts(amounts, k)) /\ AmountRank(amounts, k) \in Nat
    BY <1>1, RankType
  <1>4. AmountRank(amounts, k) <= AmountRank(amounts, n)
    BY <1>2, <1>3, FS_Subset DEF AmountRank
  <1>5. AmountRank(amounts, k) # 0
    BY <1>1, <1>3, FS_EmptySet DEF AmountRank
  <1> QED
    BY <1>3, <1>4, <1>5

\* Two integer amounts of one list have different ranks.
LEMMA RankInjective ==
  ASSUME NEW amounts, NEW j \in Nat, NEW k \in Nat, j < k,
         k \in IntAmounts(amounts, k)
  PROVE  AmountRank(amounts, j) # AmountRank(amounts, k)
  <1>1. IntAmounts(amounts, j) \subseteq IntAmounts(amounts, k)
    BY DEF IntAmounts
  <1>2. IntAmounts(amounts, j) # IntAmounts(amounts, k)
    BY DEF IntAmounts
  <1> QED
    BY <1>1, <1>2, RankType, FS_Subset DEF AmountRank

-----------------------------------------------------------------------------
(* What a call does to the block.                                          *)

\* Appending inputs leaves the invariant true, if the new inputs are well typed.
LEMMA AppendedInputs ==
  ASSUME TypeOK, NEW added \in Seq(CallArg), inputs' = inputs \o added
  PROVE  /\ inputs' \in Seq(CallArg)
         /\ Len(inputs') = Len(inputs) + Len(added)
         /\ Len(inputs) \in Nat /\ Len(added) \in Nat
         /\ \A i \in 1..Len(inputs) : inputs'[i] = inputs[i]
         /\ \A i \in 1..Len(added) : inputs'[Len(inputs) + i] = added[i]
  <1>1. inputs \in Seq(CallArg)
    BY DEF TypeOK
  <1> QED
    BY <1>1, ConcatProperties, LenProperties

(* A command whose arguments resolve in the block as it will be, appended  *)
(* together with any inputs, keeps the invariant.                          *)
LEMMA IssueKeepsInvariant ==
  ASSUME IInv,
         NEW kind \in CommandKind, NEW args \in Seq(Argument),
         NEW added \in Seq(CallArg), inputs' = inputs \o added,
         \A k \in DOMAIN args :
           /\ args[k].kind = "INPUT" => args[k].index < Len(inputs')
           /\ args[k].kind \in {"RESULT", "NESTED_RESULT"} =>
                args[k].index < Len(commands),
         IssueCommand(kind, args),
         orphans' = orphans, last' \in Outcomes
  PROVE  IInv'
  <1> DEFINE cmd == [kind |-> kind, args |-> args]
             h   == ResultArg(Len(commands))
  <1>1. TypeOK /\ cmd \in Command /\ h \in Argument /\ h.kind = "RESULT"
    BY DEF IInv, Command, ResultArg, Argument, ArgumentKind, TypeOK
  <1>2. /\ inputs' \in Seq(CallArg)
        /\ Len(inputs) \in Nat /\ Len(inputs') \in Nat /\ Len(inputs) <= Len(inputs')
        /\ \A i \in 1..Len(inputs) : inputs'[i] = inputs[i]
    BY <1>1, AppendedInputs
  <1>3. /\ commands' = Append(commands, cmd)
        /\ commands \in Seq(Command) /\ commands' \in Seq(Command)
        /\ Len(commands) \in Nat /\ Len(commands') = Len(commands) + 1
        /\ \A c \in 1..Len(commands) : commands'[c] = commands[c]
        /\ commands'[Len(commands) + 1] = cmd
    BY <1>1 DEF IssueCommand, TypeOK
  <1>4. handles' = [g \in DOMAIN handles \cup {h} |-> IF g = h THEN cmd ELSE handles[g]]
    BY DEF IssueCommand, Grant
  <1>5. TypeOK'
    <2>1. DOMAIN handles' = DOMAIN handles \cup {h}
      BY <1>4
    <2>2. orphans' \subseteq 1..Len(inputs')
      BY <1>1, <1>2 DEF TypeOK
    <2> QED
      BY <1>1, <1>2, <1>3, <1>4, <2>1, <2>2 DEF TypeOK
  <1>6. HandlesDenote'
    <2> SUFFICES ASSUME NEW g \in DOMAIN handles'
                 PROVE  /\ g.kind = "INPUT" =>
                             /\ g.index < Len(inputs')
                             /\ inputs'[g.index + 1] = handles'[g]
                        /\ g.kind = "RESULT" =>
                             /\ g.index < Len(commands')
                             /\ commands'[g.index + 1] = handles'[g]
      BY DEF HandlesDenote
    <2>1. CASE g = h
      BY <1>3, <1>4, <2>1 DEF ResultArg
    <2>2. CASE g # h
      <3>1. g \in DOMAIN handles /\ handles'[g] = handles[g] /\ g \in Argument
        BY <1>1, <1>4, <2>2 DEF TypeOK
      <3>2. g.index \in Nat
        BY <3>1 DEF Argument
      <3> QED
        BY <1>2, <1>3, <3>1, <3>2 DEF IInv, HandlesDenote
    <2> QED
      BY <2>1, <2>2
  <1>7. ReferencesResolve'
    <2> SUFFICES ASSUME NEW c \in DOMAIN commands', NEW k \in DOMAIN commands'[c].args
                 PROVE  Resolves(commands[c].args[k], c)'
      BY DEF ReferencesResolve
    <2>1. c \in 1..(Len(commands) + 1)
      BY <1>3
    <2>2. CASE c = Len(commands) + 1
      <3>1. commands'[c].args = args
        BY <1>3, <2>2
      <3>2. k \in DOMAIN args /\ args[k] \in Argument
        BY <3>1, ElementOfSeq, LenProperties
      <3>3. args[k].index \in Nat
        BY <3>2 DEF Argument
      <3> QED
        BY <1>3, <2>2, <3>1, <3>2, <3>3 DEF Resolves
    <2>3. CASE c \in 1..Len(commands)
      <3>1. commands'[c] = commands[c]
        BY <1>3, <2>3
      <3>2. Resolves(commands[c].args[k], c)
        BY <1>3, <2>3, <3>1 DEF IInv, ReferencesResolve
      <3>3. commands[c].args[k].index \in Nat
        <4>1. commands[c] \in Command
          BY <1>3, <2>3
        <4>2. commands[c].args \in Seq(Argument)
          BY <4>1 DEF Command
        <4>3. commands[c].args[k] \in Argument
          BY <4>2, <3>1, ElementOfSeq, LenProperties
        <4> QED
          BY <4>3 DEF Argument
      <3> QED
        BY <1>2, <3>1, <3>2, <3>3 DEF Resolves
    <2> QED
      BY <2>1, <2>2, <2>3, <1>3
  <1> QED
    BY <1>5, <1>6, <1>7 DEF IInv

\* The references of a block resolve in the block with more inputs.
LEMMA ReferencesStillResolve ==
  ASSUME TypeOK, ReferencesResolve, commands' = commands,
         Len(inputs) \in Nat, Len(inputs') \in Nat, Len(inputs) <= Len(inputs')
  PROVE  ReferencesResolve'
  <1> SUFFICES ASSUME NEW c \in DOMAIN commands, NEW k \in DOMAIN commands[c].args
               PROVE  Resolves(commands[c].args[k], c)'
    BY DEF ReferencesResolve
  <1>1. commands[c] \in Command
    BY ElementOfSeq, LenProperties DEF TypeOK
  <1>2. commands[c].args \in Seq(Argument)
    BY <1>1 DEF Command
  <1>3. commands[c].args[k] \in Argument
    BY <1>2, ElementOfSeq, LenProperties
  <1>4. commands[c].args[k].index \in Nat
    BY <1>3 DEF Argument
  <1>5. Resolves(commands[c].args[k], c)
    BY DEF ReferencesResolve
  <1> QED
    BY <1>4, <1>5 DEF Resolves

\* A registered input whose handle is returned keeps the invariant.
LEMMA RegisterKeepsInvariant ==
  ASSUME IInv, NEW callArg \in CallArg, AddInput(callArg),
         Grant(InputArg(Len(inputs)), callArg),
         UNCHANGED <<commands, orphans>>, last' \in Outcomes
  PROVE  IInv'
  <1> DEFINE h == InputArg(Len(inputs))
  <1>1. /\ inputs' = Append(inputs, callArg)
        /\ inputs \in Seq(CallArg) /\ inputs' \in Seq(CallArg)
        /\ Len(inputs) \in Nat /\ Len(inputs') = Len(inputs) + 1
        /\ \A i \in 1..Len(inputs) : inputs'[i] = inputs[i]
        /\ inputs'[Len(inputs) + 1] = callArg
    BY DEF AddInput, IInv, TypeOK
  <1>2. h \in Argument /\ h.kind = "INPUT" /\ h.index = Len(inputs)
    BY <1>1 DEF InputArg, Argument, ArgumentKind
  <1>3. /\ handles' = [g \in DOMAIN handles \cup {h} |-> IF g = h THEN callArg ELSE handles[g]]
        /\ DOMAIN handles' = DOMAIN handles \cup {h}
        /\ DOMAIN handles \subseteq Argument
    BY DEF Grant, IInv, TypeOK
  <1>4. TypeOK'
    <2>1. orphans' \subseteq 1..Len(inputs')
      BY <1>1 DEF IInv, TypeOK
    <2> QED
      BY <1>1, <1>2, <1>3, <2>1 DEF IInv, TypeOK
  <1>5. HandlesDenote'
    <2> SUFFICES ASSUME NEW g \in DOMAIN handles'
                 PROVE  /\ g.kind = "INPUT" =>
                             /\ g.index < Len(inputs')
                             /\ inputs'[g.index + 1] = handles'[g]
                        /\ g.kind = "RESULT" =>
                             /\ g.index < Len(commands')
                             /\ commands'[g.index + 1] = handles'[g]
      BY DEF HandlesDenote
    <2>1. CASE g = h
      BY <1>1, <1>2, <1>3, <2>1
    <2>2. CASE g # h
      <3>1. g \in DOMAIN handles /\ handles'[g] = handles[g] /\ g \in Argument
        BY <1>3, <2>2
      <3>2. g.index \in Nat
        BY <3>1 DEF Argument
      <3> QED
        BY <1>1, <3>1, <3>2 DEF IInv, HandlesDenote
    <2> QED
      BY <2>1, <2>2
  <1>6. ReferencesResolve'
    BY <1>1, ReferencesStillResolve DEF IInv
  <1> QED
    BY <1>4, <1>5, <1>6 DEF IInv

\* Inputs nobody holds a handle of keep the invariant: what split_coins
\* leaves behind when it raises.
LEMMA AbandonKeepsInvariant ==
  ASSUME IInv, NEW added \in Seq(CallArg), inputs' = inputs \o added,
         orphans' = orphans \cup (Len(inputs) + 1 .. Len(inputs) + Len(added)),
         UNCHANGED <<commands, handles>>, last' \in Outcomes
  PROVE  IInv'
  <1>1. /\ inputs' \in Seq(CallArg)
        /\ Len(inputs) \in Nat /\ Len(added) \in Nat
        /\ Len(inputs') = Len(inputs) + Len(added)
        /\ \A i \in 1..Len(inputs) : inputs'[i] = inputs[i]
    BY AppendedInputs DEF IInv
  <1>2. TypeOK'
    <2>1. orphans' \subseteq 1..Len(inputs')
      BY <1>1 DEF IInv, TypeOK
    <2> QED
      BY <1>1, <2>1 DEF IInv, TypeOK
  <1>3. HandlesDenote'
    <2> SUFFICES ASSUME NEW g \in DOMAIN handles
                 PROVE  /\ g.kind = "INPUT" =>
                             /\ g.index < Len(inputs')
                             /\ inputs'[g.index + 1] = handles[g]
                        /\ g.kind = "RESULT" =>
                             /\ g.index < Len(commands)
                             /\ commands[g.index + 1] = handles[g]
      BY DEF HandlesDenote
    <2>1. g \in Argument
      BY DEF IInv, TypeOK
    <2>2. g.index \in Nat
      BY <2>1 DEF Argument
    <2> QED
      BY <1>1, <2>2 DEF IInv, HandlesDenote
  <1>4. ReferencesResolve'
    BY <1>1, ReferencesStillResolve DEF IInv
  <1> QED
    BY <1>2, <1>3, <1>4 DEF IInv

-----------------------------------------------------------------------------
(* One lemma per command method.                                           *)

\* The arguments split_coins builds resolve: its integer amounts name the
\* inputs the call registers, the others are handles of the caller.
LEMMA SplitKeepsInvariant ==
  ASSUME IInv, NEW coin \in Usable,
         NEW amounts \in Lists(Amounts \cup Usable, MaxAmounts),
         SplitCoins(coin, amounts)
  PROVE  IInv'
  <1> USE BuilderAssumption
  <1>1. PICK added \in Lists({PureInput(v) : v \in Encodable}, MaxAmounts) :
          /\ Registers(amounts, Len(amounts), added)
          /\ inputs' = inputs \o added
    BY DEF SplitCoins
  <1>2. added \in Seq(CallArg)
    <2>1. \A v \in Encodable : PureInput(v) \in CallArg
      BY DEF PureInput, CallArg
    <2>2. added \in Seq({PureInput(v) : v \in Encodable})
      BY ListsAreSeqs
    <2> QED
      BY <2>1, <2>2
  <1>3. Len(inputs) \in Nat /\ Len(added) \in Nat /\ Len(inputs') = Len(inputs) + Len(added)
    BY <1>1, <1>2, AppendedInputs DEF IInv
  <1>4. /\ Len(amounts) \in Nat /\ DOMAIN amounts = 1..Len(amounts)
        /\ \A k \in 1..Len(amounts) : amounts[k] \in Amounts \cup Usable
    BY ListsAreSeqs
  <1>5. \A k \in 1..Len(amounts) :
          LET a == SplitArgs(amounts)[k] IN
          /\ a \in Argument
          /\ a.kind = "INPUT" => a.index < Len(inputs')
          /\ a.kind \in {"RESULT", "NESTED_RESULT"} => a.index < Len(commands)
    <2> SUFFICES ASSUME NEW k \in 1..Len(amounts)
                 PROVE  LET a == SplitArgs(amounts)[k] IN
                        /\ a \in Argument
                        /\ a.kind = "INPUT" => a.index < Len(inputs')
                        /\ a.kind \in {"RESULT", "NESTED_RESULT"} => a.index < Len(commands)
      OBVIOUS
    <2>1. CASE amounts[k] \in Amounts
      <3>1. SplitArgs(amounts)[k] = InputArg(Len(inputs) + AmountRank(amounts, k) - 1)
        BY <1>4, <2>1 DEF SplitArgs
      <3>2. k \in IntAmounts(amounts, Len(amounts))
        BY <2>1 DEF IntAmounts
      <3>3. AmountRank(amounts, k) \in 1..AmountRank(amounts, Len(amounts))
        BY <1>4, <3>2, RankBounds
      <3>4. AmountRank(amounts, Len(amounts)) = Len(added)
        BY <1>1 DEF Registers
      <3> QED
        BY <1>3, <3>1, <3>3, <3>4 DEF InputArg, Argument, ArgumentKind
    <2>2. CASE amounts[k] \notin Amounts
      <3>1. SplitArgs(amounts)[k] = amounts[k] /\ amounts[k] \in Usable
        BY <1>4, <2>2 DEF SplitArgs
      <3>2. /\ amounts[k] \in Argument
            /\ amounts[k].kind = "INPUT" => amounts[k].index < Len(inputs)
            /\ amounts[k].kind \in {"RESULT", "NESTED_RESULT"} =>
                 amounts[k].index < Len(commands)
        BY <3>1, UsableResolves
      <3>3. amounts[k].index \in Nat
        BY <3>2 DEF Argument
      <3> QED
        BY <1>3, <3>1, <3>2, <3>3
    <2> QED
      BY <2>1, <2>2
  <1> DEFINE args == <<coin>> \o SplitArgs(amounts)
  <1>6. /\ SplitArgs(amounts) \in Seq(Argument)
        /\ Len(SplitArgs(amounts)) = Len(amounts)
    <2>1. SplitArgs(amounts) \in [1..Len(amounts) -> Argument]
      BY <1>4, <1>5 DEF SplitArgs
    <2> QED
      BY <1>4, <2>1
  <1>7. /\ coin \in Argument
        /\ coin.kind = "INPUT" => coin.index < Len(inputs')
        /\ coin.kind \in {"RESULT", "NESTED_RESULT"} => coin.index < Len(commands)
    <2>1. coin \in Argument
      BY UsableResolves
    <2>2. coin.index \in Nat
      BY <2>1 DEF Argument
    <2> QED
      BY <1>3, <2>1, <2>2, UsableResolves
  <1>8. /\ args \in Seq(Argument)
        /\ DOMAIN args = 1..(Len(amounts) + 1)
        /\ args[1] = coin
        /\ \A k \in 1..Len(amounts) : args[k + 1] = SplitArgs(amounts)[k]
    BY <1>4, <1>6, <1>7
  <1>9. \A k \in DOMAIN args :
          /\ args[k].kind = "INPUT" => args[k].index < Len(inputs')
          /\ args[k].kind \in {"RESULT", "NESTED_RESULT"} => args[k].index < Len(commands)
    <2> SUFFICES ASSUME NEW k \in DOMAIN args
                 PROVE  /\ args[k].kind = "INPUT" => args[k].index < Len(inputs')
                        /\ args[k].kind \in {"RESULT", "NESTED_RESULT"} =>
                             args[k].index < Len(commands)
      OBVIOUS
    <2> HIDE DEF args
    <2>1. CASE k = 1
      BY <1>7, <1>8, <2>1
    <2>2. CASE k # 1
      <3>1. k - 1 \in 1..Len(amounts) /\ args[k] = SplitArgs(amounts)[k - 1]
        BY <1>4, <1>8, <2>2
      <3> QED
        BY <1>5, <3>1
    <2> QED
      BY <2>1, <2>2
  <1>10. /\ IssueCommand("SPLIT_COINS", args)
         /\ orphans' = orphans /\ last' \in Outcomes
         /\ "SPLIT_COINS" \in CommandKind
    BY DEF SplitCoins, Returned, Outcomes, CommandKind
  <1> QED
    BY <1>1, <1>2, <1>8, <1>9, <1>10, IssueKeepsInvariant

\* A list of usable arguments is a sequence of arguments that resolve.
LEMMA UsableListResolves ==
  ASSUME IInv, NEW l \in Lists(Usable, MaxArgs)
  PROVE  /\ l \in Seq(Argument) /\ Len(l) \in Nat /\ DOMAIN l = 1..Len(l)
         /\ \A k \in 1..Len(l) :
              /\ l[k] \in Usable
              /\ l[k].kind = "INPUT" => l[k].index < Len(inputs)
              /\ l[k].kind \in {"RESULT", "NESTED_RESULT"} => l[k].index < Len(commands)
  <1> USE BuilderAssumption
  <1>1. /\ Len(l) \in Nat /\ DOMAIN l = 1..Len(l)
        /\ \A k \in 1..Len(l) : l[k] \in Usable
        /\ l \in Seq(Usable)
    BY ListsAreSeqs
  <1>2. \A a \in Usable : a \in Argument
    BY UsableResolves
  <1>3. l \in Seq(Argument)
    BY <1>1, <1>2
  <1> QED
    BY <1>1, <1>3, UsableResolves

\* A command issued on handles only, no input added, keeps the invariant.
LEMMA IssueOnHandles ==
  ASSUME IInv, NEW kind \in CommandKind, NEW args \in Seq(Argument),
         \A k \in DOMAIN args :
           /\ args[k].kind = "INPUT" => args[k].index < Len(inputs)
           /\ args[k].kind \in {"RESULT", "NESTED_RESULT"} => args[k].index < Len(commands),
         IssueCommand(kind, args), UNCHANGED <<inputs, orphans>>, last' \in Outcomes
  PROVE  IInv'
  <1>1. <<>> \in Seq(CallArg) /\ inputs' = inputs \o <<>>
    BY DEF IInv, TypeOK
  <1> QED
    BY <1>1, IssueKeepsInvariant

\* An argument in front of, or behind, arguments that resolve.
LEMMA ArgsWithOneMore ==
  ASSUME IInv, NEW l \in Lists(Usable, MaxArgs), NEW n \in Nat, Len(inputs) <= n,
         Len(inputs) \in Nat, NEW a \in Argument,
         a.kind = "INPUT" => a.index < n,
         a.kind \in {"RESULT", "NESTED_RESULT"} => a.index < Len(commands),
         NEW args, args \in {<<a>> \o l, Append(l, a)}
  PROVE  /\ args \in Seq(Argument)
         /\ \A k \in DOMAIN args :
              /\ args[k].kind = "INPUT" => args[k].index < n
              /\ args[k].kind \in {"RESULT", "NESTED_RESULT"} => args[k].index < Len(commands)
  <1>1. /\ l \in Seq(Argument) /\ Len(l) \in Nat /\ DOMAIN l = 1..Len(l)
        /\ \A k \in 1..Len(l) :
             /\ l[k].kind = "INPUT" => l[k].index < Len(inputs)
             /\ l[k].kind \in {"RESULT", "NESTED_RESULT"} => l[k].index < Len(commands)
    BY UsableListResolves
  <1>2. \A k \in 1..Len(l) : l[k] \in Argument
    BY <1>1, ElementOfSeq
  <1>3. \A k \in 1..Len(l) : l[k].index \in Nat
    BY <1>2 DEF Argument
  <1>4. \A k \in 1..Len(l) : l[k].kind = "INPUT" => l[k].index < n
    BY <1>1, <1>3
  <1>5. CASE args = <<a>> \o l
    <2>1. /\ args \in Seq(Argument) /\ DOMAIN args = 1..(Len(l) + 1) /\ args[1] = a
          /\ \A k \in 2..(Len(l) + 1) : k - 1 \in 1..Len(l) /\ args[k] = l[k - 1]
      BY <1>1, <1>5
    <2> QED
      BY <1>1, <1>4, <2>1
  <1>6. CASE args = Append(l, a)
    <2>1. /\ args \in Seq(Argument) /\ DOMAIN args = 1..(Len(l) + 1)
          /\ args[Len(l) + 1] = a /\ \A k \in 1..Len(l) : args[k] = l[k]
      BY <1>1, <1>6
    <2> QED
      BY <1>1, <1>4, <2>1
  <1> QED
    BY <1>5, <1>6

\* transfer_objects: the recipient is a handle, or the input it registers.
LEMMA TransferKeepsInvariant ==
  ASSUME IInv, NEW objects \in Lists(Usable, MaxArgs),
         NEW recipient \in Recipients \cup Usable,
         TransferObjects(objects, recipient)
  PROVE  IInv'
  <1>1. Len(inputs) \in Nat
    BY DEF IInv, TypeOK
  <1>2. orphans' = orphans /\ last' \in Outcomes /\ "TRANSFER_OBJECTS" \in CommandKind
    BY DEF TransferObjects, Returned, Outcomes, CommandKind
  <1>3. CASE recipient \in Recipients
    <2> DEFINE a == InputArg(Len(inputs))
               args == Append(objects, a)
               added == <<PureInput(recipient)>>
    <2>1. /\ recipient \in Encodable
          /\ inputs' = Append(inputs, PureInput(recipient))
          /\ IssueCommand("TRANSFER_OBJECTS", args)
      BY <1>3 DEF TransferObjects, AddInput
    <2>2. PureInput(recipient) \in CallArg
      BY <2>1 DEF PureInput, CallArg
    <2>3. /\ added \in Seq(CallArg) /\ inputs' = inputs \o added
          /\ Len(inputs') = Len(inputs) + 1
      BY <2>1, <2>2 DEF IInv, TypeOK
    <2>4. a \in Argument /\ a.kind = "INPUT" /\ a.index = Len(inputs)
      BY <1>1 DEF InputArg, Argument, ArgumentKind
    <2>5. /\ args \in Seq(Argument)
          /\ \A k \in DOMAIN args :
               /\ args[k].kind = "INPUT" => args[k].index < Len(inputs) + 1
               /\ args[k].kind \in {"RESULT", "NESTED_RESULT"} => args[k].index < Len(commands)
      <3>1. Len(inputs) + 1 \in Nat /\ Len(inputs) <= Len(inputs) + 1
        BY <1>1
      <3>2. /\ a.kind = "INPUT" => a.index < Len(inputs) + 1
            /\ a.kind \in {"RESULT", "NESTED_RESULT"} => a.index < Len(commands)
        BY <1>1, <2>4
      <3>3. args \in {<<a>> \o objects, Append(objects, a)}
        OBVIOUS
      <3> HIDE DEF a, args
      <3> QED
        BY <1>1, <2>4, <3>1, <3>2, <3>3, ArgsWithOneMore
    <2> QED
      BY <1>2, <2>1, <2>3, <2>5, IssueKeepsInvariant
  <1>4. CASE recipient \notin Recipients
    <2> DEFINE args == Append(objects, recipient)
    <2>1. IssueCommand("TRANSFER_OBJECTS", args) /\ inputs' = inputs
      BY <1>4 DEF TransferObjects
    <2>2. /\ args \in Seq(Argument)
          /\ \A k \in DOMAIN args :
               /\ args[k].kind = "INPUT" => args[k].index < Len(inputs)
               /\ args[k].kind \in {"RESULT", "NESTED_RESULT"} => args[k].index < Len(commands)
      <3>1. Len(inputs) <= Len(inputs) /\ recipient \in Usable
        BY <1>1, <1>4
      <3>2. /\ recipient \in Argument
            /\ recipient.kind = "INPUT" => recipient.index < Len(inputs)
            /\ recipient.kind \in {"RESULT", "NESTED_RESULT"} =>
                 recipient.index < Len(commands)
        BY <3>1, UsableResolves
      <3>3. args \in {<<recipient>> \o objects, Append(objects, recipient)}
        OBVIOUS
      <3> HIDE DEF args
      <3> QED
        BY <1>1, <3>1, <3>2, <3>3, ArgsWithOneMore
    <2> QED
      BY <1>2, <2>1, <2>2, IssueOnHandles
  <1> QED
    BY <1>3, <1>4

\* split_coins that raises leaves well-typed inputs behind.
LEMMA SplitRaisesKeepsInvariant ==
  ASSUME IInv, NEW amounts \in Lists(Amounts \cup Usable, MaxAmounts),
         SplitCoinsRaises(amounts)
  PROVE  IInv'
  <1> USE BuilderAssumption
  <1>1. PICK added \in Lists({PureInput(v) : v \in Encodable}, MaxAmounts) :
          /\ inputs' = inputs \o added
          /\ orphans' = orphans \cup (Len(inputs) + 1 .. Len(inputs) + Len(added))
    BY DEF SplitCoinsRaises
  <1>2. \A v \in Encodable : PureInput(v) \in CallArg
    BY DEF PureInput, CallArg
  <1>3. added \in Seq({PureInput(v) : v \in Encodable})
    BY ListsAreSeqs
  <1>4. added \in Seq(CallArg)
    BY <1>2, <1>3
  <1>5. UNCHANGED <<commands, handles>> /\ last' \in Outcomes
    BY DEF SplitCoinsRaises, Raised, Outcomes
  <1> QED
    BY <1>1, <1>4, <1>5, AbandonKeepsInvariant

-----------------------------------------------------------------------------
(* The theorems.                                                           *)

LEMMA InitInvariant == Init => IInv
  <1> SUFFICES ASSUME Init PROVE IInv
    OBVIOUS
  <1>1. /\ inputs = <<>> /\ commands = <<>> /\ orphans = {} /\ last \in Outcomes
        /\ DOMAIN handles = {GasCoin} /\ handles = [h \in DOMAIN handles |-> handles[h]]
    BY DEF Init, Outcomes
  <1>2. GasCoin \in Argument /\ GasCoin.kind = "GAS_COIN"
    BY DEF GasCoin, Argument, ArgumentKind
  <1> QED
    BY <1>1, <1>2 DEF IInv, TypeOK, HandlesDenote, ReferencesResolve

\* A call that raises and registers nothing.
LEMMA NothingChanged ==
  ASSUME IInv, UNCHANGED <<inputs, commands, handles, orphans>>, last' \in Outcomes
  PROVE  IInv'
  BY DEF IInv, TypeOK, HandlesDenote, ReferencesResolve, Resolves

LEMMA NextInvariant == IInv /\ [Next]_vars => IInv'
  <1> USE BuilderAssumption
  <1> SUFFICES ASSUME IInv, [Next]_vars PROVE IInv'
    OBVIOUS
  <1>1. ASSUME NEW v \in PureValues, Pure(v) PROVE IInv'
    <2>1. PureInput(v) \in CallArg /\ last' \in Outcomes
      BY <1>1 DEF Pure, PureInput, CallArg, Returned, Outcomes
    <2> QED
      BY <1>1, <2>1, RegisterKeepsInvariant DEF Pure
  <1>2. ASSUME NEW o \in Objects, NEW given \in Keywords, Object(o, given) PROVE IInv'
    <2>1. ObjectInput(ObjectKind(given), o) \in CallArg /\ last' \in Outcomes
      BY <1>2 DEF Object, ObjectInput, ObjectKind, CallArg, Returned, Outcomes
    <2> QED
      BY <1>2, <2>1, RegisterKeepsInvariant DEF Object
  <1>3. ASSUME NEW objects \in Lists(Usable, MaxArgs),
               NEW recipient \in Recipients \cup Usable,
               TransferObjects(objects, recipient)
        PROVE IInv'
    BY <1>3, TransferKeepsInvariant
  <1>4. ASSUME NEW coin \in Usable,
               NEW amounts \in Lists(Amounts \cup Usable, MaxAmounts),
               SplitCoins(coin, amounts)
        PROVE IInv'
    BY <1>4, SplitKeepsInvariant
  <1>5. ASSUME NEW amounts \in Lists(Amounts \cup Usable, MaxAmounts),
               SplitCoinsRaises(amounts)
        PROVE IInv'
    BY <1>5, SplitRaisesKeepsInvariant
  <1>6. ASSUME NEW destination \in Usable, NEW sources \in Lists(Usable, MaxArgs),
               MergeCoins(destination, sources)
        PROVE IInv'
    <2> DEFINE args == <<destination>> \o sources
    <2>1. /\ IssueCommand("MERGE_COINS", args) /\ "MERGE_COINS" \in CommandKind
          /\ UNCHANGED <<inputs, orphans>> /\ last' \in Outcomes
      BY <1>6 DEF MergeCoins, Returned, Outcomes, CommandKind
    <2>2. Len(inputs) \in Nat /\ Len(inputs) <= Len(inputs)
      BY DEF IInv, TypeOK
    <2>3. args \in {<<destination>> \o sources, Append(sources, destination)}
      OBVIOUS
    <2> HIDE DEF args
    <2>4. /\ args \in Seq(Argument)
          /\ \A k \in DOMAIN args :
               /\ args[k].kind = "INPUT" => args[k].index < Len(inputs)
               /\ args[k].kind \in {"RESULT", "NESTED_RESULT"} => args[k].index < Len(commands)
      BY <2>2, <2>3, UsableResolves, ArgsWithOneMore
    <2> QED
      BY <2>1, <2>4, IssueOnHandles
  <1>7. ASSUME NEW arguments \in Lists(Usable, MaxArgs), MoveCall(arguments)
        PROVE IInv'
    <2>1. /\ IssueCommand("MOVE_CALL", arguments) /\ "MOVE_CALL" \in CommandKind
          /\ UNCHANGED <<inputs, orphans>> /\ last' \in Outcomes
      BY <1>7 DEF MoveCall, Returned, Outcomes, CommandKind
    <2> QED
      BY <2>1, UsableListResolves, IssueOnHandles
  <1>8. ASSUME \/ \E v \in PureValues : PureRaises(v)
               \/ \E o \in Objects, given \in Keywords : ObjectRaises(o, given)
               \/ \E recipient \in Recipients : TransferRaises(recipient)
               \/ MoveCallRaises
        PROVE IInv'
    <2>1. UNCHANGED <<inputs, commands, handles, orphans>> /\ last' \in Outcomes
      BY <1>8 DEF PureRaises, ObjectRaises, TransferRaises, MoveCallRaises, Raised, Outcomes
    <2> QED
      BY <2>1, NothingChanged
  <1>9. CASE UNCHANGED vars
    <2>1. UNCHANGED <<inputs, commands, handles, orphans>> /\ last' \in Outcomes
      BY <1>9 DEF vars, IInv, TypeOK
    <2> QED
      BY <2>1, NothingChanged
  <1>10. CASE Next
    BY <1>10, <1>1, <1>2, <1>3, <1>4, <1>5, <1>6, <1>7, <1>8
       DEF Next, InputCall, TransferCall, SplitCall, OtherCall
  <1> QED
    BY <1>9, <1>10

(* The inductive invariant holds throughout every run of the builder.      *)
THEOREM Invariant == Spec => []IInv
  BY InitInvariant, NextInvariant, PTL DEF Spec

(* The lists, the handles and the orphans keep their shape: every          *)
(* registered input was serialized (transaction.py:123-124).               *)
THEOREM TypeCorrect == Spec => []TypeOK
  BY Invariant, PTL DEF IInv

(* No later call, raising or not, shifts what a handle names               *)
(* (transaction.py:106-110, 232-240).                                      *)
THEOREM HandlesAlwaysDenote == Spec => []HandlesDenote
  BY Invariant, PTL DEF IInv

(* Every block resolves: its arguments name inputs it has and results of   *)
(* earlier commands.                                                       *)
THEOREM BlocksResolve == Spec => []ReferencesResolve
  BY Invariant, PTL DEF IInv

-----------------------------------------------------------------------------
(* The amounts of a split, and the calls that raise.                       *)

AmountArgsDistinct(cmd, held) ==
  cmd.kind = "SPLIT_COINS" =>
    \A j, k \in 2..Len(cmd.args) :
      /\ j # k /\ cmd.args[j].kind = "INPUT" /\ cmd.args[j] = cmd.args[k]
      => cmd.args[j] \in held

\* Of the arguments split_coins makes, two that are equal inputs were both
\* handles of the caller: integers get inputs of their own.
LEMMA SplitArgsDistinct ==
  ASSUME IInv, NEW amounts \in Lists(Amounts \cup Usable, MaxAmounts),
         NEW j \in 1..Len(amounts), NEW k \in 1..Len(amounts), j < k,
         SplitArgs(amounts)[j].kind = "INPUT",
         SplitArgs(amounts)[j] = SplitArgs(amounts)[k]
  PROVE  SplitArgs(amounts)[j] \in DOMAIN handles
  <1> USE BuilderAssumption
  <1>1. /\ Len(amounts) \in Nat /\ DOMAIN amounts = 1..Len(amounts)
        /\ \A i \in 1..Len(amounts) : amounts[i] \in Amounts \cup Usable
    BY ListsAreSeqs
  <1>2. Len(inputs) \in Nat
    BY DEF IInv, TypeOK
  <1>3. \A i \in 1..Len(amounts) : amounts[i] \in Amounts =>
          /\ SplitArgs(amounts)[i].index = Len(inputs) + AmountRank(amounts, i) - 1
          /\ AmountRank(amounts, i) \in Nat \ {0}
    <2> SUFFICES ASSUME NEW i \in 1..Len(amounts), amounts[i] \in Amounts
                 PROVE  /\ SplitArgs(amounts)[i].index = Len(inputs) + AmountRank(amounts, i) - 1
                        /\ AmountRank(amounts, i) \in Nat \ {0}
      OBVIOUS
    <2>1. i \in Nat /\ i \in IntAmounts(amounts, i)
      BY <1>1 DEF IntAmounts
    <2>2. AmountRank(amounts, i) \in Nat /\ AmountRank(amounts, i) \in 1..AmountRank(amounts, i)
      BY <2>1, RankBounds, RankType
    <2> QED
      BY <1>1, <2>2 DEF SplitArgs, InputArg
  <1>4. \A i \in 1..Len(amounts) : amounts[i] \notin Amounts =>
          SplitArgs(amounts)[i] = amounts[i] /\ amounts[i] \in Usable
    BY <1>1 DEF SplitArgs
  <1>5. \A a \in Usable : a.kind = "INPUT" => a.index < Len(inputs) /\ a \in DOMAIN handles
    BY UsableResolves DEF Usable, NestedResultArg
  <1>6. CASE amounts[j] \in Amounts /\ amounts[k] \in Amounts
    <2>1. k \in IntAmounts(amounts, k) /\ j \in Nat /\ k \in Nat
      BY <1>1, <1>6 DEF IntAmounts
    <2>2. AmountRank(amounts, j) # AmountRank(amounts, k)
      BY <2>1, RankInjective
    <2> QED
      BY <1>2, <1>3, <1>6, <2>2
  <1>7. CASE amounts[j] \in Amounts /\ amounts[k] \notin Amounts
    <2>1. SplitArgs(amounts)[k].index < Len(inputs)
      BY <1>4, <1>5, <1>7
    <2>2. SplitArgs(amounts)[j].index >= Len(inputs)
      BY <1>2, <1>3, <1>7
    <2> QED
      BY <1>2, <1>3, <1>7, <2>1, <2>2
  <1>8. CASE amounts[j] \notin Amounts
    BY <1>4, <1>5, <1>8
  <1> QED
    BY <1>6, <1>7, <1>8

LEMMA SplitCommandDistinct ==
  ASSUME IInv, NEW coin \in Usable,
         NEW amounts \in Lists(Amounts \cup Usable, MaxAmounts)
  PROVE  AmountArgsDistinct([kind |-> "SPLIT_COINS", args |-> <<coin>> \o SplitArgs(amounts)],
                            DOMAIN handles)
  <1> DEFINE s == SplitArgs(amounts)
             args == <<coin>> \o s
  <1>1. Len(amounts) \in Nat /\ DOMAIN amounts = 1..Len(amounts)
    BY ListsAreSeqs, BuilderAssumption
  <1> DEFINE S == {coin} \cup {s[k] : k \in 1..Len(amounts)}
  <1>2. s \in [1..Len(amounts) -> S]
    BY <1>1 DEF SplitArgs
  <1>3. coin \in S
    OBVIOUS
  <1> HIDE DEF s, S
  <1>4. /\ Len(args) = Len(amounts) + 1
        /\ \A i \in 2..Len(args) : i - 1 \in 1..Len(amounts) /\ args[i] = s[i - 1]
    <2>1. s \in Seq(S) /\ <<coin>> \in Seq(S) /\ Len(s) = Len(amounts)
      BY <1>1, <1>2, <1>3
    <2> QED
      BY <1>1, <2>1, ConcatProperties
  <1> USE DEF s
  <1> HIDE DEF args
  <1> SUFFICES ASSUME NEW j \in 2..Len(args), NEW k \in 2..Len(args), j # k,
                      args[j].kind = "INPUT", args[j] = args[k]
               PROVE  args[j] \in DOMAIN handles
    BY DEF AmountArgsDistinct, args
  <1>5. /\ j - 1 \in 1..Len(amounts) /\ args[j] = s[j - 1]
        /\ k - 1 \in 1..Len(amounts) /\ args[k] = s[k - 1]
        /\ s[j - 1].kind = "INPUT" /\ s[j - 1] = s[k - 1]
        /\ (j - 1 < k - 1) \/ (k - 1 < j - 1)
    BY <1>1, <1>4
  <1> QED
    BY <1>5, SplitArgsDistinct DEF s

\* What Append does, whatever is appended.
LEMMA AppendAny ==
  ASSUME NEW S, NEW s \in Seq(S), NEW e
  PROVE  /\ DOMAIN Append(s, e) = 1..(Len(s) + 1)
         /\ Append(s, e)[Len(s) + 1] = e
         /\ \A i \in 1..Len(s) : Append(s, e)[i] = s[i]
  <1> DEFINE T == S \cup {e}
  <1>1. s \in Seq(T) /\ e \in T
    OBVIOUS
  <1> HIDE DEF T
  <1> QED
    BY <1>1, AppendProperties, LenProperties

\* A step that appends no split, or one whose amounts are distinct.
LEMMA AmountsStayDistinct ==
  ASSUME IInv, AmountsDistinct, DOMAIN handles \subseteq DOMAIN handles',
         \/ commands' = commands
         \/ \E cmd : /\ commands' = Append(commands, cmd)
                     /\ AmountArgsDistinct(cmd, DOMAIN handles)
  PROVE  AmountsDistinct'
  <1>1. Len(commands) \in Nat /\ DOMAIN commands = 1..Len(commands) /\ commands \in Seq(Command)
    BY DEF IInv, TypeOK
  <1>2. \A c \in DOMAIN commands : AmountArgsDistinct(commands[c], DOMAIN handles)
    BY DEF AmountsDistinct, AmountArgsDistinct
  <1>3. \A c \in DOMAIN commands' : AmountArgsDistinct(commands'[c], DOMAIN handles)
    <2>1. CASE commands' = commands
      BY <1>2, <2>1
    <2>2. CASE \E cmd : commands' = Append(commands, cmd) /\ AmountArgsDistinct(cmd, DOMAIN handles)
      <3>1. PICK cmd : commands' = Append(commands, cmd) /\ AmountArgsDistinct(cmd, DOMAIN handles)
        BY <2>2
      <3>2. /\ DOMAIN commands' = 1..(Len(commands) + 1)
            /\ commands'[Len(commands) + 1] = cmd
            /\ \A c \in 1..Len(commands) : commands'[c] = commands[c]
        <4>1. /\ DOMAIN Append(commands, cmd) = 1..(Len(commands) + 1)
              /\ Append(commands, cmd)[Len(commands) + 1] = cmd
              /\ \A c \in 1..Len(commands) : Append(commands, cmd)[c] = commands[c]
          BY <1>1, AppendAny, Zenon
        <4> QED
          BY <3>1, <4>1, Zenon
      <3> SUFFICES ASSUME NEW c \in 1..(Len(commands) + 1)
                   PROVE  AmountArgsDistinct(commands'[c], DOMAIN handles)
        BY <3>2
      <3>3. CASE c = Len(commands) + 1
        BY <3>1, <3>2, <3>3
      <3>4. CASE c \in 1..Len(commands)
        BY <1>1, <1>2, <3>2, <3>4
      <3> QED
        BY <1>1, <3>3, <3>4
    <2> QED
      BY <2>1, <2>2
  <1> QED
    BY <1>3 DEF AmountsDistinct, AmountArgsDistinct

LEMMA NextDistinct == IInv /\ AmountsDistinct /\ [Next]_vars => AmountsDistinct'
  <1> SUFFICES ASSUME IInv, AmountsDistinct, [Next]_vars PROVE AmountsDistinct'
    OBVIOUS
  <1>1. ASSUME NEW coin \in Usable,
               NEW amounts \in Lists(Amounts \cup Usable, MaxAmounts),
               SplitCoins(coin, amounts)
        PROVE AmountsDistinct'
    <2> DEFINE cmd == [kind |-> "SPLIT_COINS", args |-> <<coin>> \o SplitArgs(amounts)]
    <2>1. commands' = Append(commands, cmd) /\ DOMAIN handles \subseteq DOMAIN handles'
      BY <1>1 DEF SplitCoins, IssueCommand, Grant
    <2>2. AmountArgsDistinct(cmd, DOMAIN handles)
      BY SplitCommandDistinct
    <2> HIDE DEF cmd
    <2> QED
      BY <2>1, <2>2, AmountsStayDistinct
  <1>2. ASSUME NEW kind, NEW args, kind # "SPLIT_COINS", IssueCommand(kind, args)
        PROVE AmountsDistinct'
    <2> DEFINE cmd == [kind |-> kind, args |-> args]
    <2>1. commands' = Append(commands, cmd) /\ DOMAIN handles \subseteq DOMAIN handles'
      BY <1>2 DEF IssueCommand, Grant
    <2>2. AmountArgsDistinct(cmd, DOMAIN handles)
      BY <1>2 DEF AmountArgsDistinct
    <2> HIDE DEF cmd
    <2> QED
      BY <2>1, <2>2, AmountsStayDistinct
  <1>3. ASSUME commands' = commands, DOMAIN handles \subseteq DOMAIN handles'
        PROVE AmountsDistinct'
    BY <1>3, AmountsStayDistinct
  <1>4. CASE InputCall
    <2>1. commands' = commands /\ DOMAIN handles \subseteq DOMAIN handles'
      BY <1>4 DEF InputCall, Pure, PureRaises, Object, ObjectRaises, Grant
    <2> QED
      BY <1>3, <2>1
  <1>5. CASE TransferCall
    <2>1. ASSUME NEW objects, NEW recipient, TransferObjects(objects, recipient)
          PROVE AmountsDistinct'
      <3>1. \E args : IssueCommand("TRANSFER_OBJECTS", args)
        BY <2>1 DEF TransferObjects
      <3> QED
        BY <1>2, <3>1
    <2>2. ASSUME NEW recipient, TransferRaises(recipient) PROVE AmountsDistinct'
      BY <1>3, <2>2 DEF TransferRaises
    <2> QED
      BY <1>5, <2>1, <2>2 DEF TransferCall
  <1>6. CASE SplitCall
    <2>1. ASSUME NEW amounts, SplitCoinsRaises(amounts) PROVE AmountsDistinct'
      BY <1>3, <2>1 DEF SplitCoinsRaises
    <2> QED
      BY <1>1, <1>6, <2>1 DEF SplitCall
  <1>7. CASE OtherCall
    BY <1>2, <1>3, <1>7 DEF OtherCall, MergeCoins, MoveCall, MoveCallRaises
  <1>8. CASE UNCHANGED vars
    BY <1>3, <1>8 DEF vars
  <1> QED
    BY <1>4, <1>5, <1>6, <1>7, <1>8 DEF Next

(* However many integers and handles a split mixes, no integer amount ever *)
(* shares the input of another amount (transaction.py:258-263).            *)
THEOREM SplitAmountsDistinct == Spec => []AmountsDistinct
  <1>1. Init => AmountsDistinct
    BY DEF Init, AmountsDistinct
  <1> QED
    BY <1>1, Invariant, NextDistinct, PTL DEF Spec

LEMMA FailureStep == IInv /\ [Next]_vars =>
  (last' # "returned" =>
     /\ UNCHANGED <<commands, handles>>
     /\ SubSeq(inputs', 1, Len(inputs)) = inputs
     /\ orphans' = orphans \cup (Len(inputs) + 1 .. Len(inputs')))
  <1> USE BuilderAssumption
  <1> SUFFICES ASSUME IInv, [Next]_vars, last' # "returned"
               PROVE  /\ UNCHANGED <<commands, handles>>
                      /\ SubSeq(inputs', 1, Len(inputs)) = inputs
                      /\ orphans' = orphans \cup (Len(inputs) + 1 .. Len(inputs'))
    OBVIOUS
  <1>1. inputs \in Seq(CallArg) /\ Len(inputs) \in Nat
    BY DEF IInv, TypeOK
  <1>2. ASSUME UNCHANGED <<inputs, commands, handles, orphans>>
        PROVE  /\ UNCHANGED <<commands, handles>>
               /\ SubSeq(inputs', 1, Len(inputs)) = inputs
               /\ orphans' = orphans \cup (Len(inputs) + 1 .. Len(inputs'))
    <2>1. Len(inputs) + 1 .. Len(inputs') = {}
      BY <1>1, <1>2
    <2> QED
      BY <1>1, <1>2, <2>1, SubSeqFull
  <1>3. ASSUME NEW amounts \in Lists(Amounts \cup Usable, MaxAmounts),
               SplitCoinsRaises(amounts)
        PROVE  /\ UNCHANGED <<commands, handles>>
               /\ SubSeq(inputs', 1, Len(inputs)) = inputs
               /\ orphans' = orphans \cup (Len(inputs) + 1 .. Len(inputs'))
    <2>1. PICK added \in Lists({PureInput(v) : v \in Encodable}, MaxAmounts) :
            /\ inputs' = inputs \o added
            /\ orphans' = orphans \cup (Len(inputs) + 1 .. Len(inputs) + Len(added))
      BY <1>3 DEF SplitCoinsRaises
    <2>2. \A v \in Encodable : PureInput(v) \in CallArg
      BY DEF PureInput, CallArg
    <2>3. added \in Seq({PureInput(v) : v \in Encodable})
      BY ListsAreSeqs
    <2>4. added \in Seq(CallArg)
      BY <2>2, <2>3
    <2>5. /\ Len(inputs') = Len(inputs) + Len(added) /\ inputs' \in Seq(CallArg)
          /\ Len(added) \in Nat
          /\ \A i \in 1..Len(inputs) : inputs'[i] = inputs[i]
      BY <2>1, <2>4, AppendedInputs DEF IInv
    <2>6. SubSeq(inputs', 1, Len(inputs)) = inputs
      BY <1>1, <2>5
    <2> QED
      BY <1>3, <2>1, <2>5, <2>6 DEF SplitCoinsRaises
  <1>4. CASE InputCall
    BY <1>2, <1>4 DEF InputCall, Pure, PureRaises, Object, ObjectRaises, Returned
  <1>5. CASE TransferCall
    BY <1>2, <1>5 DEF TransferCall, TransferObjects, TransferRaises, Returned
  <1>6. CASE SplitCall
    BY <1>3, <1>6 DEF SplitCall, SplitCoins, Returned
  <1>7. CASE OtherCall
    BY <1>2, <1>7 DEF OtherCall, MergeCoins, MoveCall, MoveCallRaises, Returned
  <1>8. CASE UNCHANGED vars
    BY <1>2, <1>8 DEF vars
  <1> QED
    BY <1>4, <1>5, <1>6, <1>7, <1>8 DEF Next

(* A call that raises leaves the block and the caller's handles as they    *)
(* were, but for the inputs a split_coins had already registered.          *)
THEOREM FailureKeepsBlock == Spec => FailedCallKeepsBlock
  BY Invariant, FailureStep, PTL DEF Spec, FailedCallKeepsBlock

-----------------------------------------------------------------------------
(* No input is lost: the inputs nobody refers to are the orphans.          *)

UsedBy(cmd, i) == \E k \in DOMAIN cmd.args : cmd.args[k] = InputArg(i - 1)

\* Every input split_coins registers is some amount's: no rank is skipped.
LEMMA RankOnto ==
  ASSUME NEW amounts, NEW n \in Nat, NEW j \in 1..AmountRank(amounts, n)
  PROVE  \E k \in IntAmounts(amounts, n) : AmountRank(amounts, k) = j
  <1> DEFINE T == {k \in Nat : j <= AmountRank(amounts, k)}
  <1>1. n \in T
    BY RankType
  <1>2. PICK k \in T : \A m \in T : k <= m
    BY <1>1, LeastNatural
  <1>3. k \in Nat /\ k <= n /\ j <= AmountRank(amounts, k) /\ AmountRank(amounts, k) \in Nat
    BY <1>1, <1>2, RankType
  <1>4. k # 0
    <2>1. IntAmounts(amounts, 0) = {}
      BY DEF IntAmounts
    <2>2. AmountRank(amounts, 0) = 0
      BY <2>1, FS_EmptySet DEF AmountRank
    <2> QED
      BY <1>3, <2>2
  <1>5. k - 1 \in Nat /\ AmountRank(amounts, k - 1) < j /\ AmountRank(amounts, k - 1) \in Nat
    BY <1>2, <1>3, <1>4, RankType
  <1>6. amounts[k] \in Amounts
    <2> SUFFICES ASSUME amounts[k] \notin Amounts PROVE FALSE
      OBVIOUS
    <2>1. IntAmounts(amounts, k) = IntAmounts(amounts, k - 1)
      BY <1>3, <1>5 DEF IntAmounts
    <2> QED
      BY <1>3, <1>5, <2>1 DEF AmountRank
  <1>7. /\ IntAmounts(amounts, k) = IntAmounts(amounts, k - 1) \cup {k}
        /\ k \notin IntAmounts(amounts, k - 1)
    BY <1>3, <1>5, <1>6 DEF IntAmounts
  <1>8. AmountRank(amounts, k) = AmountRank(amounts, k - 1) + 1
    BY <1>5, <1>7, RankType, FS_AddElement DEF AmountRank
  <1>9. k \in IntAmounts(amounts, n)
    BY <1>3, <1>4, <1>6 DEF IntAmounts
  <1> QED
    BY <1>3, <1>5, <1>8, <1>9

\* An input that is not there yet is not referred to.
LEMMA FreshIsUnreferenced ==
  ASSUME IInv, NEW i \in Nat, i > Len(inputs)
  PROVE  ~Referenced(i)
  <1>1. Len(inputs) \in Nat /\ InputArg(i - 1).kind = "INPUT" /\ InputArg(i - 1).index = i - 1
    BY DEF IInv, TypeOK, InputArg
  <1>2. InputArg(i - 1) \notin DOMAIN handles
    BY <1>1 DEF IInv, HandlesDenote
  <1>3. \A c \in DOMAIN commands : ~UsedBy(commands[c], i)
    BY <1>1 DEF IInv, ReferencesResolve, Resolves, UsedBy
  <1> QED
    BY <1>2, <1>3 DEF Referenced, UsedBy

\* An argument the caller can pass that names an input is a handle it holds.
LEMMA UsableInputIsHeld ==
  ASSUME NEW a \in Usable, NEW n, a = InputArg(n)
  PROVE  a \in DOMAIN handles
  <1>1. \A h, k : NestedResultArg(h, k).kind = "NESTED_RESULT"
    BY DEF NestedResultArg
  <1>2. a.kind = "INPUT"
    BY DEF InputArg
  <1> QED
    BY <1>1, <1>2 DEF Usable

\* What a new command and its handle refer to.
LEMMA IssueRefers ==
  ASSUME IInv, NEW kind, NEW args, IssueCommand(kind, args), NEW i
  PROVE  Referenced(i)' <=> Referenced(i) \/ UsedBy([kind |-> kind, args |-> args], i)
  <1> DEFINE cmd == [kind |-> kind, args |-> args]
  <1>1. commands' = Append(commands, cmd) /\ commands \in Seq(Command) /\ Len(commands) \in Nat
    BY DEF IssueCommand, IInv, TypeOK
  <1>2. DOMAIN handles' = DOMAIN handles \cup {ResultArg(Len(commands))}
    BY DEF IssueCommand, Grant
  <1>3. InputArg(i - 1) # ResultArg(Len(commands))
    BY DEF InputArg, ResultArg
  <1> HIDE DEF cmd
  <1>4. /\ DOMAIN commands' = 1..(Len(commands) + 1) /\ DOMAIN commands = 1..Len(commands)
        /\ commands'[Len(commands) + 1] = cmd
        /\ \A c \in 1..Len(commands) : commands'[c] = commands[c]
    BY <1>1, AppendAny, LenProperties
  <1>5. (\E c \in DOMAIN commands' : UsedBy(commands'[c], i))
          <=> (\E c \in DOMAIN commands : UsedBy(commands[c], i)) \/ UsedBy(cmd, i)
    BY <1>1, <1>4
  <1> QED
    BY <1>2, <1>3, <1>5 DEF Referenced, UsedBy, cmd

(* A call that returned: every input it registered is referred to, and it  *)
(* refers to no earlier one that was not referred to before.               *)
LEMMA NothingLost ==
  ASSUME IInv, UnusedInputsAreOrphans, orphans' = orphans,
         NEW added \in Seq(CallArg), inputs' = inputs \o added,
         \A i \in 1..Len(inputs) : Referenced(i)' <=> Referenced(i),
         \A i \in Len(inputs) + 1 .. Len(inputs) + Len(added) : Referenced(i)'
  PROVE  UnusedInputsAreOrphans'
  <1>1. /\ Len(inputs) \in Nat /\ Len(added) \in Nat
        /\ DOMAIN inputs = 1..Len(inputs) /\ DOMAIN inputs' = 1..(Len(inputs) + Len(added))
    BY AppendedInputs, LenProperties DEF IInv, TypeOK
  <1>2. {i \in DOMAIN inputs' : ~Referenced(i)'} = {i \in DOMAIN inputs : ~Referenced(i)}
    BY <1>1
  <1> QED
    BY <1>2 DEF UnusedInputsAreOrphans

\* A command on handles only, no input registered.
LEMMA HandlesLoseNothing ==
  ASSUME IInv, UnusedInputsAreOrphans, UNCHANGED <<inputs, orphans>>,
         NEW kind, NEW args, IssueCommand(kind, args),
         \A k \in DOMAIN args : args[k] \in Usable
  PROVE  UnusedInputsAreOrphans'
  <1>1. \A i : UsedBy([kind |-> kind, args |-> args], i) => Referenced(i)
    BY UsableInputIsHeld DEF UsedBy, Referenced
  <1>2. \A i : Referenced(i)' <=> Referenced(i)
    BY <1>1, IssueRefers
  <1> QED
    BY <1>2 DEF UnusedInputsAreOrphans

\* An input whose handle is returned.
LEMMA RegisterLosesNothing ==
  ASSUME IInv, UnusedInputsAreOrphans, NEW callArg \in CallArg, AddInput(callArg),
         Grant(InputArg(Len(inputs)), callArg), UNCHANGED <<commands, orphans>>
  PROVE  UnusedInputsAreOrphans'
  <1>1. Len(inputs) \in Nat
    BY DEF IInv, TypeOK
  <1>2. /\ <<callArg>> \in Seq(CallArg) /\ Len(<<callArg>>) = 1
        /\ inputs' = inputs \o <<callArg>>
    BY AppendIsConcat DEF AddInput, IInv, TypeOK
  <1>3. DOMAIN handles' = DOMAIN handles \cup {InputArg(Len(inputs))}
    BY DEF Grant
  <1>4. \A i \in 1..Len(inputs) : InputArg(i - 1) # InputArg(Len(inputs))
    BY <1>1 DEF InputArg
  <1>5. \A i \in 1..Len(inputs) : Referenced(i)' <=> Referenced(i)
    BY <1>3, <1>4 DEF Referenced
  <1>6. \A i \in Len(inputs) + 1 .. Len(inputs) + Len(<<callArg>>) : Referenced(i)'
    BY <1>1, <1>2, <1>3 DEF Referenced
  <1> QED
    BY <1>2, <1>5, <1>6, NothingLost

\* transfer_objects uses the recipient it registers.
LEMMA TransferLosesNothing ==
  ASSUME IInv, UnusedInputsAreOrphans, NEW objects \in Lists(Usable, MaxArgs),
         NEW recipient \in Recipients \cup Usable, TransferObjects(objects, recipient)
  PROVE  UnusedInputsAreOrphans'
  <1>1. /\ Len(inputs) \in Nat /\ orphans' = orphans /\ inputs \in Seq(CallArg)
        /\ objects \in Seq(Usable) /\ Len(objects) \in Nat
        /\ \A k \in 1..Len(objects) : objects[k] \in Usable
    BY ListsAreSeqs, BuilderAssumption DEF IInv, TypeOK, TransferObjects
  <1>2. CASE recipient \in Recipients
    <2> DEFINE a == InputArg(Len(inputs))
               args == Append(objects, a)
               added == <<PureInput(recipient)>>
    <2>1. /\ recipient \in Encodable
          /\ inputs' = Append(inputs, PureInput(recipient))
          /\ IssueCommand("TRANSFER_OBJECTS", args)
      BY <1>2 DEF TransferObjects, AddInput
    <2>2. PureInput(recipient) \in CallArg
      BY <2>1 DEF PureInput, CallArg
    <2>3. added \in Seq(CallArg) /\ inputs' = inputs \o added /\ Len(added) = 1
      BY <1>1, <2>1, <2>2, AppendIsConcat
    <2>4. /\ DOMAIN args = 1..(Len(objects) + 1) /\ args[Len(objects) + 1] = a
          /\ \A k \in 1..Len(objects) : args[k] = objects[k]
      BY <1>1, AppendAny
    <2> HIDE DEF args, added
    <2>5. \A i : Referenced(i)' <=>
                   Referenced(i) \/ UsedBy([kind |-> "TRANSFER_OBJECTS", args |-> args], i)
      BY <2>1, IssueRefers
    <2>6. ASSUME NEW i \in 1..Len(inputs),
                 UsedBy([kind |-> "TRANSFER_OBJECTS", args |-> args], i)
          PROVE  Referenced(i)
      <3>1. PICK k \in DOMAIN args : args[k] = InputArg(i - 1)
        BY <2>6 DEF UsedBy
      <3>2. k # Len(objects) + 1
        BY <1>1, <2>4, <3>1 DEF InputArg
      <3>3. objects[k] \in Usable /\ objects[k] = InputArg(i - 1)
        BY <1>1, <2>4, <3>1, <3>2
      <3> QED
        BY <3>3, UsableInputIsHeld DEF Referenced
    <2>7. UsedBy([kind |-> "TRANSFER_OBJECTS", args |-> args], Len(inputs) + 1)
      <3>1. Len(objects) + 1 \in DOMAIN args /\ Len(inputs) + 1 - 1 = Len(inputs)
        BY <1>1, <2>4
      <3> QED
        BY <2>4, <3>1 DEF UsedBy
    <2>8. \A i \in 1..Len(inputs) : Referenced(i)' <=> Referenced(i)
      BY <2>5, <2>6
    <2>9. \A i \in Len(inputs) + 1 .. Len(inputs) + Len(added) : Referenced(i)'
      BY <1>1, <2>3, <2>5, <2>7
    <2> QED
      BY <1>1, <2>3, <2>8, <2>9, NothingLost
  <1>3. CASE recipient \notin Recipients
    <2> DEFINE args == Append(objects, recipient)
    <2>1. IssueCommand("TRANSFER_OBJECTS", args) /\ inputs' = inputs
      BY <1>3 DEF TransferObjects
    <2>2. /\ DOMAIN args = 1..(Len(objects) + 1) /\ args[Len(objects) + 1] = recipient
          /\ \A k \in 1..Len(objects) : args[k] = objects[k]
      BY <1>1, AppendAny
    <2>3. recipient \in Usable
      BY <1>3
    <2> HIDE DEF args
    <2>4. ASSUME NEW k \in DOMAIN args PROVE args[k] \in Usable
      <3>1. CASE k = Len(objects) + 1
        BY <2>2, <2>3, <3>1
      <3>2. CASE k \in 1..Len(objects)
        BY <1>1, <2>2, <3>2
      <3> QED
        BY <1>1, <2>2, <3>1, <3>2
    <2> QED
      BY <1>1, <2>1, <2>4, HandlesLoseNothing
  <1> QED
    BY <1>2, <1>3

\* split_coins uses every input it registers, and no other it was not handed.
LEMMA SplitLosesNothing ==
  ASSUME IInv, UnusedInputsAreOrphans, NEW coin \in Usable,
         NEW amounts \in Lists(Amounts \cup Usable, MaxAmounts), SplitCoins(coin, amounts)
  PROVE  UnusedInputsAreOrphans'
  <1> USE BuilderAssumption
  <1> DEFINE s    == SplitArgs(amounts)
             args == <<coin>> \o s
             cmd  == [kind |-> "SPLIT_COINS", args |-> args]
             n    == Len(amounts)
  <1>1. PICK added \in Lists({PureInput(v) : v \in Encodable}, MaxAmounts) :
          /\ Registers(amounts, n, added)
          /\ inputs' = inputs \o added
    BY DEF SplitCoins
  <1>2. added \in Seq(CallArg)
    <2>1. \A v \in Encodable : PureInput(v) \in CallArg
      BY DEF PureInput, CallArg
    <2>2. added \in Seq({PureInput(v) : v \in Encodable})
      BY ListsAreSeqs
    <2> QED
      BY <2>1, <2>2
  <1>3. /\ Len(inputs) \in Nat /\ Len(added) = AmountRank(amounts, n) /\ Len(added) \in Nat
        /\ n \in Nat /\ DOMAIN amounts = 1..n
        /\ \A k \in 1..n : amounts[k] \in Amounts \cup Usable
    BY <1>1, <1>2, ListsAreSeqs, LenProperties DEF IInv, TypeOK, Registers
  <1>4. /\ DOMAIN args = 1..(n + 1) /\ args[1] = coin
        /\ \A k \in 1..n : args[k + 1] = s[k]
    <2> DEFINE S == {coin} \cup {s[k] : k \in 1..n}
    <2>1. s \in [1..n -> S] /\ coin \in S
      BY <1>3 DEF SplitArgs
    <2> HIDE DEF s, S
    <2>2. s \in Seq(S) /\ <<coin>> \in Seq(S) /\ Len(s) = n
      BY <1>3, <2>1
    <2> QED
      BY <1>3, <2>2, ConcatProperties
  <1>5. \A k \in 1..n :
          s[k] = IF amounts[k] \in Amounts
                   THEN InputArg(Len(inputs) + AmountRank(amounts, k) - 1) ELSE amounts[k]
    BY <1>3 DEF SplitArgs
  <1>6. IssueCommand("SPLIT_COINS", args) /\ orphans' = orphans
    BY DEF SplitCoins
  <1> HIDE DEF s, args, n
  <1>7. \A i : Referenced(i)' <=> Referenced(i) \/ UsedBy(cmd, i)
    BY <1>6, IssueRefers
  <1>8. ASSUME NEW i \in 1..Len(inputs), UsedBy(cmd, i) PROVE Referenced(i)
    <2>1. PICK k \in 1..(n + 1) : args[k] = InputArg(i - 1)
      BY <1>4, <1>8 DEF UsedBy
    <2>2. CASE k = 1
      BY <1>4, <2>1, <2>2, UsableInputIsHeld DEF Referenced
    <2>3. CASE k # 1
      <3> DEFINE m == k - 1
      <3>1. m \in 1..n /\ s[m] = InputArg(i - 1)
        <4>1. m \in 1..n /\ k = m + 1
          BY <1>3, <2>3
        <4> QED
          BY <1>4, <2>1, <4>1
      <3>2. amounts[m] \notin Amounts
        <4> SUFFICES ASSUME amounts[m] \in Amounts PROVE FALSE
          OBVIOUS
        <4>1. s[m] = InputArg(Len(inputs) + AmountRank(amounts, m) - 1)
          BY <1>5, <3>1
        <4>2. m \in Nat /\ m \in IntAmounts(amounts, m)
          BY <1>3, <3>1 DEF IntAmounts
        <4>3. AmountRank(amounts, m) \in Nat /\ AmountRank(amounts, m) \in 1..AmountRank(amounts, m)
          BY <4>2, RankBounds, RankType
        <4>4. i - 1 = Len(inputs) + AmountRank(amounts, m) - 1
          BY <3>1, <4>1 DEF InputArg
        <4> QED
          BY <1>3, <4>3, <4>4
      <3>3. amounts[m] \in Usable /\ amounts[m] = InputArg(i - 1)
        BY <1>3, <1>5, <3>1, <3>2
      <3> QED
        BY <3>3, UsableInputIsHeld DEF Referenced
    <2> QED
      BY <2>2, <2>3
  <1>9. ASSUME NEW i \in Len(inputs) + 1 .. Len(inputs) + Len(added) PROVE UsedBy(cmd, i)
    <2>1. i - Len(inputs) \in 1..AmountRank(amounts, n)
      BY <1>3
    <2>2. PICK k \in IntAmounts(amounts, n) : AmountRank(amounts, k) = i - Len(inputs)
      BY <1>3, <2>1, RankOnto
    <2>3. k \in 1..n /\ amounts[k] \in Amounts
      BY DEF IntAmounts
    <2>4. Len(inputs) + AmountRank(amounts, k) - 1 = i - 1
      BY <1>3, <2>2
    <2>5. s[k] = InputArg(i - 1)
      BY <1>5, <2>3, <2>4
    <2>6. k + 1 \in DOMAIN args /\ args[k + 1] = InputArg(i - 1)
      BY <1>3, <1>4, <2>3, <2>5
    <2> QED
      BY <2>6 DEF UsedBy
  <1>10. /\ \A i \in 1..Len(inputs) : Referenced(i)' <=> Referenced(i)
         /\ \A i \in Len(inputs) + 1 .. Len(inputs) + Len(added) : Referenced(i)'
    BY <1>7, <1>8, <1>9
  <1> QED
    BY <1>1, <1>2, <1>6, <1>10, NothingLost

\* A split_coins that raises: what it registered, nobody refers to.
LEMMA AbandonedAreOrphans ==
  ASSUME IInv, UnusedInputsAreOrphans,
         NEW amounts \in Lists(Amounts \cup Usable, MaxAmounts), SplitCoinsRaises(amounts)
  PROVE  UnusedInputsAreOrphans'
  <1>1. PICK added \in Lists({PureInput(v) : v \in Encodable}, MaxAmounts) :
          /\ inputs' = inputs \o added
          /\ orphans' = orphans \cup (Len(inputs) + 1 .. Len(inputs) + Len(added))
    BY DEF SplitCoinsRaises
  <1>2. added \in Seq(CallArg)
    <2>1. \A v \in Encodable : PureInput(v) \in CallArg
      BY BuilderAssumption DEF PureInput, CallArg
    <2>2. added \in Seq({PureInput(v) : v \in Encodable})
      BY BuilderAssumption, ListsAreSeqs
    <2> QED
      BY <2>1, <2>2
  <1>3. /\ Len(inputs) \in Nat /\ Len(added) \in Nat
        /\ DOMAIN inputs = 1..Len(inputs) /\ DOMAIN inputs' = 1..(Len(inputs) + Len(added))
    BY <1>1, <1>2, AppendedInputs, LenProperties DEF IInv, TypeOK
  <1>4. \A i : Referenced(i)' <=> Referenced(i)
    BY DEF SplitCoinsRaises, Referenced
  <1>5. \A i \in Len(inputs) + 1 .. Len(inputs) + Len(added) : ~Referenced(i)
    BY <1>3, FreshIsUnreferenced
  <1>6. {i \in DOMAIN inputs' : ~Referenced(i)'}
          = {i \in DOMAIN inputs : ~Referenced(i)}
              \cup (Len(inputs) + 1 .. Len(inputs) + Len(added))
    BY <1>3, <1>4, <1>5
  <1> QED
    BY <1>1, <1>6 DEF UnusedInputsAreOrphans

LEMMA NextLosesNothing == IInv /\ UnusedInputsAreOrphans /\ [Next]_vars => UnusedInputsAreOrphans'
  <1> USE BuilderAssumption
  <1> SUFFICES ASSUME IInv, UnusedInputsAreOrphans, [Next]_vars PROVE UnusedInputsAreOrphans'
    OBVIOUS
  <1>1. ASSUME UNCHANGED <<inputs, commands, handles, orphans>> PROVE UnusedInputsAreOrphans'
    BY <1>1 DEF UnusedInputsAreOrphans, Referenced
  <1>2. ASSUME NEW v \in PureValues, Pure(v) PROVE UnusedInputsAreOrphans'
    <2>1. PureInput(v) \in CallArg
      BY <1>2 DEF Pure, PureInput, CallArg
    <2> QED
      BY <1>2, <2>1, RegisterLosesNothing DEF Pure
  <1>3. ASSUME NEW o \in Objects, NEW given \in Keywords, Object(o, given)
        PROVE  UnusedInputsAreOrphans'
    <2>1. ObjectInput(ObjectKind(given), o) \in CallArg
      BY <1>3 DEF Object, ObjectInput, ObjectKind, CallArg
    <2> QED
      BY <1>3, <2>1, RegisterLosesNothing DEF Object
  <1>4. CASE InputCall
    BY <1>1, <1>2, <1>3, <1>4 DEF InputCall, PureRaises, ObjectRaises
  <1>5. CASE TransferCall
    BY <1>1, <1>5, TransferLosesNothing DEF TransferCall, TransferRaises
  <1>6. CASE SplitCall
    BY <1>6, SplitLosesNothing, AbandonedAreOrphans DEF SplitCall
  <1>7. ASSUME NEW destination \in Usable, NEW sources \in Lists(Usable, MaxArgs),
               MergeCoins(destination, sources)
        PROVE  UnusedInputsAreOrphans'
    <2> DEFINE args == <<destination>> \o sources
    <2>1. IssueCommand("MERGE_COINS", args) /\ UNCHANGED <<inputs, orphans>>
      BY <1>7 DEF MergeCoins
    <2>2. \A k \in DOMAIN args : args[k] \in Usable
      <3>1. sources \in Seq(Usable) /\ <<destination>> \in Seq(Usable)
        BY ListsAreSeqs
      <3>2. args \in Seq(Usable)
        BY <3>1, ConcatProperties
      <3> HIDE DEF args
      <3> QED
        BY <3>2, ElementOfSeq, LenProperties
    <2> HIDE DEF args
    <2> QED
      BY <2>1, <2>2, HandlesLoseNothing
  <1>8. ASSUME NEW arguments \in Lists(Usable, MaxArgs), MoveCall(arguments)
        PROVE  UnusedInputsAreOrphans'
    <2>1. \A k \in DOMAIN arguments : arguments[k] \in Usable
      BY ListsAreSeqs
    <2> QED
      BY <1>8, <2>1, HandlesLoseNothing DEF MoveCall
  <1>9. CASE OtherCall
    BY <1>1, <1>7, <1>8, <1>9 DEF OtherCall, MoveCallRaises
  <1>10. CASE UNCHANGED vars
    BY <1>1, <1>10 DEF vars
  <1> QED
    BY <1>4, <1>5, <1>6, <1>9, <1>10 DEF Next

(* The inputs no handle and no command refers to are those a split_coins   *)
(* registered before it raised, and no others (transaction.py:259-263).    *)
THEOREM OnlyOrphansAreUnused == Spec => []UnusedInputsAreOrphans
  <1>1. Init => UnusedInputsAreOrphans
    BY DEF Init, UnusedInputsAreOrphans
  <1> QED
    BY <1>1, Invariant, NextLosesNothing, PTL DEF Spec
=============================================================================
