------------------------- MODULE TransactionBuilder -------------------------
(***************************************************************************)
(* The block-building half of pyiota's Transaction class                   *)
(* (src/pyiota/transaction.py): one Transaction object, its _inputs and    *)
(* _commands lists, and the calls a program makes on it.  Every call       *)
(* either returns a handle (an Argument or a TransactionResult) or raises; *)
(* the caller may pass any handle it was given to a later call.            *)
(*                                                                         *)
(* A handle is only an index.  What the block means therefore rests on     *)
(* every call computing its index at the right moment, and on no call -    *)
(* one that raises half-way included - moving what an earlier index names. *)
(*                                                                         *)
(* Values are abstract: PureValues are the Python values passed to pure(), *)
(* Encodable those _serialize_pure accepts; Objects are object references  *)
(* and WellFormed those whose id is hex and whose digest is Base58.        *)
(***************************************************************************)
EXTENDS Naturals, Sequences, FiniteSets

CONSTANTS
  Amounts,      \* Python ints passed to split_coins
  Recipients,   \* Python strings passed as a transfer recipient
  Encodable,    \* the PureValues that serialize without raising
  Objects,      \* object references passed to object()
  WellFormed,   \* the Objects whose id and digest can be decoded
  MaxInputs,    \* bound: inputs one block holds
  MaxCommands,  \* bound: commands one block holds
  MaxArgs,      \* bound: arguments one call passes in a list of arguments
  MaxAmounts,   \* bound: amounts one split_coins call passes
  MaxNested     \* bound: largest nested result index a caller asks for

PureValues == Amounts \cup Recipients

ASSUME BuilderAssumption ==
  /\ Encodable \subseteq PureValues
  /\ WellFormed \subseteq Objects
  /\ MaxInputs \in Nat /\ MaxCommands \in Nat
  /\ MaxArgs \in Nat   /\ MaxAmounts \in Nat
  /\ MaxNested \in Nat

VARIABLES
  inputs,    \* Transaction._inputs
  commands,  \* Transaction._commands
  handles,   \* what the caller holds: handle |-> what it was returned for
  orphans,   \* history: positions of inputs left behind by a call that raised
  last       \* history: how the latest call ended

vars == <<inputs, commands, handles, orphans, last>>

-----------------------------------------------------------------------------
(* Arguments, inputs and commands.                                         *)

ArgumentKind == {"GAS_COIN", "INPUT", "RESULT", "NESTED_RESULT"}
CommandKind  == {"MOVE_CALL", "TRANSFER_OBJECTS", "SPLIT_COINS", "MERGE_COINS"}

Argument == [kind : ArgumentKind, index : Nat, nested : Nat]
CallArg  == [kind : {"PURE"}, data : Encodable]
              \cup [kind : {"SHARED", "IMM_OR_OWNED"}, data : Objects]
Command  == [kind : CommandKind, args : Seq(Argument)]

GasCoin == [kind |-> "GAS_COIN", index |-> 0, nested |-> 0]
NestedResultArg(i, k) == [kind |-> "NESTED_RESULT", index |-> i, nested |-> k]

\* Mutant: the index is read after the input was appended.
InputArgAfterAppend(i) == [kind |-> "INPUT", index |-> i + 1, nested |-> 0]
InputArg(i) == [kind |-> "INPUT", index |-> i, nested |-> 0]

\* Mutant: the index is read after the command was appended.
ResultArgAfterAppend(i) == [kind |-> "RESULT", index |-> i + 1, nested |-> 0]
ResultArg(i) == [kind |-> "RESULT", index |-> i, nested |-> 0]

PureInput(v)      == [kind |-> "PURE", data |-> v]
ObjectInput(k, o) == [kind |-> k, data |-> o]

(* What the caller can pass: what it holds, and any indexing of a command  *)
(* result it holds (TransactionResult.__getitem__ checks nothing).         *)
HeldResults == {h \in DOMAIN handles : h.kind = "RESULT"}
Usable == DOMAIN handles
            \cup {NestedResultArg(h.index, k) : h \in HeldResults, k \in 0..MaxNested}

Lists(S, max) == UNION {[1..n -> S] : n \in 0..max}

-----------------------------------------------------------------------------
(* What every call does with its outcome.                                  *)

Outcomes == {"returned", "raised", "raised_for_id_only"}
Returned == last' = "returned"
Raised   == last' = "raised"

Grant(h, thing) ==
  handles' = [g \in DOMAIN handles \cup {h} |-> IF g = h THEN thing ELSE handles[g]]

\* _add_input: append, and return the index the list had before.
AddInput(callArg) ==
  /\ Len(inputs) < MaxInputs
  /\ inputs' = Append(inputs, callArg)

\* The tail of the four command methods: append and return a result handle.
IssueCommand(kind, args) ==
  LET cmd == [kind |-> kind, args |-> args] IN
  /\ Len(commands) < MaxCommands
  /\ commands' = Append(commands, cmd)
  /\ Grant(ResultArg(Len(commands)), cmd)

-----------------------------------------------------------------------------
(* Inputs.  Pure(v) is pure_u64 of an amount or pure_address of a          *)
(* recipient: the typed constructors, which refuse what does not fit.      *)

\* Mutant: the value is registered without being serialized first.
PureUnchecked(v) ==
  /\ AddInput(PureInput(v))
  /\ Grant(InputArg(Len(inputs)), PureInput(v))
  /\ Returned
  /\ UNCHANGED <<commands, orphans>>

Pure(v) ==
  /\ v \in Encodable
  /\ AddInput(PureInput(v))
  /\ Grant(InputArg(Len(inputs)), PureInput(v))
  /\ Returned
  /\ UNCHANGED <<commands, orphans>>

PureRaises(v) ==
  /\ v \notin Encodable
  /\ Raised
  /\ UNCHANGED <<inputs, commands, handles, orphans>>

(* object(): given is the set of keyword arguments that are not None.  An  *)
(* initial shared version wins over version and digest.                    *)
ObjectKind(given) ==
  IF "initial_shared_version" \in given THEN "SHARED" ELSE "IMM_OR_OWNED"

ObjectGiven(given) ==
  "initial_shared_version" \in given \/ {"version", "digest"} \subseteq given

Object(o, given) ==
  LET callArg == ObjectInput(ObjectKind(given), o) IN
  /\ ObjectGiven(given) /\ o \in WellFormed
  /\ AddInput(callArg)
  /\ Grant(InputArg(Len(inputs)), callArg)
  /\ Returned
  /\ UNCHANGED <<commands, orphans>>

ObjectRaises(o, given) ==
  /\ ~ObjectGiven(given) \/ o \notin WellFormed
  /\ last' = IF given = {} THEN "raised_for_id_only" ELSE "raised"
  /\ UNCHANGED <<inputs, commands, handles, orphans>>

-----------------------------------------------------------------------------
(* Commands.                                                               *)

\* The recipient is an argument, or a string registered as a pure address.
TransferObjects(objects, recipient) ==
  /\ IF recipient \in Recipients
       THEN /\ recipient \in Encodable
            /\ AddInput(PureInput(recipient))
            /\ IssueCommand("TRANSFER_OBJECTS", Append(objects, InputArg(Len(inputs))))
       ELSE /\ IssueCommand("TRANSFER_OBJECTS", Append(objects, recipient))
            /\ UNCHANGED inputs
  /\ Returned
  /\ UNCHANGED orphans

\* Mutant: the command is appended before the recipient is parsed.
TransferIssuedFirst(recipient) ==
  /\ recipient \in Recipients \ Encodable
  /\ IssueCommand("TRANSFER_OBJECTS", <<GasCoin>>)
  /\ Raised
  /\ UNCHANGED <<inputs, orphans>>

\* Mutant: an input is appended before the recipient is parsed.
TransferInputFirst(recipient) ==
  /\ recipient \in Recipients \ Encodable
  /\ \E v \in Encodable : AddInput(PureInput(v))
  /\ Raised
  /\ UNCHANGED <<commands, handles, orphans>>

TransferRaises(recipient) ==
  /\ recipient \in Recipients \ Encodable
  /\ Raised
  /\ UNCHANGED <<inputs, commands, handles, orphans>>

(* split_coins registers its integer amounts as u64 inputs one by one, in  *)
(* the order of the list, and raises at the first that does not fit; the   *)
(* inputs registered before it stay.                                       *)
IntAmounts(amounts, n) == {k \in 1..n : amounts[k] \in Amounts}

FitsUpTo(amounts, n) == \A k \in IntAmounts(amounts, n) : amounts[k] \in Encodable

AmountRank(amounts, k) == Cardinality(IntAmounts(amounts, k))

\* added is what the first n amounts append to the inputs.
Registers(amounts, n, added) ==
  /\ Len(added) = AmountRank(amounts, n)
  /\ \A k \in IntAmounts(amounts, n) :
       added[AmountRank(amounts, k)] = PureInput(amounts[k])

\* Mutant: every amount points at the first input of the call.
SplitArgsSameIndex(amounts) ==
  [k \in DOMAIN amounts |->
     IF amounts[k] \in Amounts THEN InputArg(Len(inputs)) ELSE amounts[k]]

SplitArgs(amounts) ==
  [k \in DOMAIN amounts |->
     IF amounts[k] \in Amounts
       THEN InputArg(Len(inputs) + AmountRank(amounts, k) - 1)
       ELSE amounts[k]]

SplitCoins(coin, amounts) ==
  /\ FitsUpTo(amounts, Len(amounts))
  /\ IssueCommand("SPLIT_COINS", <<coin>> \o SplitArgs(amounts))
  /\ \E added \in Lists({PureInput(v) : v \in Encodable}, MaxAmounts) :
       /\ Registers(amounts, Len(amounts), added)
       /\ Len(inputs) + Len(added) <= MaxInputs
       /\ inputs' = inputs \o added
  /\ Returned
  /\ UNCHANGED orphans

SplitCoinsRaises(amounts) ==
  /\ \E n \in 0..(Len(amounts) - 1) :
       /\ FitsUpTo(amounts, n) /\ amounts[n + 1] \in Amounts \ Encodable
       /\ \E added \in Lists({PureInput(v) : v \in Encodable}, MaxAmounts) :
            /\ Registers(amounts, n, added)
            /\ Len(inputs) + Len(added) <= MaxInputs
            /\ inputs' = inputs \o added
            /\ orphans' = orphans \cup (Len(inputs) + 1 .. Len(inputs) + Len(added))
  /\ Raised
  /\ UNCHANGED <<commands, handles>>

MergeCoins(destination, sources) ==
  /\ IssueCommand("MERGE_COINS", <<destination>> \o sources)
  /\ Returned
  /\ UNCHANGED <<inputs, orphans>>

MoveCall(arguments) ==
  /\ IssueCommand("MOVE_CALL", arguments)
  /\ Returned
  /\ UNCHANGED <<inputs, orphans>>

\* A target that is not package::module::function, or a package not in hex.
MoveCallRaises ==
  /\ Raised
  /\ UNCHANGED <<inputs, commands, handles, orphans>>

-----------------------------------------------------------------------------
(* The caller's choices.                                                   *)

Keywords == SUBSET {"version", "digest", "initial_shared_version"}

Init ==
  /\ inputs   = <<>>
  /\ commands = <<>>
  /\ handles  = [h \in {GasCoin} |-> GasCoin]
  /\ orphans  = {}
  /\ last     = "returned"

InputCall ==
  \/ \E v \in PureValues : Pure(v) \/ PureRaises(v)
  \/ \E o \in Objects, given \in Keywords : Object(o, given) \/ ObjectRaises(o, given)

TransferCall ==
  \/ \E objects \in Lists(Usable, MaxArgs), recipient \in Recipients \cup Usable :
       TransferObjects(objects, recipient)
  \/ \E recipient \in Recipients : TransferRaises(recipient)

SplitCall ==
  \E amounts \in Lists(Amounts \cup Usable, MaxAmounts) :
    \/ \E coin \in Usable : SplitCoins(coin, amounts)
    \/ SplitCoinsRaises(amounts)

OtherCall ==
  \/ \E destination \in Usable, sources \in Lists(Usable, MaxArgs) :
       MergeCoins(destination, sources)
  \/ \E arguments \in Lists(Usable, MaxArgs) : MoveCall(arguments)
  \/ MoveCallRaises

Next == InputCall \/ TransferCall \/ SplitCall \/ OtherCall

Spec == Init /\ [][Next]_vars

-----------------------------------------------------------------------------
(* Properties.                                                             *)

\* The shape of the builder's state.
TypeOK ==
  /\ inputs \in Seq(CallArg)
  /\ commands \in Seq(Command)
  /\ handles = [h \in DOMAIN handles |-> handles[h]]
  /\ DOMAIN handles \subseteq {h \in Argument : h.kind # "NESTED_RESULT"}
  /\ orphans \subseteq 1..Len(inputs)
  /\ last \in Outcomes

Resolves(a, position) ==
  /\ a.kind = "INPUT" => a.index < Len(inputs)
  /\ a.kind \in {"RESULT", "NESTED_RESULT"} => a.index + 1 < position

(* Every argument of every command names an input the block has or the     *)
(* result of an EARLIER command, whatever calls raised in between: the     *)
(* index returned by _add_input and by the command methods                 *)
(* (transaction.py:106-110, 232-240) is always one the block can resolve.  *)
ReferencesResolve ==
  \A c \in DOMAIN commands : \A k \in DOMAIN commands[c].args :
    Resolves(commands[c].args[k], c)

(* A handle keeps naming the very input or command it was returned for:    *)
(* later calls, and calls that raise after registering some of their       *)
(* inputs, never shift an index the caller already holds.                  *)
HandlesDenote ==
  \A h \in DOMAIN handles :
    /\ h.kind = "INPUT" =>
         h.index < Len(inputs) /\ inputs[h.index + 1] = handles[h]
    /\ h.kind = "RESULT" =>
         h.index < Len(commands) /\ commands[h.index + 1] = handles[h]

(* split_coins pairs its i-th amount with the input registered for it:     *)
(* an integer amount is never taken from another amount's input.  Two      *)
(* amount arguments of one command that are not handles of the caller      *)
(* name different inputs.                                                  *)
AmountsDistinct ==
  \A c \in DOMAIN commands :
    LET args == commands[c].args IN
    commands[c].kind = "SPLIT_COINS" =>
      \A j, k \in 2..Len(args) :
        /\ j # k /\ args[j].kind = "INPUT" /\ args[j] = args[k]
        => args[j] \in DOMAIN handles

Referenced(i) ==
  \/ InputArg(i - 1) \in DOMAIN handles
  \/ \E c \in DOMAIN commands : \E k \in DOMAIN commands[c].args :
       commands[c].args[k] = InputArg(i - 1)

(* No input is lost: each one is held by the caller or used by a command,  *)
(* but for those a split_coins registered before it raised                 *)
(* (transaction.py:259-263 has no rollback).                               *)
UnusedInputsAreOrphans ==
  {i \in DOMAIN inputs : ~Referenced(i)} = orphans

(* A call that raises leaves the commands and the caller's handles alone   *)
(* and moves no input; the inputs it appended, if any, are the ones a      *)
(* split_coins gave up on.                                                 *)
FailedCallKeepsBlock ==
  [][last' # "returned" =>
       /\ UNCHANGED <<commands, handles>>
       /\ SubSeq(inputs', 1, Len(inputs)) = inputs
       /\ orphans' = orphans \cup (Len(inputs) + 1 .. Len(inputs'))]_vars

(* object()'s documentation (transaction.py:166-167): given only an id,    *)
(* the reference is accepted and the build step resolves it.               *)
ObjectByIdAccepted == last # "raised_for_id_only"
=============================================================================
