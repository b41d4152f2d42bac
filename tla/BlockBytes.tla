----------------------------- MODULE BlockBytes -----------------------------
(***************************************************************************)
(* The BCS layouts of bcs_types.py: what TransactionData.serialize writes  *)
(* for a block, and a node that reads it.  The writer has no field names   *)
(* and no schema; the node knows the schema and nothing else.              *)
(*                                                                         *)
(* A block is what the builder holds once its names are decoded: ids and   *)
(* addresses are given here as the texts the caller wrote, which           *)
(* serialize_pure_address and base58_decode turn into bytes.  Every        *)
(* serialize() returns the bytes of its own writer, which the enclosing    *)
(* one appends: the bytes of a block are those of its fields in order.     *)
(***************************************************************************)
EXTENDS Bcs, TypeTags

CONSTANTS
  Blocks,       \* the blocks a program may serialize
  NoBlock,      \* no block: the program writes single values
  IndexWidth,   \* bytes of a u16, 2 in the program
  NumberWidth   \* bytes of a u64, 8 in the program

ASSUME BlockAssumption ==
  /\ {IndexWidth, NumberWidth} \subseteq Nat \ {0}
  /\ HexBase * HexBase = Base
  /\ Refused \notin Int \union BOOLEAN \union Seq(Nat)
  /\ NoBlock \notin Blocks

VARIABLES
  block,  \* the block that was serialized, or could not be
  todo,   \* the node: what it still expects, first thing first
  roles   \* history: the role of each value the node has read

blockVars == << block, todo, roles >>

-----------------------------------------------------------------------------
(* What is written.                                                        *)

ArgumentKind == [gas |-> 0, input |-> 1, result |-> 2, nested |-> 3]
CallArgKind  == [pure |-> 0, object |-> 1]
ObjectArgKind == [owned |-> 0, shared |-> 1, receiving |-> 2]
CommandKind  == [moveCall |-> 0, transfer |-> 1, split |-> 2, merge |-> 3, publish |-> 4]

U16(n)      == Val("uint", IndexWidth, n)
U64(n)      == Val("uint", NumberWidth, n)
Bytes(b)    == Val("bytes", 0, b)

\* A vector: its length, then its elements.
Many(items, Layout(_)) ==
  << Length(items) >> \o FlattenSeq([i \in DOMAIN items |-> Layout(items[i])])

Argument(a) ==
  << Variant(ArgumentKind[a.kind]) >> \o
    CASE a.kind = "gas"                 -> << >>
      [] a.kind \in {"input", "result"} -> << U16(a.index) >>
      [] a.kind = "nested"              -> << U16(a.index), U16(a.nested) >>

ObjectRef(r) ==
  << Fixed(AddressBytes(r.id)), U64(r.version), Bytes(Base58Decode(r.digest)) >>

\* Mutant: the flag before the version.
SharedRefFlagFirst(r) ==
  << Fixed(AddressBytes(r.id)), Val("bool", 0, r.mutable), U64(r.version) >>

SharedRef(r) ==
  << Fixed(AddressBytes(r.id)), U64(r.version), Val("bool", 0, r.mutable) >>

Prefixed(text) == text # << >> /\ Head(text) = Prefix

\* Mutant: a bool is an int like any other.
PureTypeIntFirst(c) ==
  IF c.hint # "none" THEN c.hint
  ELSE CASE c.python \in {"int", "bool"} -> "u64"
         [] c.python = "str" -> IF Prefixed(c.value) THEN "address" ELSE "string"
         [] c.python = "bytes" -> "bytes"

\* The hint, or else what the Python value looks like.
PureType(c) ==
  IF c.hint # "none" THEN c.hint
  ELSE CASE c.python \in {"bool", "bytes"} -> c.python
         [] c.python = "int" -> "u64"
         [] c.python = "str" -> IF Prefixed(c.value) THEN "address" ELSE "string"

\* True is the int 1, and write_bool takes what is truthy.
AsInt(c)  == IF c.python = "bool" THEN (IF c.value THEN 1 ELSE 0) ELSE c.value
AsBool(c) == IF c.python = "bool" THEN c.value ELSE c.value # 0

\* The bytes of one field; an address has no length of its own.
SerializePure(c) ==
  LET type  == PureType(c)
      field == CASE type = "bool"   -> Val("bool", 0, AsBool(c))
                 [] type = "u16"    -> U16(AsInt(c))
                 [] type = "u64"    -> U64(AsInt(c))
                 [] type = "string" -> Str(c.value)
                 [] type = "bytes"  -> Bytes(c.value)
  IN  IF type = "address" THEN AddressBytes(c.value)
      ELSE IF InRange(field) THEN Encode(field) ELSE Refused

CallArg(c) ==
  IF c.kind = "pure" THEN << Variant(CallArgKind.pure), Bytes(SerializePure(c)) >>
  ELSE << Variant(CallArgKind.object), Variant(ObjectArgKind[c.kind]) >> \o
         IF c.kind = "shared" THEN SharedRef(c) ELSE ObjectRef(c)

TypeArgument(t) == TypeTag(t.text)
Dependency(id)  == << Fixed(AddressBytes(id)) >>
Module(code)    == << Bytes(code) >>

Command(c) ==
  << Variant(CommandKind[c.kind]) >> \o
    CASE c.kind = "moveCall" ->
           << Fixed(AddressBytes(c.package)), Str(c.module), Str(c.function) >>
             \o Many(c.types, TypeArgument) \o Many(c.arguments, Argument)
      [] c.kind = "transfer" -> Many(c.objects, Argument) \o Argument(c.recipient)
      [] c.kind = "split"    -> Argument(c.coin) \o Many(c.amounts, Argument)
      [] c.kind = "merge"    -> Argument(c.destination) \o Many(c.sources, Argument)
      [] c.kind = "publish"  -> Many(c.modules, Module) \o Many(c.dependencies, Dependency)

\* The gas owner is the sender.
Gas(b) ==
  Many(b.payment, ObjectRef) \o << Fixed(AddressBytes(b.sender)), U64(b.price), U64(b.budget) >>

Programmable(b) == Many(b.inputs, CallArg) \o Many(b.commands, Command)

Expiration(b) == IF b.epoch = << >> THEN << Variant(0) >> ELSE << Variant(1), U64(b.epoch[1]) >>

TransactionData(b) ==
  << Variant(0), Variant(0) >> \o Programmable(b) \o << Fixed(AddressBytes(b.sender)) >>
    \o Gas(b) \o Expiration(b)

Serializable(fields) ==
  \A i \in DOMAIN fields : fields[i].value # Refused /\ InRange(fields[i])

Fresh == block = NoBlock /\ written = << >> /\ origin = "none" /\ last = "none"

Serialize(b) ==
  /\ Fresh /\ Serializable(TransactionData(b))
  /\ block' = b
  /\ written' = TransactionData(b)
  /\ buf' = EncodeAll(written')
  /\ last' = "ok"
  /\ UNCHANGED << origin, data, pos, got, todo, roles >>

\* ValueError of a name or a type, SerializationError of a number: the writers are dropped.
SerializeRaises(b) ==
  /\ Fresh /\ ~Serializable(TransactionData(b))
  /\ block' = b
  /\ last' = "out of range"
  /\ UNCHANGED << buf, written, origin, data, pos, got, todo, roles >>

-----------------------------------------------------------------------------
(* The blocks that a program can hold, with what their author means.       *)

Each(items, Is(_)) ==
  /\ Len(items) \in Nat /\ items = [i \in 1 .. Len(items) |-> items[i]]
  /\ \A i \in DOMAIN items : Is(items[i])
IsText(s) == s \in Seq(Nat)

IsRef(r) == IsText(r.id) /\ r.version \in Int /\ IsText(r.digest)

\* The meaning that pure() documents: what the hint says, or else what the value looks like.
IsPure(c) ==
  LET Typed(hint, if) == c.hint = hint \/ (c.hint = "none" /\ if)
      Meaning(kind, width, value) == c.meant = Val(kind, width, value)
  IN  CASE c.python \in {"bool", "int"} ->
             /\ IF c.python = "bool" THEN c.value \in BOOLEAN ELSE c.value \in Int
             /\ \/ Typed("bool", c.python = "bool") /\ Meaning("bool", 0, AsBool(c))
                \/ c.hint = "u16" /\ Meaning("uint", IndexWidth, AsInt(c))
                \/ Typed("u64", c.python = "int") /\ Meaning("uint", NumberWidth, AsInt(c))
        [] c.python = "bytes" ->
             c.value \in Seq(Byte) /\ Typed("bytes", TRUE) /\ Meaning("bytes", 0, c.value)
        [] c.python = "str" ->
             \/ /\ IsText(c.value) /\ Typed("address", Prefixed(c.value))
                /\ Meaning("address", 0, c.value)
             \/ /\ c.value \in Seq(Byte) /\ Typed("string", ~Prefixed(c.value))
                /\ Meaning("str", 0, c.value)

IsInput(c) ==
  CASE c.kind = "pure"   -> c.python \in {"bool", "int", "bytes", "str"} /\ IsPure(c)
    [] c.kind = "shared" -> IsText(c.id) /\ c.version \in Int /\ c.mutable \in BOOLEAN
    [] OTHER             -> c.kind \in {"owned", "receiving"} /\ IsRef(c)

IsArgument(a) == a.kind \in DOMAIN ArgumentKind /\ a.index \in Int /\ a.nested \in Int

\* A type argument that means a type is written as that type is; others are just texts.
IsTypeArgument(t) ==
  /\ IsText(t.text)
  /\ t.meant # << >> => \E i \in DOMAIN Types : t.meant = << i >> /\ t.text = Written(i)

IsCommand(c) ==
  CASE c.kind = "moveCall" -> /\ IsText(c.package) /\ IsText(c.module) /\ IsText(c.function)
                              /\ Each(c.types, IsTypeArgument) /\ Each(c.arguments, IsArgument)
    [] c.kind = "transfer" -> Each(c.objects, IsArgument) /\ IsArgument(c.recipient)
    [] c.kind = "split"    -> IsArgument(c.coin) /\ Each(c.amounts, IsArgument)
    [] c.kind = "merge"    -> IsArgument(c.destination) /\ Each(c.sources, IsArgument)
    [] OTHER -> /\ c.kind = "publish" /\ Each(c.modules, LAMBDA code : code \in Seq(Byte))
                /\ Each(c.dependencies, IsText)

IsBlock(b) ==
  /\ Each(b.inputs, IsInput) /\ Each(b.commands, IsCommand) /\ IsText(b.sender)
  /\ Each(b.payment, IsRef) /\ b.price \in Int /\ b.budget \in Int
  /\ Each(b.epoch, LAMBDA n : n \in Int) /\ Len(b.epoch) <= 1

\* A text is written as its UTF-8, for which it stands.
TextsInUtf8(fields) ==
  \A i \in DOMAIN fields : fields[i].kind = "str" => fields[i].value \in Seq(Byte) /\ fields[i].value \in Utf8

ASSUME BlocksAssumption == \A b \in Blocks : IsBlock(b) /\ TextsInUtf8(TransactionData(b))

-----------------------------------------------------------------------------
(* The node: its schema, as the layouts document it, and how it reads.     *)

Thing(shape, kind, width, of, role) ==
  [shape |-> shape, kind |-> kind, width |-> width, of |-> of, role |-> role]
Plain(kind, width, role) == Thing("plain", kind, width, "", role)
Vec(of)  == Thing("vec", "uleb", 0, of, "length")
Enum(of) == Thing("enum", "uleb", 0, of, of)

Id(role)     == Plain("fixed", AddressLength, role)
Number64(role) == Plain("uint", NumberWidth, role)
Index(role)  == Plain("uint", IndexWidth, role)
Name(role)   == Plain("str", 0, role)

RefThings == << Id("object"), Number64("version"), Plain("bytes", 0, "digest") >>

\* What follows each variant of an enum.
Variants(of, variant) ==
  LET Is(enum, n) == of = enum /\ variant = n IN
  CASE Is("TransactionData", 0) -> << Enum("TransactionKind"), Id("sender"), Vec("ObjectRef"), Id("owner"),
                                      Number64("price"), Number64("budget"), Enum("Expiration") >>
    [] Is("TransactionKind", 0) -> << Vec("CallArg"), Vec("Command") >>
    [] Is("CallArg", 0) -> << Plain("bytes", 0, "pure") >>
    [] Is("CallArg", 1) -> << Enum("ObjectArg") >>
    [] Is("ObjectArg", 0) \/ Is("ObjectArg", 2) -> RefThings
    [] Is("ObjectArg", 1) -> << Id("object"), Number64("version"), Plain("bool", 0, "mutable") >>
    [] Is("Command", 0) -> << Id("package"), Name("module"), Name("function"), Vec("TypeTag"), Vec("Argument") >>
    [] Is("Command", 1) -> << Vec("Argument"), Enum("Argument") >>
    [] Is("Command", 2) \/ Is("Command", 3) -> << Enum("Argument"), Vec("Argument") >>
    [] Is("Command", 4) -> << Vec("Module"), Vec("Dependency") >>
    [] Is("Argument", 1) \/ Is("Argument", 2) -> << Index("index") >>
    [] Is("Argument", 3) -> << Index("index"), Index("nested") >>
    [] Is("TypeTag", 6) -> << Enum("TypeTag") >>
    [] Is("TypeTag", 7) -> << Id("address"), Name("tag_module"), Name("tag_name"), Vec("TypeTag") >>
    [] Is("Expiration", 1) -> << Number64("epoch") >>
    [] Is("Argument", 0) \/ Is("TypeTag", 0) \/ Is("TypeTag", 1) \/ Is("Expiration", 0) -> << >>

Element(of) ==
  CASE of = "ObjectRef"  -> RefThings
    [] of = "Module"     -> << Plain("bytes", 0, "code") >>
    [] of = "Dependency" -> << Id("dependency") >>
    [] OTHER             -> << Enum(of) >>

\* What a thing that was read as value is followed by.
Below(thing, value) ==
  CASE thing.shape = "plain" -> << >>
    [] thing.shape = "vec"   -> FlattenSeq([i \in 1 .. value |-> Element(thing.of)])
    [] thing.shape = "enum"  -> Variants(thing.of, value)

NodeStarts ==
  /\ block # NoBlock /\ written # << >>
  /\ ReadWhole \/ ReadCut
  /\ todo' = << Enum("TransactionData") >>
  /\ UNCHANGED << block, roles >>

NodeReads ==
  /\ todo # << >>
  /\ ReadField(Field(Head(todo)))
  /\ todo' = Below(Head(todo), Last(got').value) \o Tail(todo)
  /\ roles' = Append(roles, Head(todo).role)
  /\ UNCHANGED block

NodeRaises == todo # << >> /\ ReadRaises(Field(Head(todo))) /\ UNCHANGED blockVars

BlockInit == Init /\ block = NoBlock /\ todo = << >> /\ roles = << >>

BlockNext ==
  \/ block = NoBlock /\ Next /\ UNCHANGED blockVars
  \/ \E b \in Blocks : Serialize(b) \/ SerializeRaises(b)
  \/ NodeStarts \/ NodeReads \/ NodeRaises

BlockSpec == BlockInit /\ [][BlockNext]_<< vars, blockVars >>

-----------------------------------------------------------------------------
(* Properties.                                                             *)

InAll(items, Part(_)) == FlattenSeq([i \in DOMAIN items |-> Part(items[i])])

\* What the author of a block means the node to see: values in their roles.
Fact(role, meant) == [role |-> role, meant |-> meant]

RefFacts(r) == << Fact("object", r.id), Fact("version", r.version), Fact("digest", r.digest) >>

InputFacts(c) ==
  CASE c.kind = "pure"   -> << Fact("pure", c.meant) >>
    [] c.kind = "shared" -> << Fact("ObjectArg", c.kind), Fact("object", c.id), Fact("version", c.version),
                               Fact("mutable", c.mutable) >>
    [] c.kind \in {"owned", "receiving"} -> << Fact("ObjectArg", c.kind) >> \o RefFacts(c)

ArgumentFacts(a) ==
  << Fact("Argument", a.kind) >> \o
    CASE a.kind = "gas"                 -> << >>
      [] a.kind \in {"input", "result"} -> << Fact("index", a.index) >>
      [] a.kind = "nested"              -> << Fact("index", a.index), Fact("nested", a.nested) >>

\* A type and the types in it, outermost and leftmost first.
TypeFacts(i) ==
  LET facts[j \in DOMAIN Types] == LET t == Types[j] IN
        << Fact("TypeTag", t.tag) >>
          \o (IF t.tag = "struct" THEN << Fact("address", t.address), Fact("tag_module", t.module),
                                          Fact("tag_name", t.name) >>
              ELSE << >>)
          \o FlattenSeq([k \in DOMAIN t.params |-> facts[t.params[k]]])
  IN  facts[i]

TypeArgumentFacts(t) == InAll(t.meant, TypeFacts)

CommandFacts(c) ==
  << Fact("Command", c.kind) >> \o
    CASE c.kind = "moveCall" ->
           << Fact("package", c.package), Fact("module", c.module), Fact("function", c.function) >>
             \o InAll(c.types, TypeArgumentFacts) \o InAll(c.arguments, ArgumentFacts)
      [] c.kind = "transfer" -> InAll(c.objects, ArgumentFacts) \o ArgumentFacts(c.recipient)
      [] c.kind = "split"    -> ArgumentFacts(c.coin) \o InAll(c.amounts, ArgumentFacts)
      [] c.kind = "merge"    -> ArgumentFacts(c.destination) \o InAll(c.sources, ArgumentFacts)
      [] c.kind = "publish"  -> InAll(c.modules, LAMBDA code : << Fact("code", code) >>)
                                  \o InAll(c.dependencies, LAMBDA id : << Fact("dependency", id) >>)

Meant(b) ==
  InAll(b.inputs, InputFacts) \o InAll(b.commands, CommandFacts) \o << Fact("sender", b.sender) >>
    \o InAll(b.payment, RefFacts) \o << Fact("owner", b.sender), Fact("price", b.price), Fact("budget", b.budget) >>
    \o InAll(b.epoch, LAMBDA n : << Fact("epoch", n) >>)

IdRoles == {"sender", "owner", "object", "package", "address", "dependency"}

\* An address is no longer than normalize_iota_address allows.
Named(fact) ==
  /\ fact.role \in IdRoles => NormalizeIotaAddress(fact.meant) # Refused
  /\ fact.role = "pure" /\ fact.meant.kind = "address" => NormalizeIotaAddress(fact.meant.value) # Refused

WellNamed(b) == LET facts == Meant(b) IN \A i \in DOMAIN facts : Named(facts[i])

\* Every type argument is one that its author could mean.
TypesMeant(c) == c.kind = "moveCall" => \A k \in DOMAIN c.types : c.types[k].meant # << >>
WellTyped(b) == \A i \in DOMAIN b.commands : TypesMeant(b.commands[i])

Fits(v) == IF v.kind = "address" THEN AddressBytes(v.value) # Refused ELSE InRange(v)

\* There is nothing wrong with a name or a number.
SoundFact(fact) ==
  /\ Named(fact)
  /\ CASE fact.role = "digest" -> Base58Decode(fact.meant) # Refused
       [] fact.role = "pure"   -> Fits(fact.meant)
       [] fact.role \in {"price", "budget", "epoch", "version"} -> fact.meant \in 0 .. UMax(NumberWidth)
       [] fact.role \in {"index", "nested"} -> fact.meant \in 0 .. UMax(IndexWidth)
       [] OTHER -> TRUE

Sound(b) == WellTyped(b) /\ LET facts == Meant(b) IN \A i \in DOMAIN facts : SoundFact(facts[i])

(* Only a block with something wrong in it is refused: a bad name, a type  *)
(* that is not one, a number that does not fit (bcs_types.py:219-546).     *)
SoundIsSerialized == (block # NoBlock /\ written = << >>) => ~Sound(block)

\* Every address that is written has the length that the node expects.
Aligned(b) == LET fields == TransactionData(b) IN
  \A i \in DOMAIN fields : fields[i].kind = "fixed" => fields[i].width = AddressLength

(* The node, which knows only the schema, expects at every point the field *)
(* that was written there, and nothing more when the bytes end: whatever   *)
(* the values, the counts and the types in a block (bcs_types.py:219-481). *)
SchemaFollowed ==
  (block # NoBlock /\ origin # "none" /\ Aligned(block)) =>
    IF Len(got) = Len(written) THEN todo = << >>
    ELSE todo # << >> /\ Field(Head(todo)) = Field(written[Len(got) + 1])

\* The roles in which the node reads nothing that the author said.
Structure == {"TransactionData", "TransactionKind", "CallArg", "Expiration", "length"}

\* What the node has read, but for the structure.
Seen == FlattenSeq([i \in DOMAIN roles |->
          IF roles[i] \in Structure THEN << >> ELSE << [role |-> roles[i], value |-> got[i].value] >>])

\* Whether the value the node read is what was meant.
Means(role, read, meant) ==
  CASE role \in IdRoles     -> Hex(read) = NormalizeIotaAddress(meant)
    [] role = "digest"      -> Base58Encode(read) = meant
    [] role = "pure"        ->
         CASE meant.kind = "address" -> Hex(read) = NormalizeIotaAddress(meant.value)
           [] meant.kind = "uint"    -> Len(read) = meant.width /\ Number(read, Base) = meant.value
           [] OTHER                  -> read = Encode(meant)
    [] role = "Argument"    -> read = ArgumentKind[meant]
    [] role = "ObjectArg"   -> read = ObjectArgKind[meant]
    [] role = "Command"     -> read = CommandKind[meant]
    [] role = "TypeTag"     -> read = TypeTagKind[meant]
    [] OTHER                -> read = meant

(* A node that has read a whole block sees what its author meant, value by *)
(* value: every id, digest, number and name in its role, arguments and     *)
(* type arguments in their order, nested types in their places.            *)
NodeSees ==
  (block # NoBlock /\ origin = "whole" /\ got = written /\ WellNamed(block) /\ WellTyped(block)) =>
    LET seen  == Seen
        facts == Meant(block)
    IN  /\ Len(seen) = Len(facts)
        /\ \A k \in DOMAIN seen : /\ seen[k].role = facts[k].role
                                  /\ Means(seen[k].role, seen[k].value, facts[k].meant)
=============================================================================
