---------------------------- MODULE MCBlockBytes ----------------------------
(***************************************************************************)
(* Bytes of four bits, ULEB128 digits of three and hex digits of two, so   *)
(* that a byte is two hex digits: every boundary of a width, of a digit    *)
(* and of a length is a small number.  Addresses have one byte.            *)
(***************************************************************************)
EXTENDS BlockBytes

\* The single values.  15 begins a character of two bytes, 14 ends it.
AllOf(kind, width, values) == {Val(kind, width, x) : x \in values}
Strings(bytes, n) == UNION {[1 .. k -> bytes] : k \in 0 .. n}

MCUtf8 == {s \in Seq(Byte) : \A i \in 1 .. Len(s) + 1 :
             (i > 1 /\ s[i - 1] = 15) <=> (i <= Len(s) /\ s[i] = 14)}

MCValues ==
  AllOf("uint", 1, {-1, 0, 1, 15, 16}) \union AllOf("uint", 2, {-1, 0, 1, 16, 18, 255, 256})
    \union AllOf("bool", 0, BOOLEAN) \union AllOf("option", 0, BOOLEAN)
    \union AllOf("uleb", 0, {-1, 0, 7, 8, 9, 63, 64})
    \union AllOf("bytes", 0, {<< >>, << 15 >>, << 0, 1 >>, [i \in 1 .. 8 |-> 8]})
    \union AllOf("str", 0, {<< >>, << 1 >>, << 15, 14 >>})
    \union AllOf("fixed", 0, {<< >>}) \union AllOf("fixed", 2, {<< 1, 9 >>, << 8, 0 >>})

MCForeign == Strings({0, 1, 2, 9, 15}, 4)

-----------------------------------------------------------------------------
(* The blocks: a plain one, and others that differ from it in one part.    *)

mm == << Letter >>
nn == << Letter, Letter >>

\* Short, full, empty; too long, of an odd length and not hex.
Address1 == << Prefix, 2 >>
Address2 == << 3, 1 >>
Address3 == << Prefix >>
BadAddresses == {<< Prefix, 0, 0, 0, 1 >>, << 3, 1, Space >>, << 3, Space, 1 >>, << 1, 2, 3 >>, << Prefix, Letter >>}

\* Base58 with leading zeros, of two bytes, empty, and refused.
Digests == {<< 0, 0, 2 >>, << 1, 2, 1 >>, << >>, << 3 >>}

Ref(id, version, digest) == [kind |-> "owned", id |-> id, version |-> version, digest |-> digest]
Ref1 == Ref(Address1, 17, << 0, 1 >>)
Ref2 == Ref(Address2, 3, << 2 >>)

Arg(kind, index, nested) == [kind |-> kind, index |-> index, nested |-> nested]
Arg1 == Arg("input", 9, 0)
Arg2 == Arg("nested", 1, 15)

\* Types as authors think of them, and as a table in which each comes behind its parts.
Of0(tag) == [tag |-> tag, address |-> << >>, module |-> << >>, name |-> << >>, params |-> << >>, pad |-> << >>]
VectorOf(i) == [Of0("vector") EXCEPT !.params = << i >>]
Struct(address, name, params, pad) ==
  [tag |-> "struct", address |-> address, module |-> mm, name |-> name, params |-> params, pad |-> pad]

MCTypes ==
  << Of0("bool"), Of0("u8"), VectorOf(2), VectorOf(1),   \* 1 to 4
     Struct(Address1, nn, << >>, << >>),                 \* 5
     Struct(Address2, mm, << 1, 2 >>, << >>),            \* 6
     Struct(Address1, nn, << 2 >>, << >>), VectorOf(7),  \* 8
     Struct(Address3, mm, << 6, 8 >>, << >>),            \* 9
     Struct(Address2, mm, << 1, 2 >>, << Space >>),      \* 10: white space in "T1, T2"
     Struct(Address1, nn, << 2 >>, << Space >>), VectorOf(11),
     Struct(Address3, mm, << 10, 12 >>, << Space, Space >>),
     Struct(Address1, nn, << 6 >>, << >>),               \* 14, 16: those that are damaged
     Struct(Address2, nn, << >>, << >>), Struct(Address1, nn, << 15 >>, << >>) >>
TypeArg(i) == [text |-> Written(i), meant |-> << i >>]

\* Texts that lack a character, or have a mark too many.
Damaged(s) ==
  {SubSeq(s, 1, i - 1) \o SubSeq(s, i + 1, Len(s)) : i \in DOMAIN s}
  \union {SubSeq(s, 1, i - 1) \o << c >> \o SubSeq(s, i, Len(s)) :
            i \in 1 .. Len(s) + 1, c \in {Colons, Less, Greater, Comma, Space}}
BrokenTypes == Damaged(Written(14)) \union Damaged(Written(16))
BrokenArg(s) == [text |-> s, meant |-> << >>]

Block0 == [inputs |-> << >>, commands |-> << >>, sender |-> Address1, payment |-> << Ref1 >>,
           price |-> 3, budget |-> 16, epoch |-> << >>]

MoveCall(types) ==
  [kind |-> "moveCall", package |-> Address2, module |-> mm, function |-> nn, types |-> types,
   arguments |-> << Arg1, Arg2 >>]

Pure(python, value, hint, meant) ==
  [kind |-> "pure", python |-> python, value |-> value, hint |-> hint, meant |-> meant]

Inputs ==
  {Ref1, [Ref2 EXCEPT !.kind = "receiving"],
   [kind |-> "shared", id |-> Address2, version |-> 2, mutable |-> TRUE],
   [kind |-> "shared", id |-> Address3, version |-> 0, mutable |-> FALSE]}
  \union {Pure("bytes", [i \in 1 .. 8 |-> 8], "none", Val("bytes", 0, [i \in 1 .. 8 |-> 8])),
          Pure("str", nn, "none", Val("str", 0, nn)), Pure("bool", TRUE, "none", Val("bool", 0, TRUE)),
          Pure("int", 18, "none", Val("uint", 2, 18)), Pure("str", Address2, "address", Val("address", 0, Address2))}

\* The others, each a block of its own: the inference, the hints, and what does not fit.
Pures ==
  {Pure("str", Address1, "none", Val("address", 0, Address1)),
   Pure("str", Address1, "string", Val("str", 0, Address1)), Pure("str", << >>, "none", Val("str", 0, << >>)),
   Pure("bool", TRUE, "u16", Val("uint", 1, 1)), Pure("int", 2, "bool", Val("bool", 0, TRUE))}
  \union {Pure("int", n, "none", Val("uint", 2, n)) : n \in {-1, 0, 255, 256}}
  \union {Pure("int", n, "u16", Val("uint", 1, n)) : n \in {15, 16}}
  \union {Pure("str", a, "address", Val("address", 0, a)) : a \in BadAddresses}

Commands ==
  {MoveCall(<< >>), MoveCall(<< TypeArg(2), TypeArg(4) >>),
   [kind |-> "transfer", objects |-> << Arg1, Arg("result", 2, 0) >>, recipient |-> Arg2],
   [kind |-> "split", coin |-> Arg("gas", 0, 0), amounts |-> [i \in 1 .. 9 |-> Arg1]],
   [kind |-> "merge", destination |-> Arg2, sources |-> << Arg1, Arg("gas", 0, 0) >>],
   [kind |-> "publish", modules |-> << << 1, 2 >>, << >> >>, dependencies |-> << Address1, Address2 >>]}
  \union {MoveCall(<< TypeArg(i) >>) : i \in {1, 3, 5, 9, 10, 12, 13}}
  \union {MoveCall(<< BrokenArg(s) >>) : s \in BrokenTypes}
  \union {[kind |-> "merge", destination |-> Arg1, sources |-> << a >>] :
            a \in {Arg("input", 16, 0), Arg("nested", 0, 16)}}

MCBlocks ==
  {[Block0 EXCEPT !.inputs = << i, j >>] : i, j \in Inputs}
  \union {[Block0 EXCEPT !.inputs = << p, Ref1 >>] : p \in Pures}
  \union {[Block0 EXCEPT !.inputs = << Ref1 >>, !.commands = << c >>] : c \in Commands}
  \union {[Block0 EXCEPT !.commands = << c, MoveCall(<< TypeArg(6) >>) >>] : c \in
            {d \in Commands : d.kind # "moveCall"}}
  \union {[Block0 EXCEPT !.sender = a] : a \in {Address2, Address3} \union BadAddresses}
  \union {[Block0 EXCEPT !.payment = << Ref(Address2, 1, d), Ref2 >>] : d \in Digests}
  \union {[Block0 EXCEPT !.epoch = e] : e \in {<< 0 >>, << 255 >>}}
  \union {[Block0 EXCEPT !.price = n] : n \in {0, 255, 256}}
  \union {[Block0 EXCEPT !.payment = << >>, !.budget = 256]}
=============================================================================
