------------------------------ MODULE TypeTags ------------------------------
(***************************************************************************)
(* The type tag parser (bcs_types.py): from the text of a Move type to the *)
(* fields that are written for it.  Each mark and each keyword is one      *)
(* character, for which the letters that are not hex digits stand.         *)
(***************************************************************************)
EXTENDS Names

CONSTANTS Colons, Less, Greater, Comma, Vector,  \* "::", "<", ">", ",", "vector"
          Bool, U8,                              \* "bool" and "u8", for all primitive types
          Letter,                                \* any letter
          Types                                  \* types that authors mean, each made of earlier ones

Marks == << Prefix, Space, Colons, Less, Greater, Comma, Vector, Bool, U8, Letter >>

TypeTagKind == [bool |-> 0, u8 |-> 1, vector |-> 6, struct |-> 7]

\* A type as its author means it.  The text pad is white space, which Move allows on both sides
\* of a type parameter; an identifier holds no mark.
ASSUME TypesAssumption ==
  /\ \A i \in DOMAIN Marks : Marks[i] \in Nat /\ \A j \in DOMAIN Marks : Marks[i] = Marks[j] => i = j
  /\ Types \in Seq([tag : DOMAIN TypeTagKind, address : Seq(Nat), module : Seq(Nat), name : Seq(Nat),
                    params : Seq(Nat), pad : Seq({Space})])
  /\ \A i \in DOMAIN Types : LET t == Types[i] IN
       /\ \A k \in DOMAIN t.params : t.params[k] \in 1 .. i - 1
       /\ t.tag = "vector" => Len(t.params) = 1 /\ t.pad = << >>
       /\ t.tag \in {"bool", "u8"} => t.params = << >>
       /\ \A text \in {t.address, t.module, t.name} : \A k \in DOMAIN text :
            text[k] \notin {Space, Colons, Less, Greater, Comma}

\* A value the BCS engine writes.
Val(kind, width, value) == [kind |-> kind, width |-> width, value |-> value]
Variant(n)  == Val("uleb", 0, n)
Length(s)   == Val("uleb", 0, Len(s))
Fixed(data) == Val("fixed", IF data = Refused THEN 0 ELSE Len(data), data)
Str(text)   == Val("str", 0, text)

\* Brackets opened and not closed before the i-th character; negative after too many ">".
Depth(s, i) ==
  LET depth[k \in 1 .. Len(s) + 1] ==
        IF k = 1 THEN 0
        ELSE depth[k - 1] + CASE s[k - 1] = Less    -> 1
                              [] s[k - 1] = Greater -> -1
                              [] OTHER              -> 0
  IN  depth[i]

\* What is between the places where s is cut.
Pieces(s, places) ==
  LET pieces[k \in 0 .. Len(s)] ==
        IF k = 0 THEN << << >> >>
        ELSE LET before == pieces[k - 1] IN
             IF k \in places THEN Append(before, << >>)
             ELSE Append(Front(before), Append(Last(before), s[k]))
  IN  pieces[Len(s)]

Strip(s) == LET dark == {i \in DOMAIN s : s[i] # Space}
            IN  IF dark = {} THEN << >> ELSE SubSeq(s, Min(dark), Max(dark))

StripAll(pieces) == [k \in DOMAIN pieces |-> Strip(pieces[k])]

\* Mutant: nested commas are taken for commas of the list.
SplitEveryComma(s) == StripAll(Pieces(s, {i \in DOMAIN s : s[i] = Comma}))

\* Only the last parameter may be empty: it is dropped.
SplitTypeParams(s) ==
  LET params == StripAll(Pieces(s, {i \in DOMAIN s : s[i] = Comma /\ Depth(s, i) = 0}))
  IN  IF Last(params) = << >> THEN Front(params) ELSE params

\* [:-1]: the last character, whatever it is; a keyword that loses one is another word.
WithoutLast(s) ==
  IF s # << >> /\ Last(s) \in {Prefix, Colons, Vector, Bool, U8}
    THEN Append(Front(s), Letter) ELSE SubSeq(s, 1, Len(s) - 1)

\* The first "<", or the end of a text without one.
Open(s) == Min({i \in DOMAIN s : s[i] = Less /\ Depth(s, i) = 0} \union {Len(s) + 1})

\* "0xADDR", "module" and "Name", if that is what the text before the "<" is made of.
StructName(s) == LET base == SubSeq(s, 1, Open(s) - 1)
                 IN  Pieces(base, {i \in DOMAIN base : base[i] = Colons})

StructParams(s) == LET inner == WithoutLast(SubSeq(s, Open(s) + 1, Len(s)))
                   IN  IF inner = << >> THEN << >> ELSE SplitTypeParams(inner)

StructTag(s) ==
  LET name == StructName(s) IN
  IF Len(name) # 3 THEN << Fixed(Refused) >>
  ELSE << Fixed(AddressBytes(name[1])), Str(name[2]), Str(name[3]), Length(StructParams(s)) >>

TagKind(s) ==
  CASE s = << Bool >> -> "bool"
    [] s = << U8 >>   -> "u8"
    [] Len(s) > 2 /\ s[1] = Vector /\ s[2] = Less /\ Last(s) = Greater -> "vector"
    [] OTHER -> "struct"

\* The texts of the types inside a type.
Inner(s) ==
  CASE TagKind(s) = "vector" -> << SubSeq(s, 3, Len(s) - 1) >>
    [] TagKind(s) = "struct" /\ Len(StructName(s)) = 3 -> StructParams(s)
    [] OTHER -> << >>

TypeTag(s) ==
  LET tag[t \in Seq(Nat)] == LET inner == Inner(t) IN
        << Variant(TypeTagKind[TagKind(t)]) >> \o (IF TagKind(t) = "struct" THEN StructTag(t) ELSE << >>)
          \o FlattenSeq([k \in DOMAIN inner |-> tag[inner[k]]])
  IN  tag[s]

-----------------------------------------------------------------------------
(* How a type is written.                                                  *)

Listed(texts, pad, n) == FlattenSeq([k \in 1 .. n |-> << Comma >> \o pad \o texts[k] \o pad])

\* A type, from the texts of the types it is made of.
WrittenOf(t, texts) ==
  CASE t.tag = "bool"   -> << Bool >>
    [] t.tag = "u8"     -> << U8 >>
    [] t.tag = "vector" -> << Vector, Less >> \o texts[1] \o << Greater >>
    [] t.tag = "struct" ->
         t.address \o << Colons >> \o t.module \o << Colons >> \o t.name \o
           IF t.params = << >> THEN << >>
           ELSE << Less >> \o Tail(Listed(texts, t.pad, Len(t.params))) \o << Greater >>

Written(i) ==
  LET text[j \in DOMAIN Types] ==
        WrittenOf(Types[j], [k \in DOMAIN Types[j].params |-> text[Types[j].params[k]]])
  IN  text[i]
=============================================================================
