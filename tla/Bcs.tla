-------------------------------- MODULE Bcs --------------------------------
(***************************************************************************)
(* The BCS engine: a BcsWriter that accumulates the bytes of a sequence of  *)
(* fields, and a BcsReader that reads fields back from bytes that are the   *)
(* writer's, cut short, or anybody's.  BCS has no field names: the reader's *)
(* caller knows which field comes next.                                     *)
(*                                                                         *)
(* A byte has 2 * Half values and a ULEB128 digit Half; the program has     *)
(* Half = 128, widths 1, 2, 4, 8, 16 and 32, and MaxDigits = 10 (the shift  *)
(* grows by 7 and may not pass 63).  No definition depends on these values. *)
(***************************************************************************)
EXTENDS Integers, Sequences, SequencesExt

CONSTANTS Half,       \* 0x80: what a ULEB128 byte holds, and its continuation bit
          MaxDigits,  \* how many bytes read_uleb128 accepts
          Values,     \* the fields a program may write, refused ones included
          Utf8,       \* the byte strings that are some text's UTF-8
          Foreign,    \* bytes the writer did not make
          MaxFields   \* bound: fields written, and fields read of foreign bytes

Base == 2 * Half
Byte == 0 .. Base - 1

ASSUME BcsAssumption ==
  /\ Half \in Nat /\ Half > 1
  /\ MaxDigits \in Nat \ {0}
  /\ MaxFields \in Nat
  /\ Foreign \subseteq Seq(Byte)

\* A value and its field (what the reader must know): [kind, width, value].
\* A text stands for its UTF-8, which write_str and read_str convert to and from.
Field(v) == [kind |-> v.kind, width |-> v.width]

\* What a Python value of each kind is, in its range or not.
IsValue(v) ==
  /\ v = [kind |-> v.kind, width |-> v.width, value |-> v.value]
  /\ v.kind \in {"uint", "bool", "option", "uleb", "bytes", "str", "fixed"} /\ v.width \in Nat
  /\ CASE v.kind \in {"uint", "uleb"}   -> v.value \in Int
       [] v.kind \in {"bool", "option"} -> v.value \in BOOLEAN
       [] v.kind = "bytes"             -> v.value \in Seq(Byte)
       [] v.kind = "str"               -> v.value \in Seq(Byte) /\ v.value \in Utf8
       [] v.kind = "fixed"             -> v.value \in Seq(Byte) /\ v.width = Len(v.value)

ASSUME ValuesAssumption == \A v \in Values : IsValue(v)

VARIABLES
  buf,      \* BcsWriter._buf
  written,  \* history: the values written to it
  origin,   \* where the reader's bytes come from; "none" before there is a reader
  data,     \* BcsReader._data
  pos,      \* BcsReader._pos
  got,      \* history: the values read
  last      \* how the last call ended

vars == << buf, written, origin, data, pos, got, last >>

ReadErrors == {"overflow", "bad byte", "long uleb", "undecodable"}

-----------------------------------------------------------------------------
(* What is written. *)

UMax(width) ==
  LET max[k \in Nat] == IF k = 0 THEN 0 ELSE Base * max[k - 1] + (Base - 1) IN max[width]

\* Mutant: struct.pack with ">" for "<".
BigEndian(n, width) ==
  LET digits[k \in Nat] ==
        [m \in Nat |-> IF k = 0 THEN << >> ELSE Append(digits[k - 1][m \div Base], m % Base)]
  IN  digits[width][n]

LittleEndian(n, width) ==
  LET digits[k \in Nat] ==
        [m \in Nat |-> IF k = 0 THEN << >> ELSE << m % Base >> \o digits[k - 1][m \div Base]]
  IN  digits[width][n]

\* Mutant: `while value > 0x80`.
UlebLate(n) ==
  LET uleb[m \in Nat] ==
        IF m <= Half THEN << m >> ELSE << (m % Half) + Half >> \o uleb[m \div Half]
  IN  uleb[n]

\* While a digit is not the last it carries the continuation bit.
Uleb(n) ==
  LET uleb[m \in Nat] ==
        IF m < Half THEN << m >> ELSE << (m % Half) + Half >> \o uleb[m \div Half]
  IN  uleb[n]

InRange(v) == /\ v.kind = "uint" => v.value \in 0 .. UMax(v.width)
              /\ v.kind = "uleb" => v.value >= 0

Encode(v) ==
  CASE v.kind = "uint"              -> LittleEndian(v.value, v.width)
    [] v.kind \in {"bool", "option"} -> << IF v.value THEN 1 ELSE 0 >>
    [] v.kind = "uleb"              -> Uleb(v.value)
    [] v.kind \in {"bytes", "str"}   -> Uleb(Len(v.value)) \o v.value
    [] v.kind = "fixed"             -> v.value

EncodeAll(vs) ==
  LET upTo[k \in 0 .. Len(vs)] == IF k = 0 THEN << >> ELSE upTo[k - 1] \o Encode(vs[k])
  IN  upTo[Len(vs)]

-----------------------------------------------------------------------------
(* What is read: each read gives its value or an error, and the next pos. *)

Good(value, next) == [error |-> "none", value |-> value, next |-> next]
Bad(error, next)  == [error |-> error, value |-> << >>, next |-> next]
Then(r, Op(_))    == IF r.error = "none" THEN Op(r) ELSE r

\* The number a little-endian digit string denotes.
Number(digits, base) ==
  LET number[s \in Seq(Byte)] == IF s = << >> THEN 0 ELSE (Head(s) % base) + base * number[Tail(s)]
  IN  number[digits]

Take(n, at) == IF at + n > Len(data) THEN Bad("overflow", at)
                                     ELSE Good(SubSeq(data, at + 1, at + n), at + n)

\* Mutant: no _check; int.from_bytes makes do with the bytes there are.
ReadUintUnchecked(width) ==
  LET next == IF pos + width > Len(data) THEN Len(data) ELSE pos + width
  IN  Good(Number(SubSeq(data, pos + 1, next), Base), next)

ReadUint(width) == Then(Take(width, pos), LAMBDA t : Good(Number(t.value, Base), t.next))

\* Mutant: any byte but 0 is True.
ReadFlagTruthy == Then(Take(1, pos), LAMBDA t : Good(t.value[1] # 0, t.next))

ReadFlag ==
  Then(Take(1, pos), LAMBDA t : IF t.value[1] \in {0, 1} THEN Good(t.value[1] = 1, t.next)
                                                         ELSE Bad("bad byte", t.next))

\* The digits end at the first byte without a continuation bit.
ReadUleb ==
  LET ends == {k \in 1 .. MaxDigits : pos + k <= Len(data) /\ data[pos + k] < Half}
      size == Min(ends)
  IN  IF ends # {} THEN Good(Number(SubSeq(data, pos + 1, pos + size), Half), pos + size)
      ELSE IF pos + MaxDigits <= Len(data) THEN Bad("long uleb", pos + MaxDigits)
      ELSE Bad("overflow", Len(data))

\* Mutant: no _check of the length; a slice ends with the bytes, but _pos moves on.
ReadBytesUnchecked ==
  Then(ReadUleb, LAMBDA size :
         LET end == size.next + size.value
         IN  Good(SubSeq(data, size.next + 1, IF end > Len(data) THEN Len(data) ELSE end), end))

ReadBytes == Then(ReadUleb, LAMBDA size : Take(size.value, size.next))

ReadStr == Then(ReadBytes, LAMBDA t : IF t.value \in Utf8 THEN t ELSE Bad("undecodable", t.next))

Read(f) ==
  CASE f.kind = "uint"              -> ReadUint(f.width)
    [] f.kind \in {"bool", "option"} -> ReadFlag
    [] f.kind = "uleb"              -> ReadUleb
    [] f.kind = "bytes"             -> ReadBytes
    [] f.kind = "str"               -> ReadStr
    [] f.kind = "fixed"             -> Take(f.width, pos)

-----------------------------------------------------------------------------
(* The calls. *)

Init ==
  /\ buf = << >> /\ written = << >> /\ origin = "none"
  /\ data = << >> /\ pos = 0 /\ got = << >> /\ last = "none"

Writing == origin = "none" /\ Len(written) < MaxFields

Write(v) ==
  /\ Writing /\ InRange(v)
  /\ buf' = buf \o Encode(v)
  /\ written' = Append(written, v)
  /\ last' = "ok"
  /\ UNCHANGED << origin, data, pos, got >>

\* The range check comes before the bytes: the writer can still be used.
WriteRaises(v) ==
  /\ Writing /\ ~InRange(v)
  /\ last' = "out of range"
  /\ UNCHANGED << buf, written, origin, data, pos, got >>

NewReader(from, bytes) ==
  /\ origin = "none"
  /\ origin' = from /\ data' = bytes /\ last' = "none"
  /\ UNCHANGED << buf, written, pos, got >>

\* What came after the writer: all of finish(), a proper prefix of it, or other bytes.
ReadWhole == NewReader("whole", buf)
ReadCut == \E n \in 0 .. Len(buf) - 1 : NewReader("cut", SubSeq(buf, 1, n))
ReadForeign == /\ written = << >>
               /\ \E bytes \in Foreign : NewReader("foreign", bytes)

\* The caller reads the fields that were written, or of foreign bytes what it likes, and
\* stops at the first SerializationError.
Expects(f) ==
  /\ origin # "none" /\ last \notin ReadErrors
  /\ IF origin = "foreign" THEN Len(got) < MaxFields
     ELSE Len(got) < Len(written) /\ f = Field(written[Len(got) + 1])

ReadField(f) ==
  /\ Expects(f)
  /\ LET r == Read(f) IN
       /\ r.error = "none"
       /\ got' = Append(got, [kind |-> f.kind, width |-> f.width, value |-> r.value])
       /\ pos' = r.next
  /\ last' = "ok"
  /\ UNCHANGED << buf, written, origin, data >>

ReadRaises(f) ==
  /\ Expects(f)
  /\ LET r == Read(f) IN
       /\ r.error # "none"
       /\ last' = r.error
       /\ pos' = r.next
  /\ UNCHANGED << buf, written, origin, data, got >>

Next ==
  \/ \E v \in Values : Write(v) \/ WriteRaises(v)
  \/ ReadWhole \/ ReadCut \/ ReadForeign
  \/ \E v \in Values : ReadField(Field(v)) \/ ReadRaises(Field(v))

Spec == Init /\ [][Next]_vars

-----------------------------------------------------------------------------
(* Properties. *)

\* The writer's history is of values it accepts, and _pos never passes the end of the bytes.
TypeOK ==
  /\ buf \in Seq(Byte) /\ data \in Seq(Byte)
  /\ \A i \in DOMAIN written : InRange(written[i])
  /\ origin \in {"none", "whole", "cut", "foreign"}
  /\ pos \in 0 .. Len(data)
  /\ last \in {"none", "ok", "out of range"} \union ReadErrors

\* What the reader returns of the writer's bytes, whole or cut short, is what was written, in
\* order: no field is mistaken for its neighbour and no half of a value is returned.
ReadsBack == origin \in {"whole", "cut"} => IsPrefix(got, written)

Counted(v) == v.kind \in {"uleb", "bytes", "str"}
Count(v)   == IF v.kind = "uleb" THEN v.value ELSE Len(v.value)

\* The writer's own bytes, when they hold no ULEB128 of more than MaxDigits bytes, are read to
\* their end without an error: each write_* leaves exactly what its read_* wants.
WholeIsRead ==
  (/\ origin = "whole"
   /\ \A i \in DOMAIN written : Counted(written[i]) => Len(Uleb(Count(written[i]))) <= MaxDigits)
  => /\ last \notin ReadErrors
     /\ got = written => pos = Len(data)

\* Bytes that lost their tail are never read as a complete value: some read raises.
CutIsNoticed == origin = "cut" => got # written

\* The bytes the reader accepts from anybody are the encoding of what it returns, except where a
\* ULEB128 carries needless digits: then they are longer than that encoding.
AcceptsEncodings ==
  (origin = "foreign" /\ last \notin ReadErrors) =>
     LET again == EncodeAll(got) IN
       \/ again = SubSeq(data, 1, pos)
       \/ Len(again) < pos
=============================================================================
