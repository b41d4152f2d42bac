------------------------------- MODULE Names -------------------------------
(***************************************************************************)
(* How ids, addresses and digests are written: addresses in hex            *)
(* (bcs_types.py, types/common.py), digests in Base58 (base58.py).  A text *)
(* is a sequence of characters; the character of a digit is its value, and *)
(* "0x" is one character.  The program has AddressLength = 32, HexBase =   *)
(* 16 and Alphabet = 58, and a byte is two hex digits.                     *)
(***************************************************************************)
EXTENDS Integers, Sequences, FiniteSets, SequencesExt

CONSTANTS AddressLength, HexBase, Alphabet,
          Prefix,    \* the character that stands for "0x"
          Space,     \* any white space
          Refused    \* ValueError

ASSUME NamesAssumption ==
  /\ AddressLength \in Nat \ {0} /\ HexBase \in Nat \ {0, 1} /\ Alphabet \in Nat \ {0, 1}
  /\ {Prefix, Space} \subseteq Nat /\ Prefix >= HexBase /\ Space >= HexBase

Zeros(n) == [i \in 1 .. n |-> 0]

\* The number a digit string denotes, and the shortest digit string of a number.
Denoted(digits, base) ==
  LET number[k \in 0 .. Len(digits)] == IF k = 0 THEN 0 ELSE base * number[k - 1] + digits[k]
  IN  number[Len(digits)]

Shortest(n, base) ==
  LET digits[m \in Nat] == IF m = 0 THEN << >> ELSE Append(digits[m \div base], m % base)
  IN  digits[n]

LeadingZeros(s) == CHOOSE k \in 0 .. Len(s) : /\ \A i \in 1 .. k : s[i] = 0
                                              /\ k < Len(s) => s[k + 1] # 0

\* Mutant: leading '1's are digits like any other.
Base58DecodeNumber(text) ==
  IF \E i \in DOMAIN text : text[i] >= Alphabet THEN Refused
  ELSE Shortest(Denoted(text, Alphabet), HexBase * HexBase)

\* Each leading '1' is a zero byte, the rest a number.
Base58Decode(text) ==
  IF \E i \in DOMAIN text : text[i] >= Alphabet THEN Refused
  ELSE Zeros(LeadingZeros(text)) \o Shortest(Denoted(text, Alphabet), HexBase * HexBase)

Base58Encode(data) ==
  Zeros(LeadingZeros(data)) \o Shortest(Denoted(data, HexBase * HexBase), Alphabet)

\* removeprefix("0x").zfill(ADDRESS_LENGTH * 2): pads what is too short, keeps what is too long.
HexDigits(text) ==
  LET digits == IF text # << >> /\ Head(text) = Prefix THEN Tail(text) ELSE text
  IN  IF Len(digits) < 2 * AddressLength THEN Zeros(2 * AddressLength - Len(digits)) \o digits
                                         ELSE digits

\* bytes.fromhex: pairs of hex digits, and white space between the pairs.
FromHex(text) ==
  LET digits == FlattenSeq([i \in DOMAIN text |-> IF text[i] = Space THEN << >> ELSE << text[i] >>])
      Before(i) == Cardinality({j \in 1 .. i - 1 : text[j] # Space})
  IN  IF \/ Len(digits) % 2 = 1
         \/ \E i \in DOMAIN digits : digits[i] >= HexBase
         \/ \E i \in DOMAIN text : text[i] = Space /\ Before(i) % 2 = 1
        THEN Refused
      ELSE [i \in 1 .. Len(digits) \div 2 |-> HexBase * digits[2 * i - 1] + digits[2 * i]]

AddressBytes(text) == FromHex(HexDigits(text))

NormalizeIotaAddress(text) ==
  LET digits == HexDigits(text) IN
  IF Len(digits) > 2 * AddressLength \/ \E i \in DOMAIN digits : digits[i] >= HexBase
    THEN Refused ELSE << Prefix >> \o digits

\* An address as explorers and nodes print it.
Hex(bytes) ==
  << Prefix >> \o FlattenSeq([i \in DOMAIN bytes |-> << bytes[i] \div HexBase, bytes[i] % HexBase >>])
=============================================================================
