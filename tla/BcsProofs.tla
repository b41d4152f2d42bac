----------------------------- MODULE BcsProofs -----------------------------
(***************************************************************************)
(* Theorems of Bcs, for every size of a byte and of a digit, every limit   *)
(* of digits, every set of values and any bytes of others.                 *)
(*                                                                         *)
(* The recursive definitions come first: that there are functions that     *)
(* obey them (RecursionOnRank), and by induction what they compute - that  *)
(* LittleEndian and Uleb write what Number reads, and the other way round  *)
(* that they write again what was read, but for needless digits.  Then     *)
(* what a read makes of any bytes (ReadAny) and of the bytes of the field  *)
(* asked for, all there or not (ReadOwn).  The invariant adds where the    *)
(* reader stands: behind the bytes of the values that it has returned.     *)
(***************************************************************************)
EXTENDS Bcs, NaturalFacts, SequenceTheorems, TLAPS

\* The sizes of a byte and of a digit.
LEMMA BaseFacts ==
  /\ Base \in Nat /\ Base > 1 /\ Half \in Nat /\ Half > 1
  /\ Byte = 0 .. Base - 1 /\ Base = 2 * Half
  BY BcsAssumption DEF Base, Byte

\* A byte put before others.
LEMMA OneByteThen ==
  ASSUME NEW d \in Byte, NEW s \in Seq(Byte)
  PROVE  /\ << d >> \in Seq(Byte) /\ Len(<< d >>) = 1
         /\ << d >> \o s \in Seq(Byte)
         /\ Len(<< d >> \o s) = 1 + Len(s)
         /\ << d >> \o s # << >>
         /\ Head(<< d >> \o s) = d
         /\ Tail(<< d >> \o s) = s
  <1>1. << d >> \in Seq(Byte) /\ Len(<< d >>) = 1 /\ << d >>[1] = d
    OBVIOUS
  <1>2. /\ << d >> \o s \in Seq(Byte) /\ Len(<< d >> \o s) = 1 + Len(s)
        /\ \A i \in 1 .. 1 + Len(s) : (<< d >> \o s)[i] = IF i <= 1 THEN << d >>[i] ELSE s[i - 1]
    BY <1>1, ConcatProperties
  <1>3. Len(s) \in Nat
    OBVIOUS
  <1>4. << d >> \o s # << >>
    BY <1>2, <1>3
  <1>5. Head(<< d >> \o s) = d
    BY <1>1, <1>2, <1>3, <1>4
  <1>6. /\ Tail(<< d >> \o s) \in Seq(Byte) /\ Len(Tail(<< d >> \o s)) = Len(s)
        /\ \A i \in 1 .. Len(s) : Tail(<< d >> \o s)[i] = (<< d >> \o s)[i + 1]
    BY <1>2, <1>3, <1>4, HeadTailProperties
  <1>7. \A i \in 1 .. Len(s) : Tail(<< d >> \o s)[i] = s[i]
    BY <1>2, <1>3, <1>6
  <1>8. Tail(<< d >> \o s) = s
    BY <1>6, <1>7, SeqEqual
  <1> QED
    BY <1>1, <1>2, <1>4, <1>5, <1>8

\* Uleb obeys its recursive definition, and gives bytes.
LEMMA UlebRecursion ==
  ASSUME NEW n \in Nat
  PROVE  /\ Uleb(n) = IF n < Half THEN << n >> ELSE << (n % Half) + Half >> \o Uleb(n \div Half)
         /\ Uleb(n) \in Seq(Byte)
  <1> DEFINE Eq(f) == f = [m \in Nat |-> IF m < Half THEN << m >>
                                         ELSE << (m % Half) + Half >> \o f[m \div Half]]
             F == CHOOSE f : Eq(f)
  <1>0. /\ \A m \in Nat : m < Half => m \in Byte
        /\ \A m \in Nat : (m % Half) + Half \in Byte
        /\ \A m \in Nat : m \div Half \in Nat
        /\ \A m \in Nat : ~(m < Half) => m \div Half < m
    BY BaseFacts
  <1>cons. \A m \in Nat, s \in Seq(Byte) : << (m % Half) + Half >> \o s \in Seq(Byte)
    BY <1>0, OneByteThen
  <1>1. \E f : Eq(f)
    <2> DEFINE Stop == {m \in Nat : m < Half}
               rank == [m \in Nat |-> m]
               down == [m \in Nat \ Stop |-> m \div Half]
               first == [m \in Stop |-> << m >>]
               step == [p \in (Nat \ Stop) \X Seq(Byte) |-> << (p[1] % Half) + Half >> \o p[2]]
    <2>1. /\ rank \in [Nat -> Nat] /\ Stop \in SUBSET Nat /\ down \in [Nat \ Stop -> Nat]
          /\ \A x \in Nat \ Stop : rank[down[x]] < rank[x]
          /\ first \in [Stop -> Seq(Byte)]
      BY <1>0
    <2>2. step \in [(Nat \ Stop) \X Seq(Byte) -> Seq(Byte)]
      BY <1>cons
    <2>3. Descends(Nat, Seq(Byte), rank, Stop, down, first, step)
      <3> HIDE DEF rank, Stop, down, first, step
      <3> QED
        BY <2>1, <2>2 DEF Descends
    <2>4. PICK f \in [Nat -> Seq(Byte)] : Recurs(f, Nat, Stop, down, first, step)
      <3> HIDE DEF rank, Stop, down, first, step
      <3> QED
        BY <2>3, RecursionOnRank
    <2>5. ASSUME NEW x \in Nat
          PROVE  f[x] = IF x < Half THEN << x >> ELSE << (x % Half) + Half >> \o f[x \div Half]
      <3>1. f[x] = IF x \in Stop THEN first[x] ELSE step[<<x, f[down[x]]>>]
        BY <2>4 DEF Recurs
      <3>2. x \in Stop <=> x < Half
        OBVIOUS
      <3>3. x \in Stop => first[x] = << x >>
        OBVIOUS
      <3>4. ASSUME x \notin Stop
            PROVE  step[<<x, f[down[x]]>>] = << (x % Half) + Half >> \o f[x \div Half]
        <4>1. down[x] = x \div Half /\ f[x \div Half] \in Seq(Byte)
          BY <1>0, <2>4, <3>4
        <4> QED
          BY <3>4, <4>1
      <3> HIDE DEF Stop, first, down, step
      <3> QED
        BY <3>1, <3>2, <3>3, <3>4
    <2> QED
      BY <2>4, <2>5
  <1>2. Eq(F)
    <2> HIDE DEF Eq
    <2> QED
      BY <1>1
  <1>3. \A m \in Nat : Uleb(m) = F[m]
    BY DEF Uleb
  <1> HIDE DEF F
  <1>4. \A m \in Nat : F[m] = IF m < Half THEN << m >> ELSE << (m % Half) + Half >> \o F[m \div Half]
    BY <1>2
  <1>5. \A m \in Nat : F[m] \in Seq(Byte)
    <2> DEFINE T == {m \in Nat : F[m] \notin Seq(Byte)}
    <2> SUFFICES ASSUME T # {} PROVE FALSE
      OBVIOUS
    <2>1. PICK m \in T : \A k \in T : m <= k
      <3>1. T \subseteq Nat
        OBVIOUS
      <3> HIDE DEF T
      <3> QED
        BY <3>1, LeastNatural
    <2>2. m \in Nat /\ F[m] \notin Seq(Byte) /\ \A k \in Nat : k < m => F[k] \in Seq(Byte)
      BY <2>1
    <2>3. ~(m < Half) => F[m \div Half] \in Seq(Byte)
      BY <1>0, <2>2
    <2>4. CASE m < Half
      <3>1. F[m] = << m >> /\ m \in Byte
        BY <1>0, <1>4, <2>2, <2>4
      <3> QED
        BY <3>1, <2>2
    <2>5. CASE ~(m < Half)
      <3>1. F[m] = << (m % Half) + Half >> \o F[m \div Half]
        BY <1>4, <2>2, <2>5
      <3>2. << (m % Half) + Half >> \o F[m \div Half] \in Seq(Byte)
        BY <1>cons, <2>2, <2>3, <2>5
      <3> QED
        BY <3>1, <3>2, <2>2
    <2> QED
      BY <2>4, <2>5
  <1> QED
    BY <1>0, <1>3, <1>4, <1>5

\* Number obeys its recursive definition, and gives a number.
LEMMA NumberRecursion ==
  ASSUME NEW base \in Nat, base > 0
  PROVE  /\ Number(<< >>, base) = 0
         /\ \A s \in Seq(Byte) : Number(s, base) \in Nat
         /\ \A s \in Seq(Byte) : s # << >> =>
              Number(s, base) = (Head(s) % base) + base * Number(Tail(s), base)
  <1> DEFINE Eq(f) == f = [s \in Seq(Byte) |-> IF s = << >> THEN 0
                                               ELSE (Head(s) % base) + base * f[Tail(s)]]
             F == CHOOSE f : Eq(f)
  <1>0. /\ << >> \in Seq(Byte)
        /\ \A s \in Seq(Byte) : Len(s) \in Nat
        /\ \A s \in Seq(Byte) : s # << >> => Head(s) \in Byte /\ Tail(s) \in Seq(Byte) /\ Len(Tail(s)) = Len(s) - 1
    BY EmptySeq, LenProperties, HeadTailProperties
  <1>cons. \A d \in Byte, n \in Nat : (d % base) + base * n \in Nat
    <2> SUFFICES ASSUME NEW d \in Byte, NEW n \in Nat PROVE (d % base) + base * n \in Nat
      OBVIOUS
    <2>1. d \in Nat
      BY BaseFacts
    <2>2. d % base \in Nat
      BY <2>1
    <2>3. base * n \in Nat
      OBVIOUS
    <2> QED
      BY <2>2, <2>3
  <1>1. \E f : Eq(f)
    <2> DEFINE D == Seq(Byte)
               Stop == {<< >>}
               rank == [s \in D |-> Len(s)]
               down == [s \in D \ Stop |-> Tail(s)]
               first == [s \in Stop |-> 0]
               step == [p \in (D \ Stop) \X Nat |-> (Head(p[1]) % base) + base * p[2]]
    <2>1. /\ rank \in [D -> Nat] /\ Stop \in SUBSET D /\ down \in [D \ Stop -> D]
          /\ \A x \in D \ Stop : rank[down[x]] < rank[x]
          /\ first \in [Stop -> Nat]
      BY <1>0
    <2>2. step \in [(D \ Stop) \X Nat -> Nat]
      BY <1>0, <1>cons
    <2>3. Descends(D, Nat, rank, Stop, down, first, step)
      <3> HIDE DEF D, rank, Stop, down, first, step
      <3> QED
        BY <2>1, <2>2 DEF Descends
    <2>4. PICK f \in [D -> Nat] : Recurs(f, D, Stop, down, first, step)
      <3> HIDE DEF D, rank, Stop, down, first, step
      <3> QED
        BY <2>3, RecursionOnRank
    <2>5. ASSUME NEW x \in D
          PROVE  f[x] = IF x = << >> THEN 0 ELSE (Head(x) % base) + base * f[Tail(x)]
      <3>1. f[x] = IF x \in Stop THEN first[x] ELSE step[<<x, f[down[x]]>>]
        BY <2>4 DEF Recurs
      <3>2. x = << >> => first[x] = 0
        OBVIOUS
      <3>3. ASSUME x # << >>
            PROVE  step[<<x, f[down[x]]>>] = (Head(x) % base) + base * f[Tail(x)]
        <4>1. down[x] = Tail(x) /\ f[Tail(x)] \in Nat
          BY <1>0, <2>4, <3>3
        <4> QED
          BY <3>3, <4>1
      <3> HIDE DEF first, down, step
      <3> QED
        BY <3>1, <3>2, <3>3
    <2> QED
      BY <2>4, <2>5
  <1>2. Eq(F)
    <2> HIDE DEF Eq
    <2> QED
      BY <1>1
  <1>3. \A s \in Seq(Byte) : Number(s, base) = F[s]
    BY DEF Number
  <1> HIDE DEF F
  <1>4. \A s \in Seq(Byte) : F[s] = IF s = << >> THEN 0 ELSE (Head(s) % base) + base * F[Tail(s)]
    BY <1>2
  <1>5. ASSUME NEW t \in Seq(Byte), F[t] \notin Nat PROVE FALSE
    <2> DEFINE T == {Len(s) : s \in {u \in Seq(Byte) : F[u] \notin Nat}}
    <2>1. T # {} /\ T \subseteq Nat
      BY <1>0, <1>5
    <2>2. PICK m \in T : \A k \in T : m <= k
      <3> HIDE DEF T
      <3> QED
        BY <2>1, LeastNatural
    <2>3. PICK s \in Seq(Byte) : F[s] \notin Nat /\ Len(s) = m
      BY <2>2
    <2>4. s # << >>
      BY <1>0, <1>4, <2>3
    <2>5. Tail(s) \in Seq(Byte) /\ Len(Tail(s)) = Len(s) - 1 /\ Len(s) \in Nat
      BY <1>0, <2>4
    <2>6. F[Tail(s)] \in Nat
      <3>1. ASSUME F[Tail(s)] \notin Nat PROVE Len(Tail(s)) \in T
        BY <2>5, <3>1
      <3> HIDE DEF T
      <3> QED
        BY <2>2, <2>3, <2>5, <3>1
    <2> QED
      BY <1>0, <1>cons, <1>4, <2>3, <2>4, <2>6
  <1> QED
    BY <1>0, <1>3, <1>4, <1>5

\* UMax obeys its recursive definition.
LEMMA UMaxRecursion ==
  /\ UMax(0) = 0
  /\ \A w \in Nat : UMax(w) \in Nat
  /\ \A w \in Nat \ {0} : UMax(w) = Base * UMax(w - 1) + (Base - 1)
  <1> DEFINE Eq(f) == f = [k \in Nat |-> IF k = 0 THEN 0 ELSE Base * f[k - 1] + (Base - 1)]
             F == CHOOSE f : Eq(f)
  <1>cons. \A n \in Nat : Base * n + (Base - 1) \in Nat
    BY BaseFacts
  <1>1. \E f : Eq(f)
    <2> DEFINE Stop == {0}
               rank == [k \in Nat |-> k]
               down == [k \in Nat \ Stop |-> k - 1]
               first == [k \in Stop |-> 0]
               step == [p \in (Nat \ Stop) \X Nat |-> Base * p[2] + (Base - 1)]
    <2>1. /\ rank \in [Nat -> Nat] /\ Stop \in SUBSET Nat /\ down \in [Nat \ Stop -> Nat]
          /\ \A x \in Nat \ Stop : rank[down[x]] < rank[x]
          /\ first \in [Stop -> Nat]
      OBVIOUS
    <2>2. step \in [(Nat \ Stop) \X Nat -> Nat]
      BY <1>cons
    <2>3. Descends(Nat, Nat, rank, Stop, down, first, step)
      <3> HIDE DEF rank, Stop, down, first, step
      <3> QED
        BY <2>1, <2>2 DEF Descends
    <2>4. PICK f \in [Nat -> Nat] : Recurs(f, Nat, Stop, down, first, step)
      <3> HIDE DEF rank, Stop, down, first, step
      <3> QED
        BY <2>3, RecursionOnRank
    <2>5. ASSUME NEW x \in Nat
          PROVE  f[x] = IF x = 0 THEN 0 ELSE Base * f[x - 1] + (Base - 1)
      <3>1. f[x] = IF x \in Stop THEN first[x] ELSE step[<<x, f[down[x]]>>]
        BY <2>4 DEF Recurs
      <3>2. ASSUME x # 0
            PROVE  step[<<x, f[down[x]]>>] = Base * f[x - 1] + (Base - 1)
        <4>1. down[x] = x - 1 /\ f[x - 1] \in Nat
          BY <2>4, <3>2
        <4> QED
          BY <3>2, <4>1
      <3> QED
        BY <3>1, <3>2
    <2> QED
      BY <2>4, <2>5
  <1>2. Eq(F)
    <2> HIDE DEF Eq
    <2> QED
      BY <1>1
  <1>3. \A k \in Nat : UMax(k) = F[k]
    BY DEF UMax
  <1> HIDE DEF F
  <1>4. \A k \in Nat : F[k] = IF k = 0 THEN 0 ELSE Base * F[k - 1] + (Base - 1)
    BY <1>2
  <1>5. \A k \in Nat : F[k] \in Nat
    <2> DEFINE S == {k \in Nat : F[k] \in Nat}
    <2>1. 0 \in S
      BY <1>4
    <2>2. ASSUME NEW n \in Nat, n \in S PROVE n + 1 \in S
      <3>1. F[n + 1] = Base * F[n] + (Base - 1)
        BY <1>4
      <3> QED
        BY <1>cons, <2>2, <3>1
    <2>3. Nat \subseteq S
      <3> HIDE DEF S
      <3> QED
        BY <2>1, <2>2, NaturalsByInduction
    <2> QED
      BY <2>3
  <1> QED
    BY <1>3, <1>4, <1>5

\* LittleEndian obeys its recursive definition, and gives as many bytes as the width says.
LEMMA LittleEndianRecursion ==
  /\ \A n \in Nat : LittleEndian(n, 0) = << >>
  /\ \A n \in Nat, w \in Nat : LittleEndian(n, w) \in Seq(Byte) /\ Len(LittleEndian(n, w)) = w
  /\ \A n \in Nat, w \in Nat \ {0} :
       LittleEndian(n, w) = << n % Base >> \o LittleEndian(n \div Base, w - 1)
  <1> DEFINE X == [Nat -> Seq(Byte)]
             Row(f, k) == [m \in Nat |-> IF k = 0 THEN << >>
                                         ELSE << m % Base >> \o f[k - 1][m \div Base]]
             Eq(f) == f = [k \in Nat |-> Row(f, k)]
             F == CHOOSE f : Eq(f)
  <1>0. \A m \in Nat : m % Base \in Byte /\ m \div Base \in Nat
    BY BaseFacts
  <1>cons. ASSUME NEW g \in X PROVE [m \in Nat |-> << m % Base >> \o g[m \div Base]] \in X
    BY <1>0, OneByteThen
  <1>empty. [m \in Nat |-> << >>] \in X
    BY EmptySeq
  <1>1. \E f : Eq(f)
    <2> DEFINE Stop == {0}
               rank == [k \in Nat |-> k]
               down == [k \in Nat \ Stop |-> k - 1]
               first == [k \in Stop |-> [m \in Nat |-> << >>]]
               step == [p \in (Nat \ Stop) \X X |-> [m \in Nat |-> << m % Base >> \o p[2][m \div Base]]]
    <2>1. /\ rank \in [Nat -> Nat] /\ Stop \in SUBSET Nat /\ down \in [Nat \ Stop -> Nat]
          /\ \A x \in Nat \ Stop : rank[down[x]] < rank[x]
      OBVIOUS
    <2>0. first \in [Stop -> X]
      BY <1>empty
    <2>2. step \in [(Nat \ Stop) \X X -> X]
      <3> HIDE DEF X
      <3> QED
        BY <1>cons
    <2>3. Descends(Nat, X, rank, Stop, down, first, step)
      <3> HIDE DEF X, rank, Stop, down, first, step
      <3> QED
        BY <2>0, <2>1, <2>2 DEF Descends
    <2>4. PICK f \in [Nat -> X] : Recurs(f, Nat, Stop, down, first, step)
      <3> HIDE DEF X, rank, Stop, down, first, step
      <3> QED
        BY <2>3, RecursionOnRank
    <2>5. ASSUME NEW x \in Nat
          PROVE  f[x] = Row(f, x)
      <3>1. f[x] = IF x \in Stop THEN first[x] ELSE step[<<x, f[down[x]]>>]
        BY <2>4 DEF Recurs
      <3>2. ASSUME x # 0
            PROVE  f[x] = [m \in Nat |-> << m % Base >> \o f[x - 1][m \div Base]]
        <4>1. down[x] = x - 1 /\ f[x - 1] \in X
          <5> HIDE DEF X
          <5> QED
            BY <2>4, <3>2
        <4>2. <<x, f[x - 1]>> \in (Nat \ Stop) \X X
          BY <3>2, <4>1
        <4> HIDE DEF X
        <4> QED
          BY <3>1, <3>2, <4>1, <4>2
      <3>3. ASSUME x = 0 PROVE f[x] = [m \in Nat |-> << >>]
        BY <3>1, <3>3
      <3> QED
        BY <3>2, <3>3
    <2> HIDE DEF Row, X
    <2> QED
      BY <2>4, <2>5
  <1>2. Eq(F)
    <2> HIDE DEF Eq
    <2> QED
      BY <1>1
  <1>3. \A n \in Nat, w \in Nat : LittleEndian(n, w) = F[w][n]
    BY DEF LittleEndian
  <1> HIDE DEF F
  <1>4. \A k \in Nat, m \in Nat :
          F[k][m] = IF k = 0 THEN << >> ELSE << m % Base >> \o F[k - 1][m \div Base]
    <2>1. \A k \in Nat : F[k] = Row(F, k)
      <3> HIDE DEF Row
      <3> QED
        BY <1>2
    <2> QED
      BY <2>1
  <1> HIDE DEF Row, Eq, X
  <1>zero. \A m \in Nat : F[0][m] = << >>
    BY <1>4
  <1>succ. ASSUME NEW k \in Nat, NEW m \in Nat
        PROVE  F[k + 1][m] = << m % Base >> \o F[k][m \div Base]
    <2>1. k + 1 \in Nat /\ k + 1 # 0 /\ (k + 1) - 1 = k
      OBVIOUS
    <2> QED
      BY <1>4, <2>1
  <1>5. \A k \in Nat : \A m \in Nat : F[k][m] \in Seq(Byte) /\ Len(F[k][m]) = k
    <2> DEFINE S == {k \in Nat : \A m \in Nat : F[k][m] \in Seq(Byte) /\ Len(F[k][m]) = k}
    <2>1. 0 \in S
      BY <1>zero, EmptySeq
    <2>2. ASSUME NEW n \in Nat, n \in S PROVE n + 1 \in S
      <3> SUFFICES ASSUME NEW m \in Nat
                   PROVE  F[n + 1][m] \in Seq(Byte) /\ Len(F[n + 1][m]) = n + 1
        OBVIOUS
      <3>1. F[n + 1][m] = << m % Base >> \o F[n][m \div Base]
        BY <1>succ
      <3>2. F[n][m \div Base] \in Seq(Byte) /\ Len(F[n][m \div Base]) = n
        BY <1>0, <2>2
      <3>3. m % Base \in Byte
        BY <1>0
      <3>4. /\ << m % Base >> \o F[n][m \div Base] \in Seq(Byte)
            /\ Len(<< m % Base >> \o F[n][m \div Base]) = 1 + n
        BY <3>2, <3>3, OneByteThen
      <3> QED
        BY <3>1, <3>4
    <2>3. Nat \subseteq S
      <3> HIDE DEF S
      <3> QED
        BY <2>1, <2>2, NaturalsByInduction
    <2> QED
      BY <2>3
  <1>6. ASSUME NEW n \in Nat, NEW w \in Nat \ {0}
        PROVE  LittleEndian(n, w) = << n % Base >> \o LittleEndian(n \div Base, w - 1)
    <2>1. n \div Base \in Nat /\ w - 1 \in Nat /\ w \in Nat /\ (w - 1) + 1 = w
      BY <1>0
    <2>2. F[w][n] = << n % Base >> \o F[w - 1][n \div Base]
      BY <1>succ, <2>1
    <2> QED
      BY <1>3, <2>1, <2>2
  <1>7. ASSUME NEW n \in Nat PROVE LittleEndian(n, 0) = << >>
    BY <1>3, <1>zero
  <1>8. ASSUME NEW n \in Nat, NEW w \in Nat
        PROVE  LittleEndian(n, w) \in Seq(Byte) /\ Len(LittleEndian(n, w)) = w
    BY <1>3, <1>5
  <1> QED
    BY <1>6, <1>7, <1>8

\* Values that have their bytes.
Encodable(vs) == \A i \in 1 .. Len(vs) : Encode(vs[i]) \in Seq(Byte)

\* EncodeAll goes through its values from the first to the last.
LEMMA EncodeAllRecursion ==
  ASSUME NEW S, NEW vs \in Seq(S), Encodable(vs)
  PROVE  \E f : /\ f[0] = << >>
                /\ \A k \in 1 .. Len(vs) : f[k] = f[k - 1] \o Encode(vs[k])
                /\ \A k \in 0 .. Len(vs) : f[k] \in Seq(Byte)
                /\ EncodeAll(vs) = f[Len(vs)]
  <1> DEFINE N == Len(vs)
             D == 0 .. N
             Eq(f) == f = [k \in 0 .. Len(vs) |-> IF k = 0 THEN << >> ELSE f[k - 1] \o Encode(vs[k])]
             F == CHOOSE f : Eq(f)
  <1>0. N \in Nat /\ \A k \in D : k \in Nat /\ (k # 0 => k \in 1 .. N /\ k - 1 \in D)
    OBVIOUS
  <1>cons. \A s \in Seq(Byte), k \in D \ {0} : s \o Encode(vs[k]) \in Seq(Byte)
    <2> SUFFICES ASSUME NEW s \in Seq(Byte), NEW k \in D \ {0}
                 PROVE  s \o Encode(vs[k]) \in Seq(Byte)
      OBVIOUS
    <2>1. Encode(vs[k]) \in Seq(Byte)
      BY <1>0 DEF Encodable
    <2> QED
      BY <2>1, ConcatProperties
  <1>1. \E f : Eq(f)
    <2> DEFINE Stop == {0}
               rank == [k \in D |-> k]
               down == [k \in D \ Stop |-> k - 1]
               first == [k \in Stop |-> << >>]
               step == [p \in (D \ Stop) \X Seq(Byte) |-> p[2] \o Encode(vs[p[1]])]
    <2>1. /\ rank \in [D -> Nat] /\ Stop \in SUBSET D /\ down \in [D \ Stop -> D]
          /\ \A x \in D \ Stop : rank[down[x]] < rank[x]
          /\ first \in [Stop -> Seq(Byte)]
      BY <1>0
    <2>2. step \in [(D \ Stop) \X Seq(Byte) -> Seq(Byte)]
      <3> HIDE DEF D
      <3> QED
        BY <1>cons
    <2>3. Descends(D, Seq(Byte), rank, Stop, down, first, step)
      <3> HIDE DEF D, rank, Stop, down, first, step
      <3> QED
        BY <2>1, <2>2 DEF Descends
    <2>4. PICK f \in [D -> Seq(Byte)] : Recurs(f, D, Stop, down, first, step)
      <3> HIDE DEF D, rank, Stop, down, first, step
      <3> QED
        BY <2>3, RecursionOnRank
    <2>5. ASSUME NEW x \in D
          PROVE  f[x] = IF x = 0 THEN << >> ELSE f[x - 1] \o Encode(vs[x])
      <3>1. f[x] = IF x \in Stop THEN first[x] ELSE step[<<x, f[down[x]]>>]
        BY <2>4 DEF Recurs
      <3>2. ASSUME x # 0
            PROVE  step[<<x, f[down[x]]>>] = f[x - 1] \o Encode(vs[x])
        <4>1. down[x] = x - 1 /\ f[x - 1] \in Seq(Byte)
          BY <1>0, <2>4, <3>2
        <4> QED
          BY <3>2, <4>1
      <3> QED
        BY <3>1, <3>2
    <2> QED
      BY <2>4, <2>5
  <1>2. Eq(F)
    <2> HIDE DEF Eq
    <2> QED
      BY <1>1
  <1>3. EncodeAll(vs) = F[Len(vs)]
    BY DEF EncodeAll
  <1> HIDE DEF F
  <1>4. \A k \in D : F[k] = IF k = 0 THEN << >> ELSE F[k - 1] \o Encode(vs[k])
    BY <1>2
  <1>5. F[0] = << >> /\ \A k \in 1 .. N : F[k] = F[k - 1] \o Encode(vs[k])
    <2>1. 0 \in D /\ \A k \in 1 .. N : k \in D /\ k # 0
      BY <1>0
    <2> HIDE DEF D, Eq
    <2> QED
      BY <1>4, <2>1
  <1>6. \A k \in D : F[k] \in Seq(Byte)
    <2> DEFINE T == {k \in Nat : k \in D => F[k] \in Seq(Byte)}
    <2>1. 0 \in T
      BY <1>5, EmptySeq
    <2>2. ASSUME NEW n \in Nat, n \in T PROVE n + 1 \in T
      <3> SUFFICES ASSUME n + 1 \in D PROVE F[n + 1] \in Seq(Byte)
        OBVIOUS
      <3>1. n \in D /\ n + 1 \in 1 .. N /\ (n + 1) - 1 = n /\ n + 1 \in D \ {0}
        BY <1>0
      <3>2. F[n] \in Seq(Byte)
        BY <2>2, <3>1
      <3>3. F[n + 1] = F[n] \o Encode(vs[n + 1])
        BY <1>5, <3>1
      <3> HIDE DEF D
      <3> QED
        BY <1>cons, <3>1, <3>2, <3>3
    <2>3. Nat \subseteq T
      <3> HIDE DEF T
      <3> QED
        BY <2>1, <2>2, NaturalsByInduction
    <2> QED
      BY <1>0, <2>3
  <1> QED
    BY <1>3, <1>5, <1>6

\* One value more, its bytes more.
LEMMA EncodeAllAppend ==
  ASSUME NEW S, NEW vs \in Seq(S), NEW v \in S, Encodable(vs), Encode(v) \in Seq(Byte)
  PROVE  /\ Encodable(Append(vs, v))
         /\ EncodeAll(vs) \in Seq(Byte)
         /\ EncodeAll(Append(vs, v)) = EncodeAll(vs) \o Encode(v)
  <1> DEFINE ws == Append(vs, v)
             N == Len(vs)
  <1>1. /\ N \in Nat /\ ws \in Seq(S) /\ Len(ws) = N + 1 /\ ws[N + 1] = v
        /\ \A k \in 1 .. N : ws[k] = vs[k]
    BY AppendProperties
  <1>2. Encodable(ws)
    BY <1>1 DEF Encodable
  <1>3. PICK f : /\ f[0] = << >>
                 /\ \A k \in 1 .. N : f[k] = f[k - 1] \o Encode(vs[k])
                 /\ \A k \in 0 .. N : f[k] \in Seq(Byte)
                 /\ EncodeAll(vs) = f[N]
    BY EncodeAllRecursion
  <1> HIDE DEF ws
  <1>4. PICK g : /\ g[0] = << >>
                 /\ \A k \in 1 .. Len(ws) : g[k] = g[k - 1] \o Encode(ws[k])
                 /\ \A k \in 0 .. Len(ws) : g[k] \in Seq(Byte)
                 /\ EncodeAll(ws) = g[Len(ws)]
    BY <1>1, <1>2, EncodeAllRecursion
  <1>5. \A k \in 0 .. N : g[k] = f[k]
    <2> DEFINE T == {k \in Nat : k <= N => g[k] = f[k]}
    <2>1. 0 \in T
      BY <1>3, <1>4
    <2>2. ASSUME NEW n \in Nat, n \in T PROVE n + 1 \in T
      <3> SUFFICES ASSUME n + 1 <= N PROVE g[n + 1] = f[n + 1]
        OBVIOUS
      <3>1. n + 1 \in 1 .. N /\ n + 1 \in 1 .. Len(ws) /\ (n + 1) - 1 = n /\ n <= N
        BY <1>1
      <3>2. g[n] = f[n]
        BY <2>2, <3>1
      <3>3. f[n + 1] = f[n] \o Encode(vs[n + 1]) /\ g[n + 1] = g[n] \o Encode(ws[n + 1])
        BY <1>3, <1>4, <3>1
      <3>4. ws[n + 1] = vs[n + 1]
        BY <1>1, <3>1
      <3> QED
        BY <3>2, <3>3, <3>4
    <2>3. Nat \subseteq T
      <3> HIDE DEF T
      <3> QED
        BY <2>1, <2>2, NaturalsByInduction
    <2> QED
      BY <2>3
  <1>6. N + 1 \in 1 .. Len(ws) /\ N \in 0 .. N /\ (N + 1) - 1 = N
    BY <1>1
  <1>7. g[N + 1] = g[N] \o Encode(ws[N + 1])
    BY <1>4, <1>6
  <1>8. EncodeAll(ws) = EncodeAll(vs) \o Encode(v)
    BY <1>1, <1>3, <1>4, <1>5, <1>6, <1>7
  <1> QED
    BY <1>2, <1>3, <1>6, <1>8 DEF ws

\* No values have no bytes.
LEMMA EncodeAllEmpty == EncodeAll(<< >>) = << >>
  <1>1. << >> \in Seq(Nat) /\ Len(<< >>) = 0
    BY EmptySeq
  <1>2. Encodable(<< >>)
    BY <1>1 DEF Encodable
  <1> QED
    BY <1>1, <1>2, EncodeAllRecursion

\* What div and mod are, with a divisor that is not a numeral.
LEMMA Division ==
  ASSUME NEW n \in Nat, NEW b \in Nat, b > 1
  PROVE  /\ n \div b \in Nat /\ n % b \in 0 .. b - 1
         /\ n = (n % b) + b * (n \div b)
         /\ n >= b => n \div b < n
  OBVIOUS

LEMMA DivisionOf ==
  ASSUME NEW b \in Nat, b > 1, NEW d \in 0 .. b - 1, NEW m \in Nat
  PROVE  /\ d + b * m \in Nat
         /\ (d + b * m) \div b = m
         /\ (d + b * m) % b = d
  OBVIOUS

LEMMA DivisionBound ==
  ASSUME NEW b \in Nat, b > 1, NEW m \in Nat, NEW n \in Nat, n <= b * m + (b - 1)
  PROVE  n \div b <= m
  OBVIOUS

\* A byte and its digit.
LEMMA DigitOf ==
  ASSUME NEW b \in Nat, b > 1, NEW d \in 0 .. 2 * b - 1
  PROVE  /\ d % b \in 0 .. b - 1
         /\ d < b => d % b = d
         /\ d >= b => (d % b) + b = d
  <1>1. d % b \in 0 .. b - 1 /\ d = (d % b) + b * (d \div b)
    BY Division
  <1>2. ASSUME d < b PROVE d % b = d
    BY <1>2
  <1>3. ASSUME d >= b PROVE (d % b) + b = d
    <2>1. d - b \in 0 .. b - 1 /\ (d - b) + b * 1 = d
      BY <1>3
    <2> QED
      BY <2>1, DivisionOf
  <1> QED
    BY <1>1, <1>2, <1>3

\* The number of a digit and the digits after it.
LEMMA NumberThen ==
  ASSUME NEW base \in Nat, base > 0, NEW d \in Byte, NEW t \in Seq(Byte)
  PROVE  Number(<< d >> \o t, base) = (d % base) + base * Number(t, base)
  BY NumberRecursion, OneByteThen

\* A number of the width is read back from its little-endian bytes.
LEMMA LittleEndianRead ==
  ASSUME NEW w \in Nat, NEW n \in 0 .. UMax(w)
  PROVE  Number(LittleEndian(n, w), Base) = n
  <1> DEFINE S == {k \in Nat : \A m \in Nat : m <= UMax(k) => Number(LittleEndian(m, k), Base) = m}
  <1>1. 0 \in S
    <2>1. \A m \in Nat : m <= UMax(0) => m = 0
      BY UMaxRecursion
    <2>2. Base > 0 /\ Base \in Nat
      BY BaseFacts
    <2>3. Number(<< >>, Base) = 0
      BY <2>2, NumberRecursion
    <2>4. \A m \in Nat : LittleEndian(m, 0) = << >>
      BY LittleEndianRecursion
    <2> QED
      BY <2>1, <2>3, <2>4
  <1>2. ASSUME NEW k \in Nat, k \in S PROVE k + 1 \in S
    <2> SUFFICES ASSUME NEW m \in Nat, m <= UMax(k + 1)
                 PROVE  Number(LittleEndian(m, k + 1), Base) = m
      OBVIOUS
    <2>1. k + 1 \in Nat \ {0} /\ (k + 1) - 1 = k
      OBVIOUS
    <2>2. Base \in Nat /\ Base > 1 /\ Base > 0 /\ Byte = 0 .. Base - 1
      BY BaseFacts
    <2>3. UMax(k) \in Nat /\ UMax(k + 1) = Base * UMax(k) + (Base - 1)
      BY <2>1, UMaxRecursion
    <2>4. m \div Base \in Nat /\ m % Base \in Byte /\ m = (m % Base) + Base * (m \div Base)
      BY <2>2, Division
    <2>5. m \div Base <= UMax(k)
      BY <2>2, <2>3, DivisionBound
    <2>6. Number(LittleEndian(m \div Base, k), Base) = m \div Base
      BY <1>2, <2>4, <2>5
    <2>7. LittleEndian(m, k + 1) = << m % Base >> \o LittleEndian(m \div Base, k)
      BY <2>1, LittleEndianRecursion
    <2>8. LittleEndian(m \div Base, k) \in Seq(Byte)
      BY <2>4, LittleEndianRecursion
    <2>9. Number(LittleEndian(m, k + 1), Base) = ((m % Base) % Base) + Base * (m \div Base)
      BY <2>2, <2>4, <2>6, <2>7, <2>8, NumberThen
    <2>10. (m % Base) % Base = m % Base
      BY <2>2, <2>4
    <2> QED
      BY <2>4, <2>9, <2>10
  <1>3. Nat \subseteq S
    <2> HIDE DEF S
    <2> QED
      BY <1>1, <1>2, NaturalsByInduction
  <1> QED
    BY <1>3, UMaxRecursion

\* What a reader looks for: bytes that go on, then one that does not.
Complete(s) == /\ s # << >>
               /\ s[Len(s)] < Half
               /\ \A i \in 1 .. Len(s) - 1 : s[i] >= Half

\* A number is read back from its ULEB128, which ends where the reader looks for its end.
LEMMA UlebRead ==
  ASSUME NEW n \in Nat
  PROVE  Complete(Uleb(n)) /\ Number(Uleb(n), Half) = n
  <1> DEFINE OK(k) == Complete(Uleb(k)) /\ Number(Uleb(k), Half) = k
             T == {k \in Nat : ~OK(k)}
  <1> SUFFICES ASSUME T # {} PROVE FALSE
    OBVIOUS
  <1>1. PICK m \in T : \A k \in T : m <= k
    <2>1. T \subseteq Nat
      OBVIOUS
    <2> HIDE DEF T
    <2> QED
      BY <2>1, LeastNatural
  <1>2. m \in Nat /\ ~OK(m) /\ \A k \in Nat : k < m => OK(k)
    <2> HIDE DEF OK
    <2> QED
      BY <1>1
  <1>3. Half \in Nat /\ Half > 1 /\ Half > 0 /\ Byte = 0 .. 2 * Half - 1 /\ << >> \in Seq(Byte)
    BY BaseFacts, EmptySeq
  <1>4. CASE m < Half
    <2>1. Uleb(m) = << m >> /\ m \in Byte
      <3>1. m \in Nat
        BY <1>2
      <3>2. m \in Byte
        BY <1>3, <1>4, <3>1
      <3> HIDE DEF T, OK
      <3> QED
        BY <1>4, <3>1, <3>2, UlebRecursion
    <2>2. Complete(<< m >>)
      BY <1>4 DEF Complete
    <2>3. << m >> \o << >> = << m >>
      BY <2>1, OneByteThen, ConcatEmptySeq
    <2>4. Number(<< m >>, Half) = (m % Half) + Half * 0
      <3>1. Number(<< m >> \o << >>, Half) = (m % Half) + Half * Number(<< >>, Half)
        BY <1>3, <2>1, NumberThen
      <3>2. Number(<< >>, Half) = 0
        BY <1>3, NumberRecursion
      <3> QED
        BY <2>3, <3>1, <3>2
    <2>5. (m % Half) + Half * 0 = m
      BY <1>2, <1>3, <1>4
    <2> QED
      BY <1>2, <2>1, <2>2, <2>4, <2>5
  <1>5. CASE ~(m < Half)
    <2> DEFINE d == (m % Half) + Half
               q == m \div Half
    <2>1. q \in Nat /\ q < m /\ m % Half \in 0 .. Half - 1 /\ m = (m % Half) + Half * q
      <3>1. m \in Nat /\ m >= Half
        BY <1>2, <1>3, <1>5
      <3> HIDE DEF T, OK
      <3> QED
        BY <1>3, <3>1, Division
    <2>2. OK(q)
      <3> HIDE DEF OK, q
      <3> QED
        BY <1>2, <2>1
    <2>3. d \in Byte /\ d >= Half /\ d % Half = m % Half
      BY <1>3, <2>1
    <2>4. Uleb(m) = << d >> \o Uleb(q) /\ Uleb(q) \in Seq(Byte)
      BY <1>2, <1>5, <2>1, UlebRecursion
    <2> HIDE DEF d, q
    <2>5. Number(Uleb(m), Half) = m
      <3>1. Number(Uleb(q), Half) = q
        BY <2>2
      <3>2. Number(<< d >> \o Uleb(q), Half) = (d % Half) + Half * Number(Uleb(q), Half)
        BY <1>3, <2>3, <2>4, NumberThen
      <3> HIDE DEF T, OK
      <3> QED
        BY <2>1, <2>3, <2>4, <3>1, <3>2
    <2>6. Complete(<< d >> \o Uleb(q))
      <3>1. Len(Uleb(q)) \in Nat /\ Len(Uleb(q)) # 0
        BY <2>2, <2>4, EmptySeq DEF Complete
      <3>2. /\ << d >> \in Seq(Byte) /\ Len(<< d >>) = 1 /\ << d >>[1] = d
            /\ << d >> \o Uleb(q) # << >>
        BY <2>3, <2>4, OneByteThen
      <3>3. /\ Len(<< d >> \o Uleb(q)) = 1 + Len(Uleb(q))
            /\ \A i \in 1 .. 1 + Len(Uleb(q)) :
                 (<< d >> \o Uleb(q))[i] = IF i <= 1 THEN << d >>[i] ELSE Uleb(q)[i - 1]
        BY <2>4, <3>2, ConcatProperties
      <3>4. (<< d >> \o Uleb(q))[1 + Len(Uleb(q))] = Uleb(q)[Len(Uleb(q))]
        BY <3>1, <3>3
      <3>5. ASSUME NEW i \in 1 .. Len(Uleb(q)) PROVE (<< d >> \o Uleb(q))[i] >= Half
        <4>1. (<< d >> \o Uleb(q))[i] = IF i <= 1 THEN d ELSE Uleb(q)[i - 1]
          BY <3>1, <3>2, <3>3
        <4>2. i > 1 => i - 1 \in 1 .. Len(Uleb(q)) - 1
          BY <3>1
        <4> QED
          BY <2>2, <2>3, <4>1, <4>2 DEF Complete
      <3>6. Uleb(q)[Len(Uleb(q))] < Half
        BY <2>2 DEF Complete
      <3> QED
        BY <3>1, <3>2, <3>3, <3>4, <3>5, <3>6 DEF Complete
    <2> QED
      BY <1>2, <2>4, <2>5, <2>6
  <1> QED
    BY <1>4, <1>5

\* Bytes are the first of them and the rest.
LEMMA HeadThenTail ==
  ASSUME NEW s \in Seq(Byte), s # << >>
  PROVE  /\ Head(s) \in Byte /\ Tail(s) \in Seq(Byte) /\ Len(Tail(s)) = Len(s) - 1
         /\ Len(s) \in Nat /\ Len(s) # 0
         /\ Head(s) = s[1]
         /\ \A i \in 1 .. Len(s) - 1 : Tail(s)[i] = s[i + 1]
         /\ s = << Head(s) >> \o Tail(s)
  <1>1. /\ Head(s) \in Byte /\ Tail(s) \in Seq(Byte) /\ Len(Tail(s)) = Len(s) - 1
        /\ \A i \in 1 .. Len(Tail(s)) : Tail(s)[i] = s[i + 1]
    BY HeadTailProperties
  <1>2. Len(s) \in Nat /\ Len(s) # 0 /\ Head(s) = s[1]
    BY EmptySeq
  <1>3. /\ << Head(s) >> \in Seq(Byte) /\ Len(<< Head(s) >>) = 1 /\ << Head(s) >>[1] = Head(s)
    BY <1>1
  <1>4. /\ << Head(s) >> \o Tail(s) \in Seq(Byte) /\ Len(<< Head(s) >> \o Tail(s)) = Len(s)
        /\ \A i \in 1 .. Len(s) :
             (<< Head(s) >> \o Tail(s))[i] = IF i <= 1 THEN << Head(s) >>[i] ELSE Tail(s)[i - 1]
    BY <1>1, <1>2, <1>3, ConcatProperties
  <1>5. ASSUME NEW i \in 1 .. Len(s) PROVE s[i] = (<< Head(s) >> \o Tail(s))[i]
    <2>1. CASE i = 1
      BY <1>2, <1>3, <1>4, <2>1
    <2>2. CASE i # 1
      <3>1. i - 1 \in 1 .. Len(Tail(s)) /\ ~(i <= 1) /\ (i - 1) + 1 = i
        BY <1>1, <1>2, <2>2
      <3> QED
        BY <1>1, <1>4, <3>1
    <2> QED
      BY <2>1, <2>2
  <1>6. s = << Head(s) >> \o Tail(s)
    <2> DEFINE t == << Head(s) >> \o Tail(s)
    <2>1. t \in Seq(Byte) /\ Len(t) = Len(s) /\ \A i \in 1 .. Len(s) : s[i] = t[i]
      BY <1>4, <1>5
    <2> HIDE DEF t
    <2>2. s = t
      BY <2>1, SeqEqual
    <2> QED
      BY <2>2 DEF t
  <1> QED
    BY <1>1, <1>2, <1>6

\* Bytes are the little-endian form of the number they were read as.
LEMMA LittleEndianWritten ==
  ASSUME NEW s \in Seq(Byte)
  PROVE  LittleEndian(Number(s, Base), Len(s)) = s
  <1> DEFINE S == {k \in Nat : \A t \in Seq(Byte) : Len(t) = k => LittleEndian(Number(t, Base), k) = t}
  <1>base. Base \in Nat /\ Base > 1 /\ Base > 0 /\ Byte = 0 .. Base - 1
    BY BaseFacts
  <1>1. 0 \in S
    <2> SUFFICES ASSUME NEW t \in Seq(Byte), Len(t) = 0
                 PROVE  LittleEndian(Number(t, Base), 0) = t
      OBVIOUS
    <2>1. t = << >>
      BY EmptySeq
    <2>2. Number(t, Base) \in Nat
      BY <1>base, NumberRecursion
    <2> QED
      BY <2>1, <2>2, LittleEndianRecursion
  <1>2. ASSUME NEW k \in Nat, k \in S PROVE k + 1 \in S
    <2> SUFFICES ASSUME NEW t \in Seq(Byte), Len(t) = k + 1
                 PROVE  LittleEndian(Number(t, Base), k + 1) = t
      OBVIOUS
    <2>1. t # << >>
      BY EmptySeq
    <2>2. /\ Head(t) \in Byte /\ Tail(t) \in Seq(Byte) /\ Len(Tail(t)) = k
          /\ t = << Head(t) >> \o Tail(t)
      BY <2>1, HeadThenTail
    <2> DEFINE d == Head(t)
               n == Number(Tail(t), Base)
    <2>3. n \in Nat
      BY <1>base, <2>2, NumberRecursion
    <2>4. d % Base = d /\ d \in 0 .. Base - 1
      <3>1. d \in 0 .. Base - 1
        BY <1>base, <2>2
      <3> HIDE DEF d
      <3>2. d \in 0 .. 2 * Base - 1 /\ d < Base
        BY <1>base, <3>1
      <3> QED
        BY <1>base, <3>1, <3>2, DigitOf
    <2>5. Number(t, Base) = (d % Base) + Base * n
      BY <1>base, <2>1, NumberRecursion
    <2> HIDE DEF d, n
    <2>6. /\ Number(t, Base) \in Nat
          /\ Number(t, Base) % Base = d /\ Number(t, Base) \div Base = n
      <3>1. Number(t, Base) = d + Base * n
        BY <2>4, <2>5
      <3>2. /\ d + Base * n \in Nat /\ (d + Base * n) \div Base = n
            /\ (d + Base * n) % Base = d
        BY <1>base, <2>3, <2>4, DivisionOf
      <3> QED
        BY <3>1, <3>2
    <2>7. k + 1 \in Nat \ {0} /\ (k + 1) - 1 = k
      OBVIOUS
    <2>8. LittleEndian(Number(t, Base), k + 1) = << d >> \o LittleEndian(n, k)
      BY <2>6, <2>7, LittleEndianRecursion
    <2>9. LittleEndian(n, k) = Tail(t)
      BY <1>2, <2>2 DEF n
    <2> QED
      BY <2>2, <2>8, <2>9 DEF d
  <1>3. Nat \subseteq S
    <2> HIDE DEF S
    <2> QED
      BY <1>1, <1>2, NaturalsByInduction
  <1>4. Len(s) \in Nat
    OBVIOUS
  <1> QED
    BY <1>3, <1>4

\* A ULEB128 is the form of the number it was read as, or has needless digits.
LEMMA UlebWritten ==
  ASSUME NEW s \in Seq(Byte), Complete(s)
  PROVE  Uleb(Number(s, Half)) = s \/ Len(Uleb(Number(s, Half))) < Len(s)
  <1> DEFINE Shortest(t) == Uleb(Number(t, Half)) = t \/ Len(Uleb(Number(t, Half))) < Len(t)
             S == {k \in Nat : \A t \in Seq(Byte) : Len(t) = k /\ Complete(t) => Shortest(t)}
  <1>base. Half \in Nat /\ Half > 1 /\ Half > 0 /\ Byte = 0 .. 2 * Half - 1 /\ << >> \in Seq(Byte)
    BY BaseFacts, EmptySeq
  <1>1. 0 \in S
    <2> SUFFICES ASSUME NEW t \in Seq(Byte), Len(t) = 0, Complete(t) PROVE FALSE
      OBVIOUS
    <2> QED
      BY EmptySeq DEF Complete
  <1>2. ASSUME NEW k \in Nat, k \in S PROVE k + 1 \in S
    <2> SUFFICES ASSUME NEW t \in Seq(Byte), Len(t) = k + 1, Complete(t) PROVE Shortest(t)
      <3> HIDE DEF Shortest
      <3> QED
        OBVIOUS
    <2> DEFINE d == Head(t)
               n == Number(Tail(t), Half)
    <2>1. t # << >>
      BY DEF Complete
    <2>2. /\ d \in Byte /\ Tail(t) \in Seq(Byte) /\ Len(Tail(t)) = k /\ d = t[1]
          /\ t = << d >> \o Tail(t)
          /\ \A i \in 1 .. Len(t) - 1 : Tail(t)[i] = t[i + 1]
      BY <2>1, HeadThenTail
    <2>3. n \in Nat
      BY <1>base, <2>2, NumberRecursion
    <2>4. Number(t, Half) = (d % Half) + Half * n
      BY <1>base, <2>1, NumberRecursion
    <2>5. d % Half \in 0 .. Half - 1 /\ (d < Half => d % Half = d)
          /\ (d >= Half => (d % Half) + Half = d)
      <3>1. d \in 0 .. 2 * Half - 1
        BY <1>base, <2>2
      <3> HIDE DEF d
      <3> QED
        BY <1>base, <3>1, DigitOf
    <2> HIDE DEF d, n
    <2>6. /\ Number(t, Half) \in Nat
          /\ Number(t, Half) % Half = d % Half /\ Number(t, Half) \div Half = n
      <3> DEFINE e == d % Half
      <3>1. Number(t, Half) = e + Half * n /\ e \in 0 .. Half - 1
        BY <2>4, <2>5
      <3> HIDE DEF e
      <3>2. /\ e + Half * n \in Nat /\ (e + Half * n) \div Half = n
            /\ (e + Half * n) % Half = e
        BY <1>base, <2>3, <3>1, DivisionOf
      <3> QED
        BY <3>1, <3>2 DEF e
    <2>7. CASE k = 0
      <3>1. Tail(t) = << >>
        BY <2>2, <2>7, EmptySeq
      <3>2. t = << d >>
        BY <2>2, <3>1, OneByteThen, ConcatEmptySeq
      <3>3. d < Half
        BY <2>2, <2>7 DEF Complete
      <3>4. n = 0
        BY <1>base, <3>1, NumberRecursion DEF n
      <3>5. Number(t, Half) = d /\ d \in Nat
        BY <1>base, <2>2, <2>4, <2>5, <3>3, <3>4
      <3>6. Uleb(d) = << d >>
        BY <3>3, <3>5, UlebRecursion
      <3> QED
        BY <3>2, <3>5, <3>6
    <2>8. CASE k # 0
      <3>1. d >= Half
        BY <2>2, <2>8 DEF Complete
      <3>2. Complete(Tail(t))
        <4>1. Tail(t) # << >>
          BY <2>2, <2>8, EmptySeq
        <4>2. Tail(t)[k] = t[k + 1]
          BY <2>2, <2>8
        <4>3. ASSUME NEW i \in 1 .. k - 1 PROVE Tail(t)[i] >= Half
          <5>1. i \in 1 .. Len(t) - 1 /\ i + 1 \in 1 .. Len(t) - 1
            OBVIOUS
          <5> QED
            BY <2>2, <5>1 DEF Complete
        <4> QED
          BY <2>2, <4>1, <4>2, <4>3 DEF Complete
      <3>3. Uleb(n) = Tail(t) \/ Len(Uleb(n)) < k
        BY <1>2, <2>2, <3>2 DEF n
      <3>4. Uleb(n) \in Seq(Byte)
        BY <2>3, UlebRecursion
      <3>5. CASE Number(t, Half) < Half
        <4>1. Uleb(Number(t, Half)) = << Number(t, Half) >>
          BY <2>6, <3>5, UlebRecursion
        <4>2. Len(Uleb(Number(t, Half))) = 1
          BY <4>1
        <4> QED
          BY <2>8, <4>2
      <3>6. CASE ~(Number(t, Half) < Half)
        <4>1. Uleb(Number(t, Half)) = << d >> \o Uleb(n)
          BY <2>5, <2>6, <3>1, <3>6, UlebRecursion
        <4>2. Len(<< d >> \o Uleb(n)) = 1 + Len(Uleb(n))
          BY <2>2, <3>4, OneByteThen
        <4>3. CASE Uleb(n) = Tail(t)
          BY <2>2, <4>1, <4>3
        <4>4. CASE Len(Uleb(n)) < k
          <5>1. Len(Uleb(n)) \in Nat
            BY <3>4
          <5> QED
            BY <4>1, <4>2, <4>4, <5>1
        <4> QED
          BY <3>3, <4>3, <4>4
      <3> QED
        BY <3>5, <3>6
    <2> QED
      BY <2>7, <2>8
  <1>3. Nat \subseteq S
    <2> HIDE DEF S
    <2> QED
      BY <1>1, <1>2, NaturalsByInduction
  <1>4. Len(s) \in Nat
    OBVIOUS
  <1> QED
    BY <1>3, <1>4

\* The parts of what a read returns.
LEMMA Outcomes ==
  /\ \A x, n : Good(x, n).error = "none" /\ Good(x, n).value = x /\ Good(x, n).next = n
  /\ \A e, n : Bad(e, n).error = e /\ Bad(e, n).next = n
  BY DEF Good, Bad

\* _check passes: the bytes are there.
LEMMA TakeThere ==
  ASSUME data \in Seq(Byte), NEW n \in Nat, NEW at \in Nat, at + n <= Len(data)
  PROVE  /\ Take(n, at) = Good(SubSeq(data, at + 1, at + n), at + n)
         /\ SubSeq(data, at + 1, at + n) \in Seq(Byte)
         /\ Len(SubSeq(data, at + 1, at + n)) = n
         /\ \A i \in 1 .. n : SubSeq(data, at + 1, at + n)[i] = data[at + i]
  <1>1. Len(data) \in Nat /\ \A i \in 1 .. Len(data) : data[i] \in Byte
    BY ElementOfSeq
  <1>2. ~(at + n > Len(data))
    BY <1>1
  <1>3. \A i \in (at + 1) .. (at + n) : data[i] \in Byte
    BY <1>1
  <1>4. /\ SubSeq(data, at + 1, at + n) \in Seq(Byte)
        /\ Len(SubSeq(data, at + 1, at + n)) = IF at + 1 <= at + n THEN (at + n) - (at + 1) + 1 ELSE 0
        /\ \A i \in 1 .. (at + n) - (at + 1) + 1 : SubSeq(data, at + 1, at + n)[i] = data[at + 1 + i - 1]
    BY <1>3, SubSeqProperties
  <1>5. \A i \in 1 .. n : at + 1 + i - 1 = at + i
    OBVIOUS
  <1> QED
    BY <1>2, <1>4, <1>5 DEF Take

\* _check raises: they are not.
LEMMA TakeGone ==
  ASSUME data \in Seq(Byte), NEW n \in Nat, NEW at \in Nat, ~(at + n <= Len(data))
  PROVE  Take(n, at) = Bad("overflow", at)
  <1>1. Len(data) \in Nat
    OBVIOUS
  <1>2. at + n > Len(data)
    BY <1>1
  <1> QED
    BY <1>2 DEF Take

\* read_uleb128 either finds the number that ends at the first byte without a continuation
\* bit, or raises and stays within the bytes.
LEMMA ReadUlebEnds ==
  ASSUME data \in Seq(Byte), pos \in 0 .. Len(data)
  PROVE  \/ \E size \in 1 .. MaxDigits :
              LET u == SubSeq(data, pos + 1, pos + size) IN
                /\ pos + size <= Len(data)
                /\ u \in Seq(Byte) /\ Len(u) = size /\ Complete(u)
                /\ \A i \in 1 .. size : u[i] = data[pos + i]
                /\ Number(u, Half) \in Nat
                /\ ReadUleb = Good(Number(u, Half), pos + size)
         \/ /\ \A k \in 1 .. MaxDigits : pos + k <= Len(data) => ~(data[pos + k] < Half)
            /\ ReadUleb.error \in {"long uleb", "overflow"}
            /\ ReadUleb.next \in pos .. Len(data)
  <1> DEFINE ends == {k \in 1 .. MaxDigits : pos + k <= Len(data) /\ data[pos + k] < Half}
  <1>0. Len(data) \in Nat /\ pos \in Nat /\ MaxDigits \in Nat /\ MaxDigits >= 1
    BY BcsAssumption
  <1>1. CASE ends # {}
    <2>1. PICK size \in ends : \A k \in ends : size <= k
      <3>1. ends \subseteq Nat
        BY <1>0
      <3> HIDE DEF ends
      <3> QED
        BY <1>1, <3>1, LeastNatural
    <2>2. size \in 1 .. MaxDigits /\ size \in Nat /\ pos + size <= Len(data) /\ data[pos + size] < Half
      BY <1>0, <2>1
    <2>3. Min(ends) = size
      <3>1. ends \subseteq Nat
        BY <1>0
      <3> HIDE DEF ends
      <3>2. Min(ends) \in ends /\ \A y \in ends : Min(ends) <= y
        BY <2>1 DEF Min
      <3>3. Min(ends) <= size /\ size <= Min(ends) /\ Min(ends) \in Nat /\ size \in Nat
        BY <2>1, <3>1, <3>2
      <3> QED
        BY <3>3
    <2> DEFINE u == SubSeq(data, pos + 1, pos + size)
    <2>4. u \in Seq(Byte) /\ Len(u) = size /\ \A i \in 1 .. size : u[i] = data[pos + i]
      BY <1>0, <2>2, TakeThere
    <2>5. ReadUleb = Good(Number(u, Half), pos + size)
      BY <1>1, <2>3 DEF ReadUleb
    <2> HIDE DEF u
    <2>6. Complete(u)
      <3>1. u # << >>
        BY <2>2, <2>4, EmptySeq
      <3>2. u[Len(u)] < Half
        BY <2>2, <2>4
      <3>3. ASSUME NEW i \in 1 .. Len(u) - 1 PROVE u[i] >= Half
        <4>1. i \in 1 .. MaxDigits /\ i < size /\ pos + i <= Len(data) /\ i \in 1 .. size
          BY <1>0, <2>2, <2>4
        <4>2. i \notin ends
          <5> HIDE DEF ends
          <5> QED
            BY <2>1, <2>2, <4>1
        <4>3. ~(data[pos + i] < Half)
          BY <4>1, <4>2
        <4>4. data[pos + i] \in Byte /\ Half \in Nat
          BY <1>0, <4>1, ElementOfSeq, BaseFacts
        <4>5. data[pos + i] \in Nat
          BY <4>4, BaseFacts
        <4> QED
          BY <2>4, <4>1, <4>3, <4>4, <4>5
      <3> QED
        BY <3>1, <3>2, <3>3 DEF Complete
    <2>7. Number(u, Half) \in Nat
      <3>1. Half \in Nat /\ Half > 0
        BY BaseFacts
      <3> QED
        BY <2>4, <3>1, NumberRecursion
    <2> QED
      BY <2>2, <2>4, <2>5, <2>6, <2>7 DEF u
  <1>2. CASE ends = {}
    <2>1. \A k \in 1 .. MaxDigits : pos + k <= Len(data) => ~(data[pos + k] < Half)
      BY <1>2
    <2>2. ReadUleb = IF pos + MaxDigits <= Len(data) THEN Bad("long uleb", pos + MaxDigits)
                                                   ELSE Bad("overflow", Len(data))
      BY <1>2 DEF ReadUleb
    <2> HIDE DEF ends
    <2>3. /\ ReadUleb.error \in {"long uleb", "overflow"}
          /\ ReadUleb.next \in pos .. Len(data)
      <3>1. CASE pos + MaxDigits <= Len(data)
        <4>1. ReadUleb.error = "long uleb" /\ ReadUleb.next = pos + MaxDigits
          BY <2>2, <3>1, Outcomes
        <4>2. pos + MaxDigits \in pos .. Len(data)
          BY <1>0, <3>1
        <4> QED
          BY <4>1, <4>2
      <3>2. CASE ~(pos + MaxDigits <= Len(data))
        <4>1. ReadUleb.error = "overflow" /\ ReadUleb.next = Len(data)
          BY <2>2, <3>2, Outcomes
        <4> QED
          BY <1>0, <4>1
      <3> QED
        BY <3>1, <3>2
    <2> QED
      BY <2>1, <2>3
  <1> QED
    BY <1>1, <1>2

\* What the reader makes of the bytes from at to its next pos: the value's own encoding, or a
\* longer one.
Spelled(e, at, next) ==
  /\ e \in Seq(Byte)
  /\ next \in at .. Len(data)
  /\ e = SubSeq(data, at + 1, next) \/ Len(e) < next - at

\* read_bytes of any bytes: a length and as many bytes as it says, or an error within them.
LEMMA ReadBytesEnds ==
  ASSUME data \in Seq(Byte), pos \in 0 .. Len(data)
  PROVE  \/ /\ ReadBytes.error = "none"
            /\ ReadBytes.value \in Seq(Byte)
            /\ Spelled(Uleb(Len(ReadBytes.value)) \o ReadBytes.value, pos, ReadBytes.next)
         \/ /\ ReadBytes.error \in {"long uleb", "overflow"}
            /\ ReadBytes.next \in pos .. Len(data)
  <1>0. Len(data) \in Nat /\ pos \in Nat
    OBVIOUS
  <1>1. CASE ReadUleb.error \in {"long uleb", "overflow"} /\ ReadUleb.next \in pos .. Len(data)
    <2>1. ReadBytes = ReadUleb
      BY <1>1 DEF ReadBytes, Then
    <2> QED
      BY <1>1, <2>1
  <1>2. CASE \E size \in 1 .. MaxDigits :
               LET u == SubSeq(data, pos + 1, pos + size) IN
                 /\ pos + size <= Len(data)
                 /\ u \in Seq(Byte) /\ Len(u) = size /\ Complete(u)
                 /\ \A i \in 1 .. size : u[i] = data[pos + i]
                 /\ Number(u, Half) \in Nat
                 /\ ReadUleb = Good(Number(u, Half), pos + size)
    <2>1. PICK size \in 1 .. MaxDigits :
               LET u == SubSeq(data, pos + 1, pos + size) IN
                 /\ pos + size <= Len(data)
                 /\ u \in Seq(Byte) /\ Len(u) = size /\ Complete(u)
                 /\ \A i \in 1 .. size : u[i] = data[pos + i]
                 /\ Number(u, Half) \in Nat
                 /\ ReadUleb = Good(Number(u, Half), pos + size)
      BY <1>2
    <2> DEFINE u == SubSeq(data, pos + 1, pos + size)
               n == Number(u, Half)
               at == pos + size
    <2>2. /\ at <= Len(data) /\ at \in Nat /\ size \in Nat /\ at = pos + size
          /\ u \in Seq(Byte) /\ Len(u) = size /\ Complete(u)
          /\ n \in Nat
          /\ ReadUleb = Good(n, at)
      BY <1>0, <2>1, BcsAssumption
    <2>3. u = SubSeq(data, pos + 1, at)
      OBVIOUS
    <2>4. Uleb(n) = u \/ Len(Uleb(n)) < size
      BY <2>2, UlebWritten
    <2> HIDE DEF u, n, at
    <2>5. ReadBytes = Take(n, at)
      BY <2>2, Outcomes DEF ReadBytes, Then
    <2>6. CASE ~(at + n <= Len(data))
      <3>1. ReadBytes.error = "overflow" /\ ReadBytes.next = at
        BY <2>2, <2>5, <2>6, TakeGone, Outcomes
      <3>2. at \in pos .. Len(data)
        BY <1>0, <2>2
      <3> QED
        BY <3>1, <3>2
    <2>7. CASE at + n <= Len(data)
      <3> DEFINE value == SubSeq(data, at + 1, at + n)
                 e == Uleb(Len(value)) \o value
      <3>1. value \in Seq(Byte) /\ Len(value) = n
            /\ ReadBytes.error = "none" /\ ReadBytes.value = value /\ ReadBytes.next = at + n
        <4>1. Take(n, at) = Good(value, at + n) /\ value \in Seq(Byte) /\ Len(value) = n
          BY <2>2, <2>7, TakeThere
        <4> HIDE DEF value
        <4> QED
          BY <2>5, <4>1, Outcomes
      <3>2. /\ Uleb(n) \in Seq(Byte) /\ Len(Uleb(n)) \in Nat
        BY <2>2, UlebRecursion, LenProperties
      <3>3. e \in Seq(Byte) /\ Len(e) = Len(Uleb(n)) + n
        <4> HIDE DEF value
        <4> QED
          BY <3>1, <3>2, ConcatProperties
      <3>4. ASSUME Uleb(n) = u PROVE e = SubSeq(data, pos + 1, at + n)
        <4>1. pos + 1 \in 1 .. Len(data) + 1 /\ at \in (pos + 1) - 1 .. Len(data)
              /\ at + n \in at .. Len(data)
          BY <1>0, <2>2, <2>7
        <4>2. SubSeq(data, pos + 1, at) \o SubSeq(data, at + 1, at + n) = SubSeq(data, pos + 1, at + n)
          BY <4>1, ConcatAdjacentSubSeq
        <4> QED
          BY <2>3, <3>1, <3>4, <4>2
      <3>5. ASSUME Len(Uleb(n)) < size PROVE Len(e) < (at + n) - pos
        BY <1>0, <2>2, <3>2, <3>3, <3>5
      <3>6. at + n \in pos .. Len(data)
        BY <1>0, <2>2, <2>7
      <3> HIDE DEF e
      <3>7. Spelled(e, pos, at + n)
        BY <2>4, <3>3, <3>4, <3>5, <3>6 DEF Spelled
      <3> QED
        BY <3>1, <3>7 DEF e
    <2> QED
      BY <2>6, <2>7
  <1> QED
    BY <1>1, <1>2, ReadUlebEnds

-----------------------------------------------------------------------------
(* What a read may return. *)

\* What has the shape of a value, whether the program writes it as a value of its own or not.
Kinds == {"uint", "bool", "option", "uleb", "bytes", "str", "fixed"}
Shaped == {v \in [kind : Kinds, width : Nat, value : Int \cup BOOLEAN \cup Seq(Byte)] : IsValue(v)}

LEMMA ShapedFacts ==
  \A v \in Shaped :
    /\ v = [kind |-> v.kind, width |-> v.width, value |-> v.value]
    /\ v.kind \in Kinds /\ v.width \in Nat
    /\ v.kind \in {"uint", "uleb"} => v.value \in Int
    /\ v.kind \in {"bool", "option"} => v.value \in BOOLEAN
    /\ v.kind = "bytes" => v.value \in Seq(Byte)
    /\ v.kind = "str" => v.value \in Seq(Byte) /\ v.value \in Utf8
    /\ v.kind = "fixed" => v.value \in Seq(Byte) /\ v.width = Len(v.value)
  BY DEF Shaped, IsValue

LEMMA ValuesAreShaped == Values \subseteq Shaped
  <1> SUFFICES ASSUME NEW v \in Values PROVE v \in Shaped
    OBVIOUS
  <1>1. IsValue(v)
    BY ValuesAssumption
  <1>2. v.kind \in Kinds /\ v.width \in Nat
    BY <1>1 DEF IsValue, Kinds
  <1>3. v.value \in Int \cup BOOLEAN \cup Seq(Byte)
    BY <1>1 DEF IsValue
  <1>4. v = [kind |-> v.kind, width |-> v.width, value |-> v.value]
    BY <1>1 DEF IsValue
  <1>5. v \in [kind : Kinds, width : Nat, value : Int \cup BOOLEAN \cup Seq(Byte)]
    BY <1>2, <1>3, <1>4
  <1> QED
    BY <1>1, <1>5 DEF Shaped

\* What a read may return, with the field it was read for.
Reading == {[kind |-> v.kind, width |-> v.width, value |-> x] :
              v \in Shaped, x \in Seq(Byte) \cup Nat \cup BOOLEAN}

\* What a read of any bytes is: an error within them, or a value whose encoding they are.
LEMMA ReadAny ==
  ASSUME data \in Seq(Byte), pos \in 0 .. Len(data), NEW v \in Shaped
  PROVE  LET r == Read(Field(v))
             g == [kind |-> v.kind, width |-> v.width, value |-> r.value]
         IN  \/ r.error = "none" /\ g \in Reading /\ Spelled(Encode(g), pos, r.next)
             \/ r.error \in ReadErrors /\ r.next \in pos .. Len(data)
  <1> DEFINE r == Read(Field(v))
             g == [kind |-> v.kind, width |-> v.width, value |-> r.value]
             Ends == \/ r.error = "none" /\ g \in Reading /\ Spelled(Encode(g), pos, r.next)
                     \/ r.error \in ReadErrors /\ r.next \in pos .. Len(data)
  <1>0. Len(data) \in Nat /\ pos \in Nat /\ g.kind = v.kind /\ g.width = v.width /\ g.value = r.value
    OBVIOUS
  <1>1. Field(v).kind = v.kind /\ Field(v).width = v.width
    BY DEF Field
  <1>2. r.value \in Seq(Byte) \cup Nat \cup BOOLEAN => g \in Reading
    BY DEF Reading
  <1> SUFFICES Ends
    OBVIOUS
  <1> HIDE DEF g
  <1>3. ASSUME NEW n \in Nat, r = Take(n, pos) PROVE
          \/ r.error = "overflow" /\ r.next \in pos .. Len(data)
          \/ /\ r.error = "none" /\ r.value = SubSeq(data, pos + 1, pos + n) /\ r.next = pos + n
             /\ r.value \in Seq(Byte) /\ Len(r.value) = n /\ pos + n \in pos .. Len(data)
    <2> HIDE DEF r
    <2>1. CASE pos + n <= Len(data)
      <3>1. pos + n \in pos .. Len(data)
        BY <1>0, <2>1
      <3>2. /\ r = Good(SubSeq(data, pos + 1, pos + n), pos + n)
            /\ SubSeq(data, pos + 1, pos + n) \in Seq(Byte)
            /\ Len(SubSeq(data, pos + 1, pos + n)) = n
        BY <1>0, <1>3, <2>1, TakeThere
      <3>3. r.error = "none" /\ r.value = SubSeq(data, pos + 1, pos + n) /\ r.next = pos + n
        BY <3>2, Outcomes
      <3> QED
        BY <3>1, <3>2, <3>3
    <2>2. CASE ~(pos + n <= Len(data))
      BY <1>0, <1>3, <2>2, TakeGone, Outcomes
    <2> QED
      BY <2>1, <2>2
  <1>4. CASE v.kind = "uint"
    <2>1. v.width \in Nat
      BY <1>4, ShapedFacts
    <2> DEFINE t == Take(v.width, pos)
    <2>2. r = IF t.error = "none" THEN Good(Number(t.value, Base), t.next) ELSE t
      BY <1>1, <1>4 DEF Read, ReadUint, Then
    <2> HIDE DEF r, t
    <2>3. CASE pos + v.width <= Len(data)
      <3> DEFINE s == SubSeq(data, pos + 1, pos + v.width)
      <3>1. t = Good(s, pos + v.width) /\ s \in Seq(Byte) /\ Len(s) = v.width
        BY <1>0, <2>1, <2>3, TakeThere DEF t
      <3> HIDE DEF s
      <3>2. r.error = "none" /\ r.value = Number(s, Base) /\ r.next = pos + v.width
        BY <2>2, <3>1, Outcomes
      <3>3. Base \in Nat /\ Base > 0
        BY BaseFacts
      <3>4. r.value \in Nat
        BY <3>1, <3>2, <3>3, NumberRecursion
      <3>5. LittleEndian(Number(s, Base), Len(s)) = s
        BY <3>1, LittleEndianWritten
      <3>6. Encode(g) = s
        BY <1>0, <1>4, <3>1, <3>2, <3>5 DEF Encode
      <3>7. pos + v.width \in pos .. Len(data)
        BY <1>0, <2>1, <2>3
      <3>8. Spelled(Encode(g), pos, r.next)
        BY <3>1, <3>2, <3>6, <3>7 DEF Spelled, s
      <3> QED
        BY <1>2, <3>2, <3>4, <3>8
    <2>4. CASE ~(pos + v.width <= Len(data))
      <3>1. t = Bad("overflow", pos)
        BY <1>0, <2>1, <2>4, TakeGone DEF t
      <3>2. r.error = "overflow" /\ r.next = pos
        BY <2>2, <3>1, Outcomes
      <3> QED
        BY <1>0, <3>2 DEF ReadErrors
    <2> QED
      BY <2>3, <2>4
  <1>5. CASE v.kind \in {"bool", "option"}
    <2> DEFINE t == Take(1, pos)
    <2>2. r = IF t.error = "none"
              THEN IF t.value[1] \in {0, 1} THEN Good(t.value[1] = 1, t.next) ELSE Bad("bad byte", t.next)
              ELSE t
      BY <1>1, <1>5 DEF Read, ReadFlag, Then
    <2> HIDE DEF r, t
    <2>3. CASE pos + 1 <= Len(data)
      <3> DEFINE s == SubSeq(data, pos + 1, pos + 1)
      <3>1. t = Good(s, pos + 1) /\ s \in Seq(Byte) /\ Len(s) = 1
        BY <1>0, <2>3, TakeThere DEF t
      <3> HIDE DEF s
      <3>2. t.error = "none" /\ t.value = s /\ t.next = pos + 1 /\ pos + 1 \in pos .. Len(data)
        BY <1>0, <2>3, <3>1, Outcomes
      <3>3. CASE s[1] \in {0, 1}
        <4>1. r = Good(s[1] = 1, pos + 1)
          BY <2>2, <3>2, <3>3
        <4>2. r.error = "none" /\ r.value = (s[1] = 1) /\ r.next = pos + 1
          BY <4>1, Outcomes
        <4>3. (s[1] = 1) \in BOOLEAN
          OBVIOUS
        <4>4. Encode(g) = << IF r.value THEN 1 ELSE 0 >>
          BY <1>0, <1>5 DEF Encode
        <4>5. (IF r.value THEN 1 ELSE 0) = s[1]
          BY <3>3, <4>2
        <4>6. << s[1] >> = s
          <5>1. s[1] \in Byte
            <6>1. 1 \in 1 .. Len(s)
              BY <3>1
            <6> QED
              BY <3>1, <6>1, ElementOfSeq
          <5>2. << s[1] >> \in Seq(Byte) /\ Len(<< s[1] >>) = 1 /\ \A i \in 1 .. 1 : << s[1] >>[i] = s[i]
            BY <5>1
          <5> QED
            BY <3>1, <5>2, SeqEqual
        <4>7. Spelled(Encode(g), pos, r.next)
          BY <3>1, <3>2, <4>2, <4>4, <4>5, <4>6 DEF Spelled, s
        <4> QED
          BY <1>2, <4>2, <4>3, <4>7
      <3>4. CASE s[1] \notin {0, 1}
        <4>1. r = Bad("bad byte", pos + 1)
          BY <2>2, <3>2, <3>4
        <4> QED
          BY <3>2, <4>1, Outcomes DEF ReadErrors
      <3> QED
        BY <3>3, <3>4
    <2>4. CASE ~(pos + 1 <= Len(data))
      <3>1. t = Bad("overflow", pos)
        BY <1>0, <2>4, TakeGone DEF t
      <3>2. r.error = "overflow" /\ r.next = pos
        <4>1. t.error = "overflow" /\ t.next = pos
          BY <3>1, Outcomes
        <4>2. r = t
          BY <2>2, <4>1
        <4> QED
          BY <4>1, <4>2
      <3> QED
        BY <1>0, <3>2 DEF ReadErrors
    <2> QED
      BY <2>3, <2>4
  <1>6. CASE v.kind = "uleb"
    <2>1. r = ReadUleb
      BY <1>1, <1>6 DEF Read
    <2>2. Encode(g) = Uleb(r.value)
      BY <1>0, <1>6 DEF Encode
    <2> HIDE DEF r
    <2>3. CASE r.error \in {"long uleb", "overflow"} /\ r.next \in pos .. Len(data)
      BY <2>3 DEF ReadErrors
    <2>4. ASSUME NEW size \in 1 .. MaxDigits, pos + size <= Len(data),
                 SubSeq(data, pos + 1, pos + size) \in Seq(Byte),
                 Len(SubSeq(data, pos + 1, pos + size)) = size,
                 Complete(SubSeq(data, pos + 1, pos + size)),
                 Number(SubSeq(data, pos + 1, pos + size), Half) \in Nat,
                 r = Good(Number(SubSeq(data, pos + 1, pos + size), Half), pos + size)
          PROVE  Ends
      <3> DEFINE u == SubSeq(data, pos + 1, pos + size)
      <3>1. /\ u \in Seq(Byte) /\ Len(u) = size /\ Complete(u) /\ Number(u, Half) \in Nat
            /\ r.error = "none" /\ r.value = Number(u, Half) /\ r.next = pos + size
        BY <2>4, Outcomes
      <3> HIDE DEF u
      <3>2. Uleb(r.value) = u \/ Len(Uleb(r.value)) < size
        BY <3>1, UlebWritten
      <3>3. Uleb(r.value) \in Seq(Byte)
        BY <3>1, UlebRecursion
      <3>4. pos + size \in pos .. Len(data) /\ (pos + size) - pos = size
        BY <1>0, <2>4, BcsAssumption
      <3>5. Spelled(Encode(g), pos, r.next)
        BY <2>2, <3>1, <3>2, <3>3, <3>4 DEF Spelled, u
      <3> QED
        BY <1>2, <3>1, <3>5
    <2> QED
      BY <2>1, <2>3, <2>4, ReadUlebEnds
  <1>7. CASE v.kind = "bytes"
    <2>1. r = ReadBytes
      BY <1>1, <1>7 DEF Read
    <2>2. Encode(g) = Uleb(Len(r.value)) \o r.value
      BY <1>0, <1>7 DEF Encode
    <2> HIDE DEF r
    <2> QED
      BY <1>2, <2>1, <2>2, ReadBytesEnds DEF ReadErrors
  <1>8. CASE v.kind = "str"
    <2>1. r = ReadStr
      BY <1>1, <1>8 DEF Read
    <2>2. Encode(g) = Uleb(Len(r.value)) \o r.value
      BY <1>0, <1>8 DEF Encode
    <2> HIDE DEF r
    <2>3. CASE ReadBytes.error = "none" /\ ReadBytes.value \in Utf8
      <3>1. r = ReadBytes
        BY <2>1, <2>3 DEF ReadStr, Then
      <3> QED
        BY <1>2, <2>2, <2>3, <3>1, ReadBytesEnds
    <2>4. CASE ReadBytes.error = "none" /\ ReadBytes.value \notin Utf8
      <3>1. r = Bad("undecodable", ReadBytes.next)
        BY <2>1, <2>4 DEF ReadStr, Then
      <3>2. ReadBytes.next \in pos .. Len(data)
        BY <2>4, ReadBytesEnds DEF Spelled
      <3> QED
        BY <3>1, <3>2, Outcomes DEF ReadErrors
    <2>5. CASE ReadBytes.error # "none"
      <3>1. r = ReadBytes
        BY <2>1, <2>5 DEF ReadStr, Then
      <3> QED
        BY <2>5, <3>1, ReadBytesEnds DEF ReadErrors
    <2> QED
      BY <2>3, <2>4, <2>5
  <1>9. CASE v.kind = "fixed"
    <2>1. v.width \in Nat
      BY <1>9, ShapedFacts, LenProperties
    <2>2. r = Take(v.width, pos)
      BY <1>1, <1>9 DEF Read
    <2>3. Encode(g) = r.value
      BY <1>0, <1>9 DEF Encode
    <2> HIDE DEF r
    <2>4. CASE r.error = "overflow" /\ r.next \in pos .. Len(data)
      BY <2>4 DEF ReadErrors
    <2>5. CASE /\ r.error = "none" /\ r.value = SubSeq(data, pos + 1, pos + v.width) /\ r.next = pos + v.width
               /\ r.value \in Seq(Byte) /\ Len(r.value) = v.width /\ pos + v.width \in pos .. Len(data)
      <3>1. Spelled(Encode(g), pos, r.next)
        BY <2>3, <2>5 DEF Spelled
      <3> QED
        BY <1>2, <2>5, <3>1
    <2> QED
      BY <1>3, <2>1, <2>2, <2>4, <2>5
  <1> QED
    BY <1>4, <1>5, <1>6, <1>7, <1>8, <1>9, ShapedFacts DEF Kinds

\* From at on, the reader's bytes are those of s, as far as they go.
Here(s, at) == \A i \in 1 .. Len(s) : at + i <= Len(data) => data[at + i] = s[i]

\* Bytes that are there are taken.
LEMMA TakeOwn ==
  ASSUME data \in Seq(Byte), NEW s \in Seq(Byte), NEW at \in Nat, Here(s, at),
         at + Len(s) <= Len(data)
  PROVE  Take(Len(s), at) = Good(s, at + Len(s))
  <1> DEFINE t == SubSeq(data, at + 1, at + Len(s))
  <1>0. Len(s) \in Nat /\ Len(data) \in Nat
    OBVIOUS
  <1>1. /\ Take(Len(s), at) = Good(t, at + Len(s)) /\ t \in Seq(Byte) /\ Len(t) = Len(s)
        /\ \A i \in 1 .. Len(s) : t[i] = data[at + i]
    BY <1>0, TakeThere
  <1> HIDE DEF t
  <1>2. \A i \in 1 .. Len(s) : at + i <= Len(data)
    BY <1>0
  <1>3. \A i \in 1 .. Len(s) : t[i] = s[i]
    BY <1>1, <1>2 DEF Here
  <1>4. t = s
    BY <1>1, <1>3, SeqEqual
  <1> QED
    BY <1>1, <1>4

\* read_uleb128 where a ULEB128 begins: all of it, unless it is too long or cut off.
LEMMA ReadUlebOwn ==
  ASSUME data \in Seq(Byte), pos \in 0 .. Len(data), NEW u \in Seq(Byte), Complete(u), Here(u, pos)
  PROVE  \/ /\ ReadUleb = Good(Number(u, Half), pos + Len(u))
            /\ pos + Len(u) <= Len(data)
         \/ /\ ReadUleb.error \in {"long uleb", "overflow"}
            /\ ~(pos + Len(u) <= Len(data) /\ Len(u) <= MaxDigits)
  <1>0. /\ Len(data) \in Nat /\ pos \in Nat /\ MaxDigits \in Nat /\ Half \in Nat
        /\ Len(u) \in Nat /\ Len(u) # 0 /\ Len(u) \in 1 .. Len(u)
        /\ u[Len(u)] < Half
        /\ \A i \in 1 .. Len(u) - 1 : u[i] >= Half
        /\ \A i \in 1 .. Len(u) : u[i] \in Nat
    <2>1. Len(u) \in Nat /\ Len(u) # 0
      BY EmptySeq DEF Complete
    <2>2. \A i \in 1 .. Len(u) : u[i] \in Byte
      BY ElementOfSeq
    <2> QED
      BY <2>1, <2>2, BcsAssumption, BaseFacts DEF Complete
  <1>1. ASSUME NEW size \in 1 .. MaxDigits,
               pos + size <= Len(data),
               SubSeq(data, pos + 1, pos + size) \in Seq(Byte),
               Len(SubSeq(data, pos + 1, pos + size)) = size,
               Complete(SubSeq(data, pos + 1, pos + size)),
               \A i \in 1 .. size : SubSeq(data, pos + 1, pos + size)[i] = data[pos + i],
               ReadUleb = Good(Number(SubSeq(data, pos + 1, pos + size), Half), pos + size)
        PROVE  ReadUleb = Good(Number(u, Half), pos + Len(u)) /\ pos + Len(u) <= Len(data)
    <2> DEFINE w == SubSeq(data, pos + 1, pos + size)
    <2>1. /\ w \in Seq(Byte) /\ Len(w) = size /\ size \in Nat /\ size # 0
          /\ w[size] < Half /\ (\A i \in 1 .. size - 1 : w[i] >= Half)
          /\ \A i \in 1 .. size : w[i] = data[pos + i]
          /\ ReadUleb = Good(Number(w, Half), pos + size)
      <3>1. w \in Seq(Byte) /\ Len(w) = size /\ Complete(w)
            /\ (\A i \in 1 .. size : w[i] = data[pos + i])
            /\ ReadUleb = Good(Number(w, Half), pos + size)
        BY <1>1
      <3>2. size \in Nat /\ size # 0
        BY <1>0
      <3> HIDE DEF w
      <3> QED
        BY <3>1, <3>2 DEF Complete
    <2> HIDE DEF w
    <2>2. \A i \in 1 .. Len(u) : i <= size => w[i] = u[i]
      <3> SUFFICES ASSUME NEW i \in 1 .. Len(u), i <= size PROVE w[i] = u[i]
        OBVIOUS
      <3>1. i \in 1 .. size /\ pos + i <= Len(data)
        BY <1>0, <1>1, <2>1
      <3> QED
        BY <2>1, <3>1 DEF Here
    <2>3. ~(size < Len(u))
      <3> SUFFICES ASSUME size < Len(u) PROVE FALSE
        OBVIOUS
      <3>1. size \in 1 .. Len(u) - 1 /\ size \in 1 .. Len(u)
        BY <1>0, <2>1
      <3>2. w[size] = u[size] /\ u[size] >= Half /\ u[size] \in Nat
        BY <1>0, <2>1, <2>2, <3>1
      <3> QED
        BY <1>0, <2>1, <3>2
    <2>4. ~(Len(u) < size)
      <3> SUFFICES ASSUME Len(u) < size PROVE FALSE
        OBVIOUS
      <3>1. Len(u) \in 1 .. size - 1
        BY <1>0, <2>1
      <3>2. w[Len(u)] = u[Len(u)] /\ w[Len(u)] >= Half /\ u[Len(u)] \in Nat
        BY <1>0, <2>1, <2>2, <3>1
      <3> QED
        BY <1>0, <3>2
    <2>5. size = Len(u)
      BY <1>0, <2>1, <2>3, <2>4
    <2>6. w = u
      BY <2>1, <2>2, <2>5, SeqEqual
    <2> QED
      BY <1>1, <2>1, <2>5, <2>6
  <1>2. ASSUME \A k \in 1 .. MaxDigits : pos + k <= Len(data) => ~(data[pos + k] < Half),
               pos + Len(u) <= Len(data), Len(u) <= MaxDigits
        PROVE  FALSE
    <2>1. Len(u) \in 1 .. MaxDigits
      BY <1>0, <1>2
    <2>2. data[pos + Len(u)] = u[Len(u)]
      BY <1>0, <1>2 DEF Here
    <2> QED
      BY <1>0, <1>2, <2>1, <2>2
  <1> QED
    BY <1>1, <1>2, ReadUlebEnds

\* A number in range is a natural one.
LEMMA NumbersInRange ==
  ASSUME NEW v \in Shaped, InRange(v)
  PROVE  /\ v.kind = "uint" => v.width \in Nat /\ v.value \in Nat /\ v.value \in 0 .. UMax(v.width)
         /\ v.kind = "uleb" => v.value \in Nat
  <1>1. ASSUME v.kind = "uint"
        PROVE  v.width \in Nat /\ v.value \in Nat /\ v.value \in 0 .. UMax(v.width)
    <2>1. v.width \in Nat
      BY <1>1, ShapedFacts
    <2>2. v.value \in 0 .. UMax(v.width)
      BY <1>1 DEF InRange
    <2> QED
      BY <2>1, <2>2, UMaxRecursion
  <1>2. ASSUME v.kind = "uleb" PROVE v.value \in Nat
    <2>1. v.value \in Int
      BY <1>2, ShapedFacts
    <2>2. v.value >= 0
      BY <1>2 DEF InRange
    <2> QED
      BY <2>1, <2>2
  <1> QED
    BY <1>1, <1>2

\* A value in range has its bytes.
LEMMA EncodeIsBytes ==
  ASSUME NEW v \in Shaped, InRange(v)
  PROVE  Encode(v) \in Seq(Byte)
  <1>1. CASE v.kind = "uint"
    <2>1. v.width \in Nat /\ v.value \in Nat
      BY <1>1, NumbersInRange
    <2>2. Encode(v) = LittleEndian(v.value, v.width)
      BY <1>1 DEF Encode
    <2> QED
      BY <2>1, <2>2, LittleEndianRecursion
  <1>2. CASE v.kind \in {"bool", "option"}
    <2>1. Encode(v) = << IF v.value THEN 1 ELSE 0 >>
      BY <1>2 DEF Encode
    <2>2. (IF v.value THEN 1 ELSE 0) \in Byte
      BY BaseFacts
    <2> QED
      BY <2>1, <2>2
  <1>3. CASE v.kind = "uleb"
    <2>1. v.value \in Nat
      BY <1>3, NumbersInRange
    <2>2. Encode(v) = Uleb(v.value)
      BY <1>3 DEF Encode
    <2> QED
      BY <2>1, <2>2, UlebRecursion
  <1>4. CASE v.kind \in {"bytes", "str"}
    <2>1. v.value \in Seq(Byte)
      BY <1>4, ShapedFacts
    <2>2. Len(v.value) \in Nat
      BY <2>1, LenProperties
    <2>3. Uleb(Len(v.value)) \in Seq(Byte)
      BY <2>2, UlebRecursion
    <2>4. Encode(v) = Uleb(Len(v.value)) \o v.value
      BY <1>4 DEF Encode
    <2> QED
      BY <2>1, <2>3, <2>4, ConcatProperties
  <1>5. CASE v.kind = "fixed"
    BY <1>5, ShapedFacts DEF Encode
  <1> QED
    BY <1>1, <1>2, <1>3, <1>4, <1>5, ShapedFacts DEF Kinds

\* read_bytes where write_bytes wrote.
LEMMA ReadBytesOwn ==
  ASSUME data \in Seq(Byte), pos \in 0 .. Len(data), NEW s \in Seq(Byte),
         Here(Uleb(Len(s)) \o s, pos)
  PROVE  LET e == Uleb(Len(s)) \o s IN
         /\ ReadBytes.error = "none" => /\ ReadBytes = Good(s, pos + Len(e))
                                        /\ pos + Len(e) <= Len(data)
         /\ pos + Len(e) <= Len(data) /\ Len(Uleb(Len(s))) <= MaxDigits => ReadBytes.error = "none"
  <1> DEFINE n == Len(s)
             u == Uleb(n)
             e == u \o s
             at == pos + Len(u)
  <1>0. Len(data) \in Nat /\ pos \in Nat /\ n \in Nat
    OBVIOUS
  <1>1. u \in Seq(Byte) /\ Complete(u) /\ Number(u, Half) = n /\ Len(u) \in Nat
    <2>1. u \in Seq(Byte)
      BY <1>0, UlebRecursion
    <2>2. Complete(u) /\ Number(u, Half) = n
      BY <1>0, UlebRead
    <2> HIDE DEF u
    <2> QED
      BY <2>1, <2>2, LenProperties
  <1> SUFFICES
        /\ ReadBytes.error = "none" => ReadBytes = Good(s, pos + Len(e)) /\ pos + Len(e) <= Len(data)
        /\ pos + Len(e) <= Len(data) /\ Len(u) <= MaxDigits => ReadBytes.error = "none"
    OBVIOUS
  <1>here. Here(e, pos)
    OBVIOUS
  <1> HIDE DEF u
  <1>2. /\ e \in Seq(Byte) /\ Len(e) = Len(u) + n
        /\ \A i \in 1 .. Len(u) + n : e[i] = IF i <= Len(u) THEN u[i] ELSE s[i - Len(u)]
    BY <1>1, ConcatProperties
  <1> HIDE DEF e
  <1>3. Here(u, pos)
    <2> SUFFICES ASSUME NEW i \in 1 .. Len(u), pos + i <= Len(data) PROVE data[pos + i] = u[i]
      BY DEF Here
    <2>1. i \in 1 .. Len(e) /\ i \in 1 .. Len(u) + n /\ i <= Len(u)
      BY <1>0, <1>1, <1>2
    <2> QED
      BY <1>here, <1>2, <2>1 DEF Here
  <1>4. Here(s, at)
    <2> SUFFICES ASSUME NEW i \in 1 .. n, at + i <= Len(data) PROVE data[at + i] = s[i]
      BY DEF Here
    <2>1. Len(u) + i \in 1 .. Len(e) /\ Len(u) + i \in 1 .. Len(u) + n /\ ~(Len(u) + i <= Len(u))
          /\ (Len(u) + i) - Len(u) = i /\ pos + (Len(u) + i) = at + i
      BY <1>0, <1>1, <1>2
    <2>2. e[Len(u) + i] = s[i]
      BY <1>2, <2>1
    <2> QED
      BY <1>here, <2>1, <2>2 DEF Here
  <1>5. at \in Nat /\ pos + Len(e) = at + n
    BY <1>0, <1>1, <1>2
  <1>6. CASE ReadUleb = Good(Number(u, Half), pos + Len(u)) /\ pos + Len(u) <= Len(data)
    <2>1. ReadBytes = Take(n, at)
      BY <1>1, <1>6, Outcomes DEF ReadBytes, Then
    <2> HIDE DEF at
    <2>2. CASE at + n <= Len(data)
      <3>1. ReadBytes = Good(s, at + n)
        BY <1>4, <1>5, <2>1, <2>2, TakeOwn
      <3> QED
        BY <1>5, <2>2, <3>1, Outcomes
    <2>3. CASE ~(at + n <= Len(data))
      <3>1. ReadBytes = Bad("overflow", at)
        BY <1>0, <1>5, <2>1, <2>3, TakeGone
      <3>2. ReadBytes.error # "none"
        BY <3>1, Outcomes
      <3> QED
        BY <1>5, <2>3, <3>2
    <2> QED
      BY <2>2, <2>3
  <1>7. CASE /\ ReadUleb.error \in {"long uleb", "overflow"}
             /\ ~(pos + Len(u) <= Len(data) /\ Len(u) <= MaxDigits)
    <2>1. ReadBytes = ReadUleb
      BY <1>7 DEF ReadBytes, Then
    <2>2. ReadBytes.error # "none"
      BY <1>7, <2>1
    <2>3. ~(pos + Len(e) <= Len(data) /\ Len(u) <= MaxDigits)
      <3> SUFFICES ASSUME pos + Len(e) <= Len(data), Len(u) <= MaxDigits PROVE FALSE
        OBVIOUS
      <3>1. pos + Len(u) <= Len(data)
        BY <1>0, <1>1, <1>2
      <3> QED
        BY <1>7, <3>1
    <2> QED
      BY <2>2, <2>3
  <1> QED
    BY <1>1, <1>3, <1>6, <1>7, ReadUlebOwn

\* What a reader makes of the bytes of a field that it asks for: the value, when they are all
\* there and no ULEB128 among them is too long for it; otherwise an error.
LEMMA ReadOwn ==
  ASSUME data \in Seq(Byte), pos \in 0 .. Len(data), NEW v \in Shaped, InRange(v),
         Here(Encode(v), pos)
  PROVE  LET r == Read(Field(v))
             e == Encode(v)
         IN  /\ r.error = "none" => /\ r.value = v.value /\ r.next = pos + Len(e)
                                    /\ pos + Len(e) <= Len(data)
             /\ /\ pos + Len(e) <= Len(data)
                /\ Counted(v) => Len(Uleb(Count(v))) <= MaxDigits
                => r.error = "none"
  <1> DEFINE r == Read(Field(v))
             e == Encode(v)
             Told == /\ r.error = "none" => /\ r.value = v.value /\ r.next = pos + Len(e)
                                            /\ pos + Len(e) <= Len(data)
                     /\ /\ pos + Len(e) <= Len(data)
                        /\ Counted(v) => Len(Uleb(Count(v))) <= MaxDigits
                        => r.error = "none"
  <1>0. Len(data) \in Nat /\ pos \in Nat /\ e \in Seq(Byte) /\ Len(e) \in Nat
    BY EncodeIsBytes, LenProperties
  <1>1. Field(v).kind = v.kind /\ Field(v).width = v.width
    BY DEF Field
  <1>2. ASSUME pos + Len(e) <= Len(data) PROVE Take(Len(e), pos) = Good(e, pos + Len(e))
    BY <1>0, <1>2, TakeOwn
  <1>3. ASSUME ~(pos + Len(e) <= Len(data)) PROVE Take(Len(e), pos) = Bad("overflow", pos)
    BY <1>0, <1>3, TakeGone
  <1> SUFFICES Told
    OBVIOUS
  <1>4. CASE v.kind = "uint"
    <2>1. v.width \in Nat /\ v.value \in Nat /\ v.value \in 0 .. UMax(v.width)
      BY <1>4, NumbersInRange
    <2>2. e = LittleEndian(v.value, v.width) /\ Len(e) = v.width /\ Number(e, Base) = v.value
      <3>1. e = LittleEndian(v.value, v.width)
        BY <1>4 DEF Encode
      <3> HIDE DEF e
      <3> QED
        BY <2>1, <3>1, LittleEndianRecursion, LittleEndianRead
    <2> DEFINE t == Take(v.width, pos)
    <2>3. r = IF t.error = "none" THEN Good(Number(t.value, Base), t.next) ELSE t
      BY <1>1, <1>4 DEF Read, ReadUint, Then
    <2> HIDE DEF r, e
    <2>4. CASE pos + Len(e) <= Len(data)
      <3>1. t.error = "none" /\ t.value = e /\ t.next = pos + Len(e)
        BY <1>2, <2>2, <2>4, Outcomes
      <3> HIDE DEF t
      <3>2. r = Good(v.value, pos + Len(e))
        BY <2>2, <2>3, <3>1
      <3>3. r.error = "none" /\ r.value = v.value /\ r.next = pos + Len(e)
        BY <3>2, Outcomes
      <3> QED
        BY <2>4, <3>3
    <2>5. CASE ~(pos + Len(e) <= Len(data))
      <3>1. t.error = "overflow"
        BY <1>3, <2>2, <2>5, Outcomes
      <3> HIDE DEF t
      <3>2. r.error # "none"
        BY <2>3, <3>1
      <3> QED
        BY <2>5, <3>2
    <2> QED
      BY <2>4, <2>5
  <1>5. CASE v.kind \in {"bool", "option"}
    <2>1. v.value \in BOOLEAN
      BY <1>5, ShapedFacts
    <2>2. e = << IF v.value THEN 1 ELSE 0 >>
      BY <1>5 DEF Encode
    <2>3. Len(e) = 1 /\ e[1] \in {0, 1} /\ (e[1] = 1) = v.value
      BY <2>1, <2>2
    <2> DEFINE t == Take(1, pos)
    <2>4. r = IF t.error = "none"
              THEN IF t.value[1] \in {0, 1} THEN Good(t.value[1] = 1, t.next) ELSE Bad("bad byte", t.next)
              ELSE t
      BY <1>1, <1>5 DEF Read, ReadFlag, Then
    <2> HIDE DEF r, e
    <2>5. CASE pos + Len(e) <= Len(data)
      <3>1. t.error = "none" /\ t.value = e /\ t.next = pos + Len(e)
        BY <1>2, <2>3, <2>5, Outcomes
      <3> HIDE DEF t
      <3>2. r = Good(e[1] = 1, pos + Len(e))
        BY <2>3, <2>4, <3>1
      <3>3. r.error = "none" /\ r.value = v.value /\ r.next = pos + Len(e)
        BY <2>3, <3>2, Outcomes
      <3> QED
        BY <2>5, <3>3
    <2>6. CASE ~(pos + Len(e) <= Len(data))
      <3>1. t.error = "overflow"
        BY <1>3, <2>3, <2>6, Outcomes
      <3> HIDE DEF t
      <3>2. r = t
        BY <2>4, <3>1
      <3> QED
        BY <2>6, <3>1, <3>2
    <2> QED
      BY <2>5, <2>6
  <1>6. CASE v.kind = "uleb"
    <2>1. v.value \in Nat /\ e = Uleb(v.value) /\ r = ReadUleb
      <3>1. v.value \in Nat
        BY <1>6, NumbersInRange
      <3>2. e = Uleb(v.value)
        BY <1>6 DEF Encode
      <3>3. r = ReadUleb
        BY <1>1, <1>6 DEF Read
      <3> QED
        BY <3>1, <3>2, <3>3
    <2>2. Counted(v) /\ Count(v) = v.value
      BY <1>6 DEF Counted, Count
    <2> HIDE DEF r, e
    <2>3. Complete(e) /\ Number(e, Half) = v.value
      BY <2>1, UlebRead
    <2>4. Here(e, pos)
      BY DEF e
    <2>5. \/ r = Good(v.value, pos + Len(e)) /\ pos + Len(e) <= Len(data)
          \/ r.error \in {"long uleb", "overflow"} /\ ~(pos + Len(e) <= Len(data) /\ Len(e) <= MaxDigits)
      BY <1>0, <2>1, <2>3, <2>4, ReadUlebOwn
    <2>6. CASE r = Good(v.value, pos + Len(e)) /\ pos + Len(e) <= Len(data)
      <3>1. r.error = "none" /\ r.value = v.value /\ r.next = pos + Len(e)
        BY <2>6, Outcomes
      <3> QED
        BY <2>6, <3>1
    <2>7. CASE r.error \in {"long uleb", "overflow"} /\ ~(pos + Len(e) <= Len(data) /\ Len(e) <= MaxDigits)
      BY <2>1, <2>2, <2>7
    <2> QED
      BY <2>5, <2>6, <2>7
  <1>7. CASE v.kind \in {"bytes", "str"}
    <2>1. v.value \in Seq(Byte) /\ e = Uleb(Len(v.value)) \o v.value
      BY <1>7, ShapedFacts DEF Encode
    <2>2. Counted(v) /\ Count(v) = Len(v.value)
      BY <1>7 DEF Counted, Count
    <2>3. v.kind = "bytes" => r = ReadBytes
      BY <1>1 DEF Read
    <2>4. v.kind = "str" => r = (IF ReadBytes.error = "none"
                                 THEN IF ReadBytes.value \in Utf8 THEN ReadBytes
                                      ELSE Bad("undecodable", ReadBytes.next)
                                 ELSE ReadBytes)
      BY <1>1 DEF Read, ReadStr, Then
    <2>5. v.kind = "str" => v.value \in Utf8
      BY ShapedFacts
    <2> HIDE DEF r, e
    <2>6. /\ ReadBytes.error = "none" => ReadBytes = Good(v.value, pos + Len(e)) /\ pos + Len(e) <= Len(data)
          /\ pos + Len(e) <= Len(data) /\ Len(Uleb(Len(v.value))) <= MaxDigits => ReadBytes.error = "none"
      <3>1. Here(Uleb(Len(v.value)) \o v.value, pos)
        BY <2>1 DEF e
      <3> QED
        BY <2>1, <3>1, ReadBytesOwn
    <2>7. r = ReadBytes
      <3>1. ReadBytes.error = "none" => ReadBytes.value = v.value
        BY <2>6, Outcomes
      <3> QED
        BY <1>7, <2>3, <2>4, <2>5, <3>1
    <2>8. ReadBytes.error = "none" => ReadBytes.value = v.value /\ ReadBytes.next = pos + Len(e)
      BY <2>6, Outcomes
    <2> QED
      BY <2>2, <2>6, <2>7, <2>8
  <1>8. CASE v.kind = "fixed"
    <2>1. v.value \in Seq(Byte) /\ v.width = Len(v.value) /\ e = v.value
      BY <1>8, ShapedFacts DEF Encode
    <2>2. r = Take(Len(e), pos)
      BY <1>1, <1>8, <2>1 DEF Read
    <2> HIDE DEF r, e
    <2>3. CASE pos + Len(e) <= Len(data)
      BY <1>2, <2>1, <2>2, <2>3, Outcomes
    <2>4. CASE ~(pos + Len(e) <= Len(data))
      <3>1. r.error = "overflow"
        BY <1>3, <2>2, <2>4, Outcomes
      <3> QED
        BY <2>4, <3>1
    <2> QED
      BY <2>3, <2>4
  <1> QED
    BY <1>4, <1>5, <1>6, <1>7, <1>8, ShapedFacts DEF Kinds

\* The bytes of one value among those of them all.
LEMMA EncodeAllAt ==
  ASSUME NEW S, NEW vs \in Seq(S), Encodable(vs), NEW g \in 0 .. Len(vs) - 1
  PROVE  LET head  == EncodeAll(SubSeq(vs, 1, g))
             whole == EncodeAll(vs)
             e     == Encode(vs[g + 1])
         IN  /\ head \in Seq(Byte) /\ whole \in Seq(Byte) /\ e \in Seq(Byte)
             /\ SubSeq(vs, 1, g + 1) = Append(SubSeq(vs, 1, g), vs[g + 1])
             /\ EncodeAll(SubSeq(vs, 1, g + 1)) = head \o e
             /\ Len(head) + Len(e) <= Len(whole)
             /\ \A i \in 1 .. Len(e) : whole[Len(head) + i] = e[i]
  <1> DEFINE N == Len(vs)
             At(k) == EncodeAll(SubSeq(vs, 1, k))
             Begins(s, t) == Len(s) <= Len(t) /\ \A i \in 1 .. Len(s) : t[i] = s[i]
  <1>0. N \in Nat /\ g \in Nat /\ g + 1 \in 1 .. N /\ g + 1 \in Nat
    OBVIOUS
  <1>1. ASSUME NEW k \in 0 .. N
        PROVE  /\ SubSeq(vs, 1, k) \in Seq(S) /\ Len(SubSeq(vs, 1, k)) = k
               /\ \A i \in 1 .. k : SubSeq(vs, 1, k)[i] = vs[i]
               /\ Encodable(SubSeq(vs, 1, k))
    <2>1. k \in Nat /\ \A i \in 1 .. k : i \in 1 .. N /\ vs[i] \in S
      BY <1>0, ElementOfSeq
    <2>2. /\ SubSeq(vs, 1, k) \in Seq(S)
          /\ Len(SubSeq(vs, 1, k)) = IF 1 <= k THEN k - 1 + 1 ELSE 0
          /\ \A i \in 1 .. k - 1 + 1 : SubSeq(vs, 1, k)[i] = vs[1 + i - 1]
      BY <2>1, SubSeqProperties
    <2>3. Len(SubSeq(vs, 1, k)) = k /\ \A i \in 1 .. k : SubSeq(vs, 1, k)[i] = vs[i]
      BY <2>1, <2>2
    <2>4. Encodable(SubSeq(vs, 1, k))
      BY <2>1, <2>3 DEF Encodable
    <2> QED
      BY <2>2, <2>3, <2>4
  <1>2. ASSUME NEW k \in 0 .. N - 1
        PROVE  /\ SubSeq(vs, 1, k + 1) = Append(SubSeq(vs, 1, k), vs[k + 1])
               /\ At(k) \in Seq(Byte) /\ Encode(vs[k + 1]) \in Seq(Byte)
               /\ At(k + 1) = At(k) \o Encode(vs[k + 1])
               /\ At(k + 1) \in Seq(Byte)
    <2>1. k \in 0 .. N /\ k + 1 \in 0 .. N /\ k + 1 \in 1 .. N /\ k \in Nat /\ (k + 1) - 1 = k
      BY <1>0
    <2>2. vs[k + 1] \in S /\ Encode(vs[k + 1]) \in Seq(Byte)
      BY <2>1, ElementOfSeq DEF Encodable
    <2>3. SubSeq(vs, 1, k + 1) = SubSeq(vs, 1, k) \o << vs[k + 1] >>
      <3>1. 1 \in 1 .. N /\ k + 1 \in 1 .. N
        BY <1>0, <2>1
      <3>2. SubSeq(vs, 1, k + 1) = SubSeq(vs, 1, (k + 1) - 1) \o << vs[k + 1] >>
        BY <3>1, SubSeqRecursiveSecond
      <3> QED
        BY <2>1, <3>2
    <2>4. SubSeq(vs, 1, k) \in Seq(S) /\ Encodable(SubSeq(vs, 1, k))
      BY <1>1, <2>1
    <2>5. SubSeq(vs, 1, k + 1) = Append(SubSeq(vs, 1, k), vs[k + 1])
      BY <2>2, <2>3, <2>4, AppendIsConcat
    <2>6. At(k) \in Seq(Byte) /\ At(k + 1) = At(k) \o Encode(vs[k + 1])
      BY <2>2, <2>4, <2>5, EncodeAllAppend
    <2>7. At(k + 1) \in Seq(Byte)
      <3> HIDE DEF At
      <3> QED
        BY <2>2, <2>6, ConcatProperties
    <2> QED
      BY <2>2, <2>5, <2>6, <2>7
  <1>3. At(N) = EncodeAll(vs)
    BY SubSeqFull
  <1> DEFINE T == {k \in Nat : k \in g + 1 .. N => Begins(At(g + 1), At(k))}
  <1>4. Nat \subseteq T
    <2>1. 0 \in T
      BY <1>0
    <2>2. ASSUME NEW n \in Nat, n \in T PROVE n + 1 \in T
      <3> HIDE DEF Begins, At
      <3> SUFFICES ASSUME n + 1 \in g + 1 .. N PROVE Begins(At(g + 1), At(n + 1))
        OBVIOUS
      <3>1. CASE n = g
        BY <3>1 DEF Begins
      <3>2. CASE n # g
        <4>1. n \in g + 1 .. N /\ n \in 0 .. N - 1
          BY <1>0, <3>2
        <4>2. Begins(At(g + 1), At(n))
          BY <2>2, <4>1
        <4>3. /\ At(n) \in Seq(Byte) /\ Encode(vs[n + 1]) \in Seq(Byte)
              /\ At(n + 1) = At(n) \o Encode(vs[n + 1])
          BY <1>2, <4>1
        <4>4. /\ Len(At(n + 1)) = Len(At(n)) + Len(Encode(vs[n + 1]))
              /\ \A i \in 1 .. Len(At(n)) + Len(Encode(vs[n + 1])) :
                   At(n + 1)[i] = IF i <= Len(At(n)) THEN At(n)[i] ELSE Encode(vs[n + 1])[i - Len(At(n))]
          BY <4>3, ConcatProperties
        <4>5. Len(At(n)) \in Nat /\ Len(Encode(vs[n + 1])) \in Nat /\ Len(At(g + 1)) \in Nat
          <5>1. At(g + 1) \in Seq(Byte)
            BY <1>2
          <5> QED
            BY <4>3, <5>1, LenProperties
        <4>6. ASSUME NEW i \in 1 .. Len(At(g + 1)) PROVE At(n + 1)[i] = At(g + 1)[i]
          <5>1. Len(At(g + 1)) <= Len(At(n)) /\ At(n)[i] = At(g + 1)[i]
            BY <4>2 DEF Begins
          <5>2. i \in 1 .. Len(At(n)) + Len(Encode(vs[n + 1])) /\ i <= Len(At(n))
            BY <4>5, <5>1
          <5> QED
            BY <4>4, <5>1, <5>2
        <4> QED
          BY <4>2, <4>4, <4>5, <4>6 DEF Begins
      <3> QED
        BY <3>1, <3>2
    <2> HIDE DEF T
    <2> QED
      BY <2>1, <2>2, NaturalsByInduction
  <1>5. Begins(At(g + 1), At(N))
    <2>1. N \in T /\ N \in g + 1 .. N
      BY <1>0, <1>4
    <2> HIDE DEF Begins, At
    <2> QED
      BY <2>1
  <1> DEFINE head == At(g)
             whole == EncodeAll(vs)
             e == Encode(vs[g + 1])
  <1>6. /\ SubSeq(vs, 1, g + 1) = Append(SubSeq(vs, 1, g), vs[g + 1])
        /\ head \in Seq(Byte) /\ e \in Seq(Byte) /\ At(g + 1) = head \o e
    BY <1>2
  <1>7. whole \in Seq(Byte)
    <2>1. N - 1 \in 0 .. N - 1 /\ (N - 1) + 1 = N
      BY <1>0
    <2>2. At(N) \in Seq(Byte)
      <3> HIDE DEF At
      <3> QED
        BY <1>2, <2>1
    <2> QED
      BY <1>3, <2>2
  <1>8. Begins(head \o e, whole)
    <2> HIDE DEF At, head, e, whole, Begins
    <2> QED
      BY <1>3, <1>5, <1>6 DEF whole
  <1>9. /\ Len(head) + Len(e) <= Len(whole)
        /\ \A i \in 1 .. Len(e) : whole[Len(head) + i] = e[i]
    <2> HIDE DEF At, head, e, whole
    <2>1. /\ Len(head \o e) = Len(head) + Len(e)
          /\ \A i \in 1 .. Len(head) + Len(e) :
               (head \o e)[i] = IF i <= Len(head) THEN head[i] ELSE e[i - Len(head)]
      BY <1>6, ConcatProperties
    <2>2. Len(head) \in Nat /\ Len(e) \in Nat
      BY <1>6, LenProperties
    <2>3. ASSUME NEW i \in 1 .. Len(e) PROVE whole[Len(head) + i] = e[i]
      <3>1. Len(head) + i \in 1 .. Len(head) + Len(e) /\ ~(Len(head) + i <= Len(head))
            /\ (Len(head) + i) - Len(head) = i
        BY <2>2
      <3>2. whole[Len(head) + i] = (head \o e)[Len(head) + i]
        BY <1>8, <2>1, <3>1
      <3> QED
        BY <2>1, <3>1, <3>2
    <2> QED
      BY <1>8, <2>1, <2>3
  <1> QED
    BY <1>6, <1>7, <1>9

-----------------------------------------------------------------------------
(* The inductive invariant. *)

\* The writer's bytes are those of its values.
BufIsWritten ==
  /\ written \in Seq(Shaped)
  /\ buf = EncodeAll(written)

\* What was read can be written again.
GotIsReadable == got \in Seq(Reading) /\ Encodable(got)

\* Before there is a reader nothing was read.
NoReader == origin = "none" => data = << >> /\ pos = 0 /\ got = << >> /\ last \notin ReadErrors

\* The reader has the writer's bytes, whole or a proper prefix of them, and stands behind the
\* bytes of the values that it has read, which are the first of those written.
ReadSoFar ==
  origin \in {"whole", "cut"} =>
    /\ Len(data) <= Len(buf) /\ \A i \in 1 .. Len(data) : data[i] = buf[i]
    /\ origin = "whole" => data = buf
    /\ origin = "cut" => Len(data) < Len(buf)
    /\ Len(got) <= Len(written) /\ got = SubSeq(written, 1, Len(got))
    /\ Len(EncodeAll(got)) <= Len(data)
    /\ last \notin ReadErrors => pos = Len(EncodeAll(got))

\* Whole bytes without a ULEB128 that is too long raise no error.
NoErrorInWhole ==
  (/\ origin = "whole"
   /\ \A i \in DOMAIN written : Counted(written[i]) => Len(Uleb(Count(written[i]))) <= MaxDigits)
  => last \notin ReadErrors

IInv == TypeOK /\ BufIsWritten /\ GotIsReadable /\ NoReader /\ ReadSoFar /\ NoErrorInWhole
        /\ AcceptsEncodings

\* The invariant holds at first, and each call keeps it.
LEMMA InitInvariant == Init => IInv
  <1> SUFFICES ASSUME Init PROVE IInv
    OBVIOUS
  <1> USE DEF Init
  <1>1. << >> \in Seq(Byte) /\ << >> \in Seq(Shaped) /\ << >> \in Seq(Reading) /\ Len(<< >>) = 0
    BY EmptySeq
  <1>2. TypeOK
    BY <1>1 DEF TypeOK
  <1>3. BufIsWritten /\ GotIsReadable
    BY <1>1, EncodeAllEmpty DEF BufIsWritten, GotIsReadable, Encodable
  <1>4. NoReader /\ ReadSoFar /\ NoErrorInWhole /\ AcceptsEncodings
    BY DEF NoReader, ReadSoFar, NoErrorInWhole, AcceptsEncodings, ReadErrors
  <1> QED
    BY <1>2, <1>3, <1>4 DEF IInv

\* The values written are in range, so that each has its bytes.
LEMMA WrittenIsEncodable ==
  ASSUME TypeOK, BufIsWritten
  PROVE  /\ Len(written) \in Nat /\ Encodable(written)
         /\ \A i \in 1 .. Len(written) : written[i] \in Shaped /\ InRange(written[i])
  <1>1. Len(written) \in Nat /\ DOMAIN written = 1 .. Len(written)
        /\ \A i \in 1 .. Len(written) : written[i] \in Shaped
    BY LenProperties, ElementOfSeq DEF BufIsWritten
  <1>2. \A i \in 1 .. Len(written) : InRange(written[i])
    BY <1>1 DEF TypeOK
  <1> QED
    BY <1>1, <1>2, EncodeIsBytes DEF Encodable

LEMMA WriteKeeps ==
  ASSUME IInv, NEW v \in Shaped, Write(v)
  PROVE  IInv'
  <1>1. /\ origin = "none" /\ InRange(v)
        /\ buf' = buf \o Encode(v) /\ written' = Append(written, v) /\ last' = "ok"
        /\ origin' = origin /\ data' = data /\ pos' = pos /\ got' = got
    BY DEF Write, Writing
  <1>2. /\ TypeOK /\ BufIsWritten /\ GotIsReadable /\ NoReader
    BY DEF IInv
  <1>3. Encode(v) \in Seq(Byte)
    BY <1>1, EncodeIsBytes
  <1>4. Len(written) \in Nat /\ Encodable(written) /\ DOMAIN written = 1 .. Len(written)
    BY <1>2, WrittenIsEncodable, LenProperties DEF BufIsWritten
  <1>5. /\ written' \in Seq(Shaped) /\ Len(written') = Len(written) + 1
        /\ \A i \in 1 .. Len(written) : written'[i] = written[i]
        /\ written'[Len(written) + 1] = v
        /\ DOMAIN written' = 1 .. Len(written')
    BY <1>1, <1>2, AppendProperties, LenProperties DEF BufIsWritten
  <1>6. BufIsWritten'
    <2>1. EncodeAll(written') = EncodeAll(written) \o Encode(v)
      BY <1>1, <1>2, <1>3, <1>4, EncodeAllAppend DEF BufIsWritten
    <2> QED
      BY <1>1, <1>2, <1>5, <2>1 DEF BufIsWritten
  <1>7. TypeOK'
    <2>1. buf' \in Seq(Byte)
      BY <1>1, <1>2, <1>3, ConcatProperties DEF TypeOK
    <2>2. \A i \in DOMAIN written' : InRange(written'[i])
      <3> SUFFICES ASSUME NEW i \in 1 .. Len(written) + 1 PROVE InRange(written'[i])
        BY <1>5
      <3>1. CASE i = Len(written) + 1
        BY <1>1, <1>5, <3>1
      <3>2. CASE i # Len(written) + 1
        <4>1. i \in 1 .. Len(written)
          BY <1>4, <3>2
        <4> QED
          BY <1>2, <1>4, <1>5, <4>1 DEF TypeOK
      <3> QED
        BY <3>1, <3>2
    <2> QED
      BY <1>1, <1>2, <2>1, <2>2 DEF TypeOK
  <1>8. GotIsReadable' /\ NoReader' /\ ReadSoFar' /\ NoErrorInWhole' /\ AcceptsEncodings'
    <2>1. GotIsReadable'
      BY <1>1, <1>2 DEF GotIsReadable, Encodable
    <2>2. NoReader'
      BY <1>1, <1>2 DEF NoReader, ReadErrors
    <2> QED
      BY <1>1, <2>1, <2>2 DEF ReadSoFar, NoErrorInWhole, AcceptsEncodings
  <1> QED
    BY <1>6, <1>7, <1>8 DEF IInv

LEMMA WriteRaisesKeeps ==
  ASSUME IInv, NEW v \in Shaped, WriteRaises(v)
  PROVE  IInv'
  <1>1. /\ origin = "none" /\ last' = "out of range"
        /\ buf' = buf /\ written' = written
        /\ origin' = origin /\ data' = data /\ pos' = pos /\ got' = got
    BY DEF WriteRaises, Writing
  <1>2. TypeOK'
    BY <1>1 DEF IInv, TypeOK
  <1>3. BufIsWritten' /\ GotIsReadable'
    BY <1>1 DEF IInv, BufIsWritten, GotIsReadable, Encodable
  <1>4. NoReader' /\ ReadSoFar' /\ NoErrorInWhole' /\ AcceptsEncodings'
    BY <1>1 DEF IInv, NoReader, ReadSoFar, NoErrorInWhole, AcceptsEncodings, ReadErrors
  <1> QED
    BY <1>2, <1>3, <1>4 DEF IInv

LEMMA NewReaderKeeps ==
  ASSUME IInv, NEW from, NEW bytes \in Seq(Byte), NewReader(from, bytes),
         \/ from = "whole" /\ bytes = buf
         \/ /\ from = "cut" /\ Len(bytes) < Len(buf)
            /\ \A i \in 1 .. Len(bytes) : bytes[i] = buf[i]
         \/ from = "foreign"
  PROVE  IInv'
  <1>1. /\ origin = "none" /\ origin' = from /\ data' = bytes /\ last' = "none"
        /\ buf' = buf /\ written' = written /\ pos' = pos /\ got' = got
    BY DEF NewReader
  <1>2. TypeOK /\ BufIsWritten /\ NoReader /\ GotIsReadable
    BY DEF IInv
  <1>3. pos = 0 /\ got = << >> /\ Len(bytes) \in Nat /\ Len(buf) \in Nat /\ Len(<< >>) = 0
    BY <1>1, <1>2, LenProperties, EmptySeq DEF NoReader, TypeOK
  <1>4. TypeOK'
    <2>1. pos' \in 0 .. Len(data') /\ data' \in Seq(Byte) /\ origin' \in {"whole", "cut", "foreign"}
      BY <1>1, <1>3
    <2> QED
      BY <1>1, <1>2, <2>1 DEF TypeOK
  <1>5. BufIsWritten' /\ GotIsReadable'
    BY <1>1, <1>2 DEF BufIsWritten, GotIsReadable, Encodable
  <1>6. NoReader'
    BY <1>1 DEF NoReader
  <1>7. last' \notin ReadErrors
    BY <1>1 DEF ReadErrors
  <1>8. EncodeAll(got') = << >>
    BY <1>1, <1>3, EncodeAllEmpty
  <1>9. ReadSoFar'
    <2>1. Len(got') = 0 /\ pos' = 0 /\ Len(EncodeAll(got')) = 0
      BY <1>1, <1>3, <1>8
    <2>2. got' = SubSeq(written', 1, Len(got'))
      BY <1>1, <1>3, <2>1, SubSeqEmpty
    <2>3. Len(written') \in Nat
      BY <1>1, <1>2, WrittenIsEncodable
    <2>4. /\ Len(data') <= Len(buf') /\ \A i \in 1 .. Len(data') : data'[i] = buf'[i]
          /\ origin' = "whole" => data' = buf'
          /\ origin' = "cut" => Len(data') < Len(buf')
          \/ origin' = "foreign"
      BY <1>1, <1>3
    <2>5. Len(data') \in Nat
      BY <1>1, <1>3
    <2> QED
      BY <2>1, <2>2, <2>3, <2>4, <2>5 DEF ReadSoFar
  <1>10. AcceptsEncodings'
    <2>1. SubSeq(data', 1, pos') = << >>
      BY <1>1, <1>3, SubSeqEmpty
    <2> QED
      BY <1>8, <2>1 DEF AcceptsEncodings
  <1>11. NoErrorInWhole'
    BY <1>7 DEF NoErrorInWhole
  <1> QED
    BY <1>4, <1>5, <1>6, <1>9, <1>10, <1>11 DEF IInv

LEMMA ReadWholeKeeps ==
  ASSUME IInv, ReadWhole
  PROVE  IInv'
  <1>1. buf \in Seq(Byte) /\ NewReader("whole", buf)
    BY DEF IInv, TypeOK, ReadWhole
  <1> QED
    BY <1>1, NewReaderKeeps

LEMMA ReadCutKeeps ==
  ASSUME IInv, ReadCut
  PROVE  IInv'
  <1>1. buf \in Seq(Byte) /\ Len(buf) \in Nat /\ \A i \in 1 .. Len(buf) : buf[i] \in Byte
    BY LenProperties, ElementOfSeq DEF IInv, TypeOK
  <1>2. PICK n \in 0 .. Len(buf) - 1 : NewReader("cut", SubSeq(buf, 1, n))
    BY DEF ReadCut
  <1> DEFINE bytes == SubSeq(buf, 1, n)
  <1>3. bytes \in Seq(Byte) /\ Len(bytes) < Len(buf) /\ \A i \in 1 .. Len(bytes) : bytes[i] = buf[i]
    <2>1. n \in Nat /\ \A i \in 1 .. n : buf[i] \in Byte
      BY <1>1
    <2>2. /\ bytes \in Seq(Byte) /\ Len(bytes) = IF 1 <= n THEN n - 1 + 1 ELSE 0
          /\ \A i \in 1 .. n - 1 + 1 : bytes[i] = buf[1 + i - 1]
      BY <2>1, SubSeqProperties
    <2>3. Len(bytes) = n
      BY <2>1, <2>2
    <2>4. \A i \in 1 .. n : bytes[i] = buf[i]
      BY <2>1, <2>2
    <2> QED
      BY <1>1, <2>2, <2>3, <2>4
  <1> HIDE DEF bytes
  <1>4. NewReader("cut", bytes)
    BY <1>2 DEF bytes
  <1> QED
    BY <1>3, <1>4, NewReaderKeeps

LEMMA ReadForeignKeeps ==
  ASSUME IInv, ReadForeign
  PROVE  IInv'
  <1>1. PICK bytes \in Foreign : NewReader("foreign", bytes)
    BY DEF ReadForeign
  <1>2. bytes \in Seq(Byte)
    BY BcsAssumption
  <1> QED
    BY <1>1, <1>2, NewReaderKeeps

\* What the reader stands at when it reads the bytes of the writer.
LEMMA OwnFieldNext ==
  ASSUME IInv, NEW v \in Shaped, Expects(Field(v)), origin \in {"whole", "cut"}
  PROVE  LET g == Len(got)
             w == written[g + 1]
             e == Encode(w)
         IN  /\ g \in 0 .. Len(written) - 1 /\ w \in Shaped /\ InRange(w) /\ Field(v) = Field(w)
             /\ e \in Seq(Byte) /\ Here(e, pos)
             /\ SubSeq(written, 1, g + 1) = Append(got, w)
             /\ Len(EncodeAll(Append(got, w))) = pos + Len(e)
             /\ pos + Len(e) <= Len(buf)
  <1>1. TypeOK /\ BufIsWritten /\ GotIsReadable /\ ReadSoFar
    BY DEF IInv
  <1>2. Len(written) \in Nat /\ Encodable(written) /\ written \in Seq(Shaped)
        /\ \A i \in 1 .. Len(written) : written[i] \in Shaped /\ InRange(written[i])
    BY <1>1, WrittenIsEncodable DEF BufIsWritten
  <1> DEFINE g == Len(got)
             w == written[g + 1]
             e == Encode(w)
             head == EncodeAll(SubSeq(written, 1, g))
  <1>3. g \in Nat /\ g < Len(written) /\ Field(v) = Field(w) /\ last \notin ReadErrors
    BY <1>1, LenProperties DEF Expects, GotIsReadable
  <1>4. g \in 0 .. Len(written) - 1 /\ g + 1 \in 1 .. Len(written)
    BY <1>2, <1>3
  <1>5. w \in Shaped /\ InRange(w)
    BY <1>2, <1>4
  <1>6. /\ head \in Seq(Byte) /\ e \in Seq(Byte)
        /\ SubSeq(written, 1, g + 1) = Append(SubSeq(written, 1, g), w)
        /\ EncodeAll(SubSeq(written, 1, g + 1)) = head \o e
        /\ Len(head) + Len(e) <= Len(EncodeAll(written))
        /\ \A i \in 1 .. Len(e) : EncodeAll(written)[Len(head) + i] = e[i]
    <2> HIDE DEF g
    <2> QED
      BY <1>2, <1>4, EncodeAllAt
  <1>7. got = SubSeq(written, 1, g) /\ pos = Len(EncodeAll(got))
    BY <1>1, <1>3 DEF ReadSoFar
  <1>8. head = EncodeAll(got)
    BY <1>7
  <1> HIDE DEF head, e, w
  <1>9. pos = Len(head) /\ buf = EncodeAll(written)
    BY <1>1, <1>7, <1>8 DEF BufIsWritten
  <1>10. SubSeq(written, 1, g + 1) = Append(got, w)
    BY <1>6, <1>7
  <1> HIDE DEF g
  <1>11. Len(head \o e) = Len(head) + Len(e)
    BY <1>6, ConcatProperties
  <1>12. Len(EncodeAll(Append(got, w))) = pos + Len(e) /\ pos + Len(e) <= Len(buf)
    BY <1>6, <1>9, <1>10, <1>11
  <1>13. Here(e, pos)
    <2> SUFFICES ASSUME NEW i \in 1 .. Len(e), pos + i <= Len(data) PROVE data[pos + i] = e[i]
      BY DEF Here
    <2>1. buf[pos + i] = e[i]
      BY <1>6, <1>9
    <2>2. pos + i \in 1 .. Len(data)
      <3>1. pos \in Nat /\ Len(e) \in Nat /\ Len(data) \in Nat
        <4>1. data \in Seq(Byte) /\ pos \in 0 .. Len(data)
          BY <1>1 DEF TypeOK
        <4>2. Len(data) \in Nat /\ Len(e) \in Nat
          BY <1>6, <4>1, LenProperties
        <4> QED
          BY <4>1, <4>2
      <3> QED
        BY <3>1
    <2> QED
      BY <1>1, <2>1, <2>2 DEF ReadSoFar
  <1> QED
    BY <1>3, <1>4, <1>5, <1>6, <1>10, <1>12, <1>13 DEF g, w, e

LEMMA ReadFieldKeeps ==
  ASSUME IInv, NEW v \in Shaped, ReadField(Field(v))
  PROVE  IInv'
  <1> DEFINE r == Read(Field(v))
             g == [kind |-> v.kind, width |-> v.width, value |-> r.value]
  <1>1. /\ Expects(Field(v)) /\ r.error = "none"
        /\ got' = Append(got, g) /\ pos' = r.next /\ last' = "ok"
        /\ buf' = buf /\ written' = written /\ origin' = origin /\ data' = data
    BY DEF ReadField, Field
  <1>2. TypeOK /\ BufIsWritten /\ GotIsReadable /\ ReadSoFar /\ NoErrorInWhole /\ AcceptsEncodings
    BY DEF IInv
  <1>3. data \in Seq(Byte) /\ pos \in 0 .. Len(data)
    BY <1>2 DEF TypeOK
  <1>4. g \in Reading /\ Spelled(Encode(g), pos, r.next)
    <2>1. r.error \notin ReadErrors
      BY <1>1 DEF ReadErrors
    <2> QED
      BY <1>3, <2>1, ReadAny
  <1>5. origin # "none" /\ last \notin ReadErrors /\ last' \notin ReadErrors
    BY <1>1 DEF Expects, ReadErrors
  <1> HIDE DEF r
  <1> DEFINE e == Encode(g)
  <1>6. e \in Seq(Byte) /\ r.next \in pos .. Len(data)
        /\ (e = SubSeq(data, pos + 1, r.next) \/ Len(e) < r.next - pos)
    BY <1>4 DEF Spelled
  <1> HIDE DEF g
  <1>7. got \in Seq(Reading) /\ Encodable(got) /\ Len(got) \in Nat
    BY <1>2, LenProperties DEF GotIsReadable
  <1>8. /\ Encodable(Append(got, g)) /\ Append(got, g) \in Seq(Reading)
        /\ Len(Append(got, g)) = Len(got) + 1
        /\ EncodeAll(got) \in Seq(Byte)
        /\ EncodeAll(Append(got, g)) = EncodeAll(got) \o e
    BY <1>4, <1>6, <1>7, EncodeAllAppend, AppendProperties
  <1> HIDE DEF e
  <1>9. Len(data) \in Nat /\ pos \in Nat /\ r.next \in Nat /\ Len(e) \in Nat
        /\ Len(EncodeAll(got)) \in Nat
        /\ Len(EncodeAll(got) \o e) = Len(EncodeAll(got)) + Len(e)
    BY <1>3, <1>6, <1>8, LenProperties, ConcatProperties
  <1>10. TypeOK'
    <2>1. pos' \in 0 .. Len(data')
      BY <1>1, <1>6, <1>9
    <2> QED
      BY <1>1, <1>2, <2>1 DEF TypeOK
  <1>11. BufIsWritten'
    BY <1>1, <1>2 DEF BufIsWritten
  <1>12. GotIsReadable'
    BY <1>1, <1>8 DEF GotIsReadable
  <1>13. NoReader' /\ NoErrorInWhole'
    BY <1>1, <1>5 DEF NoReader, NoErrorInWhole
  <1>14. ReadSoFar'
    <2> SUFFICES ASSUME origin \in {"whole", "cut"} PROVE ReadSoFar'
      BY <1>1 DEF ReadSoFar
    <2> DEFINE w == written[Len(got) + 1]
    <2>1. /\ Len(got) \in 0 .. Len(written) - 1 /\ w \in Shaped /\ InRange(w) /\ Field(v) = Field(w)
          /\ Encode(w) \in Seq(Byte) /\ Here(Encode(w), pos)
          /\ SubSeq(written, 1, Len(got) + 1) = Append(got, w)
          /\ Len(EncodeAll(Append(got, w))) = pos + Len(Encode(w))
      BY <1>1, OwnFieldNext
    <2> HIDE DEF w
    <2>2. r.value = w.value /\ r.next = pos + Len(Encode(w)) /\ pos + Len(Encode(w)) <= Len(data)
      <3>1. r = Read(Field(w))
        BY <2>1 DEF r
      <3> QED
        BY <1>1, <1>3, <2>1, <3>1, ReadOwn
    <2>3. g = w
      <3>1. v.kind = w.kind /\ v.width = w.width
        BY <2>1 DEF Field
      <3>2. w = [kind |-> w.kind, width |-> w.width, value |-> w.value]
        BY <2>1, ShapedFacts
      <3> QED
        BY <2>2, <3>1, <3>2 DEF g
    <2>4. /\ Len(got') = Len(got) + 1 /\ got' = SubSeq(written', 1, Len(got'))
          /\ pos' = Len(EncodeAll(got')) /\ Len(EncodeAll(got')) <= Len(data')
          /\ Len(got') <= Len(written')
      <3>1. got' = Append(got, w)
        BY <1>1, <2>3
      <3>2. Len(got') = Len(got) + 1
        BY <1>1, <1>8
      <3>3. EncodeAll(got') = EncodeAll(Append(got, w))
        BY <3>1
      <3>4. pos' = Len(EncodeAll(got'))
        BY <1>1, <2>1, <2>2, <3>3
      <3>5. Len(written) \in Nat
        BY <1>2, LenProperties DEF BufIsWritten
      <3> QED
        BY <1>1, <1>7, <2>1, <2>2, <3>1, <3>2, <3>3, <3>4, <3>5
    <2> QED
      BY <1>1, <1>2, <2>4 DEF ReadSoFar
  <1>15. AcceptsEncodings'
    <2> SUFFICES ASSUME origin = "foreign"
                 PROVE  \/ EncodeAll(got') = SubSeq(data', 1, pos')
                        \/ Len(EncodeAll(got')) < pos'
      BY <1>1 DEF AcceptsEncodings
    <2>1. EncodeAll(got) = SubSeq(data, 1, pos) \/ Len(EncodeAll(got)) < pos
      BY <1>2, <1>5 DEF AcceptsEncodings
    <2>2. Len(SubSeq(data, 1, pos)) = pos
      <3>1. \A i \in 1 .. pos : data[i] \in Byte
        BY <1>3, <1>9, ElementOfSeq
      <3>2. Len(SubSeq(data, 1, pos)) = IF 1 <= pos THEN pos - 1 + 1 ELSE 0
        BY <1>9, <3>1, SubSeqProperties
      <3> QED
        BY <1>9, <3>2
    <2>3. Len(SubSeq(data, pos + 1, r.next)) = r.next - pos
      <3>1. \A i \in pos + 1 .. r.next : data[i] \in Byte
        BY <1>3, <1>6, <1>9, ElementOfSeq
      <3>2. Len(SubSeq(data, pos + 1, r.next)) = IF pos + 1 <= r.next THEN r.next - (pos + 1) + 1 ELSE 0
        BY <1>9, <3>1, SubSeqProperties
      <3> QED
        BY <1>6, <1>9, <3>2
    <2>4. CASE EncodeAll(got) = SubSeq(data, 1, pos) /\ e = SubSeq(data, pos + 1, r.next)
      <3>1. 1 \in 1 .. Len(data) + 1 /\ pos \in 1 - 1 .. Len(data) /\ r.next \in pos .. Len(data)
        BY <1>3, <1>6, <1>9
      <3>2. SubSeq(data, 1, pos) \o SubSeq(data, pos + 1, r.next) = SubSeq(data, 1, r.next)
        BY <1>3, <3>1, ConcatAdjacentSubSeq
      <3> QED
        BY <1>1, <1>8, <2>4, <3>2
    <2>5. CASE Len(EncodeAll(got)) < pos \/ Len(e) < r.next - pos
      <3>1. Len(EncodeAll(got)) <= pos /\ Len(e) <= r.next - pos
        BY <1>6, <1>9, <2>1, <2>2, <2>3
      <3>2. Len(EncodeAll(got')) = Len(EncodeAll(got)) + Len(e)
        BY <1>1, <1>8, <1>9
      <3>3. Len(EncodeAll(got)) + Len(e) < r.next
        BY <1>6, <1>9, <2>5, <3>1
      <3> QED
        BY <1>1, <3>2, <3>3
    <2> QED
      BY <1>6, <2>1, <2>4, <2>5
  <1> QED
    BY <1>10, <1>11, <1>12, <1>13, <1>14, <1>15 DEF IInv

LEMMA ReadRaisesKeeps ==
  ASSUME IInv, NEW v \in Shaped, ReadRaises(Field(v))
  PROVE  IInv'
  <1> DEFINE r == Read(Field(v))
  <1>1. /\ Expects(Field(v)) /\ r.error # "none" /\ last' = r.error /\ pos' = r.next
        /\ buf' = buf /\ written' = written /\ origin' = origin /\ data' = data /\ got' = got
    BY DEF ReadRaises
  <1>2. TypeOK /\ BufIsWritten /\ GotIsReadable /\ ReadSoFar /\ NoErrorInWhole /\ AcceptsEncodings
    BY DEF IInv
  <1>3. data \in Seq(Byte) /\ pos \in 0 .. Len(data)
    BY <1>2 DEF TypeOK
  <1>4. r.error \in ReadErrors /\ r.next \in pos .. Len(data)
    BY <1>1, <1>3, ReadAny
  <1>5. origin # "none"
    BY <1>1 DEF Expects
  <1> HIDE DEF r
  <1>6. last' \in ReadErrors
    BY <1>1, <1>4
  <1>7. TypeOK'
    <2>1. pos' \in 0 .. Len(data')
      BY <1>1, <1>3, <1>4
    <2> QED
      BY <1>1, <1>2, <1>6, <2>1 DEF TypeOK
  <1>8. BufIsWritten' /\ GotIsReadable'
    BY <1>1, <1>2 DEF BufIsWritten, GotIsReadable, Encodable
  <1>9. NoReader' /\ AcceptsEncodings'
    BY <1>1, <1>5, <1>6 DEF NoReader, AcceptsEncodings
  <1>10. ReadSoFar'
    BY <1>1, <1>2, <1>6 DEF ReadSoFar
  <1>11. NoErrorInWhole'
    <2> SUFFICES ASSUME origin = "whole",
                        \A i \in DOMAIN written : Counted(written[i]) => Len(Uleb(Count(written[i]))) <= MaxDigits
                 PROVE  FALSE
      BY <1>1 DEF NoErrorInWhole
    <2> DEFINE w == written[Len(got) + 1]
    <2>1. /\ Len(got) \in 0 .. Len(written) - 1 /\ w \in Shaped /\ InRange(w) /\ Field(v) = Field(w)
          /\ Here(Encode(w), pos) /\ pos + Len(Encode(w)) <= Len(buf)
      BY <1>1, OwnFieldNext
    <2>2. Counted(w) => Len(Uleb(Count(w))) <= MaxDigits
      <3>1. Len(got) + 1 \in DOMAIN written
        <4>1. DOMAIN written = 1 .. Len(written) /\ Len(written) \in Nat
          BY <1>2, LenProperties DEF BufIsWritten
        <4> QED
          BY <2>1, <4>1
      <3> QED
        BY <3>1
    <2> HIDE DEF w
    <2>3. pos + Len(Encode(w)) <= Len(data)
      BY <1>2, <2>1 DEF ReadSoFar
    <2>4. r = Read(Field(w))
      BY <2>1 DEF r
    <2>5. r.error = "none"
      BY <1>3, <2>1, <2>2, <2>3, <2>4, ReadOwn
    <2> QED
      BY <1>1, <2>5
  <1> QED
    BY <1>7, <1>8, <1>9, <1>10, <1>11 DEF IInv

LEMMA NextKeeps ==
  ASSUME IInv, [Next]_vars
  PROVE  IInv'
  <1>1. CASE \E v \in Values : Write(v) \/ WriteRaises(v)
    BY <1>1, ValuesAreShaped, WriteKeeps, WriteRaisesKeeps
  <1>2. CASE ReadWhole \/ ReadCut \/ ReadForeign
    BY <1>2, ReadWholeKeeps, ReadCutKeeps, ReadForeignKeeps
  <1>3. CASE \E v \in Values : ReadField(Field(v)) \/ ReadRaises(Field(v))
    BY <1>3, ValuesAreShaped, ReadFieldKeeps, ReadRaisesKeeps
  <1>4. CASE UNCHANGED vars
    <2> USE <1>4 DEF vars
    <2>1. TypeOK' /\ BufIsWritten'
      BY DEF IInv, TypeOK, BufIsWritten
    <2>2. GotIsReadable' /\ NoReader'
      BY DEF IInv, GotIsReadable, Encodable, NoReader
    <2>3. ReadSoFar'
      BY DEF IInv, ReadSoFar
    <2>4. NoErrorInWhole' /\ AcceptsEncodings'
      BY DEF IInv, NoErrorInWhole, AcceptsEncodings
    <2> QED
      BY <2>1, <2>2, <2>3, <2>4 DEF IInv
  <1> QED
    BY <1>1, <1>2, <1>3, <1>4 DEF Next

\* The invariant holds always.
LEMMA AlwaysInvariant == Spec => []IInv
  <1>1. IInv /\ [Next]_vars => IInv'
    BY NextKeeps
  <1> QED
    BY InitInvariant, <1>1, PTL DEF Spec

\* TypeOK: the writer accepts no value out of range, and _pos never passes the end of the bytes.
THEOREM TypeCorrect == Spec => []TypeOK
  <1>1. IInv => TypeOK
    BY DEF IInv
  <1> QED
    BY AlwaysInvariant, <1>1, PTL

\* What the invariant says of what is read: it is the beginning of what was written.
LEMMA SaysReadsBack == IInv => ReadsBack
  <1> SUFFICES ASSUME IInv, origin \in {"whole", "cut"} PROVE IsPrefix(got, written)
    BY DEF ReadsBack
  <1>1. Len(got) <= Len(written) /\ got = SubSeq(written, 1, Len(got))
    BY DEF IInv, ReadSoFar
  <1>2. SubSeq(got, 1, Len(got)) = got
    BY SubSeqFull DEF IInv, GotIsReadable
  <1> QED
    BY <1>1, <1>2 DEF IsPrefix

\* What it says of a reader that has read everything.
LEMMA SaysWholeIsRead == IInv => WholeIsRead
  <1> SUFFICES ASSUME IInv, origin = "whole", last \notin ReadErrors, got = written
               PROVE  pos = Len(data)
    BY DEF WholeIsRead, IInv, NoErrorInWhole
  <1>1. data = buf /\ pos = Len(EncodeAll(got)) /\ buf = EncodeAll(written)
    BY DEF IInv, ReadSoFar, BufIsWritten
  <1> QED
    BY <1>1

\* What it says of a reader whose bytes were cut.
LEMMA SaysCutIsNoticed == IInv => CutIsNoticed
  <1> SUFFICES ASSUME IInv, origin = "cut", got = written PROVE FALSE
    BY DEF CutIsNoticed
  <1>1. /\ Len(data) < Len(buf) /\ Len(EncodeAll(got)) <= Len(data)
        /\ buf = EncodeAll(written)
    BY DEF IInv, ReadSoFar, BufIsWritten
  <1>2. Len(data) \in Nat /\ Len(buf) \in Nat
    BY LenProperties DEF IInv, TypeOK
  <1> QED
    BY <1>1, <1>2

\* ReadsBack: what a BcsReader returns of a BcsWriter's bytes, whole or cut short, is what was
\* written, in order.
THEOREM AlwaysReadsBack == Spec => []ReadsBack
  BY AlwaysInvariant, SaysReadsBack, PTL

\* WholeIsRead: the writer's own bytes, when no ULEB128 in them is too long for the reader,
\* are read to their end without an error.
THEOREM AlwaysWholeIsRead == Spec => []WholeIsRead
  BY AlwaysInvariant, SaysWholeIsRead, PTL

\* CutIsNoticed: bytes that lost their tail are never read as everything that was written.
THEOREM AlwaysCutIsNoticed == Spec => []CutIsNoticed
  BY AlwaysInvariant, SaysCutIsNoticed, PTL

\* AcceptsEncodings: what the reader accepts of anybody's bytes is the encoding of what it
\* returns, but for the needless digits of a ULEB128.
THEOREM AlwaysAcceptsEncodings == Spec => []AcceptsEncodings
  <1>1. IInv => AcceptsEncodings
    BY DEF IInv
  <1> QED
    BY AlwaysInvariant, <1>1, PTL
=============================================================================
